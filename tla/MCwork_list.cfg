SPECIFICATION MsgSpec
CONSTANTS
  Writers = {w1}
  Readers = {}
  Revokers = {f1}
  Worker = worker
  NoProc = noproc
  MaxMsgs = 2
  DelayArgs = {1}
  UINT_RANGE = 8
  MS_PER_JIFFY = 4
  StorageSizes = {2}
  Faults = {}
INVARIANT NoCorruption
CHECK_DEADLOCK FALSE
