SPECIFICATION MsgSpec
CONSTANTS
  Writers = {w1, w2}
  Readers = {r1}
  Revokers = {f1}
  Worker = worker
  NoProc = noproc
  MaxMsgs = 2
  DelayArgs = {1}
  UINT_RANGE = 8
  MS_PER_JIFFY = 4
  StorageSizes = {1, 2}
  Faults = {"copy"}
SYMMETRY WriterSymmetry
VIEW WithoutHistory
INVARIANTS MsgTypeOK OnePlace CountMatches EnoughWorks
PROPERTY ImplementsMailSlot
CHECK_DEADLOCK FALSE
