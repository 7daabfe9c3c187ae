SPECIFICATION DevSpec
CONSTANTS
  Writers = {w1}
  Readers = {}
  Revokers = {f1}
  Worker = worker
  NoProc = noproc
  MaxMsgs = 1
  DelayArgs = {1}
  UINT_RANGE = 8
  MS_PER_JIFFY = 4
  StorageSizes = {2}
  Faults = {}
  Sleepers = {s1}
  Awakers = {a1}
  Machines = {"TSO"}
  MaxNaps = 1
INVARIANT SleepUntilAwoken
CHECK_DEADLOCK FALSE
