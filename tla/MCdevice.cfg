SPECIFICATION TearSpec
CONSTANTS
  Writers = {w1}
  Readers = {}
  Revokers = {f1}
  Worker = worker
  NoProc = noproc
  MaxMsgs = 1
  DelayArgs = {1}
  UINT_RANGE = 8
  MS_PER_JIFFY = 4
  StorageSizes = {1}
  Faults = {"create_workqueue"}
  Sleepers = {s1}
  Awakers = {a1}
  Machines = {"TSO"}
  MaxNaps = 2
INVARIANTS NoInterference NothingLeftBehind EveryMessageFreed BarrierDownAtRemoval
PROPERTY RevokeComplete
CHECK_DEADLOCK FALSE
