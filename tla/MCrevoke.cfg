SPECIFICATION MsgSpec
CONSTANTS
  Writers = {w1}
  Readers = {}
  Revokers = {f1, f2}
  Worker = worker
  NoProc = noproc
  MaxMsgs = 2
  DelayArgs <- AllDelays
  UINT_RANGE = 8
  MS_PER_JIFFY = 4
  StorageSizes = {1, 2}
  Faults = {"copy", "kmalloc", "create_workqueue"}
SYMMETRY RevokerSymmetry
INVARIANTS NoTimerAtDrain FlushingBitMeansFlushing
PROPERTY RevokeComplete
CHECK_DEADLOCK FALSE
