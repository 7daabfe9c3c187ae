SPECIFICATION OrdinarySpec
CONSTANTS
  Threads = {t1, t2}
  Msgs = {1, 2}
  Limits = {1, 2}
  MayFail = TRUE
  Programs = {"ordinary", "chaotic"}
  MaxWrites = 1
  MaxReads = 2
  Nobody = nobody
INVARIANT DrainFindsMessages
PROPERTY ProgramEnds
CHECK_DEADLOCK FALSE
