SPECIFICATION FairBarSpec
CONSTANTS
  Sleepers = {s1, s2}
  Awakers = {a1, a2}
  Machines = {"SC", "TSO"}
  MaxNaps = 2
INVARIANTS BarTypeOK SleepUntilAwoken StrandedNeedsReordering
PROPERTIES AwakesSuffice ImplementsSleepBarrier
CHECK_DEADLOCK FALSE
