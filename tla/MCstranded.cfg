SPECIFICATION BarSpec
CONSTANTS
  Sleepers = {s1, s2}
  Awakers = {a1, a2}
  Machines = {"TSO"}
  MaxNaps = 1
INVARIANT NoneStranded
CHECK_DEADLOCK FALSE
