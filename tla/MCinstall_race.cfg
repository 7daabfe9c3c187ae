SPECIFICATION MgrSpec
CONSTANTS
  Installers = {i1, i2}
  Descs = {0}
  GROUP_DEV_COUNT = 2
  MaxDevs = 2
  MaxTables = 2
  MaxLoads = 1
  InstallFaults = {}
INVARIANT OneDevicePerGroup
CHECK_DEADLOCK FALSE
