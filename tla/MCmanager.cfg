SPECIFICATION MCSpec
CONSTANTS
  Installers = {i1, i2}
  Descs = {0, 1, 2}
  GROUP_DEV_COUNT = 2
  MaxDevs = 2
  MaxTables = 1
  MaxLoads = 2
  ATTEMPTS = 2
  InstallFaults = {"group_devs", "group_devs_list", "group_dev", "create_workqueue", "alloc_chrdev_region", "class_create", "cdev_add", "device_create"}
INVARIANTS TsmTypeOK RegistryExact UnloadComplete  OpenedStaysValid
PROPERTY InstalledOnSuccess
VIEW WithoutDeadLocals
SYMMETRY Swaps
CHECK_DEADLOCK FALSE
