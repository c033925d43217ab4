CONSTANTS
  A20Timeout = 3
  Never = 12
  RelLimit = 1073741824
  Dirs = 3
  PerTable = 4
  Machines <- MCMachines
SPECIFICATION Spec
INVARIANTS
  SecondStageReady
  A20Decided
  MapStored
  ImageLoaded
  BestMode
  IdentityMapped
  KernelGetsMachine
PROPERTIES
  NoFlushNeeded
  BootDecides
CHECK_DEADLOCK FALSE
