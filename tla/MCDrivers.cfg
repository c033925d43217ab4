CONSTANTS
  Exceptions = 3
  Vectors = 21
  BusSlots = 2
  Functions = 2
  Ports = {0, 1}
  Slots = {0, 1}
  Machines <- MCMachines
SPECIFICATION Spec
INVARIANTS
  NoStrayInterrupt
  FoundOnce
  CommandComplete
PROPERTIES
  EnumeratesAll
  BasesStable
  InitEnds
CHECK_DEADLOCK FALSE
