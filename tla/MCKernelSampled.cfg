CONSTANTS
  Word = 256
  HexBuf = 3
  DecBuf = 4
  EbdaSlots = 2
  RomSlots = 2
  Box = 18
  HeapPixels = 2000
  Machines <- WideMachines
SPECIFICATION Spec
INVARIANT SampledInside
CHECK_DEADLOCK FALSE
