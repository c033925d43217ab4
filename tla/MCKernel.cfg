CONSTANTS
  Word = 256
  HexBuf = 3
  DecBuf = 4
  EbdaSlots = 2
  RomSlots = 2
  Box = 18
  HeapPixels = 2000
  Machines <- MCMachines
SPECIFICATION Spec
INVARIANTS
  LapicFound
  LogSent
  LogoDecoded
  LogoShown
  PanicShown
  WritesInside
PROPERTY KernelEnds
CHECK_DEADLOCK FALSE
