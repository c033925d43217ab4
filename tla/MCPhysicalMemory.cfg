CONSTANTS
  Maps <- MCMaps
  KernelSize = 128
  Requests = {0, 17, 40}
  Word = 1073741824
  RelLimit = 1052000
SPECIFICATION Spec
INVARIANTS
  Tiled
  Accounted
  ImageIntact
  Defragmented
  HaltsForAReason
PROPERTIES
  BestFit
  OverflowCaught
  LoopsEnd
  PromiseKept
CHECK_DEADLOCK FALSE
