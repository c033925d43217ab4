CONSTANTS
  Maps <- TightMaps
  KernelSize = 128
  Requests = {0, 40}
  Word = 1073741824
  RelLimit = 1052000
SPECIFICATION Spec
INVARIANT Contained
CHECK_DEADLOCK FALSE
