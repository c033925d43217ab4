CONSTANTS
  Maps <- MCMaps
  KernelSize = 120
  Requests = {0, 40}
  Word = 1073741824
  RelLimit = 1052000
SPECIFICATION Spec
INVARIANT Aligned
CHECK_DEADLOCK FALSE
