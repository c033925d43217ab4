CONSTANTS
  Base <- HeapBase
  HeapSize <- MCHeapSize
  SlabSize = 24
  Requests = {24}
  LargeAddrs = {}
  NullWord = 7
  Supported = FALSE
SPECIFICATION Spec
INVARIANT FullListed
