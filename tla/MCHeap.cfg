CONSTANTS
  Base <- HeapBase
  HeapSize <- MCHeapSize
  SlabSize = 24
  Requests = {3, 24, 25}
  LargeAddrs <- MCLarge
  NullWord = 7
  Supported = TRUE
SPECIFICATION Spec
INVARIANTS
  ObjectsAccounted
  EachOnOneList
  AllReturned
  NullNotFollowed
PROPERTIES
  RefusedWhenExhausted
  PromiseKept
