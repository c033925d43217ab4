CONSTANTS
  Addr <- MCAddr
  Byte <- MCByte
  Memories <- MCMemories
  Fills <- MCFills
  Copies <- MCCopies
SPECIFICATION Spec
INVARIANTS
  MovesExactly
  NoFault
PROPERTY Returns
CHECK_DEADLOCK FALSE
