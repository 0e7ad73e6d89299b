CONSTANTS
  MemSz = 170
  YMM_SZ = 4
  NarrowSz = {2}
  NtStarts = {0, 64, 1000}
  Calls <- MCCalls
SPECIFICATION Spec
INVARIANTS
  TypeOK
  MoveIsCorrect
  InBounds
  NoAlignmentFault
  NothingLost
  LoopInvariant
PROPERTIES
  ImplementsCopy
