CONSTANTS
  MemSz = 152
  ZMM_SZ = 8
  NarrowRegs = {2, 4}
  RemSz = 1024
  Calls <- MCCalls
  LimitSets <- MCLimits
  Vals <- MCVals
SPECIFICATION Spec
INVARIANTS
  TypeOK
  MemsetIsCorrect
  InBounds
  NoAlignmentFault
PROPERTIES
  MemsetReturns
