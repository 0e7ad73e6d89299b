CONSTANTS
  MemSz = 220
  ZMM_SZ = 4
  NarrowRegs = {2}
  RemSz = 64
  LargeMove = 64
  VecMovBase = 40
  Calls <- MCCalls
  LimitSets <- MCLimits
  ThresholdSets <- MCThresholds
  TunableCalls <- MCTunableCalls
SPECIFICATION Spec
INVARIANTS
  TypeOK
  CopyIsCorrect
  InBounds
  NoAlignmentFault
  NothingLost
PROPERTIES
  CallsReturn
