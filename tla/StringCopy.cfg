CONSTANTS
  ZMM_SZ = 16
  NarrowRegs = {2, 4, 8}
  PAGE_SZ = 64
  SizeSpan = 65536
  IntSpan = 4096
  CallSets <- MCCalls
  DstLens <- MCDstLens
SPECIFICATION Spec
INVARIANTS
  TypeOK
  CopiedSoFar
  StaysInSource
  NoAlignmentFault
PROPERTIES
  ImplementsStringSpec
  EveryStepAdvances
