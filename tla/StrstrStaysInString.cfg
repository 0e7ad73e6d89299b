CONSTANTS
  ZMM_SZ = 8
  NarrowRegs = {2, 4}
  PAGE_SZ = 64
  SizeSpan = 65536
  IntSpan = 4096
  L1D = 72
  RepStart = 8
  RepStop = 33
  CallSets <- MCCalls
  Haystacks <- MCHaystacks
SPECIFICATION Spec
INVARIANT
  StrstrStaysInString
