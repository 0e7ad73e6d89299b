CONSTANTS
  NULL = NULL
  ULLONG_MAX = 1000000
  UINT_MAX = 65535
  MaxExecs = 2
  Cpus <- MCCpus
  Envs <- MCEnvs
  PastEnd <- MCPastEnd
SPECIFICATION Spec
CHECK_DEADLOCK FALSE
INVARIANTS
  NtMovesAreLarge
