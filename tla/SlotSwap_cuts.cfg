SPECIFICATION Spec
CONSTANTS
  None = None
  FlagModulus = 3
  StartEnvs <- FewEnvs
  MaxJobs = 3
  MaxCuts = 2
  MaxUpdates = 2
INVARIANTS BootsWhole DataKept RunsOnOwn
CHECK_DEADLOCK FALSE
