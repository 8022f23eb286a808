SPECIFICATION FairSpec
CONSTANTS
  a = a
  b = b
  c = c
  s = s
  Tasks <- ChainTasks
  Deps <- ChainDeps
  Stubs = {s}
  Functionless = {b}
  MaxAttempts <- ChainAttempts
  IgnoreFailure = {}
  ResumeModes = {"resume", "retry_failed"}
  Faults = {"lost", "dispatch"}
  MaxRuns = 2
  AttemptCap = 9
INVARIANT EndsInactive
PROPERTIES
  TransitionsValid
  Terminates
