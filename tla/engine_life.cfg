SPECIFICATION Spec
CONSTANTS
  a = a
  b = b
  c = c
  s = s
  Tasks <- JoinTasks
  Deps <- JoinDeps
  Stubs = {}
  Functionless = {}
  MaxAttempts <- JoinAttempts
  IgnoreFailure = {b}
  ResumeModes = {"resume", "retry_failed"}
  Faults = {"cancel", "crash", "lost", "dispatch"}
  MaxRuns = 2
  AttemptCap = 9
INVARIANTS
  IInv
  DependenciesFirst
  SucceededIsComplete
  NoOrphans
  RetryBudget
  CancelHonoured
PROPERTIES
  EndedIsFinal
  ImplementsWorkflow
