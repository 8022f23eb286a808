SPECIFICATION EngineFairSpec
CONSTANTS
  a = a
  b = b
  c = c
  s = s
  Tasks <- EverTasks
  Deps <- EverDeps
  Stubs = {}
  Functionless = {}
  MaxAttempts <- EverAttempts
  IgnoreFailure = {}
  ResumeModes = {"resume"}
  Faults = {"cancel"}
  MaxRuns = 1
  AttemptCap = 3
PROPERTIES
  CancelIsPrompt
  ReadyIsDispatched
