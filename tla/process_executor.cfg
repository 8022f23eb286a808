SPECIFICATION FairSpec
CONSTANTS
  a = a
  b = b
  Tasks = {a, b}
  MaxAttempts = 2
  Faults = {"die", "raise", "early"}
INVARIANTS
  SuccessIsReal
  RunningIsReachable
  ClosedIsQuiet
PROPERTY Reported
CHECK_DEADLOCK FALSE
