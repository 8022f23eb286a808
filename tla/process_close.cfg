SPECIFICATION FairSpec
CONSTANTS
  a = a
  b = b
  Tasks = {a}
  MaxAttempts = 1
  Faults = {}
PROPERTY CloseReturns
CHECK_DEADLOCK FALSE
