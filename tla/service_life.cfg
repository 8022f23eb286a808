SPECIFICATION Spec
CONSTANTS
  u1 = u1
  u2 = u2
  e1 = e1
  e2 = e2
  none = none
  NoExecution <- none
  Users <- MCUsers
  Executions <- MCExecutions
  CrashCap = 1
  Workflows = {"install", "uninstall"}
  DryRuns = {TRUE, FALSE}
SYMMETRY Symmetry
CONSTRAINT FewDry
INVARIANTS RunsWhole ActiveIsDriven LeftoversAreAvailable
CHECK_DEADLOCK FALSE
