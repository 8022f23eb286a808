SPECIFICATION Spec
CONSTANTS
  Available <- MCAvailable
  Services <- MCServices
  Workflows <- AllWorkflows
INVARIANTS
  OrderKept
  MarkersEnclose
  LifecycleOrder
CHECK_DEADLOCK FALSE
