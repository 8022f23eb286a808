SPECIFICATION Spec
CONSTANTS
  Types = {t1, t2, t3}
  Nothing = Nothing
  Unknown = Unknown
  Leaves <- MCLeaves
  MaxPath = 8
INVARIANTS
  FaultIsReported
  HierarchyIsSound
CHECK_DEADLOCK FALSE
