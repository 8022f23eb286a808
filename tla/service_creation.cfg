SPECIFICATION Spec
CONSTANTS
  None = None
  s1 = s1
  s2 = s2
  s3 = s3
  s4 = s4
  Services <- MCServices
  NodeParent <- MCNodeParent
  CapabilityParent <- MCCapabilityParent
  NodeRole <- MCNodeRole
  CapabilityRole <- MCCapabilityRole
  Presentations <- MCPresentations
SYMMETRY Symmetry
CONSTRAINT FewServices
INVARIANTS
  CapacityHolds
  RelationshipsFit
PROPERTIES
  AcceptedIsComplete
  HostsAreFound
CHECK_DEADLOCK FALSE
