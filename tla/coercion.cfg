SPECIFICATION Spec
CONSTANTS
  s1 = s1
  Template = Template
  Whole = Whole
  Services = {s1}
  Nodes <- MCNodes
  Declared <- MCDeclared
  Hosts <- MCHosts
  Requirements <- MCRequirements
  InputValues <- MCInputValues
  NewValues <- MCNewValues
INVARIANTS
  CoercionIsTransparent
  ArgumentsFollowInputs
CHECK_DEADLOCK FALSE
