SPECIFICATION Spec
CONSTANTS
  Services = {s1, s2}
  TemplateOf <- MCTemplateOf
  Processes = {p1, p2}
  Plugins = {"w1"}
  Definitions = {"d1"}
  MaxCommands = 6
  MaxCrashes = 1
SYMMETRY Symmetry
CONSTRAINT FewApart
INVARIANTS
  ReferencesResolve
  FilesFollowRows
  PluginsAreUnique
PROPERTY ServicesAreSeparate
CHECK_DEADLOCK FALSE
