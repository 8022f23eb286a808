SPECIFICATION FairSpec
CONSTANTS
  w1 = w1
  w2 = w2
  Workers = {w1, w2}
  Cyanide = Cyanide
  Idle = Idle
  Dead = Dead
  Locations <- MCLocations
  Mains <- MCMains
  Imports <- MCImports
  Flaky = {"c", "ring"}
  Foreign = {"d"}
  Defines <- MCDefines
  MergeOf <- MergeResults
  CyanideCap = 2
INVARIANTS
  DrainedIsQuiet
  ReadsAreBounded
  MergedIsComplete
  MergeIsOrdered
PROPERTY ReaderEnds
CHECK_DEADLOCK FALSE
