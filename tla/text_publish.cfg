SPECIFICATION Spec
CONSTANTS
  root = root
  a = a
  ab = ab
  Maps <- MCMaps
  RootMap = root
  Symbols = symbols
  Ignore = ignoreFile
  None = none
  Above <- MCAbove
  Depth <- MCDepth
  NameRank <- MCNameRank
  Planned <- MorePlanned
  Text = {words}
  Seed = seed
  MaxChanges = 2
INVARIANTS TypeOK PurposeKept StagingSuffices
PROPERTIES HandsOff RootMarksGeneration
