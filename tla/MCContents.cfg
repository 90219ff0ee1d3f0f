SPECIFICATION PartSpec
CONSTANTS
  None = None  Bad = Bad
  Sessions = {"a", "b", "c", "d"}
  Locators = {1, 2}
  Inodes = {"i1", "i2", "i3"}
  Listed <- Named
  Harness <- Harnesses
  Recorder <- Recorders
  Logs = {2}
  Limit = 2
  MaxWrites = 2
  MaxImports = 1
INVARIANTS
  TypesOK
  NothingHidden
  ShownOnce
  LatestShown
  ShownWhole
  ReportsAgree
  Tiles
PROPERTIES
  ReadRight
CHECK_DEADLOCK FALSE
