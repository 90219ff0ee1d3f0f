SPECIFICATION LiveSpec
CONSTANTS
  None = None
  Clients = {c1, c2}
  Pollers = {}
  Main = main
  Roots = {r1}
  NoRoots = NoRoots
  MaxFiles = 1
  BatchSize = 1
  MaxRuns = 2
  Faults <- AccountedFaults
PROPERTIES
  NothingHangs
  CatchesUp
CHECK_DEADLOCK FALSE
