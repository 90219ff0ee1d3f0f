SPECIFICATION Spec
CONSTANTS
  Clients = {c1}
  Pollers = {}
  Main = main
  Roots = {r1}
  NoRoots = NoRoots
  MaxFiles = 1
  BatchSize = 1
  MaxRuns = 2
  Faults <- FinishFault
INVARIANTS
  RetryPossible
