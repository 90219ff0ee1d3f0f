SPECIFICATION Spec
CONSTANTS
  Clients = {c1, c2}
  Pollers = {}
  Main = main
  Roots = {r1, r2}
  NoRoots = NoRoots
  MaxFiles = 2
  BatchSize = 1
  MaxRuns = 2
  Faults <- AccountedFaults
SYMMETRY Interchangeable
INVARIANTS
  TypeOK
  RootsStable
  RunningIsOwned
  SavedRootsServed
PROPERTIES
  Promise
