SPECIFICATION Spec
CONSTANTS
  Clients = {c1}
  Pollers = {p1}
  Main = main
  Roots = {r1}
  NoRoots = NoRoots
  MaxFiles = 3
  BatchSize = 2
  MaxRuns = 2
  Faults <- AllFaults
INVARIANTS
  AnswersConsistent
  ProcessedIsCommitted
PROPERTIES
  AnswersMonotone
  StrandedWaits
