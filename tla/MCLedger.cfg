SPECIFICATION PartSpec
CONSTANTS
  Procs = {"p1", "p2"}
  OldRows = {"o1", "o2"}
  NewRows = {"n1", "n2"}
  MaxLaunches = 4
  None = None
  r1 = r1 r2 = r2 a1 = a1 a2 = a2 o1 = o1 d1 = d1 d2 = d2
INVARIANTS
  TypesOK
  UpgradeSafe
  OneProcess
  SameAsDirect
  OrderFree
  Trees
PROPERTIES
  Settled
  CallsCount
CHECK_DEADLOCK FALSE
