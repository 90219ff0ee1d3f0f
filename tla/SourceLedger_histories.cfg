SPECIFICATION Spec
CONSTANTS
  Files <- Histories
  Roots = {1}
  Under <- OneTree
  Data <- Bytes
  Absent = Absent
  Kind <- HistoriesReaders
  Sidecar <- NoSidecar
  Metadata = {}
  Names = {"n"}
  BatchSize = 2
  MaxEdits = 2
  MaxVersion = 1
  MaxRuns = 3
INVARIANTS
  Idempotent
  SameRevisionSameReport
PROPERTIES
  Retained
