SPECIFICATION Spec
CONSTANTS
  Files <- Session
  Roots <- Tops
  Under <- SessionTree
  Data <- Bytes
  Absent = Absent
  Kind <- SessionReaders
  Sidecar <- Workspace
  Metadata <- Yaml
  Names = {}
  BatchSize = 1
  MaxEdits = 2
  MaxVersion = 1
  MaxRuns = 2
INVARIANTS
  TypeOK
  Complete
PROPERTIES
  NoFalseMissing
