SPECIFICATION Spec
CONSTANTS
  None = None
  Invalid = Invalid
  PiFiles <- MCPiFiles
  PiUses <- MCPiUses
  PiSessions = {"s1", "s2", "s3"}
  PiLocators = {"l1", "l2", "l3"}
  PiNatives = {"e1", "e2"}
  CodexFiles <- MCCodexFiles
  Fields <- MCCounters
  CoreFields <- MCCounters
  Total = "total"
  Measure = "input"
  ClaudeFiles <- MCClaudeFiles
  FinalVersions = {"v2", "v3"}
  PlaceholderVersions = {"v1"}
  CliFiles <- MCCliFiles
  VscodeFiles <- MCVscodeFiles
  MaxBatch = 2
  MaxRead = 3
  MaxSources = 4
INVARIANTS
  TypeOK
  Incremental
  CountedOnce
  NothingLost
  CopiesProven
  LastWordCounts
  UndisputedOnly
CHECK_DEADLOCK FALSE
