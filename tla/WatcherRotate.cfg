\* Two log files: rotations of every kind, or a single one or copytruncate.
SPECIFICATION Spec
CONSTANTS
  n1 = n1
  n2 = n2
  NoName = NoName
  Names <- TwoNames
  LogList <- TwoLogs
  Scenarios <- Rotations
  MaxFiles = 3
  QueueLimit = 9
  ScanComplete = 9
  StickyEOF = FALSE
  Calm = TRUE
INVARIANTS CaughtUp NothingSkipped
PROPERTIES WrittenIsMatched
