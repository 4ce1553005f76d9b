\* A file is renamed over the log file.
SPECIFICATION Spec
CONSTANTS
  n1 = n1
  n2 = n2
  NoName = NoName
  Names <- OneName
  LogList <- OneLog
  Scenarios <- Replacing
  MaxFiles = 2
  QueueLimit = 9
  ScanComplete = 9
  StickyEOF = FALSE
  Calm = TRUE
INVARIANTS CaughtUp
