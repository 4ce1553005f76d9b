\* Everything that may happen to two log files once they are watched.
SPECIFICATION Spec
CONSTANTS
  n1 = n1
  n2 = n2
  NoName = NoName
  Names <- TwoNames
  LogList <- TwoLogs
  Scenarios <- Mixed
  MaxFiles = 2
  QueueLimit = 9
  ScanComplete = 2
  StickyEOF = FALSE
  Calm = TRUE
INVARIANTS TypeOK GoneIsLetGo RotatedCaughtUp InOrderOnce
