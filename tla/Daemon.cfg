\* Three starts at any time, with failures, crashes and pids used again.
SPECIFICATION Spec
CONSTANTS
  i1 = i1
  i2 = i2
  i3 = i3
  Instances <- Starts
  OldPid = OldPid
  NoPid = NoPid
INVARIANTS TypeOK OneDaemon RunningIsRecorded StoppedIsForgotten IInv
PROPERTIES RemovedIsStale
SYMMETRY Exchanges
