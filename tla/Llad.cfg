\* One execution, two queued events, signals everywhere.
SPECIFICATION LladSpec
CONSTANTS
  MaxQueue = 2
  SignalPlaces <- Places
  Threads = {t1}
  Main = Main
  Nobody = Nobody
  WaitOutput = 1
  PipeWait = 1
  TermWait = 1
  WholeLines = FALSE
INVARIANTS TypeOK WaitsUndisturbed NothingLeftBehind
PROPERTIES NeverRestarts StopNoticed StopEnds ImplementsAction
