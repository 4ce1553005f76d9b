\* Two executions, every timeout of one try, signals go to any thread.
SPECIFICATION TimedSpec
CONSTANTS
  Threads = {t1, t2}
  Main = Main
  Nobody = Nobody
  WaitOutput = 1
  PipeWait = 1
  TermWait = 1
  WholeLines = FALSE
  Interruptible = TRUE
  Clocks = {TRUE, FALSE}
SYMMETRY Symmetry
INVARIANTS TypeOK CountAgrees FlagAgrees EndedMeansReaped ForceExitKept
           ConfigOutlivesUse IInv EndedInTime
PROPERTIES NoStrayKill PromiseKept
