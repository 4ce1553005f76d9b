\* Three executions on an idle machine, with a clock.
SPECIFICATION TimedSpec
CONSTANTS
  Threads = {t1, t2, t3}
  Main = Main
  Nobody = Nobody
  WaitOutput = 4
  PipeWait = 1
  TermWait = 1
  WholeLines = TRUE
  Interruptible = FALSE
  Clocks = {TRUE}
SYMMETRY Symmetry
INVARIANTS ForcedInTime
CONSTRAINT Silent
