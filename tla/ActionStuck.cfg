\* A command stops in the middle of a line, a handled signal does not matter.
SPECIFICATION Spec
CONSTANTS
  Threads = {t1}
  Main = Main
  Nobody = Nobody
  WaitOutput = 1
  PipeWait = 1
  TermWait = 1
  WholeLines = FALSE
  Interruptible = FALSE
PROPERTIES StuckIsEnded
