\* Liveness: commands write whole lines; SIGTERM follows the end of reading at once.
SPECIFICATION Spec
CONSTANTS
  Threads = {t1, t2}
  Main = Main
  Nobody = Nobody
  WaitOutput = 1
  PipeWait = 0
  TermWait = 1
  WholeLines = TRUE
  Interruptible = TRUE
PROPERTIES StuckIsEnded ForcedStopsReading
