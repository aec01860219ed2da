\* Two tasks, and a server that does nothing wrong but exit.
SPECIFICATION Spec
CONSTANTS
  Tasks = {t1, t2}
  ServerAsks = 0
  MayBreak = FALSE
PROPERTIES
  ExitReleasesWaiters
CHECK_DEADLOCK FALSE
