\* Pids are reused at once, as far as the system is concerned.
SPECIFICATION Spec
CONSTANTS
  Pids = {p1}
  MaxProcesses = 2
  Cap = 2
  MaxGap = 2
  ReuseAfter = 0
PROPERTY ReportsAreConfirmed
