SPECIFICATION Spec
CONSTANTS
  Pids = {p1}
  MaxProcesses = 3
  Cap = 4
  MaxGap = 2
  ReuseAfter = 3
INVARIANT TypeOK
INVARIANT SustainedIsLived
INVARIANT SpellIsCounted
PROPERTY RowsNameTheirProcess
PROPERTY ImplementsNameTable
