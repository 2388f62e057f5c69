SPECIFICATION LiveSpec
CONSTANTS
  Pids = {p1, p2}
  Dests = {d1}
  MaxProcesses = 3
  Limit = 1
  PidsRest = TRUE
INVARIANT TypeOK
INVARIANT EvidenceIsOwned
INVARIANT SelectionIsRight
PROPERTY LastingEvidenceArrives
