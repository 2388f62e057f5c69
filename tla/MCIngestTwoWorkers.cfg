SPECIFICATION Spec
CONSTANTS
  Hosts = {h1}
  Fingerprints = {"xmrig"}
  ProcessFingerprints = {"xmrig"}
  Entries = {}
  Payloads <- Twins
  Workers = {w1, w2}
  STALE = 1
  RETENTION = 1
  PRUNE_INTERVAL = 1
  Verdicts = {"false_positive"}
  MaxTime = 2
  MaxObserved = 3
  MaxFailures = 0
SYMMETRY Symmetry
CHECK_DEADLOCK FALSE
INVARIANT UniqueOpen
INVARIANT ObservationsCounted
PROPERTY ResolvesOnlyQuiet
PROPERTY HistoryIsKept
PROPERTY SettledIsFinal
PROPERTY WrittenRollupIsRight
PROPERTY ImplementsAlertQueue
