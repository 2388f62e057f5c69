SPECIFICATION Spec
CONSTANTS
  Hosts = {h1}
  Fingerprints = {"xmrig"}
  ProcessFingerprints = {"xmrig"}
  Entries = {}
  Payloads <- TwoScores
  Workers = {w1, w2}
  STALE = 1
  RETENTION = 2
  PRUNE_INTERVAL = 2
  Verdicts = {}
  MaxTime = 1
  MaxObserved = 3
  MaxFailures = 0
SYMMETRY Symmetry
CHECK_DEADLOCK FALSE
INVARIANT RollupCovers
