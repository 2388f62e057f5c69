SPECIFICATION Spec
CONSTANTS
  Hosts = {h1, h2}
  Fingerprints = {"xmrig"}
  ProcessFingerprints = {"xmrig"}
  Entries = {unit}
  Payloads <- WithEntries
  Workers = {w1, w2}
  STALE = 1
  RETENTION = 1
  PRUNE_INTERVAL = 1
  Verdicts = {}
  MaxTime = 2
  MaxObserved = 3
  MaxFailures = 1
SYMMETRY HostSymmetry
CHECK_DEADLOCK FALSE
INVARIANT TypeOK
PROPERTY EvidenceRetained
