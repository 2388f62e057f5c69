SPECIFICATION Spec
CONSTANTS
  Hosts = {h1}
  Fingerprints = {"xmrig"}
  ProcessFingerprints = {"xmrig"}
  Entries = {}
  Payloads <- EachAlone
  Workers = {w1}
  STALE = 1
  RETENTION = 2
  PRUNE_INTERVAL = 2
  Verdicts = {"false_positive"}
  MaxTime = 1
  MaxObserved = 2
  MaxFailures = 0
CHECK_DEADLOCK FALSE
INVARIANT SuppressionHolds
