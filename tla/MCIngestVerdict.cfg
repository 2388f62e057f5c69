SPECIFICATION Spec
CONSTANTS
  Hosts = {h1}
  Fingerprints = {"xmrig"}
  ProcessFingerprints = {"xmrig"}
  Entries = {}
  Payloads <- EachAlone
  Workers = {w1}
  STALE = 1
  RETENTION = 2
  PRUNE_INTERVAL = 2
  Verdicts = {"false_positive"}
  MaxTime = 2
  MaxObserved = 1
  MaxFailures = 0
CHECK_DEADLOCK FALSE
PROPERTY VerdictSurvives
