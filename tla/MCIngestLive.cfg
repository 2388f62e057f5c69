SPECIFICATION ReportingSpec
CONSTANTS
  Hosts = {h1}
  Fingerprints = {"xmrig"}
  ProcessFingerprints = {"xmrig"}
  Entries = {}
  Payloads <- EachAlone
  Workers = {w1, w2}
  STALE = 1
  RETENTION = 1
  PRUNE_INTERVAL = 2
  Verdicts = {}
  MaxTime = 2
  MaxObserved = 1
  MaxFailures = 1
CHECK_DEADLOCK FALSE
PROPERTY ReportsEnd
PROPERTY QuietQueueDrains
