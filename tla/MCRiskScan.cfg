SPECIFICATION Spec
CONSTANTS
  Names <- MCNames
  NoName = NoName
  Paths <- MCPaths
  NoPath = NoPath
  Domains <- MCDomains
  NoDomain = NoDomain
  PathTrust <- MCPathTrust
  PathStem <- MCPathStem
  MinerNames <- MCMinerNames
  MinerPaths <- MCMinerPaths
  MasqueradeNames <- MCMasqueradeNames
  HeavyNames = {"ffmpeg", "cc1plus", "python"}
  AllowedProcesses = {"nheqminer"}
  PseudoNames = {"kthreadd"}
  BrowserNames = {"chrome"}
  ShortNames = {"sh"}
  PoolDomains <- MCPoolDomains
  CryptojackingDomains = {"ws.coinimp.com"}
  KeywordDomains = {"pool.supportxmr.com", "xmr-eu1.nanopool.org", "eu.2miners.com", "pool-word", "own-pool"}
  GeneratedDomains = {"j3k2m9xqv8zprt4w.duckdns.org"}
  AllowedDomains = {"own-pool"}
  SustainedCpu = 80
  SustainedSeconds = 180
  ElevatedCpu = 55
  SustainedGpu = 75
  LongLivedSeconds = 300
  BrowserCpu = 45
  CpuLevels <- MCCpuLevels
  InitialHosts <- MCHosts
  NewConnections <- MCConnections
  NewAutostarts <- MCAutostarts
  NewDomains <- MCNewDomains
  ListLimit = 1
  MaxEvidence = 2
CHECK_DEADLOCK FALSE
INVARIANT TypeOK
INVARIANT ResourceNeverConvicts
INVARIANT DnsNeverStandsAlone
INVARIANT NoSilentPressure
INVARIANT DemoFleetVerdicts
PROPERTY EvidenceOnlyRaises
