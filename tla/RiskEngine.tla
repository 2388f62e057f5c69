------------------------------ MODULE RiskEngine ------------------------------
(***************************************************************************)
(* The risk-scoring engine: rules.py and the predicates of intel.py that   *)
(* it asks.  Everything here is a pure operator; RiskScan drives them.     *)
(*                                                                         *)
(* Names, paths and domains are model values.  What the string matchers    *)
(* of intel.py answer about them is given by the sets below, so a          *)
(* predicate keeps the order and the combination of its tests and leaves   *)
(* out the spelling.  A signal list is a set of signal kinds: the engine   *)
(* never emits one kind twice, and a rule that can fire at two strengths   *)
(* or for two reasons has one kind for each.                               *)
(***************************************************************************)
EXTENDS Integers, FiniteSets

CONSTANTS
  Names, NoName,          \* executable names (binary_stem of them); NoName is ""
  Paths, NoPath,          \* executable paths; NoPath is an empty path
  Domains, NoDomain,      \* host names; NoDomain is an unresolved address
  PathTrust,              \* what the path classifier says of each path
  PathStem,               \* the file name each path ends in
  MinerNames, MinerPaths, \* the ones a miner signature matches
  MasqueradeNames,        \* system binaries worth impersonating
  HeavyNames,             \* LEGITIMATE_HEAVY_WORKLOADS
  AllowedProcesses,       \* allowlist_processes of the feed
  PseudoNames,            \* kernel threads, swapper, the idle process
  BrowserNames,           \* the browser family
  ShortNames,             \* names of fewer than four characters
  PoolDomains, CryptojackingDomains, KeywordDomains, GeneratedDomains,
  AllowedDomains,         \* allowlist_domains of the feed
  SustainedCpu, SustainedSeconds, ElevatedCpu, SustainedGpu, LongLivedSeconds,
  BrowserCpu              \* the thresholds of Settings

Trust == {"trusted", "unknown", "suspicious"}

ASSUME NamesAssumption ==
  /\ NoName \notin Names
  /\ \A S \in {MinerNames, MasqueradeNames, HeavyNames, AllowedProcesses,
               PseudoNames, BrowserNames, ShortNames} : S \subseteq Names
ASSUME PathsAssumption ==
  /\ NoPath \notin Paths
  /\ PathTrust \in [Paths -> Trust]
  /\ PathStem \in [Paths -> Names]
  /\ {path \in Paths : PathStem[path] \in MinerNames} \subseteq MinerPaths
  /\ MinerPaths \subseteq Paths
ASSUME DomainsAssumption ==
  /\ NoDomain \notin Domains
  /\ \A S \in {PoolDomains, CryptojackingDomains, KeywordDomains,
               GeneratedDomains, AllowedDomains} : S \subseteq Domains
ASSUME ThresholdsAssumption ==
  \A n \in {SustainedCpu, SustainedSeconds, ElevatedCpu, SustainedGpu,
            LongLivedSeconds, BrowserCpu} : n \in Nat

Locations == Paths \cup {NoPath}

-----------------------------------------------------------------------------
(* Signal kinds, their points, their evidence class and the rule they      *)
(* belong to.                                                              *)

RULE_POINTS ==
  [sustained_cpu |-> 20, elevated_cpu |-> 10, sustained_gpu |-> 15,
   hostile_path |-> 20, unrecognised_path |-> 10,
   known_miner_binary |-> 30, masquerading_name |-> 15,
   mining_infrastructure |-> 25, in_browser_service |-> 25,
   stratum_port |-> 15, long_lived_connection |-> 10, repeated_connections |-> 10,
   suspicious_persistence |-> 15, unusual_command_line |-> 10,
   suspicious_dns |-> 10, browser_cryptojacking |-> 20,
   allowlisted_workload |-> -25, trusted_system_path |-> -10]

Kinds == DOMAIN RULE_POINTS

CategoryOf(k) ==
  CASE k \in {"sustained_cpu", "elevated_cpu", "sustained_gpu"} -> "resource"
    [] k \in {"hostile_path", "unrecognised_path", "known_miner_binary",
              "masquerading_name"} -> "identity"
    [] k \in {"mining_infrastructure", "in_browser_service", "stratum_port",
              "long_lived_connection", "repeated_connections"} -> "network"
    [] k = "suspicious_persistence" -> "persistence"
    [] k = "unusual_command_line" -> "command_line"
    [] k = "suspicious_dns" -> "dns"
    [] k = "browser_cryptojacking" -> "browser"
    [] OTHER -> "mitigation"

\* unknown_executable fires at full and at half strength, and
\* mining_infrastructure once for pools and feeds and once for in-browser
\* services.
RuleOf(k) ==
  CASE k \in {"hostile_path", "unrecognised_path"} -> "unknown_executable"
    [] k = "in_browser_service" -> "mining_infrastructure"
    [] OTHER -> k

CORROBORATING_CATEGORIES ==
  {"identity", "network", "persistence", "command_line", "dns", "browser"}
UNCORROBORATED_CEILING == 24
ALERT_THRESHOLD == 25

severity_for(score) ==
  CASE score >= 90 -> "CRITICAL"
    [] score >= 75 -> "HIGH"
    [] score >= 50 -> "MEDIUM"
    [] score >= 25 -> "LOW"
    [] OTHER -> "NORMAL"

-----------------------------------------------------------------------------
(* intel.py: what the engine asks about a name, a path or a domain.        *)

path_trust(path) == IF path = NoPath THEN "unknown" ELSE PathTrust[path]

binary_stem(path) == IF path = NoPath THEN NoName ELSE PathStem[path]

matches_miner_binary(name, path) == name \in MinerNames \/ path \in MinerPaths

is_system_pseudo_process(name) ==
  name \in PseudoNames /\ ~matches_miner_binary(name, NoPath)

is_browser(name) == name \in BrowserNames

\* A name on the feed's allowlist counts wherever it runs from; a built-in
\* one only under a trusted path.
is_legitimate_heavy_workload(name, path) ==
  \/ name \in AllowedProcesses
  \/ name \in HeavyNames /\ path # NoPath /\ path_trust(path) = "trusted"

match_mining_domain(d) == d \in PoolDomains \ AllowedDomains
match_cryptojacking_domain(d) == d \in CryptojackingDomains \ AllowedDomains
match_mining_keyword(d) == d \in KeywordDomains \ AllowedDomains
looks_like_dga(d) == d \in GeneratedDomains \ AllowedDomains

-----------------------------------------------------------------------------
(* The observation the engine scores.                                      *)

Connections ==
  [domain : Domains \cup {NoDomain}, bad_ip : BOOLEAN, public : BOOLEAN,
   port : {"stratum", "common", "other"}, duration : Nat, count : Nat]

\* The command of an autostart entry is what its first word names and
\* whether a mining pattern occurs in it.
Autostarts ==
  [name : Names, target : Locations, command : Locations, mining : BOOLEAN,
   enabled : BOOLEAN]

Processes ==
  [pid : Nat, name : Names \cup {NoName}, path : Locations, cpu : Nat,
   sustained : Nat, gpu : Nat, mining : BOOLEAN, renderer : BOOLEAN,
   connections : SUBSET Connections]

HostObservations ==
  [processes : SUBSET Processes, persistence : SUBSET Autostarts,
   dns : SUBSET Domains]

-----------------------------------------------------------------------------
(* The rule groups: each returns the kinds that fire.                      *)

\* {kind} when the condition holds: the shape of every rule below.
Fires(condition, kind) == IF condition THEN {kind} ELSE {}

ResourceSignals(p) ==
  LET sustained == p.cpu >= SustainedCpu /\ p.sustained >= SustainedSeconds
      elevated  == p.cpu >= ElevatedCpu /\ 2 * p.sustained >= SustainedSeconds
  IN  Fires(sustained, "sustained_cpu")
        \cup Fires(~sustained /\ elevated, "elevated_cpu")
        \cup Fires(p.gpu >= SustainedGpu, "sustained_gpu")

IdentitySignals(p) ==
  LET trust == path_trust(p.path)
  IN  Fires(matches_miner_binary(p.name, p.path), "known_miner_binary")
        \cup Fires(trust = "suspicious", "hostile_path")
        \cup Fires(trust = "unknown", "unrecognised_path")
        \cup Fires(trust = "trusted", "trusted_system_path")
        \cup Fires(p.name \in MasqueradeNames /\ trust # "trusted", "masquerading_name")
        \cup Fires(is_legitimate_heavy_workload(p.name, p.path), "allowlisted_workload")

CommandLineSignals(p) == Fires(p.mining, "unusual_command_line")

\* "" (false) unless the entry itself looks like a miner.
PersistenceIsSuspicious(item) ==
  \/ matches_miner_binary(item.name, IF item.target # NoPath THEN item.target ELSE item.command)
  \/ path_trust(item.target) = "suspicious"
  \/ item.mining

\* The full executable path somewhere in the entry, or the exact file name
\* when it is long enough to mean something.
PersistenceLinksTo(p, item) ==
  \/ p.path # NoPath /\ p.path \in {item.target, item.command}
  \/ /\ p.name \notin ShortNames \cup {NoName}
     /\ p.name = (IF item.target # NoPath THEN binary_stem(item.target)
                                          ELSE binary_stem(item.command))

PersistenceSignals(p, persistence) ==
  Fires(\E item \in persistence : item.enabled /\ PersistenceLinksTo(p, item),
        "suspicious_persistence")

NetworkSignals(conns, browser_context) ==
  LET pool(c)     == match_mining_domain(c.domain)
      jacking(c)  == match_cryptojacking_domain(c.domain)
      feed(c)     == c.bad_ip \/ (match_mining_keyword(c.domain) /\ ~pool(c) /\ ~jacking(c))
      routable(c) == c.public \/ c.domain # NoDomain
      unusual(c)  == routable(c) /\ c.port # "common"
  IN  Fires(\E c \in conns : pool(c) \/ feed(c), "mining_infrastructure")
        \cup Fires(~browser_context /\ \E c \in conns : jacking(c), "in_browser_service")
        \cup Fires(\E c \in conns : routable(c) /\ c.port = "stratum", "stratum_port")
        \cup Fires(\E c \in conns : unusual(c) /\ c.duration >= LongLivedSeconds,
                   "long_lived_connection")
        \cup Fires(\E c \in conns : unusual(c) /\ c.count >= 4, "repeated_connections")

\* A slip: a name in the resolver's cache scored like a connection to it.
DnsScoredAsConnections(domains) ==
  Fires(\E d \in domains : match_cryptojacking_domain(d) \/ match_mining_domain(d)
                             \/ looks_like_dga(d),
        "mining_infrastructure")

DnsSignals(domains) ==
  Fires(\E d \in domains : match_cryptojacking_domain(d) \/ match_mining_domain(d)
                             \/ looks_like_dga(d),
        "suspicious_dns")

-----------------------------------------------------------------------------
(* From signals to a finding.                                              *)

Positive(signals) == {k \in signals : RULE_POINTS[k] > 0}

PointsOf(k, signals) == IF k \in signals THEN RULE_POINTS[k] ELSE 0

\* The sum of a signal list, class by class.
ResourcePoints(signals) ==
  PointsOf("sustained_cpu", signals) + PointsOf("elevated_cpu", signals)
  + PointsOf("sustained_gpu", signals)
IdentityPoints(signals) ==
  PointsOf("hostile_path", signals) + PointsOf("unrecognised_path", signals)
  + PointsOf("known_miner_binary", signals) + PointsOf("masquerading_name", signals)
NetworkPoints(signals) ==
  PointsOf("mining_infrastructure", signals) + PointsOf("in_browser_service", signals)
  + PointsOf("stratum_port", signals) + PointsOf("long_lived_connection", signals)
  + PointsOf("repeated_connections", signals)
OtherPoints(signals) ==
  PointsOf("suspicious_persistence", signals) + PointsOf("unusual_command_line", signals)
  + PointsOf("suspicious_dns", signals) + PointsOf("browser_cryptojacking", signals)
MitigationPoints(signals) ==
  PointsOf("allowlisted_workload", signals) + PointsOf("trusted_system_path", signals)

Raw(signals) ==
  ResourcePoints(signals) + IdentityPoints(signals) + NetworkPoints(signals)
  + OtherPoints(signals) + MitigationPoints(signals)

\* A slip: no upper end.
ClampBelow(n) == IF n < 0 THEN 0 ELSE n

Clamp(n) == IF n < 0 THEN 0 ELSE IF n > 100 THEN 100 ELSE n

\* A slip: any positive signal corroborates.
CorroboratedByAnything(signals) == Positive(signals) # {}

Corroborated(signals) ==
  \E k \in Positive(signals) : CategoryOf(k) \in CORROBORATING_CATEGORIES

Capped(signals) == ~Corroborated(signals) /\ Clamp(Raw(signals)) > UNCORROBORATED_CEILING

Score(signals) ==
  IF Capped(signals) THEN UNCORROBORATED_CEILING ELSE Clamp(Raw(signals))

\* sha1 of the host, the subject, the type and the sorted list of rule ids
\* with positive points: a rule that fired for two reasons is in it twice.
Fingerprint(subject, type, signals) ==
  LET fired(rule) == {k \in Positive(signals) : RuleOf(k) = rule}
  IN  <<subject, type,
        [rule \in {RuleOf(k) : k \in Positive(signals)} |-> Cardinality(fired(rule))]>>

\* The process name, or the pid of a nameless process.
Subject(p) == IF p.name = NoName THEN <<"pid", p.pid>> ELSE <<"name", p.name>>

Withheld(signals) ==
  /\ \E k \in Positive(signals) : CategoryOf(k) = "resource"
  /\ Score(signals) < ALERT_THRESHOLD

WithheldReason(signals) ==
  CASE ~Withheld(signals) -> "none"
    [] Withheld(signals) /\ "allowlisted_workload" \in signals -> "allowlisted"
    [] Withheld(signals) /\ "allowlisted_workload" \notin signals /\ Capped(signals) -> "capped"
    [] OTHER -> "below threshold"

\* What is assessed: a process, or (pid 0) an autostart entry.
OfProcess(p) == [pid |-> p.pid, entry |-> {}]
OfEntry(item) == [pid |-> 0, entry |-> {item}]

Finalize(signals, type, subject, of) ==
  [score |-> Score(signals), severity |-> severity_for(Score(signals)), type |-> type,
   signals |-> signals, fingerprint |-> Fingerprint(subject, type, signals),
   of |-> of, withheld |-> WithheldReason(signals)]

IsAlertable(assessment) == assessment.score >= ALERT_THRESHOLD

-----------------------------------------------------------------------------
(* Assessing a process, the autostart entries and the host.                *)

BrowserConnectionPool(host) ==
  UNION {p.connections : p \in {q \in host.processes : is_browser(q.name)}}

BrowserContext(p) == p.renderer \/ is_browser(p.name)

\* A slip: a renderer has no sockets of its own.
OwnConnections(p, host) == p.connections

\* The sockets a process is judged on: its own, and for anything in a
\* browser tree those of the whole tree.
ConnectionsOf(p, host) ==
  p.connections \cup (IF BrowserContext(p) THEN BrowserConnectionPool(host) ELSE {})

RendererBusy(p) == p.cpu >= BrowserCpu /\ p.sustained >= 60

Cryptojacked(p, host) ==
  /\ BrowserContext(p)
  /\ RendererBusy(p)
  /\ \E c \in ConnectionsOf(p, host) :
       match_cryptojacking_domain(c.domain) \/ looks_like_dga(c.domain)

\* A slip: the browser finding replaces the network evidence.
BrowserReplacesNetwork(p, host) ==
  LET own == ResourceSignals(p) \cup IdentitySignals(p) \cup CommandLineSignals(p)
               \cup PersistenceSignals(p, host.persistence)
  IN  IF Cryptojacked(p, host)
        THEN (own \cup {"browser_cryptojacking"}) \ {"trusted_system_path"}
        ELSE own \cup NetworkSignals(ConnectionsOf(p, host), BrowserContext(p))

ProcessSignals(p, host) ==
  LET gathered == ResourceSignals(p) \cup IdentitySignals(p) \cup CommandLineSignals(p)
                    \cup PersistenceSignals(p, host.persistence)
                    \cup NetworkSignals(ConnectionsOf(p, host), BrowserContext(p))
  IN  IF Cryptojacked(p, host)
        THEN (gathered \cup {"browser_cryptojacking"}) \ {"trusted_system_path"}
        ELSE IF BrowserContext(p) THEN gathered \ {"masquerading_name"}
                                  ELSE gathered

EvaluateProcess(p, host) ==
  IF is_system_pseudo_process(p.name)
    THEN Finalize({}, "process_mining", Subject(p), OfProcess(p))
    ELSE Finalize(ProcessSignals(p, host),
                  IF Cryptojacked(p, host) THEN "browser_cryptojacking"
                                           ELSE "process_mining",
                  Subject(p), OfProcess(p))

\* Host-wide DNS evidence is merged into a finding that already scores.
WithDns(p, host) ==
  LET own == EvaluateProcess(p, host)
  IN  IF DnsSignals(host.dns) # {} /\ own.score > 0
        THEN Finalize(own.signals \cup DnsSignals(host.dns), own.type, Subject(p), OfProcess(p))
        ELSE own

\* The entry's target is taken to be running when some process has its name.
CoveredByProcess(item, host) ==
  \E p \in host.processes :
    /\ p.name # NoName
    /\ p.name = (IF item.target # NoPath THEN binary_stem(item.target) ELSE item.name)

AutostartSignals(item) ==
  {"suspicious_persistence"}
    \cup Fires(matches_miner_binary(item.name, IF item.target # NoPath THEN item.target
                                                                       ELSE item.command),
               "known_miner_binary")
    \cup Fires(item.mining, "unusual_command_line")

EvaluatePersistenceOnly(host) ==
  {Finalize(AutostartSignals(item), "persistence_mining", <<"name", item.name>>,
            OfEntry(item)) :
     item \in {i \in host.persistence :
                 /\ i.enabled
                 /\ PersistenceIsSuspicious(i)
                 /\ ~CoveredByProcess(i, host)}}

\* Every assessment of a host.  The code returns them highest score first;
\* the ingest module takes them in that order.
EvaluateHost(host) ==
  {WithDns(p, host) : p \in host.processes} \cup EvaluatePersistenceOnly(host)

=============================================================================
