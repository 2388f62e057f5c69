--------------------------- MODULE RiskEngineProofs ---------------------------
(***************************************************************************)
(* What holds of the risk engine for every set of names, paths, domains    *)
(* and thresholds: the range of a score, the corroboration rule, and how a *)
(* score moves with the evidence.                                          *)
(***************************************************************************)
EXTENDS RiskScan, FiniteSetTheorems, TLAPS

\* The points of each kind, one field at a time.
LEMMA PointsAreInts ==
  ASSUME NEW k \in Kinds
  PROVE  RULE_POINTS[k] \in Int
BY DEF Kinds, RULE_POINTS

\* A term of the sum is an integer.
LEMMA PointsOfIsInt ==
  ASSUME NEW k \in Kinds, NEW S
  PROVE  PointsOf(k, S) \in Int
BY PointsAreInts DEF PointsOf

\* The signal kinds of the rule table, spelled out.
LEMMA KindsAre ==
  Kinds = {"sustained_cpu", "elevated_cpu", "sustained_gpu", "hostile_path",
           "unrecognised_path", "known_miner_binary", "masquerading_name",
           "mining_infrastructure", "in_browser_service", "stratum_port",
           "long_lived_connection", "repeated_connections",
           "suspicious_persistence", "unusual_command_line", "suspicious_dns",
           "browser_cryptojacking", "allowlisted_workload", "trusted_system_path"}
BY DEF Kinds, RULE_POINTS

\* The uncapped sum of a set of signals is an integer.
LEMMA RawIsInt ==
  ASSUME NEW S
  PROVE  Raw(S) \in Int
<1>1. \A k \in Kinds : PointsOf(k, S) \in Int
  BY PointsOfIsInt
<1>2. ResourcePoints(S) \in Int
  BY <1>1, KindsAre DEF ResourcePoints
<1>3. IdentityPoints(S) \in Int
  BY <1>1, KindsAre DEF IdentityPoints
<1>4. NetworkPoints(S) \in Int
  BY <1>1, KindsAre DEF NetworkPoints
<1>5. OtherPoints(S) \in Int
  BY <1>1, KindsAre DEF OtherPoints
<1>6. MitigationPoints(S) \in Int
  BY <1>1, KindsAre DEF MitigationPoints
<1> QED
  BY <1>2, <1>3, <1>4, <1>5, <1>6 DEF Raw

-----------------------------------------------------------------------------
(* The score of a set of signals.                                          *)

\* A score is an integer from 0 to 100.
LEMMA ScoreRange ==
  ASSUME NEW S
  PROVE  Score(S) \in 0..100
BY RawIsInt DEF Score, Capped, Clamp, UNCORROBORATED_CEILING

\* Without corroboration the score stays under the alert threshold.
LEMMA CeilingHolds ==
  ASSUME NEW S, ~Corroborated(S)
  PROVE  Score(S) < ALERT_THRESHOLD
BY RawIsInt DEF Score, Capped, Clamp, UNCORROBORATED_CEILING, ALERT_THRESHOLD

\* Adding kinds that only carry positive points never lowers the sum.
LEMMA RawIsMonotone ==
  ASSUME NEW S, NEW T, S \subseteq T,
         \A k \in T \ S : k \in Kinds /\ RULE_POINTS[k] > 0
  PROVE  Raw(S) <= Raw(T)
<1>1. \A k \in Kinds : /\ PointsOf(k, S) \in Int /\ PointsOf(k, T) \in Int
                       /\ PointsOf(k, S) <= PointsOf(k, T)
  BY PointsAreInts DEF PointsOf
<1>2. ResourcePoints(S) \in Int /\ ResourcePoints(T) \in Int /\ ResourcePoints(S) <= ResourcePoints(T)
  BY <1>1, KindsAre DEF ResourcePoints
<1>3. IdentityPoints(S) \in Int /\ IdentityPoints(T) \in Int /\ IdentityPoints(S) <= IdentityPoints(T)
  BY <1>1, KindsAre DEF IdentityPoints
<1>4. NetworkPoints(S) \in Int /\ NetworkPoints(T) \in Int /\ NetworkPoints(S) <= NetworkPoints(T)
  BY <1>1, KindsAre DEF NetworkPoints
<1>5. OtherPoints(S) \in Int /\ OtherPoints(T) \in Int /\ OtherPoints(S) <= OtherPoints(T)
  BY <1>1, KindsAre DEF OtherPoints
<1>6. MitigationPoints(S) \in Int /\ MitigationPoints(T) \in Int /\ MitigationPoints(S) <= MitigationPoints(T)
  BY <1>1, KindsAre DEF MitigationPoints
<1> QED
  BY <1>2, <1>3, <1>4, <1>5, <1>6 DEF Raw

\* rules.py, property 1: signals are additive.  More positive evidence never
\* lowers a score, and the corroboration ceiling does not spoil that: it is
\* only ever lifted.
THEOREM ScoreIsMonotone ==
  ASSUME NEW S, NEW T, S \subseteq T,
         \A k \in T \ S : k \in Kinds /\ RULE_POINTS[k] > 0
  PROVE  Score(S) <= Score(T)
<1>1. Raw(S) \in Int /\ Raw(T) \in Int /\ Raw(S) <= Raw(T)
  BY RawIsInt, RawIsMonotone
<1>2. Corroborated(S) => Corroborated(T)
  BY DEF Corroborated, Positive
<1> QED
  BY <1>1, <1>2 DEF Score, Capped, Clamp, UNCORROBORATED_CEILING

-----------------------------------------------------------------------------
(* From a set of signals to the findings of a host.                        *)

\* Every finding is the summary of some set of signals.
IsFinding(a) == \E S, type, subject, of : a = Finalize(S, type, subject, of)

\* What evaluate_process returns is a finding.
LEMMA ProcessFinding ==
  ASSUME NEW p, NEW h
  PROVE  IsFinding(EvaluateProcess(p, h))
BY DEF EvaluateProcess, IsFinding

\* It stays one when the DNS queries of its process are added.
LEMMA DnsFinding ==
  ASSUME NEW p, NEW h
  PROVE  IsFinding(WithDns(p, h))
BY ProcessFinding DEF WithDns, IsFinding

\* Everything evaluate_host returns is a finding.
LEMMA HostFindings ==
  ASSUME NEW h, NEW a \in EvaluateHost(h)
  PROVE  IsFinding(a)
<1>1. CASE a \in {WithDns(p, h) : p \in h.processes}
  BY <1>1, DnsFinding
<1>2. CASE a \in EvaluatePersistenceOnly(h)
  <2>1. PICK item : a = Finalize(AutostartSignals(item), "persistence_mining",
                                 <<"name", item.name>>, OfEntry(item))
    BY <1>2, Zenon DEF EvaluatePersistenceOnly
  <2> QED
    BY <2>1, Zenon DEF IsFinding
<1> QED
  BY <1>1, <1>2 DEF EvaluateHost

\* The corroborating classes do not contain resource usage.
LEMMA CorroborationIsNotResource ==
  "resource" \notin CORROBORATING_CATEGORIES
BY DEF CORROBORATING_CATEGORIES

\* A finding at or over the alert threshold has a corroborating signal.
LEMMA FindingIsCorroborated ==
  ASSUME NEW a, IsFinding(a), IsAlertable(a)
  PROVE  \E k \in a.signals : RULE_POINTS[k] > 0 /\ CategoryOf(k) # "resource"
<1>1. PICK S, type, subject, of : a = Finalize(S, type, subject, of)
  BY DEF IsFinding
<1>2. a.signals = S /\ a.score = Score(S)
  BY <1>1 DEF Finalize
<1>3. Corroborated(S)
  BY <1>2, CeilingHolds, ScoreRange DEF IsAlertable, ALERT_THRESHOLD
<1> QED
  BY <1>2, <1>3, CorroborationIsNotResource DEF Corroborated, Positive

-----------------------------------------------------------------------------
(* The scan.                                                               *)

\* The findings on record are those of the host on record, and the list one
\* of theirs.
Scanned == found = EvaluateHost(host) /\ suppressed \in Listings(found)

\* Every scan leaves the findings of its own host on record.
LEMMA ScannedIsInvariant == Spec => []Scanned
<1>1. Init => Scanned
  BY DEF Init, Scanned
<1>2. Scanned /\ [Next]_vars => Scanned'
  BY DEF Scanned, Next, vars, OpenConnection, InstallAutostart, ResolveDomain, BurnCpu,
         LoadGpu, Rescan
<1> QED
  BY <1>1, <1>2, PTL DEF Spec

\* rules.py, property 2: resource usage can never convict on its own, for
\* any host, any indicator set and any thresholds.
THEOREM NoResourceConviction == Spec => []ResourceNeverConvicts
<1>1. Scanned => ResourceNeverConvicts
  BY HostFindings, FindingIsCorroborated DEF Scanned, ResourceNeverConvicts
<1> QED
  BY <1>1, ScannedIsInvariant, PTL

-----------------------------------------------------------------------------
(* The shape of every finding.                                             *)

\* The signal kinds of a process are kinds of the rule table.
LEMMA ProcessKinds ==
  ASSUME NEW p, NEW h
  PROVE  ProcessSignals(p, h) \subseteq Kinds
<1>1. ResourceSignals(p) \subseteq Kinds
  BY KindsAre DEF ResourceSignals, Fires
<1>2. IdentitySignals(p) \subseteq Kinds
  BY KindsAre DEF IdentitySignals, Fires
<1>3. CommandLineSignals(p) \subseteq Kinds /\ PersistenceSignals(p, h.persistence) \subseteq Kinds
  BY KindsAre DEF CommandLineSignals, PersistenceSignals, Fires
<1>4. NetworkSignals(ConnectionsOf(p, h), BrowserContext(p)) \subseteq Kinds
  BY KindsAre DEF NetworkSignals, Fires
<1>5. "browser_cryptojacking" \in Kinds
  BY KindsAre
<1> QED
  BY <1>1, <1>2, <1>3, <1>4, <1>5 DEF ProcessSignals

\* So are those of the host's DNS names.
LEMMA DnsKinds ==
  ASSUME NEW domains
  PROVE  DnsSignals(domains) \subseteq Kinds
BY KindsAre DEF DnsSignals, Fires

\* And those of an autostart entry.
LEMMA AutostartKinds ==
  ASSUME NEW item
  PROVE  AutostartSignals(item) \subseteq Kinds
BY KindsAre DEF AutostartSignals, Fires

\* The types a finding can have.
FindingTypes == {"process_mining", "browser_cryptojacking", "persistence_mining"}

\* The summary of a set of signal kinds has the fields the ingest stores.
LEMMA FinalizeWellFormed ==
  ASSUME NEW S, S \subseteq Kinds, NEW type \in FindingTypes, NEW subject, NEW of
  PROVE  WellFormed(Finalize(S, type, subject, of))
<1>1. Score(S) \in 0..100
  BY ScoreRange
<1>2. severity_for(Score(S)) \in {"NORMAL", "LOW", "MEDIUM", "HIGH", "CRITICAL"}
  BY <1>1 DEF severity_for
<1>3. WithheldReason(S) \in {"none", "allowlisted", "capped", "below threshold"}
  BY DEF WithheldReason
<1> QED
  BY <1>1, <1>2, <1>3 DEF Finalize, WellFormed, Assessments, FindingTypes

\* What evaluate_process returns is well formed.
LEMMA ProcessWellFormed ==
  ASSUME NEW p, NEW h
  PROVE  /\ WellFormed(EvaluateProcess(p, h))
         /\ EvaluateProcess(p, h).signals \subseteq Kinds
         /\ EvaluateProcess(p, h).type \in FindingTypes
<1>1. CASE is_system_pseudo_process(p.name)
  <2>1. EvaluateProcess(p, h) = Finalize({}, "process_mining", Subject(p), OfProcess(p))
    BY <1>1 DEF EvaluateProcess
  <2> QED
    BY <2>1, FinalizeWellFormed DEF Finalize, FindingTypes
<1>2. CASE ~is_system_pseudo_process(p.name)
  <2> DEFINE type == IF Cryptojacked(p, h) THEN "browser_cryptojacking" ELSE "process_mining"
  <2>1. EvaluateProcess(p, h) = Finalize(ProcessSignals(p, h), type, Subject(p), OfProcess(p))
    BY <1>2 DEF EvaluateProcess
  <2>2. type \in FindingTypes
    BY DEF FindingTypes
  <2> HIDE DEF type
  <2> QED
    BY <2>1, <2>2, ProcessKinds, FinalizeWellFormed DEF Finalize
<1> QED
  BY <1>1, <1>2

\* It stays so with the DNS evidence.
LEMMA DnsWellFormed ==
  ASSUME NEW p, NEW h
  PROVE  WellFormed(WithDns(p, h))
<1> DEFINE own == EvaluateProcess(p, h)
<1>1. WellFormed(own) /\ own.signals \subseteq Kinds /\ own.type \in FindingTypes
  BY ProcessWellFormed
<1> HIDE DEF own
<1>2. own.signals \cup DnsSignals(h.dns) \subseteq Kinds
  BY <1>1, DnsKinds
<1>3. WellFormed(Finalize(own.signals \cup DnsSignals(h.dns), own.type, Subject(p), OfProcess(p)))
  BY <1>1, <1>2, FinalizeWellFormed
<1> QED
  BY <1>1, <1>3 DEF WithDns, own

\* Every finding of a host is well formed.
LEMMA HostWellFormed ==
  ASSUME NEW h, NEW a \in EvaluateHost(h)
  PROVE  WellFormed(a)
<1>1. CASE a \in {WithDns(p, h) : p \in h.processes}
  BY <1>1, DnsWellFormed
<1>2. CASE a \in EvaluatePersistenceOnly(h)
  <2>1. PICK item : a = Finalize(AutostartSignals(item), "persistence_mining",
                                 <<"name", item.name>>, OfEntry(item))
    BY <1>2, Zenon DEF EvaluatePersistenceOnly
  <2>2. "persistence_mining" \in FindingTypes
    BY DEF FindingTypes
  <2> QED
    BY <2>1, <2>2, AutostartKinds, FinalizeWellFormed, Zenon
<1> QED
  BY <1>1, <1>2 DEF EvaluateHost

-----------------------------------------------------------------------------
(* How a host changes: evidence only ever accumulates.                     *)

\* q is the process p with at least as much against it.
MoreAgainst(p, q) ==
  /\ q.pid = p.pid /\ q.name = p.name /\ q.path = p.path
  /\ q.mining = p.mining /\ q.renderer = p.renderer
  /\ p.connections \subseteq q.connections
  /\ p.cpu <= q.cpu /\ p.sustained <= q.sustained /\ p.gpu <= q.gpu

\* g is the host h with at least as much against it.
MoreEvidence(h, g) ==
  /\ h.persistence \subseteq g.persistence /\ h.dns \subseteq g.dns
  /\ \A p \in h.processes : \E q \in g.processes : MoreAgainst(p, q)

\* No two processes of a host have one pid.
PidsDistinct(h) == \A p, q \in h.processes : p.pid = q.pid => p = q

\* The host on record is an observation that lists every pid once.
HostOK == host \in HostObservations /\ PidsDistinct(host)

\* What a process looks like, field by field.
LEMMA ProcessFields ==
  ASSUME NEW h \in HostObservations, NEW p \in h.processes
  PROVE  /\ p \in Processes
         /\ p.pid \in Nat /\ p.cpu \in Nat /\ p.sustained \in Nat /\ p.gpu \in Nat
         /\ p.connections \in SUBSET Connections
         /\ p = [pid |-> p.pid, name |-> p.name, path |-> p.path, cpu |-> p.cpu,
                 sustained |-> p.sustained, gpu |-> p.gpu, mining |-> p.mining,
                 renderer |-> p.renderer, connections |-> p.connections]
BY DEF HostObservations, Processes

\* Replacing a process by one with more against it only adds evidence.
LEMMA ReplaceAdds ==
  ASSUME HostOK, NEW p \in host.processes, NEW q \in Processes, MoreAgainst(p, q)
  PROVE  /\ Replace(p, q) \in HostObservations
         /\ PidsDistinct(Replace(p, q))
         /\ MoreEvidence(host, Replace(p, q))
<1> DEFINE g == Replace(p, q)
<1>1. /\ g.processes = (host.processes \ {p}) \cup {q}
      /\ g.persistence = host.persistence /\ g.dns = host.dns
      /\ g \in HostObservations
  BY DEF HostOK, HostObservations, Replace
<1> HIDE DEF g
<1>2. PidsDistinct(g)
  BY <1>1 DEF HostOK, PidsDistinct, MoreAgainst
<1>3. \A r \in host.processes : MoreAgainst(r, r)
  BY ProcessFields DEF MoreAgainst, HostOK
<1>4. MoreEvidence(host, g)
  BY <1>1, <1>3 DEF MoreEvidence
<1> QED
  BY <1>1, <1>2, <1>4 DEF g

\* Every step scans a host with at least as much evidence on it.
LEMMA StepAdds ==
  ASSUME HostOK, Next
  PROVE  HostOK' /\ MoreEvidence(host, host') /\ found' = EvaluateHost(host')
<1>0. \A r \in host.processes : MoreAgainst(r, r)
  BY ProcessFields DEF MoreAgainst, HostOK
<1>1. CASE OpenConnection
  <2>1. PICK p \in host.processes, c \in NewConnections :
          Rescan(Replace(p, [p EXCEPT !.connections = @ \cup {c}]))
    BY <1>1 DEF OpenConnection
  <2>2. /\ [p EXCEPT !.connections = @ \cup {c}] \in Processes
        /\ MoreAgainst(p, [p EXCEPT !.connections = @ \cup {c}])
    <3>1. c \in Connections
      BY ScanAssumption
    <3> QED
      BY <3>1, ProcessFields DEF HostOK, Processes, MoreAgainst
  <2> QED
    BY <2>1, <2>2, ReplaceAdds DEF Rescan, HostOK, PidsDistinct
<1>2. CASE InstallAutostart
  <2>1. PICK item \in NewAutostarts : Rescan([host EXCEPT !.persistence = @ \cup {item}])
    BY <1>2 DEF InstallAutostart
  <2>2. item \in Autostarts
    BY ScanAssumption
  <2> QED
    BY <1>0, <2>1, <2>2 DEF Rescan, HostOK, PidsDistinct, MoreEvidence, HostObservations
<1>3. CASE ResolveDomain
  <2>1. PICK d \in Domains : Rescan([host EXCEPT !.dns = @ \cup {d}])
    BY <1>3, ScanAssumption DEF ResolveDomain
  <2> QED
    BY <1>0, <2>1 DEF Rescan, HostOK, PidsDistinct, MoreEvidence, HostObservations
<1>4. CASE BurnCpu
  <2>1. PICK p \in host.processes, level \in CpuLevels :
          /\ level[1] >= p.cpu /\ level[2] >= p.sustained
          /\ Rescan(Replace(p, [p EXCEPT !.cpu = level[1], !.sustained = level[2]]))
    BY <1>4 DEF BurnCpu
  <2>2. level[1] \in Nat /\ level[2] \in Nat
    BY ScanAssumption
  <2>3. /\ [p EXCEPT !.cpu = level[1], !.sustained = level[2]] \in Processes
        /\ MoreAgainst(p, [p EXCEPT !.cpu = level[1], !.sustained = level[2]])
    <3> DEFINE cpu == level[1]
               seconds == level[2]
    <3>1. cpu \in Nat /\ seconds \in Nat /\ p.cpu <= cpu /\ p.sustained <= seconds
      BY <2>1, <2>2, ProcessFields DEF HostOK
    <3> HIDE DEF cpu, seconds
    <3>2. [p EXCEPT !.cpu = cpu, !.sustained = seconds] \in Processes
      <4>1. [p EXCEPT !.cpu = cpu] \in Processes
        BY <3>1, ProcessFields DEF HostOK, Processes
      <4> QED
        BY <3>1, <4>1 DEF Processes
    <3>3. MoreAgainst(p, [p EXCEPT !.cpu = cpu, !.sustained = seconds])
      BY <3>1, ProcessFields DEF HostOK, MoreAgainst
    <3> QED
      BY <3>2, <3>3 DEF cpu, seconds
  <2> QED
    BY <2>1, <2>3, ReplaceAdds DEF Rescan, HostOK, PidsDistinct
<1>5. CASE LoadGpu
  <2>1. PICK p \in host.processes :
          p.gpu < SustainedGpu /\ Rescan(Replace(p, [p EXCEPT !.gpu = SustainedGpu]))
    BY <1>5 DEF LoadGpu
  <2>2. /\ [p EXCEPT !.gpu = SustainedGpu] \in Processes
        /\ MoreAgainst(p, [p EXCEPT !.gpu = SustainedGpu])
    BY <2>1, ProcessFields, ThresholdsAssumption DEF HostOK, Processes, MoreAgainst
  <2> QED
    BY <2>1, <2>2, ReplaceAdds DEF Rescan, HostOK, PidsDistinct
<1> QED
  BY <1>1, <1>2, <1>3, <1>4, <1>5 DEF Next

\* The host on record stays a host.
LEMMA HostIsInvariant == Spec => []HostOK
<1>1. Init => HostOK
  BY ScanAssumption, PidsAssumption DEF Init, HostOK, PidsDistinct
<1>2. HostOK /\ [Next]_vars => HostOK'
  BY StepAdds DEF vars, HostOK, PidsDistinct
<1> QED
  BY <1>1, <1>2, PTL DEF Spec

\* Every finding of every scan has a score from 0 to 100, a severity of the
\* scale, signals of the rule table and a reason for being withheld.
THEOREM ScanTypes == Spec => []TypeOK
<1>1. HostOK /\ Scanned => TypeOK
  BY HostWellFormed DEF HostOK, Scanned, TypeOK, Listings, Held
<1> QED
  BY <1>1, HostIsInvariant, ScannedIsInvariant, PTL

-----------------------------------------------------------------------------
(* More evidence, no lower score.                                          *)

\* The kinds that lower a score.
Mitigations == {"allowlisted_workload", "trusted_system_path"}

\* T weighs at least what S weighs: it has every positive kind of S, where a
\* sustained load stands in for an elevated one, and no further mitigation.
Outweighs(T, S) ==
  /\ S \subseteq Kinds /\ T \subseteq Kinds
  /\ \A k \in S : k \notin Mitigations \cup {"elevated_cpu"} => k \in T
  /\ "elevated_cpu" \in S => "elevated_cpu" \in T \/ "sustained_cpu" \in T
  /\ "elevated_cpu" \in S => "sustained_cpu" \notin S
  /\ \A k \in T : k \in Mitigations => k \in S

\* It has at least the points.
LEMMA OutweighsRaw ==
  ASSUME NEW S, NEW T, Outweighs(T, S)
  PROVE  Raw(S) <= Raw(T)
<1>1. \A k \in Kinds : PointsOf(k, S) \in Int /\ PointsOf(k, T) \in Int
  BY PointsOfIsInt
<1>2. \A k \in Kinds \ {"sustained_cpu", "elevated_cpu"} : PointsOf(k, S) <= PointsOf(k, T)
  <2>1. \A k \in Kinds : /\ k \in Mitigations => RULE_POINTS[k] < 0
                         /\ k \notin Mitigations => RULE_POINTS[k] > 0
                         /\ RULE_POINTS[k] \in Int
    BY DEF Kinds, RULE_POINTS, Mitigations
  <2> QED
    BY <2>1 DEF PointsOf, Outweighs
<1>3. PointsOf("sustained_cpu", S) + PointsOf("elevated_cpu", S)
        <= PointsOf("sustained_cpu", T) + PointsOf("elevated_cpu", T)
  <2>1. RULE_POINTS["sustained_cpu"] = 20 /\ RULE_POINTS["elevated_cpu"] = 10
    BY DEF RULE_POINTS
  <2>2. "sustained_cpu" \in S => "sustained_cpu" \in T
    BY DEF Outweighs, Mitigations
  <2> QED
    BY <2>1, <2>2 DEF PointsOf, Outweighs
<1>4. ResourcePoints(S) \in Int /\ ResourcePoints(T) \in Int /\ ResourcePoints(S) <= ResourcePoints(T)
  BY <1>1, <1>2, <1>3, KindsAre DEF ResourcePoints
<1>5. IdentityPoints(S) \in Int /\ IdentityPoints(T) \in Int /\ IdentityPoints(S) <= IdentityPoints(T)
  BY <1>1, <1>2, KindsAre DEF IdentityPoints
<1>6. NetworkPoints(S) \in Int /\ NetworkPoints(T) \in Int /\ NetworkPoints(S) <= NetworkPoints(T)
  BY <1>1, <1>2, KindsAre DEF NetworkPoints
<1>7. OtherPoints(S) \in Int /\ OtherPoints(T) \in Int /\ OtherPoints(S) <= OtherPoints(T)
  BY <1>1, <1>2, KindsAre DEF OtherPoints
<1>8. MitigationPoints(S) \in Int /\ MitigationPoints(T) \in Int /\ MitigationPoints(S) <= MitigationPoints(T)
  BY <1>1, <1>2, KindsAre DEF MitigationPoints
<1> QED
  BY <1>4, <1>5, <1>6, <1>7, <1>8 DEF Raw

\* It is corroborated if the other is, so its score is no lower.
LEMMA OutweighsScore ==
  ASSUME NEW S, NEW T, Outweighs(T, S)
  PROVE  Score(S) <= Score(T)
<1>1. Raw(S) \in Int /\ Raw(T) \in Int /\ Raw(S) <= Raw(T)
  BY RawIsInt, OutweighsRaw
<1>2. Corroborated(S) => Corroborated(T)
  <2> SUFFICES ASSUME NEW k \in Positive(S), CategoryOf(k) \in CORROBORATING_CATEGORIES
               PROVE  k \in Positive(T)
    BY DEF Corroborated
  <2>1. k \in S /\ k \in Kinds /\ RULE_POINTS[k] > 0
    BY DEF Positive, Outweighs
  <2>2. k # "elevated_cpu"
    BY DEF CategoryOf, CORROBORATING_CATEGORIES
  <2>3. k \notin Mitigations
    BY <2>1 DEF RULE_POINTS, Mitigations
  <2> QED
    BY <2>1, <2>2, <2>3 DEF Positive, Outweighs
<1> QED
  BY <1>1, <1>2 DEF Score, Capped, Clamp, UNCORROBORATED_CEILING

\* The rules that read only who a process is answer the same.
LEMMA SameIdentity ==
  ASSUME NEW p, NEW q, MoreAgainst(p, q)
  PROVE  /\ IdentitySignals(q) = IdentitySignals(p)
         /\ CommandLineSignals(q) = CommandLineSignals(p)
         /\ BrowserContext(q) = BrowserContext(p)
         /\ Subject(q) = Subject(p) /\ OfProcess(q) = OfProcess(p)
         /\ \A item : PersistenceLinksTo(q, item) = PersistenceLinksTo(p, item)
<1>1. q.name = p.name /\ q.path = p.path /\ q.mining = p.mining /\ q.renderer = p.renderer
      /\ q.pid = p.pid
  BY DEF MoreAgainst
<1>2. IdentitySignals(q) = IdentitySignals(p)
  BY <1>1, Zenon DEF IdentitySignals
<1>3. CommandLineSignals(q) = CommandLineSignals(p)
  BY <1>1, Zenon DEF CommandLineSignals
<1>4. BrowserContext(q) = BrowserContext(p)
  BY <1>1, Zenon DEF BrowserContext
<1>5. Subject(q) = Subject(p) /\ OfProcess(q) = OfProcess(p)
  BY <1>1, Zenon DEF Subject, OfProcess
<1>6. \A item : PersistenceLinksTo(q, item) = PersistenceLinksTo(p, item)
  BY <1>1, Zenon DEF PersistenceLinksTo
<1> QED
  BY <1>2, <1>3, <1>4, <1>5, <1>6

\* A process is judged on at least the connections it was judged on before.
LEMMA MoreConnections ==
  ASSUME NEW h, NEW g, MoreEvidence(h, g), NEW p, NEW q, MoreAgainst(p, q)
  PROVE  ConnectionsOf(p, h) \subseteq ConnectionsOf(q, g)
<1>1. BrowserConnectionPool(h) \subseteq BrowserConnectionPool(g)
  <2> SUFFICES ASSUME NEW c \in BrowserConnectionPool(h)
               PROVE  c \in BrowserConnectionPool(g)
    OBVIOUS
  <2>1. PICK r \in h.processes : is_browser(r.name) /\ c \in r.connections
    BY DEF BrowserConnectionPool
  <2>2. PICK t \in g.processes : MoreAgainst(r, t)
    BY DEF MoreEvidence
  <2>3. t.name = r.name /\ c \in t.connections
    BY <2>1, <2>2 DEF MoreAgainst
  <2> QED
    BY <2>1, <2>3 DEF BrowserConnectionPool
<1> QED
  BY <1>1, SameIdentity DEF ConnectionsOf, MoreAgainst

\* The network rules only fire more with more connections.
LEMMA MoreNetwork ==
  ASSUME NEW A, NEW B, A \subseteq B, NEW context
  PROVE  NetworkSignals(A, context) \subseteq NetworkSignals(B, context)
BY DEF NetworkSignals, Fires

\* The CPU rules hand over to each other without a gap.
LEMMA MoreResource ==
  ASSUME NEW p \in Processes, NEW q \in Processes, MoreAgainst(p, q)
  PROVE  Outweighs(ResourceSignals(q), ResourceSignals(p))
<1>1. /\ p.cpu \in Nat /\ p.sustained \in Nat /\ p.gpu \in Nat
      /\ q.cpu \in Nat /\ q.sustained \in Nat /\ q.gpu \in Nat
      /\ p.cpu <= q.cpu /\ p.sustained <= q.sustained /\ p.gpu <= q.gpu
  BY DEF Processes, MoreAgainst
<1>2. SustainedCpu \in Nat /\ SustainedSeconds \in Nat /\ ElevatedCpu \in Nat /\ SustainedGpu \in Nat
  BY ThresholdsAssumption
<1> DEFINE long(r) == r.cpu >= SustainedCpu /\ r.sustained >= SustainedSeconds
           high(r) == r.cpu >= ElevatedCpu /\ 2 * r.sustained >= SustainedSeconds
<1>3. \A r : /\ "sustained_cpu" \in ResourceSignals(r) <=> long(r)
             /\ "elevated_cpu" \in ResourceSignals(r) <=> ~long(r) /\ high(r)
             /\ "sustained_gpu" \in ResourceSignals(r) <=> r.gpu >= SustainedGpu
             /\ ResourceSignals(r) \subseteq {"sustained_cpu", "elevated_cpu", "sustained_gpu"}
  <2> TAKE r
  <2> DEFINE busy == r.gpu >= SustainedGpu
  <2>1. ResourceSignals(r) = Fires(long(r), "sustained_cpu")
                               \cup Fires(~long(r) /\ high(r), "elevated_cpu")
                               \cup Fires(busy, "sustained_gpu")
    BY Zenon DEF ResourceSignals
  <2> HIDE DEF long, high, busy
  <2> QED
    BY <2>1 DEF Fires, busy
<1>4. {"sustained_cpu", "elevated_cpu", "sustained_gpu"} \cap Mitigations = {}
  BY DEF Mitigations
<1>5. {"sustained_cpu", "elevated_cpu", "sustained_gpu"} \subseteq Kinds
  BY KindsAre
<1>6. "sustained_cpu" \in ResourceSignals(p) => "sustained_cpu" \in ResourceSignals(q)
  BY <1>1, <1>2, <1>3
<1>7. "sustained_gpu" \in ResourceSignals(p) => "sustained_gpu" \in ResourceSignals(q)
  BY <1>1, <1>2, <1>3
<1>8. "elevated_cpu" \in ResourceSignals(p) =>
        "elevated_cpu" \in ResourceSignals(q) \/ "sustained_cpu" \in ResourceSignals(q)
  <2>1. p.cpu >= ElevatedCpu => q.cpu >= ElevatedCpu
    BY <1>1, <1>2
  <2>2. 2 * p.sustained >= SustainedSeconds => 2 * q.sustained >= SustainedSeconds
    BY <1>1, <1>2
  <2> QED
    BY <1>3, <2>1, <2>2
<1>9. "elevated_cpu" \in ResourceSignals(p) => "sustained_cpu" \notin ResourceSignals(p)
  BY <1>3
<1> QED
  BY <1>3, <1>4, <1>5, <1>6, <1>7, <1>8, <1>9 DEF Outweighs

\* The kinds the CPU rules hand over to each other.
CpuKinds == {"sustained_cpu", "elevated_cpu"}

\* Only the identity rules emit a mitigation, and only the resource rules
\* a CPU kind.
LEMMA WhoEmits ==
  ASSUME NEW p, NEW persistence, NEW conns, NEW context
  PROVE  /\ ResourceSignals(p) \cap Mitigations = {}
         /\ IdentitySignals(p) \cap CpuKinds = {}
         /\ CommandLineSignals(p) \cap (CpuKinds \cup Mitigations) = {}
         /\ PersistenceSignals(p, persistence) \cap (CpuKinds \cup Mitigations) = {}
         /\ NetworkSignals(conns, context) \cap (CpuKinds \cup Mitigations) = {}
<1>1. ResourceSignals(p) \cap Mitigations = {}
  BY DEF ResourceSignals, Fires, Mitigations
<1>2. IdentitySignals(p) \cap CpuKinds = {}
  BY DEF IdentitySignals, Fires, CpuKinds
<1>3. CommandLineSignals(p) \cap (CpuKinds \cup Mitigations) = {}
  BY DEF CommandLineSignals, Fires, Mitigations, CpuKinds
<1>4. PersistenceSignals(p, persistence) \cap (CpuKinds \cup Mitigations) = {}
  BY DEF PersistenceSignals, Fires, Mitigations, CpuKinds
<1>5. NetworkSignals(conns, context) \cap (CpuKinds \cup Mitigations) = {}
  BY DEF NetworkSignals, Fires, Mitigations, CpuKinds
<1> QED
  BY <1>1, <1>2, <1>3, <1>4, <1>5

\* What the rule groups gather about a process.
Gathered(p, h) ==
  ResourceSignals(p) \cup IdentitySignals(p) \cup CommandLineSignals(p)
    \cup PersistenceSignals(p, h.persistence)
    \cup NetworkSignals(ConnectionsOf(p, h), BrowserContext(p))

\* It weighs no less with more evidence.
LEMMA MoreGathered ==
  ASSUME NEW h, NEW g, MoreEvidence(h, g),
         NEW p \in Processes, NEW q \in Processes, MoreAgainst(p, q)
  PROVE  Outweighs(Gathered(q, g), Gathered(p, h))
<1> DEFINE rp == ResourceSignals(p)  rq == ResourceSignals(q)
           identity == IdentitySignals(p)
           command == CommandLineSignals(p)
           pp == PersistenceSignals(p, h.persistence)
           pq == PersistenceSignals(q, g.persistence)
           np == NetworkSignals(ConnectionsOf(p, h), BrowserContext(p))
           nq == NetworkSignals(ConnectionsOf(q, g), BrowserContext(q))
<1>1. IdentitySignals(q) = identity /\ CommandLineSignals(q) = command
      /\ BrowserContext(q) = BrowserContext(p)
  BY SameIdentity
<1>2. Outweighs(rq, rp)
  BY MoreResource
<1>3. pp \subseteq pq
  BY SameIdentity DEF PersistenceSignals, Fires, MoreEvidence
<1>4. np \subseteq nq
  BY <1>1, MoreNetwork, MoreConnections
<1>5. identity \subseteq Kinds /\ command \subseteq Kinds /\ pq \subseteq Kinds /\ nq \subseteq Kinds
  <2>1. identity \subseteq Kinds
    BY KindsAre DEF IdentitySignals, Fires
  <2>2. command \subseteq Kinds
    BY KindsAre DEF CommandLineSignals, Fires
  <2>3. pq \subseteq Kinds
    BY KindsAre DEF PersistenceSignals, Fires
  <2>4. nq \subseteq Kinds
    BY KindsAre DEF NetworkSignals, Fires
  <2> QED
    BY <2>1, <2>2, <2>3, <2>4
<1>6. rq \cap Mitigations = {} /\ identity \cap CpuKinds = {}
  BY WhoEmits
<1>7. command \cap (CpuKinds \cup Mitigations) = {}
  BY WhoEmits
<1>8. pq \cap (CpuKinds \cup Mitigations) = {}
  BY WhoEmits
<1>9. nq \cap (CpuKinds \cup Mitigations) = {}
  BY WhoEmits
<1>10. /\ Gathered(p, h) = rp \cup identity \cup command \cup pp \cup np
       /\ Gathered(q, g) = rq \cup identity \cup command \cup pq \cup nq
  BY <1>1 DEF Gathered
<1> HIDE DEF rp, rq, identity, command, pp, pq, np, nq
<1> QED
  BY <1>2, <1>3, <1>4, <1>5, <1>6, <1>7, <1>8, <1>9, <1>10 DEF Outweighs, CpuKinds

\* The signals of a process are what was gathered, but for the browser rules.
LEMMA ProcessSignalsAre ==
  ASSUME NEW p, NEW h
  PROVE  ProcessSignals(p, h) =
           IF Cryptojacked(p, h)
             THEN (Gathered(p, h) \cup {"browser_cryptojacking"}) \ {"trusted_system_path"}
             ELSE IF BrowserContext(p) THEN Gathered(p, h) \ {"masquerading_name"}
                                       ELSE Gathered(p, h)
BY Zenon DEF ProcessSignals, Gathered

\* A cryptojacked renderer stays one.
LEMMA StillCryptojacked ==
  ASSUME NEW h, NEW g, MoreEvidence(h, g),
         NEW p \in Processes, NEW q \in Processes, MoreAgainst(p, q), Cryptojacked(p, h)
  PROVE  Cryptojacked(q, g)
<1>1. BrowserContext(q)
  BY SameIdentity DEF Cryptojacked
<1>2. RendererBusy(q)
  BY ThresholdsAssumption DEF Cryptojacked, RendererBusy, Processes, MoreAgainst
<1>3. \E c \in ConnectionsOf(q, g) :
        match_cryptojacking_domain(c.domain) \/ looks_like_dga(c.domain)
  BY MoreConnections DEF Cryptojacked
<1> QED
  BY <1>1, <1>2, <1>3 DEF Cryptojacked

\* So the signals of a process weigh no less.
LEMMA MoreSignals ==
  ASSUME NEW h, NEW g, MoreEvidence(h, g),
         NEW p \in Processes, NEW q \in Processes, MoreAgainst(p, q)
  PROVE  Outweighs(ProcessSignals(q, g), ProcessSignals(p, h))
<1> DEFINE A == Gathered(p, h)
           B == Gathered(q, g)
<1>1. Outweighs(B, A)
  BY MoreGathered
<1>2. BrowserContext(q) = BrowserContext(p)
  BY SameIdentity
<1>3. /\ "browser_cryptojacking" \in Kinds
      /\ "browser_cryptojacking" \notin Mitigations \cup {"elevated_cpu"}
      /\ "trusted_system_path" \in Mitigations /\ "trusted_system_path" # "browser_cryptojacking"
      /\ "trusted_system_path" \notin {"elevated_cpu", "sustained_cpu"}
      /\ "masquerading_name" \notin Mitigations \cup {"elevated_cpu", "sustained_cpu"}
      /\ "sustained_cpu" # "browser_cryptojacking"
  BY KindsAre DEF Mitigations
<1>4. ProcessSignals(p, h) =
           IF Cryptojacked(p, h) THEN (A \cup {"browser_cryptojacking"}) \ {"trusted_system_path"}
             ELSE IF BrowserContext(p) THEN A \ {"masquerading_name"} ELSE A
  BY ProcessSignalsAre
<1>5. ProcessSignals(q, g) =
           IF Cryptojacked(q, g) THEN (B \cup {"browser_cryptojacking"}) \ {"trusted_system_path"}
             ELSE IF BrowserContext(p) THEN B \ {"masquerading_name"} ELSE B
  BY <1>2, ProcessSignalsAre
<1> HIDE DEF A, B
<1>6. CASE Cryptojacked(p, h)
  <2>1. Cryptojacked(q, g)
    BY <1>6, StillCryptojacked
  <2> QED
    BY <1>1, <1>3, <1>4, <1>5, <1>6, <2>1 DEF Outweighs
<1>7. CASE ~Cryptojacked(p, h) /\ Cryptojacked(q, g)
  BY <1>1, <1>3, <1>4, <1>5, <1>7 DEF Outweighs
<1>8. CASE ~Cryptojacked(p, h) /\ ~Cryptojacked(q, g)
  BY <1>1, <1>3, <1>4, <1>5, <1>8 DEF Outweighs
<1> QED
  BY <1>6, <1>7, <1>8

\* The score of a process and the kinds it comes from.
LEMMA ProcessScore ==
  ASSUME NEW p, NEW h
  PROVE  /\ EvaluateProcess(p, h).signals =
              IF is_system_pseudo_process(p.name) THEN {} ELSE ProcessSignals(p, h)
         /\ EvaluateProcess(p, h).score = Score(EvaluateProcess(p, h).signals)
         /\ EvaluateProcess(p, h).of = OfProcess(p)
<1>1. CASE is_system_pseudo_process(p.name)
  <2>1. EvaluateProcess(p, h) = Finalize({}, "process_mining", Subject(p), OfProcess(p))
    BY <1>1 DEF EvaluateProcess
  <2> QED
    BY <1>1, <2>1 DEF Finalize
<1>2. CASE ~is_system_pseudo_process(p.name)
  <2> DEFINE type == IF Cryptojacked(p, h) THEN "browser_cryptojacking" ELSE "process_mining"
  <2>1. EvaluateProcess(p, h) = Finalize(ProcessSignals(p, h), type, Subject(p), OfProcess(p))
    BY <1>2 DEF EvaluateProcess
  <2> HIDE DEF type
  <2> QED
    BY <1>2, <2>1 DEF Finalize
<1> QED
  BY <1>1, <1>2

\* With the DNS evidence, which counts only for a process that scores.
LEMMA DnsScore ==
  ASSUME NEW p, NEW h
  PROVE  /\ WithDns(p, h).signals =
              IF DnsSignals(h.dns) # {} /\ EvaluateProcess(p, h).score > 0
                THEN EvaluateProcess(p, h).signals \cup DnsSignals(h.dns)
                ELSE EvaluateProcess(p, h).signals
         /\ WithDns(p, h).score = Score(WithDns(p, h).signals)
         /\ WithDns(p, h).withheld = WithheldReason(WithDns(p, h).signals)
         /\ WithDns(p, h).of = OfProcess(p)
<1> DEFINE own == EvaluateProcess(p, h)
<1>1. own.score = Score(own.signals) /\ own.of = OfProcess(p)
  BY ProcessScore
<1>2. own.withheld = WithheldReason(own.signals)
  <2>1. PICK S, type, subject, of : own = Finalize(S, type, subject, of)
    BY ProcessFinding DEF IsFinding
  <2> QED
    BY <2>1 DEF Finalize
<1> HIDE DEF own
<1>3. WithDns(p, h) =
        IF DnsSignals(h.dns) # {} /\ own.score > 0
          THEN Finalize(own.signals \cup DnsSignals(h.dns), own.type, Subject(p), OfProcess(p))
          ELSE own
  BY DEF WithDns, own
<1>4. CASE DnsSignals(h.dns) # {} /\ own.score > 0
  BY <1>3, <1>4 DEF Finalize, own
<1>5. CASE ~(DnsSignals(h.dns) # {} /\ own.score > 0)
  BY <1>1, <1>2, <1>3, <1>5 DEF own
<1> QED
  BY <1>4, <1>5

\* A process with more against it scores no less on its own...
LEMMA MoreOwnScore ==
  ASSUME NEW h, NEW g, MoreEvidence(h, g),
         NEW p \in Processes, NEW q \in Processes, MoreAgainst(p, q)
  PROVE  /\ Outweighs(EvaluateProcess(q, g).signals, EvaluateProcess(p, h).signals)
         /\ EvaluateProcess(p, h).score <= EvaluateProcess(q, g).score
<1>1. q.name = p.name
  BY DEF MoreAgainst
<1>2. Outweighs({}, {})
  BY DEF Outweighs
<1>3. Outweighs(EvaluateProcess(q, g).signals, EvaluateProcess(p, h).signals)
  BY <1>1, <1>2, MoreSignals, ProcessScore
<1> QED
  BY <1>3, OutweighsScore, ProcessScore

\* ... and with the DNS evidence of its host.
LEMMA MoreScore ==
  ASSUME NEW h, NEW g, MoreEvidence(h, g),
         NEW p \in Processes, NEW q \in Processes, MoreAgainst(p, q)
  PROVE  WithDns(p, h).score <= WithDns(q, g).score
<1> DEFINE S == EvaluateProcess(p, h).signals
           T == EvaluateProcess(q, g).signals
           dh == DnsSignals(h.dns)
           dg == DnsSignals(g.dns)
<1>1. Outweighs(T, S) /\ EvaluateProcess(p, h).score <= EvaluateProcess(q, g).score
  BY MoreOwnScore
<1>2. EvaluateProcess(p, h).score = Score(S) /\ EvaluateProcess(q, g).score = Score(T)
  BY ProcessScore
<1>3. Score(S) \in 0..100 /\ Score(T) \in 0..100
  BY ScoreRange
<1>4. dh \subseteq dg /\ dg \subseteq {"suspicious_dns"}
  BY DEF DnsSignals, Fires, MoreEvidence
<1>5. /\ WithDns(p, h).score = Score(IF dh # {} /\ Score(S) > 0 THEN S \cup dh ELSE S)
      /\ WithDns(q, g).score = Score(IF dg # {} /\ Score(T) > 0 THEN T \cup dg ELSE T)
  BY <1>2, DnsScore
<1>6. /\ "suspicious_dns" \in Kinds
      /\ "suspicious_dns" \notin Mitigations \cup {"elevated_cpu", "sustained_cpu"}
  BY KindsAre DEF Mitigations
<1> HIDE DEF S, T, dh, dg
<1>7. Outweighs(T \cup dg, S \cup dh) /\ Outweighs(T \cup dg, S)
  BY <1>1, <1>4, <1>6 DEF Outweighs
<1>8. Outweighs(IF dg # {} /\ Score(T) > 0 THEN T \cup dg ELSE T,
                IF dh # {} /\ Score(S) > 0 THEN S \cup dh ELSE S)
  BY <1>1, <1>2, <1>3, <1>4, <1>7
<1> QED
  BY <1>5, <1>8, OutweighsScore

\* The finding on record of a process is the one it was assessed with.
LEMMA ScoreOfProcess ==
  ASSUME NEW h, PidsDistinct(h), NEW p \in h.processes
  PROVE  ScoreOf(EvaluateHost(h), p.pid) = WithDns(p, h).score
<1> DEFINE is(a) == a.of = [pid |-> p.pid, entry |-> {}]
<1>1. WithDns(p, h) \in EvaluateHost(h) /\ is(WithDns(p, h))
  BY DnsScore DEF EvaluateHost, OfProcess
<1>2. ASSUME NEW a \in EvaluateHost(h), is(a)
      PROVE  a = WithDns(p, h)
  <2>1. CASE a \in {WithDns(r, h) : r \in h.processes}
    <3>1. PICK r \in h.processes : a = WithDns(r, h)
      BY <2>1
    <3>2. a.of = [pid |-> r.pid, entry |-> {}]
      BY <3>1, DnsScore DEF OfProcess
    <3>3. a.of.pid = r.pid /\ a.of.pid = p.pid
      BY <1>2, <3>2
    <3> QED
      BY <3>1, <3>3 DEF PidsDistinct
  <2>2. CASE a \in EvaluatePersistenceOnly(h)
    <3>1. PICK item : a = Finalize(AutostartSignals(item), "persistence_mining",
                                   <<"name", item.name>>, OfEntry(item))
      BY <2>2, Zenon DEF EvaluatePersistenceOnly
    <3>2. a.of.entry = {item}
      BY <3>1 DEF Finalize, OfEntry
    <3> QED
      BY <1>2, <3>2
  <2> QED
    BY <2>1, <2>2 DEF EvaluateHost
<1>3. (CHOOSE a \in EvaluateHost(h) : is(a)) = WithDns(p, h)
  <2> HIDE DEF is
  <2> QED
    BY <1>1, <1>2
<1> QED
  BY <1>3 DEF ScoreOf

\* rules.py, property 1, for a whole host: more evidence never lowers the
\* score of a process.  A connection may change what the browser rules make
\* of the process, a load may move it from one resource rule to another, a
\* DNS name counts only for some processes; none of it takes points away.
THEOREM EvidenceRaisesScores == Spec => EvidenceOnlyRaises
<1>1. HostOK /\ Scanned /\ [Next]_vars =>
        [\A p \in host.processes : ScoreOf(found', p.pid) >= ScoreOf(found, p.pid)]_vars
  <2> SUFFICES ASSUME HostOK, Scanned, Next, NEW p \in host.processes
               PROVE  ScoreOf(found', p.pid) >= ScoreOf(found, p.pid)
    OBVIOUS
  <2>1. HostOK' /\ MoreEvidence(host, host') /\ found' = EvaluateHost(host')
    BY StepAdds
  <2>2. PICK q \in host'.processes : MoreAgainst(p, q)
    BY <2>1 DEF MoreEvidence
  <2>3. p \in Processes /\ q \in Processes
    BY <2>1, ProcessFields DEF HostOK
  <2>4. WithDns(p, host).score <= WithDns(q, host').score
    BY <2>1, <2>2, <2>3, MoreScore
  <2>5. ScoreOf(found, p.pid) = WithDns(p, host).score
    BY ScoreOfProcess DEF HostOK, Scanned
  <2>6. ScoreOf(found', q.pid) = WithDns(q, host').score
    <3>1. PidsDistinct(host')
      BY <2>1 DEF HostOK, PidsDistinct
    <3> QED
      BY <2>1, <3>1, ScoreOfProcess
  <2>7. q.pid = p.pid
    BY <2>2 DEF MoreAgainst
  <2>8. WithDns(p, host).score \in Int /\ WithDns(q, host').score \in Int
    <3>1. /\ WithDns(p, host).score \in 0..100
          /\ WithDns(q, host').score \in 0..100
      <4>1. \A r, h : WithDns(r, h).score = Score(WithDns(r, h).signals)
        BY DnsScore
      <4>2. \A S : Score(S) \in 0..100
        BY ScoreRange
      <4> QED
        BY <4>1, <4>2, Zenon
    <3> QED
      BY <3>1
  <2> QED
    BY <2>4, <2>5, <2>6, <2>7, <2>8
<1> QED
  BY <1>1, HostIsInvariant, ScannedIsInvariant, PTL DEF Spec, EvidenceOnlyRaises

-----------------------------------------------------------------------------
(* What DNS names and resource pressure can do.                            *)

\* The name of a bad domain is worth ten points, and nothing under a capped
\* score.
LEMMA DnsAddsTen ==
  ASSUME NEW S, S \subseteq Kinds, NEW D \in SUBSET {"suspicious_dns"},
         Score(S) > 0, Score(S \cup D) >= ALERT_THRESHOLD
  PROVE  /\ Score(S) >= ALERT_THRESHOLD - RULE_POINTS["suspicious_dns"]
         /\ Positive(S) # {}
<1>1. Raw(S) \in Int /\ Raw(S \cup D) \in Int
  BY RawIsInt
<1>2. RULE_POINTS["suspicious_dns"] = 10
  BY DEF RULE_POINTS
<1>3. Raw(S \cup D) <= Raw(S) + 10
  <2>1. \A k \in Kinds : PointsOf(k, S) \in Int /\ PointsOf(k, S \cup D) \in Int
    BY PointsOfIsInt
  <2>2. \A k : k # "suspicious_dns" => PointsOf(k, S \cup D) = PointsOf(k, S)
    BY DEF PointsOf
  <2>3. PointsOf("suspicious_dns", S \cup D) <= PointsOf("suspicious_dns", S) + 10
    BY <1>2 DEF PointsOf
  <2>4. ResourcePoints(S \cup D) = ResourcePoints(S) /\ ResourcePoints(S) \in Int
    <3>1. ResourcePoints(S \cup D) = ResourcePoints(S)
      BY <2>2 DEF ResourcePoints
    <3>2. ResourcePoints(S) \in Int
      BY <2>1, KindsAre DEF ResourcePoints
    <3> QED
      BY <3>1, <3>2
  <2>5. IdentityPoints(S \cup D) = IdentityPoints(S) /\ IdentityPoints(S) \in Int
    <3>1. IdentityPoints(S \cup D) = IdentityPoints(S)
      BY <2>2 DEF IdentityPoints
    <3>2. IdentityPoints(S) \in Int
      BY <2>1, KindsAre DEF IdentityPoints
    <3> QED
      BY <3>1, <3>2
  <2>6. NetworkPoints(S \cup D) = NetworkPoints(S) /\ NetworkPoints(S) \in Int
    <3>1. NetworkPoints(S \cup D) = NetworkPoints(S)
      BY <2>2 DEF NetworkPoints
    <3>2. NetworkPoints(S) \in Int
      BY <2>1, KindsAre DEF NetworkPoints
    <3> QED
      BY <3>1, <3>2
  <2>7. /\ OtherPoints(S \cup D) \in Int /\ OtherPoints(S) \in Int
        /\ OtherPoints(S \cup D) <= OtherPoints(S) + 10
    <3>1. /\ PointsOf("suspicious_persistence", S \cup D) = PointsOf("suspicious_persistence", S)
          /\ PointsOf("unusual_command_line", S \cup D) = PointsOf("unusual_command_line", S)
          /\ PointsOf("browser_cryptojacking", S \cup D) = PointsOf("browser_cryptojacking", S)
      BY <2>2
    <3> QED
      BY <2>1, <2>3, <3>1, KindsAre DEF OtherPoints
  <2>8. MitigationPoints(S \cup D) = MitigationPoints(S) /\ MitigationPoints(S) \in Int
    <3>1. MitigationPoints(S \cup D) = MitigationPoints(S)
      BY <2>2 DEF MitigationPoints
    <3>2. MitigationPoints(S) \in Int
      BY <2>1, KindsAre DEF MitigationPoints
    <3> QED
      BY <3>1, <3>2
  <2> QED
    BY <2>4, <2>5, <2>6, <2>7, <2>8 DEF Raw
<1>4. Score(S) >= ALERT_THRESHOLD - 10
  BY <1>1, <1>3 DEF Score, Capped, Clamp, UNCORROBORATED_CEILING, ALERT_THRESHOLD
<1>5. Positive(S) # {}
  <2> SUFFICES ASSUME Positive(S) = {}
               PROVE  Raw(S) <= 0
    <3>1. Score(S) > 0 => Raw(S) > 0
      BY <1>1 DEF Score, Capped, Clamp, UNCORROBORATED_CEILING
    <3> QED
      BY <1>1, <3>1
  <2>1. \A k \in Kinds : PointsOf(k, S) \in Int /\ PointsOf(k, S) <= 0
    BY PointsAreInts DEF PointsOf, Positive
  <2>2. ResourcePoints(S) \in Int /\ ResourcePoints(S) <= 0
    BY <2>1, KindsAre DEF ResourcePoints
  <2>3. IdentityPoints(S) \in Int /\ IdentityPoints(S) <= 0
    BY <2>1, KindsAre DEF IdentityPoints
  <2>4. NetworkPoints(S) \in Int /\ NetworkPoints(S) <= 0
    BY <2>1, KindsAre DEF NetworkPoints
  <2>5. OtherPoints(S) \in Int /\ OtherPoints(S) <= 0
    BY <2>1, KindsAre DEF OtherPoints
  <2>6. MitigationPoints(S) \in Int /\ MitigationPoints(S) <= 0
    BY <2>1, KindsAre DEF MitigationPoints
  <2> QED
    BY <2>2, <2>3, <2>4, <2>5, <2>6 DEF Raw
<1> QED
  BY <1>2, <1>4, <1>5

\* rules.py: host-wide DNS evidence reinforces a process that is already
\* suspicious.  A process reported on a host with bad names has at least
\* fifteen points of its own, for every host and every indicator set.
THEOREM DnsOnlyReinforces == Spec => []DnsNeverStandsAlone
<1>1. HostOK /\ Scanned => DnsNeverStandsAlone
  <2> SUFFICES ASSUME HostOK, Scanned, NEW p \in host.processes,
                      ScoreOf(found, p.pid) >= ALERT_THRESHOLD
               PROVE  LET own == EvaluateProcess(p, host)
                      IN  /\ own.score >= ALERT_THRESHOLD - RULE_POINTS["suspicious_dns"]
                          /\ Positive(own.signals) # {}
    BY DEF DnsNeverStandsAlone
  <2> DEFINE S == EvaluateProcess(p, host).signals
             D == DnsSignals(host.dns)
  <2>1. WithDns(p, host).score >= ALERT_THRESHOLD
    BY ScoreOfProcess DEF HostOK, Scanned
  <2>2. EvaluateProcess(p, host).score = Score(S)
    BY ProcessScore
  <2>3. WithDns(p, host).score = Score(IF D # {} /\ Score(S) > 0 THEN S \cup D ELSE S)
    BY <2>2, DnsScore
  <2>4. D \in SUBSET {"suspicious_dns"}
    BY DEF DnsSignals, Fires
  <2>5. S \subseteq Kinds
    BY ProcessWellFormed
  <2>6. Score(S) \in 0..100
    BY ScoreRange
  <2> HIDE DEF S, D
  <2>7. Score(S) > 0 /\ Score(S \cup D) >= ALERT_THRESHOLD
    <3>1. CASE D # {} /\ Score(S) > 0
      BY <2>1, <2>3, <3>1
    <3>2. CASE ~(D # {} /\ Score(S) > 0)
      <4>1. Score(S) >= ALERT_THRESHOLD
        BY <2>1, <2>3, <3>2
      <4>2. Score(S) > 0 /\ D = {}
        BY <2>6, <3>2, <4>1 DEF ALERT_THRESHOLD
      <4>3. S \cup D = S
        BY <4>2
      <4> QED
        BY <4>1, <4>2, <4>3
    <3> QED
      BY <3>1, <3>2
  <2>8. /\ Score(S) >= ALERT_THRESHOLD - RULE_POINTS["suspicious_dns"]
        /\ Positive(S) # {}
    BY <2>4, <2>5, <2>7, DnsAddsTen
  <2> QED
    BY <2>2, <2>8 DEF S
<1> QED
  BY <1>1, HostIsInvariant, ScannedIsInvariant, PTL

\* A process under resource pressure has a finding, and one that is not
\* alerted is held.
LEMMA PressureIsHeld ==
  ASSUME NEW h, NEW p \in h.processes, ResourceSignals(p) # {},
         ~is_system_pseudo_process(p.name)
  PROVE  /\ WithDns(p, h) \in EvaluateHost(h) /\ WithDns(p, h).of = OfProcess(p)
         /\ IsAlertable(WithDns(p, h)) \/ WithDns(p, h) \in Held(EvaluateHost(h))
<1> DEFINE a == WithDns(p, h)
           S == a.signals
<1>1. a \in EvaluateHost(h) /\ a.of = OfProcess(p)
  BY DnsScore DEF EvaluateHost
<1>2. a.score = Score(S) /\ a.withheld = WithheldReason(S)
  BY DnsScore
<1>3. ResourceSignals(p) \subseteq S
  <2>1. ResourceSignals(p) \subseteq Gathered(p, h)
    BY DEF Gathered
  <2>2. ResourceSignals(p) \cap {"trusted_system_path", "masquerading_name"} = {}
    BY DEF ResourceSignals, Fires
  <2>3. ResourceSignals(p) \subseteq ProcessSignals(p, h)
    BY <2>1, <2>2, ProcessSignalsAre
  <2>4. EvaluateProcess(p, h).signals = ProcessSignals(p, h)
    BY ProcessScore
  <2>5. EvaluateProcess(p, h).signals \subseteq S
    BY DnsScore
  <2> QED
    BY <2>3, <2>4, <2>5
<1>4. \E k \in Positive(S) : CategoryOf(k) = "resource"
  <2>1. PICK k \in ResourceSignals(p) : TRUE
    OBVIOUS
  <2>2. k \in {"sustained_cpu", "elevated_cpu", "sustained_gpu"}
    BY DEF ResourceSignals, Fires
  <2>3. RULE_POINTS[k] > 0 /\ CategoryOf(k) = "resource"
    BY <2>2 DEF RULE_POINTS, CategoryOf
  <2> QED
    BY <1>3, <2>3 DEF Positive
<1>5. Withheld(S) <=> Score(S) < ALERT_THRESHOLD
  BY <1>4 DEF Withheld
<1>6. WithheldReason(S) # "none" <=> Withheld(S)
  BY DEF WithheldReason
<1>7. Score(S) \in 0..100
  BY ScoreRange
<1> HIDE DEF a, S
<1>8. IsAlertable(a) \/ a.withheld # "none"
  BY <1>2, <1>5, <1>6, <1>7 DEF IsAlertable, ALERT_THRESHOLD
<1> QED
  BY <1>1, <1>8 DEF Held, a

\* A process under resource pressure is alerted or listed, or the list is full
\* of findings that score at least as high.
THEOREM PressureIsSurfaced == Spec => []NoSilentPressure
<1>1. Scanned => NoSilentPressure
  <2> SUFFICES ASSUME Scanned, NEW p \in host.processes, ResourceSignals(p) # {},
                      ~is_system_pseudo_process(p.name)
               PROVE  \E a \in found :
                        /\ a.of = OfProcess(p)
                        /\ \/ Surfaced(a)
                           \/ /\ Cardinality(suppressed) = ListLimit
                              /\ \A b \in suppressed : b.score >= a.score
    BY DEF NoSilentPressure
  <2>1. PICK a \in found : a.of = OfProcess(p) /\ (IsAlertable(a) \/ a \in Held(found))
    BY PressureIsHeld DEF Scanned
  <2>2. CASE Surfaced(a)
    BY <2>1, <2>2
  <2>3. CASE ~Surfaced(a)
    <3>1. a \in Held(found) /\ a \notin suppressed
      BY <2>1, <2>3 DEF Surfaced
    <3>2. suppressed \in Listings(found)
      BY DEF Scanned
    <3>3. Cardinality(suppressed) = ListLimit
      BY <3>1, <3>2 DEF Listings
    <3>4. \A b \in suppressed : b.score >= a.score
      BY <3>1, <3>2 DEF Listings
    <3> QED
      BY <2>1, <3>3, <3>4
  <2> QED
    BY <2>2, <2>3
<1> QED
  BY <1>1, ScannedIsInvariant, PTL

\* What the sentence on visible non-alerts needs: a host with no more withheld
\* findings than the answer lists.
ShortListIsComplete ==
  (IsFiniteSet(Held(found)) /\ Cardinality(Held(found)) <= ListLimit) =>
    \A p \in host.processes :
      (ResourceSignals(p) # {} /\ ~is_system_pseudo_process(p.name)) =>
        \E a \in found : a.of = OfProcess(p) /\ Surfaced(a)

\* service.py, suppressed[:10]: on a host with at most ten withheld findings
\* every process under resource pressure is alerted or listed.
THEOREM ShortListsHideNothing == Spec => []ShortListIsComplete
<1>1. Scanned => ShortListIsComplete
  <2> SUFFICES ASSUME Scanned, IsFiniteSet(Held(found)),
                      Cardinality(Held(found)) <= ListLimit,
                      NEW p \in host.processes, ResourceSignals(p) # {},
                      ~is_system_pseudo_process(p.name)
               PROVE  \E a \in found : a.of = OfProcess(p) /\ Surfaced(a)
    BY DEF ShortListIsComplete
  <2>1. PICK a \in found : a.of = OfProcess(p) /\ (IsAlertable(a) \/ a \in Held(found))
    BY PressureIsHeld DEF Scanned
  <2>2. suppressed \subseteq Held(found)
    BY DEF Scanned, Listings
  <2>3. suppressed = Held(found)
    <3>1. suppressed = Held(found) \/ Cardinality(suppressed) = ListLimit
      BY DEF Scanned, Listings
    <3>2. SUFFICES ASSUME Cardinality(suppressed) = ListLimit
                   PROVE  suppressed = Held(found)
      BY <3>1
    <3>3. /\ IsFiniteSet(suppressed)
          /\ Cardinality(suppressed) <= Cardinality(Held(found))
          /\ Cardinality(suppressed) = Cardinality(Held(found)) => suppressed = Held(found)
      BY <2>2, FS_Subset
    <3>4. Cardinality(Held(found)) \in Nat /\ ListLimit \in Nat
      BY ScanAssumption, FS_CardinalityType
    <3> QED
      BY <3>2, <3>3, <3>4
  <2> QED
    BY <2>1, <2>3 DEF Surfaced
<1> QED
  BY <1>1, ScannedIsInvariant, PTL

=============================================================================
