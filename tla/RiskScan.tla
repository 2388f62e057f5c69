------------------------------- MODULE RiskScan -------------------------------
(***************************************************************************)
(* A host that shows more and more evidence, assessed after every change:  *)
(* what the engine says of a host, what the answer to its report lists as  *)
(* withheld, and how its verdict moves as evidence accumulates between two *)
(* reports.                                                                *)
(***************************************************************************)
EXTENDS RiskEngine, FiniteSetsExt

CONSTANTS
  InitialHosts,     \* the observations a scan starts from
  NewConnections,   \* the sockets a process may open
  NewAutostarts,    \* the autostart entries that may appear
  NewDomains,       \* the names that may enter the resolver's cache
  CpuLevels,        \* the <<cpu, sustained>> readings a process may reach
  ListLimit,        \* how many withheld findings an answer lists: ten in the code
  MaxEvidence       \* bound on the pieces of evidence of a host

ASSUME ScanAssumption ==
  /\ InitialHosts \subseteq HostObservations
  /\ NewConnections \subseteq Connections
  /\ NewAutostarts \subseteq Autostarts
  /\ NewDomains \subseteq Domains
  /\ CpuLevels \subseteq Nat \X Nat
  /\ ListLimit \in Nat /\ MaxEvidence \in Nat

\* The sampler keys what it reports by pid: no report lists one twice.
ASSUME PidsAssumption ==
  \A h \in InitialHosts : \A p, q \in h.processes : p.pid = q.pid => p = q

VARIABLES
  host,    \* the HostObservation built from the latest report
  found,   \* what evaluate_host returned for it
  suppressed  \* the findings that the answer to the report lists as withheld

vars == <<host, found, suppressed>>

Assessments ==
  [score : 0..100, severity : {"NORMAL", "LOW", "MEDIUM", "HIGH", "CRITICAL"},
   type : {"process_mining", "browser_cryptojacking", "persistence_mining"},
   signals : SUBSET Kinds,
   withheld : {"none", "allowlisted", "capped", "below threshold"}]

\* TRUE of an assessment with the fields and the ranges of Assessments.
WellFormed(a) ==
  [score |-> a.score, severity |-> a.severity, type |-> a.type,
   signals |-> a.signals, withheld |-> a.withheld] \in Assessments

Pieces(h) ==
  Cardinality(h.persistence) + Cardinality(h.dns)
    + MapThenSumSet(LAMBDA p : Cardinality(p.connections), h.processes)

\* The findings that are not alerted but have a reason to be listed.
Held(findings) == {a \in findings : ~IsAlertable(a) /\ a.withheld # "none"}

\* A slip: the list is cut before the findings are sorted.
CutUnsorted(findings) ==
  LET held == Held(findings)
  IN  {listed \in SUBSET held :
         /\ Cardinality(listed) <= ListLimit
         /\ listed = held \/ Cardinality(listed) = ListLimit}

\* The lists of an answer: the withheld findings, highest score first, cut at
\* the limit.  Equal scores keep the order of the report, which may be any.
Listings(findings) ==
  LET held == Held(findings)
  IN  {listed \in SUBSET held :
         /\ Cardinality(listed) <= ListLimit
         /\ listed = held \/ Cardinality(listed) = ListLimit
         /\ \A a \in listed, b \in held \ listed : a.score >= b.score}

\* The scan of the changed host: every action ends with it.
Rescan(h) ==
  /\ host' = h
  /\ found' = EvaluateHost(h)
  /\ suppressed' \in Listings(found')

Replace(p, q) == [host EXCEPT !.processes = (@ \ {p}) \cup {q}]

OpenConnection ==
  /\ Pieces(host) < MaxEvidence
  /\ \E p \in host.processes : \E c \in NewConnections \ p.connections :
       Rescan(Replace(p, [p EXCEPT !.connections = @ \cup {c}]))

InstallAutostart ==
  /\ Pieces(host) < MaxEvidence
  /\ \E item \in NewAutostarts \ host.persistence :
       Rescan([host EXCEPT !.persistence = @ \cup {item}])

ResolveDomain ==
  /\ Pieces(host) < MaxEvidence
  /\ \E d \in NewDomains \ host.dns : Rescan([host EXCEPT !.dns = @ \cup {d}])

BurnCpu ==
  \E p \in host.processes : \E level \in CpuLevels :
    /\ level[1] >= p.cpu /\ level[2] >= p.sustained
    /\ level # <<p.cpu, p.sustained>>
    /\ Rescan(Replace(p, [p EXCEPT !.cpu = level[1], !.sustained = level[2]]))

LoadGpu ==
  \E p \in host.processes :
    /\ p.gpu < SustainedGpu
    /\ Rescan(Replace(p, [p EXCEPT !.gpu = SustainedGpu]))

Init ==
  /\ host \in InitialHosts
  /\ found = EvaluateHost(host)
  /\ suppressed \in Listings(found)

Next == OpenConnection \/ InstallAutostart \/ ResolveDomain \/ BurnCpu \/ LoadGpu

Spec == Init /\ [][Next]_vars

-----------------------------------------------------------------------------

\* Every finding has a score in 0..100 and the fields the ingest stores, and
\* the answer lists findings of the report.
TypeOK ==
  /\ host \in HostObservations
  /\ \A a \in found : WellFormed(a)
  /\ suppressed \subseteq found

\* rules.py: resource usage can never convict on its own.  Whatever else was
\* merged, capped or dropped on the way, a finding that reaches the alert
\* threshold carries positive evidence of another class.
ResourceNeverConvicts ==
  \A a \in found : IsAlertable(a) =>
    \E k \in a.signals : RULE_POINTS[k] > 0 /\ CategoryOf(k) # "resource"

\* The score of a process in a set of findings.
ScoreOf(findings, pid) ==
  (CHOOSE a \in findings : a.of = [pid |-> pid, entry |-> {}]).score

\* More evidence against a host never lowers the score of a process on it:
\* not a connection that changes how the browser rules read the process, not
\* a DNS name, not a CPU level that moves it from one resource rule to another.
EvidenceOnlyRaises ==
  [][\A p \in host.processes : ScoreOf(found', p.pid) >= ScoreOf(found, p.pid)]_vars

\* rules.py: host-wide DNS evidence reinforces an already suspicious process
\* rather than standing up a finding of its own.  A process that is reported
\* on a host with bad DNS entries has, without them, at least the fifteen
\* points that the entry can lift over the threshold.  Load alone is enough for
\* that: held at the ceiling, it is one point short of an alert.
DnsNeverStandsAlone ==
  \A p \in host.processes :
    ScoreOf(found, p.pid) >= ALERT_THRESHOLD =>
      /\ EvaluateProcess(p, host).score >= ALERT_THRESHOLD - RULE_POINTS["suspicious_dns"]
      /\ Positive(EvaluateProcess(p, host).signals) # {}

\* The answer says of a finding that it is alerted, or lists it as withheld.
Surfaced(a) == IsAlertable(a) \/ a \in suppressed

\* rules.py, Assessment.withheld: a deliberate non-alert is visible rather than
\* silent.  What the code keeps of that: a process under resource pressure is
\* alerted or listed, unless the list is full of findings that score at least
\* as high.  The kernel's own processes are not scored.
NoSilentPressure ==
  \A p \in host.processes :
    (ResourceSignals(p) # {} /\ ~is_system_pseudo_process(p.name)) =>
      \E a \in found :
        /\ a.of = OfProcess(p)
        /\ \/ Surfaced(a)
           \/ /\ Cardinality(suppressed) = ListLimit
              /\ \A b \in suppressed : b.score >= a.score
=============================================================================
