------------------------------ MODULE AlertQueue ------------------------------
(***************************************************************************)
(* What the server promises of the alert queue, one report at a time.      *)
(*                                                                         *)
(* Each host has, for each detection key, a history of findings of which   *)
(* only the newest may be open.  A report adds its observations to the     *)
(* open finding of a key or opens a new one, and it may resolve the open   *)
(* finding of a key that no report has carried for the stale time.         *)
(* IngestPipeline implements this with concurrent transactions; the        *)
(* mapping is in IngestRefinement.                                         *)
(***************************************************************************)
EXTENDS Integers, Sequences

CONSTANTS
  Hosts,
  Fingerprints,  \* detection keys
  Reports,       \* per fingerprint, how often a report observes it
  STALE          \* STALE_DETECTION_SECONDS

VARIABLES
  now,       \* the clock
  queue,     \* per host and fingerprint, its findings, oldest first
  heard,     \* when a report last observed the fingerprint, or Never
  overruled  \* the fingerprints an analyst settled since the host's last report

Never == -1

vars == <<now, queue, heard, overruled>>

NewestIsOpen(findings) == findings # <<>> /\ findings[Len(findings)].status = "open"

NewFinding(n) == [status |-> "open", count |-> n]

\* n observations of a report go to the open finding, or open a new one.  When
\* an analyst has settled the finding under the report's hands, the first of
\* them still goes to the finding the report had found open.
Observed(findings, n, overtaken) ==
  IF NewestIsOpen(findings)
    THEN [findings EXCEPT ![Len(findings)].count = @ + n]
  ELSE IF overtaken /\ findings # <<>>
    THEN LET first == [findings EXCEPT ![Len(findings)].count = @ + 1]
         IN  IF n = 1 THEN first ELSE Append(first, NewFinding(n - 1))
  ELSE Append(findings, NewFinding(n))

\* So does the resolution of a finding that the report had found open.
Quieted(findings, overtaken) ==
  IF NewestIsOpen(findings) \/ (overtaken /\ findings # <<>>)
    THEN [findings EXCEPT ![Len(findings)].status = "resolved"]
    ELSE findings

\* A report of h whose observations were made at `at`; it resolves the quiet.
Report(h) ==
  \E report \in Reports, at \in 0 .. now,
     overtaken \in SUBSET overruled[h], quiet \in SUBSET Fingerprints :
    /\ \A f \in Fingerprints : heard[h][f] <= at
    /\ \A f \in quiet : report[f] = 0 /\ now - heard[h][f] >= STALE
    /\ heard' = [heard EXCEPT ![h] =
         [f \in Fingerprints |-> IF report[f] > 0 THEN at ELSE @[f]]]
    /\ queue' = [queue EXCEPT ![h] = [f \in Fingerprints |->
         IF report[f] > 0 THEN Observed(queue[h][f], report[f], f \in overtaken)
         ELSE IF f \in quiet THEN Quieted(queue[h][f], f \in overtaken)
         ELSE queue[h][f]]]
    /\ overruled' = [overruled EXCEPT ![h] = {}]
    /\ UNCHANGED now

\* An analyst settles a finding, or changes how it was settled.
Verdict(h, f, i) ==
  /\ \E status \in {"resolved", "suppressed"} :
       queue' = [queue EXCEPT ![h][f][i].status = status]
  /\ overruled' = [overruled EXCEPT ![h] = @ \cup {f}]
  /\ UNCHANGED <<now, heard>>

Tick ==
  /\ now' = now + 1
  /\ UNCHANGED <<queue, heard, overruled>>

Init ==
  /\ now = 0
  /\ queue = [h \in Hosts |-> [f \in Fingerprints |-> <<>>]]
  /\ heard = [h \in Hosts |-> [f \in Fingerprints |-> Never]]
  /\ overruled = [h \in Hosts |-> {}]

Next ==
  \/ Tick
  \/ \E h \in Hosts :
       \/ Report(h)
       \/ \E f \in Fingerprints : \E i \in DOMAIN queue[h][f] : Verdict(h, f, i)

Spec == Init /\ [][Next]_vars
=============================================================================
