--------------------------- MODULE IngestRefinement ---------------------------
(***************************************************************************)
(* The concurrent ingest pipeline implements the alert queue: whatever the *)
(* workers interleave, the detections are those of reports handled one at  *)
(* a time, each at its commit.                                             *)
(***************************************************************************)
EXTENDS IngestPipeline

\* What the queue shows of the detection rows of a fingerprint.
Findings(rows) == [i \in DOMAIN rows |-> [status |-> rows[i].status, count |-> rows[i].count]]

\* How often a payload observes each fingerprint.
Observations(payload) == [f \in Fingerprints |-> Len(payload.evidence[f])]

AQ == INSTANCE AlertQueue WITH
        Reports <- {Observations(payload) : payload \in Payloads},
        queue <- [h \in Hosts |-> [f \in Fingerprints |-> Findings(det[h][f])]],
        heard <- evidenced

\* The ingest endpoint handles reports as if one at a time: every commit adds
\* each of its observations once, to the open detection of the key or to a new
\* one where none is open, resolves only detections no committed report has
\* confirmed for the stale time, and touches a settled detection only when an
\* analyst settled it since the previous report of the host was committed,
\* and then with one observation at most.
ImplementsAlertQueue == AQ!Spec
=============================================================================
