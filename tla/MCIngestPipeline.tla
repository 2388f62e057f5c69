--------------------------- MODULE MCIngestPipeline ---------------------------
(***************************************************************************)
(* Small instances of IngestPipeline: the reports an agent may send.       *)
(***************************************************************************)
EXTENDS IngestRefinement, TLC

ReportOf(f, scores, entries) ==
  [evidence |-> [g \in Fingerprints |-> IF g = f THEN scores ELSE <<>>], entries |-> entries]

Quiet == [evidence |-> [g \in Fingerprints |-> <<>>], entries |-> {}]

\* A quiet report, and two same-named processes at one score.
Twins == {Quiet} \cup {ReportOf(f, <<60, 60>>, {}) : f \in Fingerprints}

\* Each fingerprint alone, at one score.
EachAlone == {Quiet} \cup {ReportOf(f, <<60>>, {}) : f \in Fingerprints}

\* A finding that comes with the autostart entries.
WithEntries == {ReportOf(f, <<60>>, Entries) : f \in Fingerprints}

\* The score of one finding moves between reports.
TwoScores == {Quiet} \cup {ReportOf(f, s, {}) : f \in Fingerprints, s \in {<<40>>, <<60>>}}

Symmetry == Permutations(Workers)

HostSymmetry == Permutations(Workers) \cup Permutations(Hosts)
=============================================================================
