------------------------- MODULE IngestEvidenceProofs -------------------------
(***************************************************************************)
(* What the pipeline does with evidence and with scores, for any hosts,    *)
(* fingerprints, reports and time constants: no observation is lost, the   *)
(* process rows a detection refers to are kept, what is settled stays as   *)
(* it is, and a rollup is right when it is written.                        *)
(***************************************************************************)
EXTENDS IngestRefinementProofs

-----------------------------------------------------------------------------
(* Every observation counts.                                               *)

\* A running total carries over to rows with the same counts.
LEMMA SameTotal ==
  ASSUME NEW old \in Seq(Row), NEW new \in Seq(Row), Len(new) = Len(old),
         \A i \in DOMAIN old : new[i].count = old[i].count,
         NEW n \in Nat, AddUpTo(old, n)
  PROVE  AddUpTo(new, n)
<1>1. DOMAIN new = DOMAIN old
  OBVIOUS
<1> QED
  BY <1>1 DEF AddUpTo

\* A row that is added takes the total on by its count.
LEMMA LongerTotal ==
  ASSUME NEW old \in Seq(Row), NEW new \in Seq(Row), Len(new) = Len(old) + 1,
         \A i \in DOMAIN old : new[i].count = old[i].count,
         NEW k \in Nat, new[Len(new)].count = k, NEW n \in Nat, AddUpTo(old, n)
  PROVE  AddUpTo(new, n + k)
<1> DEFINE m == Len(old)
<1>1. /\ m \in Nat /\ DOMAIN old = 1 .. m /\ DOMAIN new = 1 .. m + 1 /\ Len(new) = m + 1
      /\ n + k \in Nat
  OBVIOUS
<1>2. PICK total \in [0 .. m -> 0 .. n] :
        /\ total[0] = 0 /\ total[m] = n
        /\ \A i \in DOMAIN old : total[i] = total[i - 1] + old[i].count
  BY DEF AddUpTo
<1> HIDE DEF m
<1> DEFINE on == [i \in 0 .. m + 1 |-> IF i = m + 1 THEN n + k ELSE total[i]]
<1>3. on \in [0 .. m + 1 -> 0 .. n + k]
  BY <1>1, <1>2
<1>4. on[0] = 0 /\ on[m + 1] = n + k /\ \A i \in 0 .. m : on[i] = total[i]
  BY <1>1, <1>2
<1> HIDE DEF on
<1>5. ASSUME NEW i \in 1 .. m + 1
      PROVE  on[i] = on[i - 1] + new[i].count
  <2>1. CASE i = m + 1
    <3>1. on[i - 1] = n /\ on[i] = n + k
      BY <1>1, <1>2, <1>4, <2>1
    <3> QED
      BY <1>1, <2>1, <3>1
  <2>2. CASE i # m + 1
    <3>1. i \in 1 .. m /\ i - 1 \in 0 .. m /\ i \in 0 .. m
      BY <1>1, <2>2
    <3> QED
      BY <1>1, <1>2, <1>4, <3>1
  <2> QED
    BY <2>1, <2>2
<1> QED
  BY <1>1, <1>3, <1>4, <1>5 DEF AddUpTo

\* So does the newest row when its count goes up.
LEMMA RaisedTotal ==
  ASSUME NEW old \in Seq(Row), NEW new \in Seq(Row), Len(new) = Len(old), old # <<>>,
         \A i \in DOMAIN old : i # Len(old) => new[i].count = old[i].count,
         NEW k \in Nat, new[Len(old)].count = old[Len(old)].count + k,
         NEW n \in Nat, AddUpTo(old, n)
  PROVE  AddUpTo(new, n + k)
<1> DEFINE m == Len(old)
<1>1. /\ m \in Nat \ {0} /\ DOMAIN old = 1 .. m /\ DOMAIN new = 1 .. m /\ Len(new) = m
      /\ n + k \in Nat /\ old[m] \in Row
  BY EmptySeq
<1>2. PICK total \in [0 .. m -> 0 .. n] :
        /\ total[0] = 0 /\ total[m] = n
        /\ \A i \in DOMAIN old : total[i] = total[i - 1] + old[i].count
  BY DEF AddUpTo
<1>3. old[m].count \in Nat /\ new[m].count = old[m].count + k
  BY <1>1 DEF Row
<1> HIDE DEF m
<1> DEFINE on == [i \in 0 .. m |-> IF i = m THEN n + k ELSE total[i]]
<1>4. on \in [0 .. m -> 0 .. n + k]
  BY <1>1, <1>2
<1>5. on[0] = 0 /\ on[m] = n + k /\ \A i \in 0 .. m - 1 : on[i] = total[i]
  BY <1>1, <1>2
<1> HIDE DEF on
<1>6. ASSUME NEW i \in 1 .. m
      PROVE  on[i] = on[i - 1] + new[i].count
  <2>0. i - 1 \in 0 .. m - 1 /\ total[i - 1] \in 0 .. n
    BY <1>1, <1>2
  <2>1. CASE i = m
    <3>1. on[i - 1] = total[m - 1] /\ on[i] = n + k /\ n = total[m - 1] + old[m].count
      BY <1>1, <1>2, <1>5, <2>0, <2>1
    <3> QED
      BY <1>3, <2>0, <2>1, <3>1
  <2>2. CASE i # m
    <3>1. i \in 0 .. m - 1 /\ i \in 1 .. m
      BY <1>1, <2>2
    <3>2. new[i].count = old[i].count
      BY <1>1, <2>2 DEF m
    <3> QED
      BY <1>1, <1>2, <1>5, <2>0, <3>1, <3>2
  <2> QED
    BY <2>1, <2>2
<1> QED
  BY <1>1, <1>4, <1>5, <1>6 DEF AddUpTo

\* And both: the newest row goes up by one, and a row is added.
LEMMA RaisedLongerTotal ==
  ASSUME NEW old \in Seq(Row), NEW new \in Seq(Row), Len(new) = Len(old) + 1, old # <<>>,
         \A i \in DOMAIN old : i # Len(old) => new[i].count = old[i].count,
         new[Len(old)].count = old[Len(old)].count + 1,
         NEW k \in Nat, new[Len(new)].count = k, NEW n \in Nat, AddUpTo(old, n)
  PROVE  AddUpTo(new, n + 1 + k)
<1> DEFINE m == Len(old)
           raised == [i \in 1 .. m |-> new[i]]
<1>1. /\ m \in Nat \ {0} /\ DOMAIN old = 1 .. m /\ DOMAIN new = 1 .. m + 1 /\ Len(new) = m + 1
  BY EmptySeq
<1>2. \A i \in 1 .. m : i \in DOMAIN new /\ new[i] \in Row
  BY <1>1
<1> HIDE DEF m
<1>3. raised \in Seq(Row) /\ Len(raised) = m /\ \A i \in 1 .. m : raised[i] = new[i]
  <2>1. raised \in [1 .. m -> Row]
    BY <1>2
  <2> HIDE DEF raised
  <2>2. raised \in Seq(Row)
    BY <1>1, <2>1
  <2>3. Len(raised) = m
    BY <1>1, <2>1, <2>2
  <2>4. \A i \in 1 .. m : raised[i] = new[i]
    BY DEF raised
  <2> QED
    BY <2>2, <2>3, <2>4
<1> HIDE DEF raised
<1>4. AddUpTo(raised, n + 1)
  <2>1. /\ \A i \in DOMAIN old : i # Len(old) => raised[i].count = old[i].count
        /\ raised[Len(old)].count = old[Len(old)].count + 1
    BY <1>1, <1>3 DEF m
  <2>2. Len(raised) = Len(old)
    BY <1>3 DEF m
  <2>3. 1 \in Nat
    OBVIOUS
  <2> QED
    BY <1>3, <2>1, <2>2, <2>3, RaisedTotal
<1>5. DOMAIN raised = 1 .. m
  BY <1>3
<1>6. Len(new) = Len(raised) + 1 /\ \A i \in DOMAIN raised : new[i].count = raised[i].count
  BY <1>1, <1>3, <1>5
<1> QED
  <2> DEFINE j == n + 1
  <2>1. j \in Nat /\ AddUpTo(raised, j)
    BY <1>4
  <2> HIDE DEF j
  <2>2. AddUpTo(new, j + k)
    BY <1>3, <1>6, <2>1, LongerTotal
  <2> QED
    BY <2>2 DEF j

\* A commit adds the observations of its report to the rows and to the record.
LEMMA CommitCounts ==
  ASSUME RInv, TypeOK', ObservationsCounted, NEW w \in Workers, Commit(w)
  PROVE  ObservationsCounted'
<1> DEFINE t == tx[w]
<1>1. /\ t \in Transaction /\ t.host \in Hosts /\ TypeOK
      /\ observed' = [observed EXCEPT ![t.host] =
           [f \in Fingerprints |-> @[f] + Len(t.payload.evidence[f])]]
  BY CommitTyped DEF RInv, Commit, Transaction
<1> SUFFICES ASSUME NEW g \in Hosts, NEW f \in Fingerprints
             PROVE  AddUpTo(det'[g][f], observed'[g][f])
  BY DEF ObservationsCounted, AddUpTo
<1> DEFINE old == det[g][f]
           new == det'[g][f]
           n == observed[g][f]
           k == Len(t.payload.evidence[f])
<1>2. /\ old \in Seq(Row) /\ new \in Seq(Row) /\ n \in Nat /\ AddUpTo(old, n)
      /\ t.payload.evidence[f] \in Seq(25 .. 100)
  BY <1>1 DEF TypeOK, ObservationsCounted, Transaction, AllPayloads
<1>3. k \in Nat /\ (f \in Live(t.payload) <=> k > 0)
  BY <1>2, SomeScores DEF Live
<1>4. CASE g # t.host
  <2>1. Len(new) = Len(old) /\ \A i \in DOMAIN old : new[i].count = old[i].count
    BY <1>1, <1>4, CommitRows DEF Alike
  <2>2. observed'[g][f] = n
    BY <1>1, <1>4 DEF TypeOK
  <2> QED
    BY <1>2, <2>1, <2>2, SameTotal
<1>5. CASE g = t.host
  <2>1. observed'[g][f] = n + k
    BY <1>1, <1>5 DEF TypeOK
  <2>2. CommitOutcome(w, g, f)
    BY <1>5, CommitCases
  <2>3. CASE f \in Live(t.payload) /\ t.existing[f].row = 0
    <3>1. /\ Len(new) = Len(old) + 1 /\ new[Len(new)].count = k
          /\ \A i \in DOMAIN old : new[i].count = old[i].count
      BY <2>2, <2>3 DEF CommitOutcome, Alike
    <3> QED
      BY <1>2, <1>3, <2>1, <3>1, LongerTotal
  <2>4. CASE f \in Live(t.payload) /\ t.existing[f].row # 0
    <3> DEFINE i == t.existing[f].row
    <3>1. /\ StillNewest(g, f, i)
          /\ \A j \in DOMAIN old : j # i => new[j].count = old[j].count
          /\ old[i].status = "open" =>
               Len(new) = Len(old) /\ new[i].count = old[i].count + k
          /\ old[i].status # "open" =>
               /\ new[i].count = old[i].count + 1
               /\ Len(new) = IF k = 1 THEN Len(old) ELSE Len(old) + 1
               /\ k # 1 => new[Len(new)].count = k - 1
      BY <2>2, <2>4 DEF CommitOutcome, Alike
    <3>2. i = Len(old) /\ Len(old) \in DOMAIN old
      BY <3>1 DEF StillNewest
    <3>3. old # <<>> /\ k > 0
      BY <1>2, <1>3, <2>4, <3>2
    <3> HIDE DEF i
    <3>4. CASE Len(new) = Len(old)
      <4>1. new[Len(old)].count = old[Len(old)].count + k
        <5> HIDE DEF old, new, k
        <5> QED
          BY <1>2, <3>1, <3>2, <3>4
      <4> QED
        BY <1>2, <1>3, <2>1, <3>1, <3>2, <3>3, <3>4, <4>1, RaisedTotal
    <3>5. CASE Len(new) # Len(old)
      <4> HIDE DEF old, new, n, k
      <4>1. /\ new[Len(old)].count = old[Len(old)].count + 1 /\ Len(new) = Len(old) + 1
            /\ new[Len(new)].count = k - 1
        BY <3>1, <3>2, <3>5
      <4>2. AddUpTo(new, n + 1 + (k - 1))
        BY <1>2, <1>3, <3>1, <3>2, <3>3, <4>1, RaisedLongerTotal
      <4>3. n + 1 + (k - 1) = n + k
        BY <1>2, <1>3
      <4> QED
        BY <2>1, <4>2, <4>3 DEF new
    <3> QED
      BY <3>4, <3>5
  <2>5. CASE f \notin Live(t.payload)
    <3>1. Len(new) = Len(old) /\ \A i \in DOMAIN old : new[i].count = old[i].count
      BY <2>2, <2>5 DEF CommitOutcome, Alike
    <3>2. n + k = n
      BY <1>2, <1>3, <2>5
    <3> QED
      BY <1>2, <2>1, <3>1, <3>2, SameTotal
  <2> QED
    BY <2>3, <2>4, <2>5
<1> QED
  BY <1>4, <1>5

\* A verdict changes no count.
LEMMA PatchCounts ==
  ASSUME TypeOK, TypeOK', ObservationsCounted, NEW h \in Hosts, NEW f \in Fingerprints,
         NEW i \in DOMAIN det[h][f], NEW verdict \in Verdicts, PatchAlert(h, f, i, verdict)
  PROVE  ObservationsCounted'
<1>1. observed' = observed
  BY DEF PatchAlert
<1> SUFFICES ASSUME NEW g \in Hosts, NEW e \in Fingerprints
             PROVE  AddUpTo(det'[g][e], observed[g][e])
  BY <1>1 DEF ObservationsCounted, AddUpTo
<1>2. /\ Len(det'[g][e]) = Len(det[g][e])
      /\ \A j \in DOMAIN det[g][e] : det'[g][e][j].count = det[g][e][j].count
  BY PatchRows
<1>3. /\ det[g][e] \in Seq(Row) /\ det'[g][e] \in Seq(Row) /\ observed[g][e] \in Nat
      /\ AddUpTo(det[g][e], observed[g][e])
  BY DEF TypeOK, ObservationsCounted
<1> QED
  BY <1>2, <1>3, SameTotal

\* The steps that write no row and complete no report.
LEMMA StepKinds ==
  ASSUME TypeOK, [Next]_vars
  PROVE  \/ \E w \in Workers : Commit(w)
         \/ \E h \in Hosts, f \in Fingerprints, verdict \in Verdicts : \E i \in DOMAIN det[h][f] :
              PatchAlert(h, f, i, verdict)
         \/ det' = det /\ hosts' = hosts /\ observed' = observed
<1> DEFINE Unwritten == det' = det /\ hosts' = hosts /\ observed' = observed
<1>1. ASSUME NEW w \in Workers, WorkerStep(w) \/ (\E h \in Hosts : Report(w, h)) \/ Fail(w)
      PROVE  Commit(w) \/ Unwritten
  BY <1>1 DEF WorkerStep, Report, SelectHost, StoreAndRecord, DuplicateHost, FindStale,
              ResolveStale, RefreshAndPrune, Fail, database, history
<1>2. ASSUME Restart \/ Tick \/ UNCHANGED vars
      PROVE  Unwritten
  BY <1>2 DEF Restart, Tick, vars, database, history
<1> QED
  BY <1>1, <1>2 DEF Next, Analyst

\* observation_count loses no update: however reports overlap, the counts of
\* the detections of a fingerprint add up to the assessments of the committed
\* reports, although each worker adds to a value it read before.
THEOREM NoObservationLost == Spec => []ObservationsCounted
<1>1. Init => ObservationsCounted
  <2> SUFFICES ASSUME Init, NEW h \in Hosts, NEW f \in Fingerprints
               PROVE  AddUpTo(det[h][f], observed[h][f])
    BY DEF ObservationsCounted
  <2> DEFINE none == [i \in 0 .. 0 |-> 0]
  <2>1. det[h][f] = <<>> /\ observed[h][f] = 0 /\ Len(<<>>) = 0 /\ DOMAIN <<>> = {}
    BY DEF Init
  <2>2. none \in [0 .. 0 -> 0 .. 0] /\ none[0] = 0
    OBVIOUS
  <2> QED
    BY <2>1, <2>2 DEF AddUpTo
<1>2. RInv /\ TypeOK' /\ ObservationsCounted /\ [Next]_vars => ObservationsCounted'
  <2> SUFFICES ASSUME RInv, TypeOK', ObservationsCounted, [Next]_vars
               PROVE  ObservationsCounted'
    OBVIOUS
  <2>1. TypeOK
    BY DEF RInv
  <2>2. CASE det' = det /\ observed' = observed
    BY <2>2 DEF ObservationsCounted
  <2> QED
    BY <2>1, <2>2, StepKinds, CommitCounts, PatchCounts
<1>3. RInv /\ [Next]_vars /\ TypeOK' => RInv'
  BY StepKeepsRInv
<1> QED
  BY <1>1, <1>2, <1>3, InitRInv, TypeCorrect, PTL DEF Spec

-----------------------------------------------------------------------------
(* Where the scores and the references of the rows come from.              *)

\* The row that transaction w updates with the findings of fingerprint f.
Hit(w, g, f, i) ==
  g = tx[w].host /\ f \in Live(tx[w].payload) /\ i = tx[w].existing[f].row

\* The process row that w stores with a finding, if it is about a process.
Stored(w, f) == IF f \in ProcessFingerprints THEN tx[w].recordedAt ELSE NoTime

\* The score, the status and the reference of a row as w is about to write it,
\* before the foreign keys: a row of another host, the one it updates, one it
\* resolves, one it leaves alone.
Rewritten(w, g, f, i, row) ==
  /\ Hit(w, g, f, i) =>
       /\ row.score = Last(Added(w, f))
       /\ row.status = det[g][f][i].status
       /\ row.process = IF f \in ProcessFingerprints THEN tx[w].recordedAt
                                                      ELSE det[g][f][i].process
  /\ ~Hit(w, g, f, i) =>
       /\ row.score = det[g][f][i].score /\ row.process = det[g][f][i].process
       /\ row.status = IF g = tx[w].host /\ <<f, i>> \in tx[w].stale
                         THEN "resolved" ELSE det[g][f][i].status

\* A row it inserts.
Opened(w, g, f, i, row) ==
  /\ g = tx[w].host /\ Opening(w, f) # <<>>
  /\ i = Len(det[g][f]) + 1
  /\ row.score = Last(Opening(w, f)) /\ row.status = "open"
  /\ row.process = Stored(w, f)

\* What Updated makes of the row.
LEMMA UpdatedColumns ==
  ASSUME TypeOK, NEW w \in Workers, tx[w] \in Transaction, NEW h, h = tx[w].host,
         NEW f \in Fingerprints, NEW i \in DOMAIN det[h][f]
  PROVE  Rewritten(w, h, f, i, Updated(w, f)[i])
<1> DEFINE t == tx[w]
           old == det[h][f][i]
           hit == t.payload.evidence[f] # <<>> /\ i = t.existing[f].row
<1>1. old \in Row
  <2>1. det[h][f] \in Seq(Row)
    BY DEF TypeOK, Transaction
  <2> QED
    BY <2>1
<1>2. hit <=> Hit(w, h, f, i)
  BY DEF Hit, Live
<1>3. Updated(w, f)[i] =
        IF hit THEN Refreshed(w, f, old)
        ELSE IF <<f, i>> \in t.stale
          THEN [old EXCEPT !.status = "resolved", !.updated = t.judgedAt,
                  !.alert = IF <<f, i>> \in t.closes THEN "closed" ELSE @]
        ELSE old
  BY DEF Updated
<1>4. Refreshed(w, f, old) =
        [old EXCEPT !.score = Last(Added(w, f)), !.updated = t.recordedAt,
           !.count = t.existing[f].count + Len(Added(w, f)),
           !.process = IF f \in ProcessFingerprints THEN t.recordedAt ELSE @]
  BY DEF Refreshed
<1>5. CASE Hit(w, h, f, i)
  <2>1. Updated(w, f)[i] = Refreshed(w, f, old)
    BY <1>2, <1>3, <1>5
  <2>2. LET row == Refreshed(w, f, old)
        IN  /\ row.score = Last(Added(w, f)) /\ row.status = old.status
            /\ row.process = IF f \in ProcessFingerprints THEN t.recordedAt ELSE old.process
    <3> HIDE DEF old, t
    <3> QED
      BY <1>1, <1>4 DEF Row
  <2> QED
    BY <1>5, <2>1, <2>2 DEF Rewritten
<1>6. CASE ~Hit(w, h, f, i) /\ <<f, i>> \in t.stale
  <2>1. Updated(w, f)[i] =
          [old EXCEPT !.status = "resolved", !.updated = t.judgedAt,
             !.alert = IF <<f, i>> \in t.closes THEN "closed" ELSE @]
    BY <1>2, <1>3, <1>6
  <2>2. /\ Updated(w, f)[i].status = "resolved" /\ Updated(w, f)[i].score = old.score
        /\ Updated(w, f)[i].process = old.process
    <3> HIDE DEF old, t
    <3> QED
      BY <1>1, <2>1 DEF Row
  <2> QED
    BY <1>6, <2>2 DEF Rewritten
<1>7. CASE ~Hit(w, h, f, i) /\ <<f, i>> \notin t.stale
  <2>1. Updated(w, f)[i] = old
    BY <1>2, <1>3, <1>7
  <2> QED
    BY <1>7, <2>1 DEF Rewritten
<1> QED
  BY <1>5, <1>6, <1>7

\* What Written makes of the rows of a fingerprint.
LEMMA WrittenColumns ==
  ASSUME TypeOK, NEW w \in Workers, tx[w] \in Transaction, NEW h, h = tx[w].host,
         NEW f \in Fingerprints
  PROVE  /\ Written(w, f) \in Seq(Row)
         /\ DOMAIN det[h][f] \subseteq DOMAIN Written(w, f)
         /\ \A i \in DOMAIN det[h][f] : Rewritten(w, h, f, i, Written(w, f)[i])
         /\ \A i \in DOMAIN Written(w, f) :
              i \notin DOMAIN det[h][f] => Opened(w, h, f, i, Written(w, f)[i])
         /\ Opening(w, f) # <<>> =>
              /\ Len(det[h][f]) + 1 \in DOMAIN Written(w, f)
              /\ Opened(w, h, f, Len(det[h][f]) + 1, Written(w, f)[Len(det[h][f]) + 1])
<1> DEFINE rows == det[h][f]
           m == Len(rows)
<1>1. /\ rows \in Seq(Row) /\ Updated(w, f) \in Seq(Row) /\ Written(w, f) \in Seq(Row)
      /\ Len(Updated(w, f)) = m /\ DOMAIN Updated(w, f) = DOMAIN rows
  BY UpdatedKeeps, WrittenKeeps
<1>2. m \in Nat /\ DOMAIN rows = 1 .. m /\ m + 1 \notin DOMAIN rows
  BY <1>1
<1>3. \A i \in DOMAIN rows : Rewritten(w, h, f, i, Updated(w, f)[i])
  BY UpdatedColumns
<1>5. CASE Opening(w, f) # <<>>
  <2>1. Written(w, f) = Append(Updated(w, f), Inserted(w, f))
    BY <1>5 DEF Written
  <2>2. /\ Inserted(w, f).score = Last(Opening(w, f)) /\ Inserted(w, f).status = "open"
        /\ Inserted(w, f).process = Stored(w, f)
    BY DEF Inserted, Stored
  <2> HIDE DEF rows, m
  <2>3. /\ DOMAIN Written(w, f) = 1 .. m + 1
        /\ \A i \in 1 .. m : Written(w, f)[i] = Updated(w, f)[i]
        /\ Written(w, f)[m + 1] = Inserted(w, f)
    <3>1. Len(Written(w, f)) = m + 1
      BY <1>1, <1>2, <2>1
    <3>2. DOMAIN Written(w, f) = 1 .. m + 1
      BY <1>1, <1>2, <3>1
    <3>3. \A i \in 1 .. m : Written(w, f)[i] = Updated(w, f)[i]
      BY <1>1, <1>2, <2>1, <3>1
    <3>4. Written(w, f)[m + 1] = Inserted(w, f)
      BY <1>1, <1>2, <2>1, <3>1
    <3> QED
      BY <3>2, <3>3, <3>4
  <2>4. DOMAIN rows \subseteq DOMAIN Written(w, f)
    BY <1>2, <2>3
  <2>5. \A i \in DOMAIN rows : Rewritten(w, h, f, i, Written(w, f)[i])
    BY <1>2, <1>3, <2>3
  <2>6. Opened(w, h, f, m + 1, Written(w, f)[m + 1])
    BY <1>5, <2>2, <2>3 DEF Opened, m, rows
  <2>7. m + 1 \in DOMAIN Written(w, f)
    BY <1>2, <2>3
  <2>8. \A i \in DOMAIN Written(w, f) : i \notin DOMAIN rows => i = m + 1
    BY <1>2, <2>3
  <2> QED
    BY <1>1, <2>4, <2>5, <2>6, <2>7, <2>8 DEF m, rows
<1>6. CASE Opening(w, f) = <<>>
  <2>1. Written(w, f) = Updated(w, f)
    BY <1>6 DEF Written
  <2> QED
    BY <1>1, <1>3, <1>6, <2>1
<1> QED
  BY <1>5, <1>6

\* A reference after the deletion of some process rows.
Unlinked(process, doomed) == IF process \in doomed THEN NoTime ELSE process

\* The foreign keys touch the reference only.
LEMMA DetachColumns ==
  ASSUME NEW rows \in Seq(Row), NEW doomed
  PROVE  /\ DOMAIN Detach(rows, doomed) = DOMAIN rows
         /\ \A i \in DOMAIN rows :
              /\ Detach(rows, doomed)[i].score = rows[i].score
              /\ Detach(rows, doomed)[i].status = rows[i].status
              /\ Detach(rows, doomed)[i].process = Unlinked(rows[i].process, doomed)
<1>1. ASSUME NEW i \in DOMAIN rows
      PROVE  /\ Detach(rows, doomed)[i].score = rows[i].score
             /\ Detach(rows, doomed)[i].status = rows[i].status
             /\ Detach(rows, doomed)[i].process = Unlinked(rows[i].process, doomed)
  <2>1. rows[i] \in Row
    OBVIOUS
  <2>2. Detach(rows, doomed)[i] =
           [rows[i] EXCEPT !.process = IF @ \in doomed THEN NoTime ELSE @]
    BY DEF Detach
  <2> QED
    BY <2>1, <2>2 DEF Row, Unlinked
<1> QED
  BY <1>1, DetachKeeps

\* The rows of any fingerprint after a commit: each was there and was rewritten,
\* or was inserted, and then lost its reference if the commit deletes it.
LEMMA CommitColumns ==
  ASSUME TypeOK, NEW w \in Workers, Commit(w), NEW g \in Hosts, NEW f \in Fingerprints
  PROVE  /\ DOMAIN det[g][f] \subseteq DOMAIN det'[g][f]
         /\ \A i \in DOMAIN det'[g][f] :
              \E row : /\ IF i \in DOMAIN det[g][f] THEN Rewritten(w, g, f, i, row)
                                                    ELSE Opened(w, g, f, i, row)
                       /\ det'[g][f][i].score = row.score
                       /\ det'[g][f][i].status = row.status
                       /\ det'[g][f][i].process = Unlinked(row.process, tx[w].doomedProc[g])
<1> DEFINE t == tx[w]
           written == IF g = t.host THEN Written(w, f) ELSE det[g][f]
<1>1. t \in Transaction
  BY CommitTyped
<1>2. det[g][f] \in Seq(Row)
  BY DEF TypeOK
<1>3. det'[g][f] = Detach(written, t.doomedProc[g])
  BY DEF Commit
<1>4. /\ written \in Seq(Row) /\ DOMAIN det[g][f] \subseteq DOMAIN written
      /\ \A i \in DOMAIN det[g][f] : Rewritten(w, g, f, i, written[i])
      /\ \A i \in DOMAIN written :
           i \notin DOMAIN det[g][f] => Opened(w, g, f, i, written[i])
  <2>1. CASE g = t.host
    BY <1>1, <2>1, WrittenColumns
  <2>2. CASE g # t.host
    <3>1. written = det[g][f]
      BY <2>2
    <3>2. \A i : ~Hit(w, g, f, i)
      BY <2>2 DEF Hit
    <3> QED
      BY <1>2, <2>2, <3>1, <3>2 DEF Rewritten
  <2> QED
    BY <2>1, <2>2
<1> HIDE DEF written
<1>5. /\ DOMAIN det'[g][f] = DOMAIN written
      /\ \A i \in DOMAIN written :
           /\ det'[g][f][i].score = written[i].score
           /\ det'[g][f][i].status = written[i].status
           /\ det'[g][f][i].process = Unlinked(written[i].process, t.doomedProc[g])
  BY <1>3, <1>4, DetachColumns
<1> QED
  BY <1>4, <1>5

\* A verdict writes no score and no reference, and opens nothing.
LEMMA PatchColumns ==
  ASSUME TypeOK, TypeOK', NEW h \in Hosts, NEW f \in Fingerprints, NEW i \in DOMAIN det[h][f],
         NEW verdict \in Verdicts, PatchAlert(h, f, i, verdict)
  PROVE  \A g \in Hosts, e \in Fingerprints :
           /\ DOMAIN det'[g][e] = DOMAIN det[g][e]
           /\ \A j \in DOMAIN det[g][e] :
                /\ det'[g][e][j].score = det[g][e][j].score
                /\ det'[g][e][j].process = det[g][e][j].process
                /\ det'[g][e][j].status = "open" => det[g][e][j].status = "open"
<1>1. PICK status \in {det[h][f][i].status, "suppressed", "resolved"} :
        det' = [det EXCEPT ![h][f][i].alert = verdict, ![h][f][i].status = status]
  BY Zenon DEF PatchAlert
<1> DEFINE row == [det[h][f][i] EXCEPT !.alert = verdict, !.status = status]
           rows == [det[h][f] EXCEPT ![i] = row]
<1>2. det[h][f] \in Seq(Row) /\ det[h][f][i] \in Row
  BY DEF TypeOK
<1>3. row.score = det[h][f][i].score /\ row.process = det[h][f][i].process /\ row.status = status
  BY <1>2 DEF Row
<1>4. det' = [det EXCEPT ![h] = [det[h] EXCEPT ![f] = rows]]
  <2>1. h \in DOMAIN det /\ f \in DOMAIN det[h]
    BY DEF TypeOK
  <2> QED
    BY ZenonT(40), <1>1, <2>1
<1>5. DOMAIN rows = DOMAIN det[h][f]
      /\ \A j \in DOMAIN det[h][f] : rows[j] = IF j = i THEN row ELSE det[h][f][j]
  <2> HIDE DEF row
  <2> QED
    OBVIOUS
<1> HIDE DEF row, rows
<1>6. ASSUME NEW g \in Hosts, NEW e \in Fingerprints
      PROVE  /\ DOMAIN det'[g][e] = DOMAIN det[g][e]
             /\ \A j \in DOMAIN det[g][e] :
                  /\ det'[g][e][j].score = det[g][e][j].score
                  /\ det'[g][e][j].process = det[g][e][j].process
                  /\ det'[g][e][j].status = "open" => det[g][e][j].status = "open"
  <2>1. CASE g = h /\ e = f
    <3>1. det'[g][e] = rows
      BY <1>4, <2>1 DEF TypeOK
    <3>2. status = "open" => det[h][f][i].status = "open"
      BY <1>1
    <3> QED
      BY <1>3, <1>5, <2>1, <3>1, <3>2
  <2>2. CASE ~(g = h /\ e = f)
    <3>1. det'[g][e] = det[g][e]
      BY <1>4, <2>2 DEF TypeOK
    <3> QED
      BY <3>1
  <2> QED
    BY <2>1, <2>2
<1> QED
  BY <1>6

-----------------------------------------------------------------------------
(* The process rows a detection refers to.                                 *)

\* The reference of the row that w updates is written anew.
Relinked(w, g, f, i) == Hit(w, g, f, i) /\ f \in ProcessFingerprints

\* What a transaction has deleted is of the past, and is referred to by no row
\* it leaves, no row of another host and no report still running.
DoomedInv(w) ==
  tx[w].pc = "flushed" =>
    \A g \in Hosts :
      LET doomed == tx[w].doomedProc[g]
      IN  /\ \A time \in doomed : time < now
          /\ \A f \in Fingerprints : \A i \in DOMAIN det[g][f] :
               ~Relinked(w, g, f, i) => det[g][f][i].process \notin doomed
          /\ \A f \in ProcessFingerprints :
               g = tx[w].host /\ f \in Live(tx[w].payload) => tx[w].recordedAt \notin doomed
          /\ \A v \in Workers \ {w} :
               Holding(v) /\ tx[v].host = g => tx[v].recordedAt \notin doomed

\* The DELETE of the process rows leaves out what is referred to.
LEMMA PruneDooms ==
  ASSUME RInv, NEW w \in Workers, RefreshAndPrune(w)
  PROVE  DoomedInv(w)'
<1> DEFINE t == tx[w]
<1>1. /\ TypeOK /\ t \in Transaction /\ t.host \in Hosts /\ Holding(w) /\ now \in Int
      /\ RETENTION \in Nat
  <2>1. TypeOK
    BY DEF RInv
  <2>2. t \in Transaction
    BY <2>1, RefreshTyped
  <2>3. Holding(w)
    BY DEF RefreshAndPrune, Holding
  <2>4. RETENTION \in Nat
    BY IngestAssumption
  <2>5. t.host \in Hosts
    BY <2>2 DEF Transaction
  <2>6. now \in Int
    BY <2>1 DEF TypeOK, Times
  <2> QED
    BY <2>1, <2>2, <2>3, <2>4, <2>5, <2>6
<1>2. /\ tx'[w].host = t.host /\ tx'[w].payload = t.payload /\ tx'[w].recordedAt = t.recordedAt
      /\ tx'[w].existing = t.existing
      /\ tx'[w].doomedProc = IF PruneIsDue
                               THEN [h \in Hosts |->
                                       Deletable(w, h, procRows[h]) \ Referenced(w, h)]
                               ELSE NothingDoomed
      /\ \A v \in Workers \ {w} : tx'[v] = tx[v]
      /\ det' = det /\ now' = now
  BY <1>1 DEF RefreshAndPrune, TypeOK, Transaction, database
<1>3. /\ \A f \in Fingerprints : (f \in Live(tx[w].payload))' <=> f \in Live(t.payload)
      /\ \A v \in Workers : Holding(v)' /\ v # w => Holding(v)
  BY <1>2 DEF Live, Holding
<1>4. \A g \in Hosts, f \in Fingerprints : \A i : Relinked(w, g, f, i)' <=> Relinked(w, g, f, i)
  BY <1>2, <1>3 DEF Relinked, Hit
<1> SUFFICES ASSUME NEW g \in Hosts
             PROVE  LET doomed == tx'[w].doomedProc[g]
                    IN  /\ \A time \in doomed : time < now
                        /\ \A f \in Fingerprints : \A i \in DOMAIN det[g][f] :
                             ~Relinked(w, g, f, i) => det[g][f][i].process \notin doomed
                        /\ \A f \in ProcessFingerprints :
                             g = t.host /\ f \in Live(t.payload) => t.recordedAt \notin doomed
                        /\ \A v \in Workers \ {w} :
                             Holding(v) /\ tx[v].host = g => tx[v].recordedAt \notin doomed
  BY <1>2, <1>3, <1>4 DEF DoomedInv
<1>5. CASE ~PruneIsDue
  BY <1>2, <1>5 DEF NothingDoomed
<1>6. CASE PruneIsDue
  <2> DEFINE doomed == Deletable(w, g, procRows[g]) \ Referenced(w, g)
             rowsOf(f) == IF g = t.host THEN Written(w, f) ELSE det[g][f]
  <2>1. tx'[w].doomedProc[g] = doomed
    BY <1>2, <1>6
  <2>2. \A time \in doomed : time \in Int /\ time < now - RETENTION
    BY <1>1 DEF Deletable, Expired, TypeOK, Times
  <2>3. ASSUME NEW f \in Fingerprints, NEW i \in DOMAIN rowsOf(f)
        PROVE  rowsOf(f)[i].process \notin doomed
    BY <2>3 DEF Referenced
  <2>4. \A time \in doomed : time < now
    BY <1>1, <2>2
  <2>5. ASSUME NEW f \in Fingerprints, NEW i \in DOMAIN det[g][f], ~Relinked(w, g, f, i)
        PROVE  det[g][f][i].process \notin doomed
    <3>1. CASE g = t.host
      <4>1. i \in DOMAIN Written(w, f) /\ Rewritten(w, g, f, i, Written(w, f)[i])
        BY <1>1, <3>1, WrittenColumns
      <4>2. Written(w, f)[i].process = det[g][f][i].process
        BY <2>5, <4>1 DEF Rewritten, Relinked
      <4> QED
        BY <2>3, <3>1, <4>1, <4>2
    <3>2. CASE g # t.host
      BY <2>3, <3>2
    <3> QED
      BY <3>1, <3>2
  <2>6. ASSUME NEW f \in ProcessFingerprints, g = t.host, f \in Live(t.payload)
        PROVE  t.recordedAt \notin doomed
    <3>0. f \in Fingerprints
      BY IngestAssumption
    <3> DEFINE k == t.existing[f].row
    <3>1. CASE k = 0
      <4>0. Opening(w, f) # <<>>
        BY <2>6, <3>1 DEF Opening, Live
      <4>1. /\ Len(det[g][f]) + 1 \in DOMAIN Written(w, f)
            /\ Opened(w, g, f, Len(det[g][f]) + 1, Written(w, f)[Len(det[g][f]) + 1])
        BY <1>1, <2>6, <3>0, <4>0, WrittenColumns
      <4> QED
        BY <2>3, <2>6, <3>0, <4>1 DEF Opened, Stored
    <3>2. CASE k # 0
      <4>1. k \in DOMAIN det[g][f]
        BY <1>1, <2>6, <3>2 DEF RInv, ReadsHold, StillNewest
      <4>2. k \in DOMAIN Written(w, f) /\ Rewritten(w, g, f, k, Written(w, f)[k])
        BY <1>1, <2>6, <3>0, <4>1, WrittenColumns
      <4>3. Hit(w, g, f, k)
        BY <2>6 DEF Hit
      <4>4. Written(w, f)[k].process = t.recordedAt
        BY <4>2, <4>3 DEF Rewritten
      <4> QED
        BY <2>3, <2>6, <3>0, <4>2, <4>4
    <3> QED
      BY <3>1, <3>2
  <2>7. ASSUME NEW v \in Workers \ {w}, Holding(v), tx[v].host = g
        PROVE  tx[v].recordedAt \notin doomed
    BY <2>7 DEF Deletable, Uncommitted
  <2> HIDE DEF doomed
  <2> QED
    BY <2>1, <2>4, <2>5, <2>6, <2>7
<1> QED
  BY <1>5, <1>6

\* Another step keeps that, if every reference it writes is a dead one, one
\* that was there, or the rows of a report that was running.
LEMMA DoomedKept ==
  ASSUME TypeOK, TypeOK', NEW w \in Workers, DoomedInv(w), tx'[w] = tx[w], now <= now',
         \A g \in Hosts, f \in Fingerprints : \A i \in DOMAIN det'[g][f] :
           \/ det'[g][f][i].process = NoTime
           \/ i \in DOMAIN det[g][f] /\ det'[g][f][i].process = det[g][f][i].process
           \/ \E v \in Workers \ {w} : /\ Holding(v) /\ tx[v].host = g
                                       /\ det'[g][f][i].process = tx[v].recordedAt,
         \A v \in Workers \ {w} : Holding(v)' =>
           \/ Holding(v) /\ tx'[v].host = tx[v].host /\ tx'[v].recordedAt = tx[v].recordedAt
           \/ tx'[v].recordedAt = now
  PROVE  DoomedInv(w)'
<1> SUFFICES ASSUME tx[w].pc = "flushed", NEW g \in Hosts
             PROVE  LET doomed == tx[w].doomedProc[g]
                    IN  /\ \A time \in doomed : time < now'
                        /\ \A f \in Fingerprints : \A i \in DOMAIN det'[g][f] :
                             ~Relinked(w, g, f, i) => det'[g][f][i].process \notin doomed
                        /\ \A f \in ProcessFingerprints :
                             g = tx[w].host /\ f \in Live(tx[w].payload) =>
                               tx[w].recordedAt \notin doomed
                        /\ \A v \in Workers \ {w} :
                             Holding(v)' /\ tx'[v].host = g => tx'[v].recordedAt \notin doomed
  BY DEF DoomedInv, Relinked, Hit, Live
<1> DEFINE doomed == tx[w].doomedProc[g]
<1>1. doomed \subseteq Times /\ now \in Int /\ now' \in Int
  <2>1. tx[w] \in Transaction
    BY DEF TypeOK, Idle
  <2> QED
    BY <2>1 DEF Transaction, TypeOK, Times
<1>2. /\ \A time \in doomed : time < now
      /\ \A f \in Fingerprints : \A i \in DOMAIN det[g][f] :
           ~Relinked(w, g, f, i) => det[g][f][i].process \notin doomed
      /\ \A f \in ProcessFingerprints :
           g = tx[w].host /\ f \in Live(tx[w].payload) => tx[w].recordedAt \notin doomed
      /\ \A v \in Workers \ {w} :
           Holding(v) /\ tx[v].host = g => tx[v].recordedAt \notin doomed
  BY DEF DoomedInv
<1>3. NoTime \notin doomed /\ now \notin doomed
  BY <1>1, <1>2 DEF NoTime, Times
<1>4. \A time \in doomed : time < now'
  BY <1>1, <1>2 DEF Times
<1> HIDE DEF doomed
<1>5. ASSUME NEW f \in Fingerprints, NEW i \in DOMAIN det'[g][f], ~Relinked(w, g, f, i)
      PROVE  det'[g][f][i].process \notin doomed
  BY <1>2, <1>3, <1>5
<1>6. ASSUME NEW v \in Workers \ {w}, Holding(v)', tx'[v].host = g
      PROVE  tx'[v].recordedAt \notin doomed
  BY <1>2, <1>3, <1>6
<1> QED
  BY <1>2, <1>4, <1>5, <1>6 DEF doomed

\* A commit stores references of its own only, and only under its host.
LEMMA CommitLinks ==
  ASSUME RInv, NEW w \in Workers, Commit(w), NEW g \in Hosts, NEW f \in Fingerprints,
         NEW i \in DOMAIN det'[g][f]
  PROVE  \/ det'[g][f][i].process = NoTime
         \/ i \in DOMAIN det[g][f] /\ det'[g][f][i].process = det[g][f][i].process
         \/ tx[w].host = g /\ det'[g][f][i].process = tx[w].recordedAt
<1>1. PICK row : /\ IF i \in DOMAIN det[g][f] THEN Rewritten(w, g, f, i, row)
                                              ELSE Opened(w, g, f, i, row)
                 /\ det'[g][f][i].process = Unlinked(row.process, tx[w].doomedProc[g])
  BY CommitColumns DEF RInv
<1>2. \/ row.process = NoTime
      \/ i \in DOMAIN det[g][f] /\ row.process = det[g][f][i].process
      \/ tx[w].host = g /\ row.process = tx[w].recordedAt
  BY <1>1 DEF Rewritten, Opened, Stored, Hit
<1> QED
  BY <1>1, <1>2 DEF Unlinked

\* What every step does to the running transactions.
LEMMA OtherWorkers ==
  ASSUME TypeOK, Next, NEW w \in Workers, tx[w].pc = "flushed"
  PROVE  /\ tx'[w] = tx[w] \/ tx'[w] = Idle
         /\ now <= now'
         /\ \A v \in Workers : Holding(v)' =>
              \/ Holding(v) /\ tx'[v].host = tx[v].host /\ tx'[v].recordedAt = tx[v].recordedAt
              \/ tx'[v].recordedAt = now
<1>1. tx \in [Workers -> Transaction \cup {Idle}] /\ now \in Int
  BY DEF TypeOK, Times
<1>2. ASSUME NEW v \in Workers, NEW t, tx' = [tx EXCEPT ![v] = t], now' = now,
             t # Idle => tx[v].pc # "flushed",
             t.pc \in {"recorded", "judged", "resolved", "flushed"} =>
               \/ Holding(v) /\ t.host = tx[v].host /\ t.recordedAt = tx[v].recordedAt
               \/ t.recordedAt = now
      PROVE  /\ tx'[w] = tx[w] \/ tx'[w] = Idle
             /\ now <= now'
             /\ \A u \in Workers : Holding(u)' =>
                  \/ Holding(u) /\ tx'[u].host = tx[u].host /\ tx'[u].recordedAt = tx[u].recordedAt
                  \/ tx'[u].recordedAt = now
  <2>1. \A u \in Workers : tx'[u] = IF u = v THEN t ELSE tx[u]
    BY <1>1, <1>2
  <2> QED
    BY <1>1, <1>2, <2>1 DEF Holding
<1> DEFINE Claim == /\ tx'[w] = tx[w] \/ tx'[w] = Idle
                    /\ now <= now'
                    /\ \A u \in Workers : Holding(u)' =>
                         \/ /\ Holding(u) /\ tx'[u].host = tx[u].host
                            /\ tx'[u].recordedAt = tx[u].recordedAt
                         \/ tx'[u].recordedAt = now
<1>3. ASSUME NEW v \in Workers, NEW h \in Hosts, NEW payload \in Payloads,
             SelectHost(v, h, payload)
      PROVE  Claim
  <2> DEFINE t == [pc |-> "selected", host |-> h, payload |-> payload, known |-> hosts[h].known,
        risk |-> hosts[h].risk, seenAt |-> now, existing |-> NoRows, recordedAt |-> now,
        stale |-> {}, closes |-> {}, judgedAt |-> now, worst |-> 0,
        doomedProc |-> NothingDoomed, doomedNet |-> NothingDoomed]
  <2>1. tx' = [tx EXCEPT ![v] = t] /\ now' = now /\ tx[v] = Idle
    BY <1>3 DEF SelectHost
  <2>2. t.pc = "selected" /\ tx[v].pc # "flushed"
    BY <2>1 DEF Idle
  <2> HIDE DEF t
  <2> QED
    BY <1>2, <2>1, <2>2
<1>4. ASSUME NEW v \in Workers, DuplicateHost(v) \/ Fail(v) \/ Commit(v)
      PROVE  Claim
  <2>1. tx' = [tx EXCEPT ![v] = Idle] /\ now' = now
    BY <1>4 DEF DuplicateHost, Fail, Commit
  <2> QED
    BY <1>2, <2>1 DEF Idle
<1>5. ASSUME NEW v \in Workers,
             StoreAndRecord(v) \/ FindStale(v) \/ ResolveStale(v) \/ RefreshAndPrune(v)
      PROVE  Claim
  <2>1. /\ tx[v] \in Transaction /\ tx[v].pc # "flushed"
        /\ tx' = [tx EXCEPT ![v] = tx'[v]] /\ now' = now
    <3>1. tx[v].pc \in {"selected", "recorded", "judged", "resolved"} /\ now' = now
      BY <1>5 DEF StoreAndRecord, FindStale, ResolveStale, RefreshAndPrune
    <3>2. tx[v] \in Transaction
      BY <1>1, <3>1 DEF Idle
    <3>3. tx' = [tx EXCEPT ![v] = tx'[v]]
      BY <1>1, <1>5 DEF StoreAndRecord, FindStale, ResolveStale, RefreshAndPrune
    <3> QED
      BY <3>1, <3>2, <3>3
  <2>2. CASE StoreAndRecord(v)
    <3>1. tx'[v].recordedAt = now
      BY <1>1, <2>1, <2>2 DEF StoreAndRecord, Transaction
    <3> QED
      BY <1>2, <2>1, <3>1
  <2>3. CASE FindStale(v)
    <3>1. Holding(v) /\ tx'[v].host = tx[v].host /\ tx'[v].recordedAt = tx[v].recordedAt
      BY <1>1, <2>1, <2>3 DEF FindStale, Transaction, Holding
    <3> QED
      BY <1>2, <2>1, <3>1
  <2>4. CASE ResolveStale(v)
    <3>1. Holding(v) /\ tx'[v].host = tx[v].host /\ tx'[v].recordedAt = tx[v].recordedAt
      BY <1>1, <2>1, <2>4 DEF ResolveStale, Transaction, Holding
    <3> QED
      BY <1>2, <2>1, <3>1
  <2>5. CASE RefreshAndPrune(v)
    <3>1. Holding(v) /\ tx'[v].host = tx[v].host /\ tx'[v].recordedAt = tx[v].recordedAt
      BY <1>1, <2>1, <2>5 DEF RefreshAndPrune, Transaction, Holding
    <3> QED
      BY <1>2, <2>1, <3>1
  <2> QED
    BY <1>5, <2>2, <2>3, <2>4, <2>5
<1>6. CASE Restart
  BY <1>1, <1>6 DEF Restart, Holding, Idle
<1>7. CASE Tick
  BY <1>1, <1>7 DEF Tick, Holding
<1>8. CASE Analyst
  BY <1>1, <1>8 DEF Analyst, PatchAlert, Holding
<1> QED
  BY <1>3, <1>4, <1>5, <1>6, <1>7, <1>8 DEF Next, WorkerStep, Report

\* What a step does to the transaction of a worker.
LEMMA WorkerMoves ==
  ASSUME TypeOK, [Next]_vars, NEW w \in Workers
  PROVE  \/ tx'[w] = tx[w] \/ tx'[w] = Idle \/ RefreshAndPrune(w)
         \/ \E h \in Hosts, payload \in Payloads : SelectHost(w, h, payload)
         \/ StoreAndRecord(w) \/ FindStale(w) \/ ResolveStale(w)
<1>1. tx \in [Workers -> Transaction \cup {Idle}]
  BY DEF TypeOK
<1>2. ASSUME NEW v \in Workers, v # w, tx' = [tx EXCEPT ![v] = tx'[v]]
      PROVE  tx'[w] = tx[w]
  BY <1>1, <1>2
<1>3. ASSUME NEW v \in Workers, NEW h \in Hosts, NEW payload \in Payloads,
             SelectHost(v, h, payload)
      PROVE  v = w \/ tx'[w] = tx[w]
  BY <1>1, <1>3 DEF SelectHost
<1>4. ASSUME NEW v \in Workers, DuplicateHost(v) \/ Fail(v) \/ Commit(v)
      PROVE  tx'[w] \in {tx[w], Idle}
  BY <1>1, <1>4 DEF DuplicateHost, Fail, Commit
<1>5. ASSUME NEW v \in Workers,
             StoreAndRecord(v) \/ FindStale(v) \/ ResolveStale(v) \/ RefreshAndPrune(v)
      PROVE  v = w \/ tx'[w] = tx[w]
  <2>1. tx' = [tx EXCEPT ![v] = tx'[v]]
    BY <1>1, <1>5 DEF StoreAndRecord, FindStale, ResolveStale, RefreshAndPrune
  <2> QED
    BY <1>2, <2>1
<1>6. CASE Restart
  BY <1>6 DEF Restart
<1>7. CASE Tick \/ UNCHANGED vars
  BY <1>7 DEF Tick, vars
<1>8. CASE Analyst
  <2>1. PICK h \in Hosts, f \in Fingerprints, verdict \in Verdicts :
          \E i \in DOMAIN det[h][f] : PatchAlert(h, f, i, verdict)
    BY <1>8 DEF Analyst
  <2> QED
    BY <2>1 DEF PatchAlert
<1>9. CASE \E v \in Workers, h \in Hosts, payload \in Payloads : SelectHost(v, h, payload)
  BY <1>3, <1>9
<1>10. CASE \E v \in Workers : DuplicateHost(v) \/ Fail(v) \/ Commit(v)
  BY <1>4, <1>10
<1>11. CASE \E v \in Workers :
              StoreAndRecord(v) \/ FindStale(v) \/ ResolveStale(v) \/ RefreshAndPrune(v)
  BY <1>5, <1>11
<1> QED
  BY <1>6, <1>7, <1>8, <1>9, <1>10, <1>11 DEF Next, WorkerStep, Report

\* Only its own commit ends a transaction that has deleted rows, and only its
\* own prune begins one.
LEMMA StepKeepsDoomed ==
  ASSUME RInv, TypeOK', [Next]_vars,
         \A v \in Workers : DoomedInv(v), NEW w \in Workers
  PROVE  DoomedInv(w)'
<1>1. TypeOK /\ IInv /\ LockInv
  BY DEF RInv, IInv
<1>2. CASE UNCHANGED vars
  <2>1. tx' = tx /\ det' = det /\ now' = now
    BY <1>2 DEF vars, database
  <2> QED
    BY <2>1 DEF DoomedInv, Relinked, Hit, Live, Holding
<1>3. CASE Next /\ tx[w].pc # "flushed"
  <2>1. CASE RefreshAndPrune(w)
    BY <2>1, PruneDooms
  <2>2. CASE ~RefreshAndPrune(w)
    <3>1. tx'[w].pc # "flushed"
      <4>1. tx \in [Workers -> Transaction \cup {Idle}]
        BY <1>1 DEF TypeOK
      <4>2. ASSUME NEW h \in Hosts, NEW payload \in Payloads, SelectHost(w, h, payload)
            PROVE  tx'[w].pc # "flushed"
        BY <4>1, <4>2 DEF SelectHost
      <4>3. CASE StoreAndRecord(w)
        <5>1. tx[w] \in Transaction
          BY <1>1, <4>3, RecordTyped
        <5> QED
          BY <4>1, <4>3, <5>1 DEF StoreAndRecord, Transaction
      <4>4. CASE FindStale(w)
        <5>1. tx[w] \in Transaction
          BY <1>1, <4>4, StaleTyped
        <5> QED
          BY <4>1, <4>4, <5>1 DEF FindStale, Transaction
      <4>5. CASE ResolveStale(w)
        <5>1. tx[w] \in Transaction
          BY <1>1, <4>5, ResolveTyped
        <5> QED
          BY <4>1, <4>5, <5>1 DEF ResolveStale, Transaction
      <4>6. Idle.pc # "flushed"
        BY DEF Idle
      <4> QED
        BY <1>1, <1>3, <2>2, <4>2, <4>3, <4>4, <4>5, <4>6, WorkerMoves
    <3> QED
      BY <3>1 DEF DoomedInv
  <2> QED
    BY <2>1, <2>2
<1>4. CASE Next /\ tx[w].pc = "flushed"
  <2>1. /\ tx'[w] = tx[w] \/ tx'[w] = Idle
        /\ now <= now'
        /\ \A v \in Workers : Holding(v)' =>
             \/ Holding(v) /\ tx'[v].host = tx[v].host /\ tx'[v].recordedAt = tx[v].recordedAt
             \/ tx'[v].recordedAt = now
    BY <1>1, <1>4, OtherWorkers
  <2>2. CASE tx'[w] = Idle
    BY <2>2 DEF DoomedInv, Idle
  <2>3. CASE tx'[w] = tx[w]
    <3>1. ASSUME NEW g \in Hosts, NEW f \in Fingerprints, NEW i \in DOMAIN det'[g][f]
          PROVE  \/ det'[g][f][i].process = NoTime
                 \/ i \in DOMAIN det[g][f] /\ det'[g][f][i].process = det[g][f][i].process
                 \/ \E v \in Workers \ {w} : /\ Holding(v) /\ tx[v].host = g
                                             /\ det'[g][f][i].process = tx[v].recordedAt
      <4>1. CASE det' = det
        BY <4>1
      <4>2. ASSUME NEW v \in Workers, Commit(v)
            PROVE  \/ det'[g][f][i].process = NoTime
                   \/ i \in DOMAIN det[g][f] /\ det'[g][f][i].process = det[g][f][i].process
                   \/ \E u \in Workers \ {w} : /\ Holding(u) /\ tx[u].host = g
                                               /\ det'[g][f][i].process = tx[u].recordedAt
        <5>1. v # w
          BY <1>1, <1>4, <2>3, <4>2 DEF Commit, TypeOK, Idle
        <5>2. Holding(v)
          BY <4>2 DEF Commit, Holding
        <5> QED
          BY <4>2, <5>1, <5>2, CommitLinks
      <4>3. ASSUME NEW h \in Hosts, NEW e \in Fingerprints, NEW verdict \in Verdicts,
                   NEW j \in DOMAIN det[h][e], PatchAlert(h, e, j, verdict)
            PROVE  i \in DOMAIN det[g][f] /\ det'[g][f][i].process = det[g][f][i].process
        BY <1>1, <4>3, PatchColumns
      <4> QED
        BY <1>1, <4>1, <4>2, <4>3, StepKinds
    <3> QED
      BY <1>1, <2>1, <2>3, <3>1, DoomedKept
  <2> QED
    BY <2>1, <2>2, <2>3
<1> QED
  BY <1>2, <1>3, <1>4

\* README, data model: the process rows that a detection refers to are kept.
\* No commit, its own or another host's, nulls the reference of a detection,
\* whatever was stored between the DELETE that looked for references and the
\* commit that carries it out.
THEOREM EvidenceIsRetained == Spec => EvidenceRetained
<1> DEFINE Kept == \A h \in Hosts, f \in Fingerprints : \A i \in DOMAIN det[h][f] :
                     det[h][f][i].process # NoTime => det'[h][f][i].process # NoTime
<1>1. Init => \A w \in Workers : DoomedInv(w)
  BY DEF Init, DoomedInv, Idle
<1>2. RInv /\ TypeOK' /\ [Next]_vars /\ (\A w \in Workers : DoomedInv(w))
        => (\A w \in Workers : DoomedInv(w))'
  BY StepKeepsDoomed
<1>3. ASSUME RInv, TypeOK', [Next]_vars, \A w \in Workers : DoomedInv(w),
             NEW h \in Hosts, NEW f \in Fingerprints, NEW i \in DOMAIN det[h][f],
             det[h][f][i].process # NoTime
      PROVE  det'[h][f][i].process # NoTime
  <2>1. TypeOK
    BY <1>3 DEF RInv
  <2>2. CASE det' = det
    BY <1>3, <2>2
  <2>3. ASSUME NEW g \in Hosts, NEW e \in Fingerprints, NEW verdict \in Verdicts,
               NEW j \in DOMAIN det[g][e], PatchAlert(g, e, j, verdict)
        PROVE  det'[h][f][i].process # NoTime
    BY <1>3, <2>1, <2>3, PatchColumns
  <2>4. ASSUME NEW w \in Workers, Commit(w)
        PROVE  det'[h][f][i].process # NoTime
    <3> DEFINE doomed == tx[w].doomedProc[h]
    <3>1. /\ tx[w].pc = "flushed" /\ tx[w].recordedAt \in Times
      BY <2>1, <2>4, CommitTyped DEF Commit, Transaction
    <3>2. i \in DOMAIN det'[h][f]
      BY <1>3, <2>1, <2>4, CommitColumns
    <3>3. PICK row : /\ Rewritten(w, h, f, i, row)
                     /\ det'[h][f][i].process = Unlinked(row.process, doomed)
      BY <1>3, <2>1, <2>4, <3>2, CommitColumns
    <3>4. CASE Relinked(w, h, f, i)
      <4>1. row.process = tx[w].recordedAt /\ h = tx[w].host /\ f \in Live(tx[w].payload)
            /\ f \in ProcessFingerprints
        BY <3>3, <3>4 DEF Relinked, Rewritten, Hit
      <4>2. tx[w].recordedAt \notin doomed
        BY <1>3, <3>1, <4>1 DEF DoomedInv
      <4> QED
        BY <3>1, <3>3, <4>1, <4>2 DEF Unlinked, Times, NoTime
    <3>5. CASE ~Relinked(w, h, f, i)
      <4>1. row.process = det[h][f][i].process
        BY <3>3, <3>5 DEF Relinked, Rewritten
      <4>2. det[h][f][i].process \notin doomed
        BY <1>3, <3>1, <3>5 DEF DoomedInv
      <4> QED
        BY <1>3, <3>3, <4>1, <4>2 DEF Unlinked
    <3> QED
      BY <3>4, <3>5
  <2> QED
    BY <1>3, <2>1, <2>2, <2>3, <2>4, StepKinds
<1>4. RInv /\ TypeOK' /\ (\A w \in Workers : DoomedInv(w)) /\ [Next]_vars => [Kept]_vars
  BY <1>3
<1>5. RInv /\ [Next]_vars /\ TypeOK' => RInv'
  BY StepKeepsRInv
<1> QED
  BY <1>1, <1>2, <1>4, <1>5, InitRInv, TypeCorrect, PTL DEF Spec, EvidenceRetained

-----------------------------------------------------------------------------
(* Settled detections.                                                     *)

\* The row of a detection that w neither updates nor resolves, and whose
\* process row it does not delete, is not written by its commit.
LEMMA RowUntouched ==
  ASSUME TypeOK, NEW w \in Workers, Commit(w), NEW h \in Hosts, NEW f \in Fingerprints,
         NEW i \in DOMAIN det[h][f], ~Hit(w, h, f, i),
         h = tx[w].host => <<f, i>> \notin tx[w].stale,
         det[h][f][i].process \notin tx[w].doomedProc[h]
  PROVE  det'[h][f][i] = det[h][f][i]
<1> DEFINE t == tx[w]
           old == det[h][f]
           written == IF h = t.host THEN Written(w, f) ELSE old
<1>1. t \in Transaction /\ old \in Seq(Row) /\ i \in DOMAIN old
  BY CommitTyped DEF TypeOK
<1>2. i \in DOMAIN written /\ written[i] = old[i]
  <2>1. CASE h = t.host
    <3>1. Updated(w, f) \in Seq(Row) /\ DOMAIN Updated(w, f) = DOMAIN old
      BY <1>1, <2>1, UpdatedKeeps
    <3>2. Updated(w, f)[i] = old[i]
      BY <1>1, <2>1, UpdatedRow DEF Hit
    <3>3. CASE Opening(w, f) # <<>>
      <4>1. Written(w, f) = Append(Updated(w, f), Inserted(w, f))
        BY <3>3 DEF Written
      <4>2. i \in DOMAIN Written(w, f) /\ Written(w, f)[i] = Updated(w, f)[i]
        <5>1. i \in 1 .. Len(Updated(w, f))
          BY <1>1, <3>1
        <5> QED
          BY <3>1, <4>1, <5>1
      <4> QED
        BY <2>1, <3>2, <4>2
    <3>4. CASE Opening(w, f) = <<>>
      <4>1. Written(w, f) = Updated(w, f)
        BY <3>4 DEF Written
      <4> QED
        BY <1>1, <2>1, <3>1, <3>2, <4>1
    <3> QED
      BY <3>3, <3>4
  <2>2. CASE h # t.host
    BY <1>1, <2>2
  <2> QED
    BY <2>1, <2>2
<1>3. det'[h][f] = Detach(written, t.doomedProc[h])
  BY DEF Commit
<1> HIDE DEF written
<1>4. det'[h][f][i] = [written[i] EXCEPT !.process = IF @ \in t.doomedProc[h] THEN NoTime ELSE @]
  BY <1>2, <1>3 DEF Detach
<1>5. old[i] \in Row
  BY <1>1
<1> QED
  BY <1>2, <1>4, <1>5 DEF Row

\* What is settled stays as it is: no report changes any column of a detection
\* that was settled, by an analyst or an earlier report, before the last report
\* of its host came in; neither by finding its evidence again nor by growing
\* old, whatever its own transaction read and when, nor by deleting the process
\* rows of any host.
THEOREM SettledStays == Spec => SettledIsFinal
<1> DEFINE Final == (\E w \in Workers : Commit(w)) =>
                      \A h \in Hosts, f \in Fingerprints : \A i \in DOMAIN det[h][f] :
                        det[h][f][i].status # "open" /\ f \notin overruled[h]
                          => det'[h][f][i] = det[h][f][i]
<1>1. Init => \A w \in Workers : DoomedInv(w)
  BY DEF Init, DoomedInv, Idle
<1>2. RInv /\ TypeOK' /\ [Next]_vars /\ (\A w \in Workers : DoomedInv(w))
        => (\A w \in Workers : DoomedInv(w))'
  BY StepKeepsDoomed
<1>3. ASSUME RInv, \A v \in Workers : DoomedInv(v), NEW w \in Workers, Commit(w),
             NEW h \in Hosts, NEW f \in Fingerprints, NEW i \in DOMAIN det[h][f],
             det[h][f][i].status # "open", f \notin overruled[h]
      PROVE  det'[h][f][i] = det[h][f][i]
  <2>1. TypeOK /\ tx[w].pc = "flushed" /\ det[h][f] \in Seq(Row)
    BY <1>3 DEF RInv, Commit, TypeOK
  <2>2. ~Hit(w, h, f, i)
    <3>1. SUFFICES ASSUME h = tx[w].host, f \in Live(tx[w].payload), i = tx[w].existing[f].row
                   PROVE  FALSE
      BY DEF Hit
    <3>2. i # 0
      BY <2>1
    <3>3. StillNewest(h, f, i)
      BY <1>3, <2>1, <3>1, <3>2 DEF RInv, ReadsHold, Holding
    <3> QED
      BY <1>3, <3>3 DEF StillNewest
  <2>3. h = tx[w].host => <<f, i>> \notin tx[w].stale
    <3>1. SUFFICES ASSUME h = tx[w].host, <<f, i>> \in tx[w].stale
                   PROVE  FALSE
      OBVIOUS
    <3>2. StillNewest(h, f, i)
      BY <1>3, <2>1, <3>1 DEF RInv, JudgementHolds
    <3> QED
      BY <1>3, <3>2 DEF StillNewest
  <2>4. det[h][f][i].process \notin tx[w].doomedProc[h]
    BY <1>3, <2>1, <2>2 DEF DoomedInv, Relinked
  <2> QED
    BY <1>3, <2>1, <2>2, <2>3, <2>4, RowUntouched
<1>4. RInv /\ (\A w \in Workers : DoomedInv(w)) => [Final]_vars
  BY <1>3
<1>5. RInv /\ [Next]_vars /\ TypeOK' => RInv'
  BY StepKeepsRInv
<1> QED
  BY <1>1, <1>2, <1>4, <1>5, InitRInv, TypeCorrect, PTL DEF Spec, SettledIsFinal

-----------------------------------------------------------------------------
(* The rollup of a host.                                                   *)

\* The rollup, row by row.
HostCovered(h) ==
  \A f \in Fingerprints : \A i \in OpenRows(h, f) : det[h][f][i].score <= hosts[h].risk

\* The findings of f that a transaction records leave a row open: the one they
\* were added to, or a new one.
LeavesOpen(w, f) ==
  \/ tx[w].existing[f].row \in OpenRows(tx[w].host, f) \cup {0}
  \/ Len(tx[w].payload.evidence[f]) > 1

\* The rollup of a transaction covers the rows that will be open after its
\* commit, though an analyst may settle some of them meanwhile.
WorstInv(w) ==
  LET t == tx[w]
      h == t.host
  IN  t.pc = "flushed" =>
        \A f \in Fingerprints :
          /\ \A i \in OpenRows(h, f) :
               ~Hit(w, h, f, i) /\ <<f, i>> \notin t.stale => det[h][f][i].score <= t.worst
          /\ f \in Live(t.payload) /\ LeavesOpen(w, f) =>
               Last(t.payload.evidence[f]) <= t.worst

\* Nothing opens on g, and no score of an open row moves.
Quieter(g) ==
  \A f \in Fingerprints : \A i \in OpenRows(g, f)' :
    i \in OpenRows(g, f) /\ det'[g][f][i].score = det[g][f][i].score

\* Covered row by row is covered as a whole.
LEMMA HostCoveredRolls ==
  ASSUME TypeOK, NEW h \in Hosts, HostCovered(h)
  PROVE  hosts[h].risk >= WorstOpen(h)
<1> DEFINE S == {0} \cup UNION {{det[h][f][i].score : i \in OpenRows(h, f)} : f \in Fingerprints}
<1>1. ASSUME NEW f \in Fingerprints, NEW i \in OpenRows(h, f)
      PROVE  det[h][f][i].score \in 0 .. 100
  <2>1. det[h][f] \in Seq(Row) /\ i \in DOMAIN det[h][f]
    BY DEF TypeOK, OpenRows
  <2>2. det[h][f][i] \in Row
    BY <2>1
  <2> QED
    BY <2>2 DEF Row, Scores
<1>2. S \subseteq 0 .. 100 /\ S # {}
  BY <1>1
<1>3. \A y \in S : y <= hosts[h].risk
  <2>1. hosts[h] \in HostRow
    BY DEF TypeOK
  <2> QED
    BY <2>1 DEF HostCovered, HostRow, Scores
<1>4. WorstOpen(h) = Max(S)
  BY DEF WorstOpen
<1>5. hosts[h].risk \in Int
  <2>1. hosts[h] \in HostRow
    BY DEF TypeOK
  <2> QED
    BY <2>1 DEF HostRow, Scores
<1> HIDE DEF S
<1>6. Max(S) \in S /\ Max(S) \in Int
  <2>1. Max(S) \in S
    BY <1>2, MaxOfBounded
  <2>2. Max(S) \in 0 .. 100
    BY <1>2, <2>1, Zenon
  <2> QED
    BY <2>1, <2>2
<1> QED
  BY <1>3, <1>4, <1>5, <1>6

\* The rollup of a transaction is no less than the score of any row that is
\* open in what it writes.
LEMMA WorstCovers ==
  ASSUME TypeOK, NEW w \in Workers, tx[w] \in Transaction, NEW f \in Fingerprints,
         NEW i \in DOMAIN Written(w, f), Written(w, f)[i].status = "open"
  PROVE  Written(w, f)[i].score <= WorstOf(w)
<1> DEFINE S == {0} \cup UNION {{row.score : row \in {Written(w, e)[j] : j \in
                    {k \in DOMAIN Written(w, e) : Written(w, e)[k].status = "open"}}} :
                      e \in Fingerprints}
<1>1. ASSUME NEW e \in Fingerprints, NEW j \in DOMAIN Written(w, e)
      PROVE  Written(w, e)[j].score \in 0 .. 100
  <2>1. Written(w, e) \in Seq(Row)
    BY WrittenKeeps
  <2>2. Written(w, e)[j] \in Row
    BY <2>1
  <2> QED
    BY <2>2 DEF Row, Scores
<1>2. S \subseteq 0 .. 100 /\ S # {}
  BY <1>1
<1>3. Written(w, f)[i].score \in S
  OBVIOUS
<1>4. WorstOf(w) = Max(S)
  BY DEF WorstOf
<1> HIDE DEF S
<1>5. Max(S) \in S /\ \A y \in S : Max(S) >= y
  BY <1>2, MaxOfBounded
<1> DEFINE score == Written(w, f)[i].score
<1>6. score \in S
  BY <1>3
<1> HIDE DEF score
<1>7. Max(S) \in 0 .. 100 /\ score \in 0 .. 100 /\ Max(S) >= score
  BY <1>2, <1>5, <1>6
<1>8. score <= Max(S)
  BY <1>7
<1> QED
  BY <1>4, <1>8 DEF score

\* refresh_host_risk covers what its transaction leaves open.
LEMMA RefreshRolls ==
  ASSUME RInv, NEW w \in Workers, RefreshAndPrune(w)
  PROVE  WorstInv(w)'
<1> DEFINE t == tx[w]
           h == t.host
<1>1. TypeOK /\ t \in Transaction /\ h \in Hosts
  <2>1. TypeOK /\ t \in Transaction
    BY RefreshTyped DEF RInv
  <2> QED
    BY <2>1 DEF Transaction
<1>2. /\ tx'[w].host = h /\ tx'[w].payload = t.payload
      /\ tx'[w].existing = t.existing /\ tx'[w].stale = t.stale
      /\ tx'[w].worst = WorstOf(w)
      /\ det' = det
  BY <1>1 DEF RefreshAndPrune, TypeOK, Transaction, database
<1>4. ASSUME NEW f \in Fingerprints, NEW i \in OpenRows(h, f), ~Hit(w, h, f, i),
             <<f, i>> \notin t.stale
      PROVE  det[h][f][i].score <= WorstOf(w)
  <2>1. i \in DOMAIN det[h][f] /\ det[h][f][i].status = "open"
    BY DEF OpenRows
  <2>2. i \in DOMAIN Written(w, f) /\ Rewritten(w, h, f, i, Written(w, f)[i])
    BY <1>1, <2>1, WrittenColumns
  <2>3. Written(w, f)[i].score = det[h][f][i].score /\ Written(w, f)[i].status = "open"
    BY <1>4, <2>1, <2>2 DEF Rewritten
  <2> QED
    BY <1>1, <2>2, <2>3, WorstCovers
<1>5. ASSUME NEW f \in Fingerprints, f \in Live(t.payload), LeavesOpen(w, f)
      PROVE  Last(t.payload.evidence[f]) <= WorstOf(w)
  <2> DEFINE k == t.existing[f].row
             scores == t.payload.evidence[f]
  <2>1. scores \in Seq(25 .. 100) /\ scores # <<>> /\ Len(scores) \in Nat
    BY <1>1, <1>5 DEF Live, Transaction, AllPayloads
  <2>2. CASE Opening(w, f) # <<>>
    <3>1. /\ Len(det[h][f]) + 1 \in DOMAIN Written(w, f)
          /\ Opened(w, h, f, Len(det[h][f]) + 1, Written(w, f)[Len(det[h][f]) + 1])
      BY <1>1, <2>2, WrittenColumns
    <3>2. Last(Opening(w, f)) = Last(scores)
      BY <2>1, <2>2, SplitScores
    <3> QED
      BY <1>1, <3>1, <3>2, WorstCovers DEF Opened
  <2>3. CASE Opening(w, f) = <<>>
    <3>1. k # 0
      BY <2>1, <2>3 DEF Opening
    <3>2. k \in DOMAIN det[h][f]
      BY <1>1, <1>5, <3>1 DEF RInv, ReadsHold, StillNewest, RefreshAndPrune, Holding
    <3>3. ~Overtaken(w, f)
      <4>1. SUFFICES ASSUME Overtaken(w, f) PROVE FALSE
        OBVIOUS
      <4>2. Len(Opening(w, f)) = Len(scores) - 1 /\ Len(<<>>) = 0
        BY <2>1, <4>1, SplitScores
      <4>3. det[h][f][k].status # "open"
        BY <4>1 DEF Overtaken
      <4>4. Len(scores) > 1
        BY <1>5, <3>1, <4>3 DEF LeavesOpen, OpenRows
      <4>5. Len(Opening(w, f)) = 0
        BY <2>3, <4>2
      <4>6. Len(scores) \in Nat /\ Len(scores) - 1 = 0 /\ Len(scores) > 1
        BY <2>1, <4>2, <4>4, <4>5, Zenon
      <4>7. \A n \in Nat : n - 1 = 0 => ~(n > 1)
        OBVIOUS
      <4> QED
        BY <4>6, <4>7, Zenon
    <3>4. det[h][f][k].status = "open" /\ Added(w, f) = scores
      BY <2>1, <3>1, <3>3 DEF Overtaken, Added
    <3>5. k \in DOMAIN Written(w, f) /\ Rewritten(w, h, f, k, Written(w, f)[k])
      BY <1>1, <3>2, WrittenColumns
    <3>6. Hit(w, h, f, k)
      BY <1>5 DEF Hit
    <3>7. Written(w, f)[k].score = Last(scores) /\ Written(w, f)[k].status = "open"
      BY <3>4, <3>5, <3>6 DEF Rewritten
    <3> QED
      BY <1>1, <3>5, <3>7, WorstCovers
  <2> QED
    BY <2>2, <2>3
<1> QED
  BY <1>1, <1>2, <1>4, <1>5 DEF WorstInv, LeavesOpen, OpenRows, Hit, Live

\* A transaction that a step leaves alone, with its host, keeps its rollup.
LEMMA WorstKept ==
  ASSUME NEW w \in Workers, WorstInv(w), tx'[w] = tx[w],
         tx[w].pc = "flushed" => Quieter(tx[w].host)
  PROVE  WorstInv(w)'
<1> SUFFICES ASSUME tx[w].pc = "flushed"
             PROVE  WorstInv(w)'
  BY DEF WorstInv
<1> DEFINE t == tx[w]
           h == t.host
<1>1. ASSUME NEW f \in Fingerprints
      PROVE  /\ \A i \in OpenRows(h, f)' :
                  ~Hit(w, h, f, i) /\ <<f, i>> \notin t.stale => det'[h][f][i].score <= t.worst
             /\ f \in Live(t.payload)
                  /\ (\/ t.existing[f].row \in OpenRows(h, f)' \cup {0}
                      \/ Len(t.payload.evidence[f]) > 1) =>
                  Last(t.payload.evidence[f]) <= t.worst
  <2>1. /\ \A i \in OpenRows(h, f) :
             ~Hit(w, h, f, i) /\ <<f, i>> \notin t.stale => det[h][f][i].score <= t.worst
        /\ f \in Live(t.payload)
             /\ (\/ t.existing[f].row \in OpenRows(h, f) \cup {0}
                 \/ Len(t.payload.evidence[f]) > 1) =>
             Last(t.payload.evidence[f]) <= t.worst
    BY DEF WorstInv, LeavesOpen
  <2> QED
    BY <2>1 DEF Quieter
<1> QED
  BY <1>1 DEF WorstInv, LeavesOpen, OpenRows, Hit, Live

\* A commit opens nothing on another host.
LEMMA CommitElsewhere ==
  ASSUME TypeOK, NEW w \in Workers, Commit(w), NEW g \in Hosts, g # tx[w].host
  PROVE  Quieter(g) /\ hosts'[g] = hosts[g]
<1>1. hosts'[g] = hosts[g]
  <2>1. tx[w].host \in Hosts
    BY CommitTyped
  <2> QED
    BY <2>1 DEF Commit, TypeOK
<1>2. ASSUME NEW f \in Fingerprints, NEW i \in DOMAIN det'[g][f], det'[g][f][i].status = "open"
      PROVE  /\ i \in DOMAIN det[g][f] /\ det[g][f][i].status = "open"
             /\ det'[g][f][i].score = det[g][f][i].score
  <2>1. PICK row : /\ IF i \in DOMAIN det[g][f] THEN Rewritten(w, g, f, i, row)
                                                ELSE Opened(w, g, f, i, row)
                   /\ det'[g][f][i].score = row.score
                   /\ det'[g][f][i].status = row.status
    BY CommitColumns
  <2> QED
    BY <1>2, <2>1 DEF Rewritten, Opened, Hit
<1>3. Quieter(g)
  BY <1>2 DEF Quieter, OpenRows
<1> QED
  BY <1>1, <1>3

\* No row that a commit leaves open on its host is above its rollup.
LEMMA CommitBelowWorst ==
  ASSUME TypeOK, NEW w \in Workers, Commit(w), WorstInv(w), NEW h \in Hosts, h = tx[w].host,
         NEW f \in Fingerprints, NEW i \in OpenRows(h, f)'
  PROVE  det'[h][f][i].score <= tx[w].worst
<1> DEFINE t == tx[w]
<1>1. t.pc = "flushed"
  BY DEF Commit
<1>2. i \in DOMAIN det'[h][f] /\ det'[h][f][i].status = "open"
  BY DEF OpenRows
<1>3. PICK row : /\ IF i \in DOMAIN det[h][f] THEN Rewritten(w, h, f, i, row)
                                              ELSE Opened(w, h, f, i, row)
                 /\ det'[h][f][i].score = row.score
                 /\ det'[h][f][i].status = row.status
  BY <1>2, CommitColumns
<1>4. /\ \A j \in OpenRows(h, f) :
           ~Hit(w, h, f, j) /\ <<f, j>> \notin t.stale => det[h][f][j].score <= t.worst
      /\ f \in Live(t.payload) /\ LeavesOpen(w, f) =>
           Last(t.payload.evidence[f]) <= t.worst
  BY <1>1 DEF WorstInv
<1>5. CASE i \notin DOMAIN det[h][f]
  <2>1. Opening(w, f) # <<>> /\ row.score = Last(Opening(w, f))
    BY <1>3, <1>5 DEF Opened
  <2>2. t.payload.evidence[f] \in Seq(25 .. 100)
    BY CommitTyped DEF Transaction, AllPayloads
  <2>3. /\ Last(Opening(w, f)) = Last(t.payload.evidence[f])
        /\ f \in Live(t.payload) /\ LeavesOpen(w, f)
    BY <2>1, <2>2, SplitScores DEF Live, LeavesOpen
  <2> QED
    BY <1>3, <1>4, <2>1, <2>3
<1>6. CASE i \in DOMAIN det[h][f] /\ Hit(w, h, f, i)
  <2>1. /\ row.score = Last(Added(w, f)) /\ det[h][f][i].status = "open"
        /\ f \in Live(t.payload) /\ i = t.existing[f].row
    BY <1>2, <1>3, <1>6 DEF Rewritten, Hit
  <2>2. Added(w, f) = t.payload.evidence[f]
    BY <2>1 DEF Added, Overtaken
  <2>3. LeavesOpen(w, f)
    BY <1>6, <2>1 DEF LeavesOpen, OpenRows
  <2> QED
    BY <1>3, <1>4, <2>1, <2>2, <2>3
<1>7. CASE i \in DOMAIN det[h][f] /\ ~Hit(w, h, f, i)
  <2>1. /\ row.score = det[h][f][i].score /\ det[h][f][i].status = "open"
        /\ <<f, i>> \notin t.stale
    BY <1>2, <1>3, <1>7 DEF Rewritten
  <2>2. i \in OpenRows(h, f)
    BY <1>7, <2>1 DEF OpenRows
  <2> QED
    BY <1>3, <1>4, <1>7, <2>1, <2>2
<1> QED
  BY <1>5, <1>6, <1>7

\* A rollup that is sent covers the host.
LEMMA CommitCovers ==
  ASSUME TypeOK, NEW w \in Workers, Commit(w), WorstInv(w), NEW h \in Hosts, h = tx[w].host,
         hosts'[h].risk = tx[w].worst
  PROVE  HostCovered(h)'
<1>1. ASSUME NEW f \in Fingerprints, NEW i \in OpenRows(h, f)'
      PROVE  det'[h][f][i].score <= hosts'[h].risk
  BY <1>1, CommitBelowWorst
<1> QED
  BY <1>1 DEF HostCovered

\* What a step that is no commit does to the rows of a host: nothing opens.
LEMMA OthersAreQuiet ==
  ASSUME TypeOK, TypeOK', [Next]_vars, ~\E w \in Workers : Commit(w)
  PROVE  hosts' = hosts /\ \A g \in Hosts : Quieter(g)
<1>1. CASE det' = det /\ hosts' = hosts
  BY <1>1 DEF Quieter, OpenRows
<1>2. ASSUME NEW h \in Hosts, NEW f \in Fingerprints, NEW verdict \in Verdicts,
             NEW i \in DOMAIN det[h][f], PatchAlert(h, f, i, verdict)
      PROVE  hosts' = hosts /\ \A g \in Hosts : Quieter(g)
  <2>1. hosts' = hosts
    BY <1>2 DEF PatchAlert
  <2>2. \A g \in Hosts : Quieter(g)
    BY <1>2, PatchColumns DEF Quieter, OpenRows
  <2> QED
    BY <2>1, <2>2
<1> QED
  BY <1>1, <1>2, StepKinds

\* No report and no analyst disturbs the rollup of a transaction: until its
\* commit it holds the lock of its host.
LEMMA StepKeepsWorst ==
  ASSUME RInv, TypeOK', [Next]_vars, NEW w \in Workers, WorstInv(w)
  PROVE  WorstInv(w)'
<1>1. TypeOK /\ LockInv /\ tx \in [Workers -> Transaction \cup {Idle}]
  BY DEF RInv, IInv, TypeOK
<1>2. ASSUME tx'[w].pc # "flushed"
      PROVE  WorstInv(w)'
  BY <1>2 DEF WorstInv
<1>3. CASE tx'[w] = tx[w]
  <2>1. ASSUME tx[w].pc = "flushed"
        PROVE  Quieter(tx[w].host)
    <3>1. tx[w] # Idle /\ Holding(w)
      BY <2>1 DEF Idle, Holding
    <3>2. tx[w].host \in Hosts
      BY <1>1, <3>1 DEF Transaction
    <3>3. ASSUME NEW v \in Workers, Commit(v)
          PROVE  tx[v].host # tx[w].host
      <4>1. tx'[v] = Idle /\ Holding(v)
        BY <1>1, <3>3 DEF Commit, Holding
      <4>2. v # w
        BY <1>3, <3>1, <4>1
      <4> QED
        BY <1>1, <3>1, <4>1, <4>2 DEF LockInv
    <3> QED
      BY <1>1, <3>2, <3>3, CommitElsewhere, OthersAreQuiet
  <2> QED
    BY <1>3, <2>1, WorstKept
<1>4. CASE RefreshAndPrune(w)
  BY <1>4, RefreshRolls
<1>5. ASSUME NEW h \in Hosts, NEW payload \in Payloads, SelectHost(w, h, payload)
      PROVE  WorstInv(w)'
  BY <1>1, <1>2, <1>5 DEF SelectHost
<1>6. CASE StoreAndRecord(w)
  <2>1. tx[w] \in Transaction
    BY <1>1, <1>6, RecordTyped
  <2> QED
    BY <1>1, <1>2, <1>6, <2>1 DEF StoreAndRecord, Transaction
<1>7. CASE FindStale(w)
  <2>1. tx[w] \in Transaction
    BY <1>1, <1>7, StaleTyped
  <2> QED
    BY <1>1, <1>2, <1>7, <2>1 DEF FindStale, Transaction
<1>8. CASE ResolveStale(w)
  <2>1. tx[w] \in Transaction
    BY <1>1, <1>8, ResolveTyped
  <2> QED
    BY <1>1, <1>2, <1>8, <2>1 DEF ResolveStale, Transaction
<1>9. Idle.pc # "flushed"
  BY DEF Idle
<1> QED
  BY <1>1, <1>2, <1>3, <1>4, <1>5, <1>6, <1>7, <1>8, <1>9, WorkerMoves

\* refresh_host_risk: a rollup that is sent is right.  Whatever other reports
\* and the analysts do between the query for the worst open detection and the
\* commit, no detection that is open afterwards is above the rollup on record,
\* unless the UPDATE was left out because the loaded value was the same, and
\* another report has changed the rollup since it was loaded.
THEOREM WrittenRollupCovers == Spec => WrittenRollupIsRight
<1> DEFINE Right == \A w \in Workers, h \in Hosts :
                      (/\ Commit(w) /\ h = tx[w].host
                       /\ (tx[w].worst # tx[w].risk \/ tx[w].risk = hosts[h].risk))
                        => hosts'[h].risk >= WorstOpen(h)'
           Rolls == \A h \in Hosts : HostCovered(h) => hosts[h].risk >= WorstOpen(h)
<1>1. Init => \A w \in Workers : WorstInv(w)
  BY DEF Init, WorstInv, Idle
<1>2. RInv /\ TypeOK' /\ [Next]_vars /\ (\A w \in Workers : WorstInv(w))
        => (\A w \in Workers : WorstInv(w))'
  BY StepKeepsWorst
<1>3. ASSUME RInv, TypeOK', Rolls', \A v \in Workers : WorstInv(v), NEW w \in Workers, NEW h \in Hosts,
             Commit(w), h = tx[w].host,
             tx[w].worst # tx[w].risk \/ tx[w].risk = hosts[h].risk
      PROVE  hosts'[h].risk >= WorstOpen(h)'
  <2>1. TypeOK
    BY <1>3 DEF RInv
  <2>2. hosts'[h].risk = tx[w].worst
    <3>1. hosts'[h].risk = NewRisk(w)
      BY <1>3, <2>1 DEF Commit, TypeOK
    <3> QED
      BY <1>3, <3>1 DEF NewRisk
  <2>3. HostCovered(h)'
    BY <1>3, <2>1, <2>2, CommitCovers
  <2> QED
    BY <1>3, <2>3
<1>4. RInv /\ TypeOK' /\ Rolls' /\ (\A w \in Workers : WorstInv(w)) => [Right]_vars
  BY <1>3
<1>5. RInv /\ [Next]_vars /\ TypeOK' => RInv'
  BY StepKeepsRInv
<1>6. TypeOK => Rolls
  BY HostCoveredRolls
<1> QED
  BY <1>1, <1>2, <1>4, <1>5, <1>6, InitRInv, TypeCorrect, PTL DEF Spec, WrittenRollupIsRight
=============================================================================
