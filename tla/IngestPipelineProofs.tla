------------------------- MODULE IngestPipelineProofs -------------------------
(***************************************************************************)
(* What holds of the ingest pipeline for any hosts, fingerprints, reports, *)
(* workers and time constants: type correctness, that detections are       *)
(* settled for good, and that no interleaving of reports leaves two open   *)
(* detections with one fingerprint.                                        *)
(***************************************************************************)
EXTENDS IngestPipeline, SequenceTheorems, WellFoundedInduction, TLAPS

-----------------------------------------------------------------------------
(* Max and sequences.                                                      *)

\* A bounded, nonempty set of naturals has a largest element, which Max returns.
LEMMA MaxOfBounded ==
  ASSUME NEW n \in Nat, NEW S, S \subseteq 0 .. n, S # {}
  PROVE  Max(S) \in S /\ \A y \in S : Max(S) >= y
<1> DEFINE below == {k \in Nat : \E s \in S : k = n - s}
           less == {pair \in Nat \X Nat : pair[1] < pair[2]}
<1>1. IsWellFoundedOn(less, Nat)
  BY NatLessThanWellFounded DEF OpToRel
<1>2. below \subseteq Nat /\ below # {}
  <2>1. PICK s \in S : TRUE
    OBVIOUS
  <2>2. n - s \in below
    BY <2>1
  <2> QED
    BY <2>2
<1>3. PICK m \in below : \A y \in below : <<y, m>> \notin less
  <2> HIDE DEF below, less
  <2> QED
    BY <1>1, <1>2, WFMin
<1>4. PICK x \in S : m = n - x
  BY <1>3
<1>5. ASSUME NEW y \in S PROVE x >= y
  <2>1. n - y \in below /\ n - y \in Nat /\ m \in Nat
    BY <1>3
  <2>2. <<n - y, m>> \notin less
    BY <1>3, <2>1
  <2> QED
    BY <1>4, <2>1, <2>2
<1> QED
  BY <1>4, <1>5, Zenon DEF Max

\* Rebuilding a sequence element by element gives a sequence of the same length.
LEMMA RebuiltSeq ==
  ASSUME NEW S, NEW T, NEW s \in Seq(S), NEW r, r = [i \in DOMAIN s |-> r[i]],
         \A i \in DOMAIN s : r[i] \in T
  PROVE  r \in Seq(T) /\ Len(r) = Len(s) /\ DOMAIN r = DOMAIN s
<1>1. DOMAIN s = 1 .. Len(s) /\ Len(s) \in Nat
  OBVIOUS
<1>2. r \in [1 .. Len(s) -> T]
  BY <1>1
<1> QED
  BY <1>1, <1>2

\* The last score of a report is a score.
LEMMA LastIsScore ==
  ASSUME NEW scores \in Seq(25 .. 100), scores # <<>>
  PROVE  Last(scores) \in Scores /\ Len(scores) \in Nat
<1>1. Len(scores) \in 1 .. Len(scores) /\ Len(scores) \in Nat
  OBVIOUS
<1>2. scores[Len(scores)] \in 25 .. 100
  BY <1>1, ElementOfSeq
<1> QED
  BY <1>1, <1>2 DEF Last, Scores

\* What a transaction adds to the row it found and what it opens a row with
\* are, together, the findings of the report; the last one ends what is open.
LEMMA SplitScores ==
  ASSUME NEW w, NEW f, tx[w].payload.evidence[f] \in Seq(25 .. 100)
  PROVE  LET scores == tx[w].payload.evidence[f]
             k == tx[w].existing[f].row
         IN  /\ Opening(w, f) \in Seq(25 .. 100)
             /\ Opening(w, f) # <<>> =>
                  /\ Last(Opening(w, f)) = Last(scores)
                  /\ scores # <<>> /\ (k = 0 \/ (Overtaken(w, f) /\ Len(scores) > 1))
             /\ k = 0 => Opening(w, f) = scores
             /\ k # 0 /\ scores # <<>> =>
                  /\ Added(w, f) \in Seq(25 .. 100) /\ Added(w, f) # <<>>
                  /\ Len(Added(w, f)) + Len(Opening(w, f)) = Len(scores)
             /\ ~Overtaken(w, f) => Added(w, f) = scores
             /\ k # 0 /\ ~Overtaken(w, f) => Opening(w, f) = <<>>
             /\ Overtaken(w, f) =>
                  Len(Added(w, f)) = 1 /\ Len(Opening(w, f)) = Len(scores) - 1
<1> DEFINE scores == tx[w].payload.evidence[f]
           k == tx[w].existing[f].row
<1>1. scores \in Seq(25 .. 100) /\ Len(scores) \in Nat
  OBVIOUS
<1>2. CASE k = 0
  <2>1. Opening(w, f) = scores /\ ~Overtaken(w, f) /\ Added(w, f) = scores
    BY <1>2 DEF Opening, Overtaken, Added
  <2> QED
    BY <1>1, <1>2, <2>1
<1>3. CASE k # 0 /\ ~Overtaken(w, f)
  <2>1. Opening(w, f) = <<>> /\ Added(w, f) = scores
    BY <1>3 DEF Opening, Added
  <2>2. Len(<<>>) = 0 /\ <<>> \in Seq(25 .. 100)
    OBVIOUS
  <2> QED
    BY <1>1, <1>3, <2>1, <2>2
<1>4. CASE Overtaken(w, f)
  <2>1. k # 0 /\ scores # <<>>
    BY <1>4 DEF Overtaken
  <2>2. Opening(w, f) = Tail(scores) /\ Added(w, f) = <<Head(scores)>>
    BY <1>4, <2>1 DEF Opening, Added
  <2> HIDE DEF scores, k
  <2>3. Len(scores) \in Nat \ {0} /\ Head(scores) \in 25 .. 100
    BY <1>1, <2>1, EmptySeq, ElementOfSeq, HeadTailProperties
  <2>4. /\ Tail(scores) \in Seq(25 .. 100) /\ Len(Tail(scores)) = Len(scores) - 1
        /\ \A i \in 1 .. Len(Tail(scores)) : Tail(scores)[i] = scores[i + 1]
    BY <1>1, <2>1, HeadTailProperties
  <2>5. Added(w, f) \in Seq(25 .. 100) /\ Len(Added(w, f)) = 1 /\ Added(w, f) # <<>>
    BY <2>2, <2>3
  <2>6. ASSUME Tail(scores) # <<>>
        PROVE  Last(Tail(scores)) = Last(scores) /\ Len(scores) > 1
    <3>1. Len(Tail(scores)) \in Nat \ {0}
      BY <2>4, <2>6, EmptySeq, LenProperties
    <3>2. Tail(scores)[Len(Tail(scores))] = scores[Len(Tail(scores)) + 1]
      BY <2>4, <3>1
    <3> QED
      BY <2>3, <2>4, <3>1, <3>2 DEF Last
  <2>7. Len(Opening(w, f)) = Len(scores) - 1 /\ Len(Added(w, f)) + Len(Opening(w, f)) = Len(scores)
    BY <2>2, <2>3, <2>4, <2>5
  <2>8. Opening(w, f) # <<>> => Last(Opening(w, f)) = Last(scores) /\ Len(scores) > 1
    BY <2>2, <2>6
  <2>9. Opening(w, f) \in Seq(25 .. 100)
    BY <2>2, <2>4
  <2> QED
    BY <1>4, <2>1, <2>5, <2>7, <2>8, <2>9, Zenon DEF scores, k
<1> QED
  BY <1>2, <1>3, <1>4

-----------------------------------------------------------------------------
(* What a transaction makes of the rows of a fingerprint.                  *)

\* Dropping references keeps the rows, their number and their status.
LEMMA DetachKeeps ==
  ASSUME NEW rows \in Seq(Row), NEW doomed
  PROVE  /\ Detach(rows, doomed) \in Seq(Row)
         /\ Len(Detach(rows, doomed)) = Len(rows)
         /\ DOMAIN Detach(rows, doomed) = DOMAIN rows
         /\ \A i \in DOMAIN rows : Detach(rows, doomed)[i].status = rows[i].status
<1> DEFINE new(i) == [rows[i] EXCEPT !.process = IF @ \in doomed THEN NoTime ELSE @]
<1>1. ASSUME NEW i \in DOMAIN rows
      PROVE  new(i) \in Row /\ new(i).status = rows[i].status
  <2>1. rows[i] \in Row
    OBVIOUS
  <2> QED
    BY <2>1 DEF Row
<1>2. Detach(rows, doomed) = [i \in DOMAIN rows |-> new(i)]
  BY DEF Detach
<1> HIDE DEF new
<1>3. \A i \in DOMAIN rows : Detach(rows, doomed)[i] = new(i)
  BY <1>2
<1>4. Detach(rows, doomed) = [i \in DOMAIN rows |-> Detach(rows, doomed)[i]]
  BY <1>2, <1>3
<1> QED
  BY <1>1, <1>3, <1>4, RebuiltSeq

\* The rows of one fingerprint after the assignments of a transaction.
LEMMA UpdatedKeeps ==
  ASSUME TypeOK, NEW w \in Workers, tx[w] \in Transaction, NEW f \in Fingerprints
  PROVE  LET rows == det[tx[w].host][f]
         IN  /\ rows \in Seq(Row)
             /\ Updated(w, f) \in Seq(Row)
             /\ Len(Updated(w, f)) = Len(rows)
             /\ DOMAIN Updated(w, f) = DOMAIN rows
             /\ \A i \in DOMAIN rows :
                  Updated(w, f)[i].status \in {rows[i].status, "resolved"}
<1> DEFINE t == tx[w]
           rows == det[t.host][f]
           scores == t.payload.evidence[f]
           new(i) ==
             LET row == rows[i]
             IN  IF scores # <<>> /\ i = t.existing[f].row
                   THEN [row EXCEPT !.score = Last(Added(w, f)), !.updated = t.recordedAt,
                           !.count = t.existing[f].count + Len(Added(w, f)),
                           !.process = IF f \in ProcessFingerprints THEN t.recordedAt ELSE @]
                 ELSE IF <<f, i>> \in t.stale
                   THEN [row EXCEPT !.status = "resolved", !.updated = t.judgedAt,
                           !.alert = IF <<f, i>> \in t.closes THEN "closed" ELSE @]
                 ELSE row
<1>1. /\ t.host \in Hosts /\ t.payload \in AllPayloads
      /\ t.recordedAt \in Times /\ t.judgedAt \in Times
      /\ t.existing \in [Fingerprints -> [row : Nat, count : Nat]]
  BY DEF Transaction
<1>2. rows \in Seq(Row)
  BY <1>1 DEF TypeOK
<1>3. scores \in Seq(25 .. 100)
  BY <1>1 DEF AllPayloads
<1>4. t.existing[f].count \in Nat
  BY <1>1
<1>5. ASSUME NEW i \in DOMAIN rows
      PROVE  new(i) \in Row /\ new(i).status \in {rows[i].status, "resolved"}
  <2>1. rows[i] \in Row
    BY <1>2
  <2>2. CASE scores # <<>> /\ i = t.existing[f].row
    <3>1. Last(Added(w, f)) \in Scores /\ Len(Added(w, f)) \in Nat
      <4>1. CASE t.existing[f].row = 0
        BY <1>3, <2>2, <4>1, SplitScores, LastIsScore DEF Overtaken
      <4>2. CASE t.existing[f].row # 0
        BY <1>3, <2>2, <4>2, SplitScores, LastIsScore
      <4> QED
        BY <4>1, <4>2
    <3>2. t.existing[f].count + Len(Added(w, f)) \in Nat
      BY <1>4, <3>1
    <3> HIDE DEF t, rows, scores
    <3> QED
      BY <1>1, <2>1, <2>2, <3>1, <3>2 DEF Row, new
  <2>3. CASE ~(scores # <<>> /\ i = t.existing[f].row)
    <3> HIDE DEF t, rows, scores
    <3> QED
      BY <1>1, <2>1, <2>3 DEF Row, new, DetectionStatuses, AlertStatuses
  <2> QED
    BY <2>2, <2>3
<1>6. Updated(w, f) = [i \in DOMAIN rows |-> new(i)]
  BY DEF Updated, Refreshed
<1> HIDE DEF new, rows, scores, t
<1>7. \A i \in DOMAIN rows : Updated(w, f)[i] = new(i)
  BY <1>6
<1>8. Updated(w, f) = [i \in DOMAIN rows |-> Updated(w, f)[i]]
  BY <1>6, <1>7
<1>9. /\ Updated(w, f) \in Seq(Row) /\ Len(Updated(w, f)) = Len(rows)
      /\ DOMAIN Updated(w, f) = DOMAIN rows
  BY <1>2, <1>5, <1>7, <1>8, RebuiltSeq
<1> QED
  BY <1>2, <1>5, <1>7, <1>9 DEF rows, t

\* A transaction adds at most one row, and only when it has findings to open
\* one with.
LEMMA WrittenKeeps ==
  ASSUME TypeOK, NEW w \in Workers, tx[w] \in Transaction, NEW f \in Fingerprints
  PROVE  LET rows == det[tx[w].host][f]
         IN  /\ Written(w, f) \in Seq(Row)
             /\ Len(rows) <= Len(Written(w, f))
             /\ \A i \in DOMAIN rows :
                  Written(w, f)[i].status \in {rows[i].status, "resolved"}
             /\ \A i \in DOMAIN Written(w, f) :
                  i \in DOMAIN rows \/
                    /\ i = Len(rows) + 1
                    /\ Opening(w, f) # <<>>
<1> DEFINE rows == det[tx[w].host][f]
<1>1. /\ rows \in Seq(Row) /\ Updated(w, f) \in Seq(Row)
      /\ Len(Updated(w, f)) = Len(rows) /\ DOMAIN Updated(w, f) = DOMAIN rows
      /\ \A i \in DOMAIN rows : Updated(w, f)[i].status \in {rows[i].status, "resolved"}
  BY UpdatedKeeps
<1>2. Len(rows) \in Nat /\ DOMAIN rows = 1 .. Len(rows)
  BY <1>1
<1>3. CASE Opening(w, f) # <<>>
  <2>1. Written(w, f) = Append(Updated(w, f), Inserted(w, f))
    BY <1>3 DEF Written
  <2>2. Inserted(w, f) \in Row
    <3>1. tx[w].payload \in AllPayloads /\ tx[w].recordedAt \in Times
      BY DEF Transaction
    <3>2. Last(Opening(w, f)) \in Scores /\ Len(Opening(w, f)) \in Nat
      <4>1. tx[w].payload.evidence[f] \in Seq(25 .. 100)
        BY <3>1 DEF AllPayloads
      <4> QED
        BY <1>3, <4>1, SplitScores, LastIsScore
    <3>3. Inserted(w, f) =
             [score |-> Last(Opening(w, f)), status |-> "open", updated |-> tx[w].recordedAt,
              count |-> Len(Opening(w, f)), alert |-> "new",
              process |-> IF f \in ProcessFingerprints THEN tx[w].recordedAt ELSE NoTime]
      BY DEF Inserted
    <3> QED
      BY <3>1, <3>2, <3>3 DEF Row, DetectionStatuses, AlertStatuses
  <2>4. /\ Written(w, f) \in Seq(Row)
        /\ Len(Written(w, f)) = Len(rows) + 1
        /\ DOMAIN Written(w, f) = 1 .. Len(rows) + 1
        /\ \A i \in 1 .. Len(rows) : Written(w, f)[i] = Updated(w, f)[i]
    <3> HIDE DEF rows
    <3> QED
      BY <1>1, <1>2, <2>1, <2>2, AppendProperties
  <2> HIDE DEF rows
  <2>5. \A i \in 1 .. Len(rows) + 1 : i \in 1 .. Len(rows) \/ i = Len(rows) + 1
    BY <1>2
  <2>6. Len(rows) <= Len(Written(w, f))
    BY <1>2, <2>4
  <2>7. \A i \in DOMAIN rows : Written(w, f)[i].status \in {rows[i].status, "resolved"}
    BY <1>1, <1>2, <2>4
  <2>8. \A i \in DOMAIN Written(w, f) : i \in DOMAIN rows \/ i = Len(rows) + 1
    BY <1>2, <2>4, <2>5
  <2> QED
    BY <1>3, <2>4, <2>6, <2>7, <2>8 DEF rows
<1>4. CASE Opening(w, f) = <<>>
  <2>1. Written(w, f) = Updated(w, f)
    BY <1>4 DEF Written
  <2> HIDE DEF rows
  <2>2. Len(rows) <= Len(Written(w, f))
    BY <1>1, <1>2, <2>1
  <2>3. \A i \in DOMAIN Written(w, f) : i \in DOMAIN rows
    BY <1>1, <2>1
  <2> QED
    BY <1>1, <2>1, <2>2, <2>3 DEF rows
<1> QED
  BY <1>3, <1>4

\* The rollup is a score.
LEMMA WorstIsScore ==
  ASSUME TypeOK, NEW w \in Workers, tx[w] \in Transaction
  PROVE  WorstOf(w) \in Scores
<1> DEFINE S == {0} \cup UNION {{row.score : row \in {Written(w, f)[i] : i \in
                    {j \in DOMAIN Written(w, f) : Written(w, f)[j].status = "open"}}} :
                      f \in Fingerprints}
<1>1. ASSUME NEW f \in Fingerprints, NEW i \in DOMAIN Written(w, f)
      PROVE  Written(w, f)[i].score \in 0 .. 100
  <2>1. Written(w, f) \in Seq(Row)
    BY WrittenKeeps
  <2>2. Written(w, f)[i] \in Row
    BY <2>1
  <2> QED
    BY <2>2 DEF Row, Scores
<1>2. S \subseteq 0 .. 100 /\ S # {}
  BY <1>1
<1>3. WorstOf(w) = Max(S)
  BY DEF WorstOf
<1> HIDE DEF S
<1> QED
  BY <1>2, <1>3, MaxOfBounded DEF Scores

\* The SELECT of _record_detection finds an open row whenever there is one.
LEMMA LookupFinds ==
  ASSUME TypeOK, NEW h \in Hosts, NEW f \in Fingerprints
  PROVE  /\ Lookup(h, f) \in [row : Nat, count : Nat]
         /\ Lookup(h, f).row = 0 => OpenRows(h, f) = {}
         /\ Lookup(h, f).row # 0 => Lookup(h, f).row \in OpenRows(h, f)
<1> DEFINE rows == det[h][f]
<1>1. rows \in Seq(Row)
  BY DEF TypeOK
<1>2. Len(rows) \in Nat /\ OpenRows(h, f) \subseteq 1 .. Len(rows)
  BY <1>1 DEF OpenRows
<1>3. CASE OpenRows(h, f) = {}
  BY <1>3 DEF Lookup
<1>4. CASE OpenRows(h, f) # {}
  <2>1. OpenRows(h, f) \subseteq 0 .. Len(rows)
    BY <1>2
  <2>2. Max(OpenRows(h, f)) \in OpenRows(h, f)
    BY <1>2, <1>4, <2>1, MaxOfBounded
  <2>3. rows[Max(OpenRows(h, f))] \in Row
    BY <1>1, <1>2, <2>2, ElementOfSeq
  <2>4. Lookup(h, f) = [row |-> Max(OpenRows(h, f)), count |-> rows[Max(OpenRows(h, f))].count]
    BY <1>4 DEF Lookup
  <2>5. Max(OpenRows(h, f)) \in Nat \ {0}
    BY <1>2, <2>2
  <2>6. rows[Max(OpenRows(h, f))].count \in Nat
    BY <2>3 DEF Row
  <2> QED
    BY <2>2, <2>4, <2>5, <2>6
<1> QED
  BY <1>3, <1>4

-----------------------------------------------------------------------------
(* Type correctness.                                                       *)

\* A worker that runs a transaction has one.
LEMMA RunningHasTransaction ==
  ASSUME TypeOK, NEW w \in Workers, tx[w] # Idle
  PROVE  tx[w] \in Transaction
BY DEF TypeOK

\* The fresh transaction of upsert_host.
LEMMA SelectTyped ==
  ASSUME TypeOK, NEW w \in Workers, NEW h \in Hosts, NEW payload \in Payloads,
         SelectHost(w, h, payload)
  PROVE  tx' \in [Workers -> Transaction \cup {Idle}]
<1> DEFINE t == [pc |-> "selected", host |-> h, payload |-> payload, known |-> hosts[h].known,
        risk |-> hosts[h].risk, seenAt |-> now, existing |-> NoRows, recordedAt |-> now,
        stale |-> {}, closes |-> {}, judgedAt |-> now, worst |-> 0,
        doomedProc |-> NothingDoomed, doomedNet |-> NothingDoomed]
<1>1. payload \in AllPayloads
  BY IngestAssumption
<1>2. hosts[h].known \in BOOLEAN /\ hosts[h].risk \in Scores
  BY DEF TypeOK, HostRow
<1>3. NoRows \in [Fingerprints -> [row : Nat, count : Nat]]
  BY DEF NoRows
<1>4. NothingDoomed \in [Hosts -> SUBSET Times]
  BY DEF NothingDoomed
<1>5. now \in Times /\ 0 \in Scores
  BY DEF TypeOK, Scores
<1>6. t \in Transaction
  BY <1>1, <1>2, <1>3, <1>4, <1>5 DEF Transaction
<1>7. tx' = [tx EXCEPT ![w] = t]
  BY DEF SelectHost
<1> HIDE DEF t
<1> QED
  BY <1>6, <1>7 DEF TypeOK

\* The lookups of _record_detection.
LEMMA RecordTyped ==
  ASSUME TypeOK, NEW w \in Workers, StoreAndRecord(w)
  PROVE  /\ tx[w] \in Transaction
         /\ tx' \in [Workers -> Transaction \cup {Idle}]
<1> DEFINE found == [f \in Fingerprints |->
             IF f \in Live(tx[w].payload) THEN Lookup(tx[w].host, f) ELSE [row |-> 0, count |-> 0]]
<1>1. tx[w] \in Transaction
  <2>1. tx[w].pc = "selected"
    BY DEF StoreAndRecord
  <2> QED
    BY <2>1, RunningHasTransaction DEF Idle
<1>2. found \in [Fingerprints -> [row : Nat, count : Nat]]
  <2>1. tx[w].host \in Hosts
    BY <1>1 DEF Transaction
  <2> QED
    BY <2>1, LookupFinds
<1>3. tx' = [tx EXCEPT ![w] = [tx[w] EXCEPT !.pc = "recorded", !.recordedAt = now,
                                            !.existing = found]]
  BY <1>1 DEF StoreAndRecord, TypeOK
<1>4. now \in Times
  BY DEF TypeOK
<1> HIDE DEF found
<1>5. [tx[w] EXCEPT !.pc = "recorded", !.recordedAt = now, !.existing = found] \in Transaction
  BY <1>1, <1>2, <1>4 DEF Transaction
<1> QED
  BY <1>1, <1>3, <1>5 DEF TypeOK

\* The rows of _resolve_stale_detections.
LEMMA StaleTyped ==
  ASSUME TypeOK, NEW w \in Workers, FindStale(w)
  PROVE  /\ tx[w] \in Transaction
         /\ tx' \in [Workers -> Transaction \cup {Idle}]
<1> DEFINE h == tx[w].host
           stale == StaleRows(h, Live(tx[w].payload))
<1>1. tx[w] \in Transaction
  <2>1. tx[w].pc = "recorded"
    BY DEF FindStale
  <2> QED
    BY <2>1, RunningHasTransaction DEF Idle
<1>2. stale \subseteq Fingerprints \X Nat
  <2>1. h \in Hosts
    BY <1>1 DEF Transaction
  <2>2. \A f \in Fingerprints : OpenRows(h, f) \subseteq Nat
    BY <2>1 DEF TypeOK, OpenRows
  <2> QED
    BY <2>2 DEF StaleRows
<1>3. tx' = [tx EXCEPT ![w] = [tx[w] EXCEPT !.pc = "judged", !.judgedAt = now,
                                            !.stale = stale]]
  BY <1>1 DEF FindStale, TypeOK
<1>4. now \in Times
  BY DEF TypeOK
<1> HIDE DEF stale
<1>5. [tx[w] EXCEPT !.pc = "judged", !.judgedAt = now, !.stale = stale] \in Transaction
  BY <1>1, <1>2, <1>4 DEF Transaction
<1> QED
  BY <1>1, <1>3, <1>5 DEF TypeOK

\* The alerts it closes.
LEMMA ResolveTyped ==
  ASSUME TypeOK, NEW w \in Workers, ResolveStale(w)
  PROVE  /\ tx[w] \in Transaction
         /\ tx' \in [Workers -> Transaction \cup {Idle}]
<1> DEFINE closes == {d \in tx[w].stale :
             det[tx[w].host][d[1]][d[2]].alert \notin {"closed", "false_positive"}}
<1>1. tx[w] \in Transaction
  <2>1. tx[w].pc = "judged"
    BY DEF ResolveStale
  <2> QED
    BY <2>1, RunningHasTransaction DEF Idle
<1>2. closes \subseteq Fingerprints \X Nat
  BY <1>1 DEF Transaction
<1>3. tx' = [tx EXCEPT ![w] = [tx[w] EXCEPT !.pc = "resolved", !.closes = closes]]
  BY <1>1 DEF ResolveStale, TypeOK
<1> HIDE DEF closes
<1>4. [tx[w] EXCEPT !.pc = "resolved", !.closes = closes] \in Transaction
  BY <1>1, <1>2 DEF Transaction
<1> QED
  BY <1>1, <1>3, <1>4 DEF TypeOK

\* The rollup and the rows prune_old_events deletes.
LEMMA RefreshTyped ==
  ASSUME TypeOK, NEW w \in Workers, RefreshAndPrune(w)
  PROVE  /\ tx[w] \in Transaction
         /\ tx' \in [Workers -> Transaction \cup {Idle}]
         /\ lastPrune' \in Times \cup {NoTime}
<1> DEFINE net == IF PruneIsDue
                    THEN [h \in Hosts |-> Deletable(w, h, netRows[h])]
                    ELSE NothingDoomed
           proc == IF PruneIsDue
                     THEN [h \in Hosts |-> Deletable(w, h, procRows[h]) \ Referenced(w, h)]
                     ELSE NothingDoomed
<1>1. tx[w] \in Transaction
  <2>1. tx[w].pc = "resolved"
    BY DEF RefreshAndPrune
  <2>2. tx[w] # Idle
    BY <2>1 DEF Idle
  <2> QED
    BY <2>2, RunningHasTransaction
<1>2. NothingDoomed \in [Hosts -> SUBSET Times]
  BY DEF NothingDoomed
<1>3. net \in [Hosts -> SUBSET Times] /\ proc \in [Hosts -> SUBSET Times]
  BY <1>2 DEF TypeOK, Deletable, Expired
<1>4. WorstOf(w) \in Scores
  BY <1>1, WorstIsScore
<1>5. tx' = [tx EXCEPT ![w] = [tx[w] EXCEPT !.pc = "flushed", !.worst = WorstOf(w),
                                            !.doomedNet = net, !.doomedProc = proc]]
  BY <1>1 DEF RefreshAndPrune, TypeOK
<1> HIDE DEF net, proc
<1>6. [tx[w] EXCEPT !.pc = "flushed", !.worst = WorstOf(w), !.doomedNet = net,
                    !.doomedProc = proc] \in Transaction
  BY <1>1, <1>3, <1>4 DEF Transaction
<1>7. tx' \in [Workers -> Transaction \cup {Idle}]
  BY <1>1, <1>5, <1>6 DEF TypeOK
<1>8. lastPrune' \in Times \cup {NoTime}
  BY DEF RefreshAndPrune, TypeOK
<1> QED
  BY <1>1, <1>7, <1>8

\* What a commit publishes.
LEMMA CommitTyped ==
  ASSUME TypeOK, NEW w \in Workers, Commit(w)
  PROVE  /\ tx[w] \in Transaction /\ tx[w].host \in Hosts
         /\ TypeOK'
<1> DEFINE t == tx[w]
           h == t.host
<1>1. t \in Transaction
  <2>1. tx[w].pc = "flushed"
    BY DEF Commit
  <2>2. tx[w] # Idle
    BY <2>1 DEF Idle
  <2> QED
    BY <2>2, RunningHasTransaction
<1>2. /\ h \in Hosts /\ t.payload \in AllPayloads /\ t.seenAt \in Times
      /\ t.recordedAt \in Times /\ t.worst \in Scores
      /\ t.payload.entries \in SUBSET Entries
      /\ t.payload.evidence \in [Fingerprints -> Seq(25 .. 100)]
  BY <1>1 DEF Transaction, AllPayloads
<1>3. NewRisk(w) \in Scores
  BY <1>2 DEF NewRisk, TypeOK, HostRow
<1>4. hosts' \in [Hosts -> HostRow]
  <2>1. hosts' = [hosts EXCEPT ![h] = [known |-> TRUE, lastSeen |-> t.seenAt, risk |-> NewRisk(w)]]
    BY DEF Commit
  <2>2. [known |-> TRUE, lastSeen |-> t.seenAt, risk |-> NewRisk(w)] \in HostRow
    BY <1>2, <1>3 DEF HostRow
  <2> HIDE DEF t, h
  <2> QED
    BY <2>1, <2>2 DEF TypeOK
<1>5. det' \in [Hosts -> [Fingerprints -> Seq(Row)]]
  <2>1. ASSUME NEW g \in Hosts, NEW f \in Fingerprints
        PROVE  Detach(IF g = h THEN Written(w, f) ELSE det[g][f], t.doomedProc[g]) \in Seq(Row)
    <3>1. Written(w, f) \in Seq(Row)
      BY <1>1, WrittenKeeps
    <3>2. det[g][f] \in Seq(Row)
      BY DEF TypeOK
    <3>3. (IF g = h THEN Written(w, f) ELSE det[g][f]) \in Seq(Row)
      BY <3>1, <3>2
    <3> QED
      BY <3>3, DetachKeeps
  <2>2. det' = [g \in Hosts |-> [f \in Fingerprints |->
                 Detach(IF g = h THEN Written(w, f) ELSE det[g][f], t.doomedProc[g])]]
    BY DEF Commit
  <2> HIDE DEF t, h
  <2> QED
    BY <2>1, <2>2
<1>6. items' \in [Hosts -> SUBSET Entries]
  BY <1>2 DEF Commit, TypeOK
<1>7. procRows' \in [Hosts -> SUBSET Times] /\ netRows' \in [Hosts -> SUBSET Times]
  BY <1>2 DEF Commit, TypeOK
<1>8. observed' \in [Hosts -> [Fingerprints -> Nat]]
  <2>1. \A f \in Fingerprints : observed[h][f] + Len(t.payload.evidence[f]) \in Nat
    BY <1>2 DEF TypeOK
  <2>2. observed' = [observed EXCEPT ![h] =
           [f \in Fingerprints |-> observed[h][f] + Len(t.payload.evidence[f])]]
    BY DEF Commit
  <2> HIDE DEF t, h
  <2> QED
    BY <2>1, <2>2 DEF TypeOK
<1>9. evidenced' \in [Hosts -> [Fingerprints -> Times \cup {NoTime}]]
  <2>1. evidenced' = [evidenced EXCEPT ![h] =
           [f \in Fingerprints |-> IF f \in Live(t.payload) THEN t.recordedAt ELSE evidenced[h][f]]]
    BY DEF Commit
  <2>2. [f \in Fingerprints |-> IF f \in Live(t.payload) THEN t.recordedAt ELSE evidenced[h][f]]
           \in [Fingerprints -> Times \cup {NoTime}]
    BY <1>2 DEF TypeOK
  <2> HIDE DEF t, h
  <2> QED
    BY <2>1, <2>2 DEF TypeOK
<1>10. /\ tx' \in [Workers -> Transaction \cup {Idle}] /\ now' \in Times
       /\ lastPrune' \in Times \cup {NoTime} /\ failures' \in Nat
       /\ overruled' \in [Hosts -> SUBSET Fingerprints]
  BY DEF Commit, TypeOK
<1> QED
  BY <1>1, <1>2, <1>4, <1>5, <1>6, <1>7, <1>8, <1>9, <1>10 DEF TypeOK

\* An analyst changes the status of one row and never opens one.
LEMMA PatchKeeps ==
  ASSUME TypeOK, NEW h \in Hosts, NEW f \in Fingerprints, NEW i \in DOMAIN det[h][f],
         NEW verdict \in Verdicts, PatchAlert(h, f, i, verdict)
  PROVE  /\ det' \in [Hosts -> [Fingerprints -> Seq(Row)]]
         /\ \A g \in Hosts, e \in Fingerprints :
              /\ Len(det'[g][e]) = Len(det[g][e])
              /\ \A j \in DOMAIN det[g][e] :
                   det'[g][e][j].status \in {det[g][e][j].status, "suppressed", "resolved"}
<1>1. PICK status \in {det[h][f][i].status, "suppressed", "resolved"} :
        det' = [det EXCEPT ![h][f][i].alert = verdict, ![h][f][i].status = status]
  BY Zenon DEF PatchAlert
<1> DEFINE row == [det[h][f][i] EXCEPT !.alert = verdict, !.status = status]
           rows == [det[h][f] EXCEPT ![i] = row]
<1>2. det[h][f] \in Seq(Row) /\ det[h][f][i] \in Row
  BY DEF TypeOK
<1>3. row \in Row /\ row.status = status
  BY <1>2, IngestAssumption DEF Row, DetectionStatuses
<1>4. det' = [det EXCEPT ![h] = [det[h] EXCEPT ![f] = rows]]
  <2>1. h \in DOMAIN det /\ f \in DOMAIN det[h]
    BY DEF TypeOK
  <2> QED
    BY ZenonT(40), <1>1, <2>1
<1> HIDE DEF row
<1>5. /\ rows \in Seq(Row) /\ Len(rows) = Len(det[h][f])
      /\ \A j \in 1 .. Len(det[h][f]) : rows[j] = IF j = i THEN row ELSE det[h][f][j]
  BY <1>2, <1>3, ExceptSeq
<1> HIDE DEF rows
<1>6. det' \in [Hosts -> [Fingerprints -> Seq(Row)]]
  BY <1>4, <1>5 DEF TypeOK
<1>7. ASSUME NEW g \in Hosts, NEW e \in Fingerprints
      PROVE  /\ Len(det'[g][e]) = Len(det[g][e])
             /\ \A j \in DOMAIN det[g][e] :
                  det'[g][e][j].status \in {det[g][e][j].status, "suppressed", "resolved"}
  <2>1. CASE g = h /\ e = f
    <3>1. det'[g][e] = rows
      BY <1>4, <2>1 DEF TypeOK
    <3>2. DOMAIN det[g][e] = 1 .. Len(det[g][e])
      BY <1>2, <2>1
    <3> QED
      BY <1>1, <1>3, <1>5, <2>1, <3>1, <3>2
  <2>2. CASE ~(g = h /\ e = f)
    <3>1. det'[g][e] = det[g][e]
      BY <1>4, <2>2 DEF TypeOK
    <3> QED
      BY <3>1
  <2> QED
    BY <2>1, <2>2
<1> QED
  BY <1>6, <1>7

\* Every table, transaction and history of the pipeline keeps its type.
THEOREM TypeCorrect == Spec => []TypeOK
<1>1. Init => TypeOK
  BY IngestAssumption DEF Init, TypeOK, HostRow, Scores, Times, NoTime
<1>2. ASSUME TypeOK, [Next]_vars
      PROVE  TypeOK'
  <2>1. CASE UNCHANGED vars
    BY <1>2, <2>1 DEF TypeOK, vars, database, history
  <2>2. ASSUME NEW w \in Workers, NEW h \in Hosts, NEW payload \in Payloads,
               SelectHost(w, h, payload)
        PROVE  TypeOK'
    BY <1>2, <2>2, SelectTyped DEF SelectHost, TypeOK, database, history
  <2>3. ASSUME NEW w \in Workers, StoreAndRecord(w)
        PROVE  TypeOK'
    BY <1>2, <2>3, RecordTyped DEF StoreAndRecord, TypeOK, database, history
  <2>4. ASSUME NEW w \in Workers, DuplicateHost(w)
        PROVE  TypeOK'
    BY <1>2, <2>4 DEF DuplicateHost, TypeOK, database, history
  <2>5. ASSUME NEW w \in Workers, FindStale(w)
        PROVE  TypeOK'
    BY <1>2, <2>5, StaleTyped DEF FindStale, TypeOK, database, history
  <2>12. ASSUME NEW w \in Workers, ResolveStale(w)
        PROVE  TypeOK'
    BY <1>2, <2>12, ResolveTyped DEF ResolveStale, TypeOK, database, history
  <2>6. ASSUME NEW w \in Workers, RefreshAndPrune(w)
        PROVE  TypeOK'
    BY <1>2, <2>6, RefreshTyped DEF RefreshAndPrune, TypeOK, database, history
  <2>7. ASSUME NEW w \in Workers, Commit(w)
        PROVE  TypeOK'
    BY <1>2, <2>7, CommitTyped
  <2>8. ASSUME NEW w \in Workers, Fail(w)
        PROVE  TypeOK'
    BY <1>2, <2>8 DEF Fail, TypeOK, database, history
  <2>9. CASE Restart
    BY <1>2, <2>9 DEF Restart, TypeOK, database, history
  <2>10. CASE Tick
    BY <1>2, <2>10, IngestAssumption DEF Tick, TypeOK, Times, database, history
  <2>11. CASE Analyst
    <3>1. PICK h \in Hosts, f \in Fingerprints, verdict \in Verdicts : \E i \in DOMAIN det[h][f] :
            PatchAlert(h, f, i, verdict)
      BY <2>11 DEF Analyst
    <3>2. PICK i \in DOMAIN det[h][f] : PatchAlert(h, f, i, verdict)
      BY <3>1
    <3>3. det' \in [Hosts -> [Fingerprints -> Seq(Row)]]
      BY <1>2, <3>2, PatchKeeps
    <3>4. UNCHANGED <<now, hosts, items, procRows, netRows, lastPrune, tx, failures, observed, evidenced>>
      BY <3>2 DEF PatchAlert
    <3>5. overruled' \in [Hosts -> SUBSET Fingerprints]
      BY <1>2, <3>2 DEF PatchAlert, TypeOK
    <3> QED
      BY <1>2, <3>3, <3>4, <3>5 DEF TypeOK
  <2> QED
    BY <1>2, <2>1, <2>2, <2>3, <2>4, <2>5, <2>6, <2>7, <2>8, <2>9, <2>10, <2>11, <2>12
       DEF Next, WorkerStep, Report
<1> QED
  BY <1>1, <1>2, PTL DEF Spec

-----------------------------------------------------------------------------
(* A settled detection stays settled.                                      *)

\* What a step does to the rows of a fingerprint: it adds rows at the end and
\* settles others, and nothing else.
RowsKept ==
  \A h \in Hosts, f \in Fingerprints :
    /\ Len(det[h][f]) <= Len(det'[h][f])
    /\ \A i \in DOMAIN det[h][f] :
         det'[h][f][i].status \in {det[h][f][i].status, "suppressed", "resolved"}

\* A commit keeps the rows of every fingerprint, and a row it adds is the one
\* its own lookup called for.
LEMMA CommitKeepsRows ==
  ASSUME TypeOK, NEW w \in Workers, Commit(w)
  PROVE  /\ RowsKept
         /\ \A g \in Hosts, f \in Fingerprints : \A i \in DOMAIN det'[g][f] :
              \/ i \in DOMAIN det[g][f]
              \/ /\ g = tx[w].host /\ i = Len(det[g][f]) + 1
                 /\ Opening(w, f) # <<>>
<1>1. tx[w] \in Transaction
  BY CommitTyped
<1>2. SUFFICES ASSUME NEW g \in Hosts, NEW f \in Fingerprints
      PROVE  /\ Len(det[g][f]) <= Len(det'[g][f])
             /\ \A i \in DOMAIN det[g][f] :
                  det'[g][f][i].status \in {det[g][f][i].status, "resolved"}
             /\ \A i \in DOMAIN det'[g][f] :
                  \/ i \in DOMAIN det[g][f]
                  \/ /\ g = tx[w].host /\ i = Len(det[g][f]) + 1
                     /\ Opening(w, f) # <<>>
  BY Zenon DEF RowsKept
<1> DEFINE old == det[g][f]
           new == IF g = tx[w].host THEN Written(w, f) ELSE old
<1>3. old \in Seq(Row)
  BY DEF TypeOK
<1>4. /\ new \in Seq(Row) /\ Len(old) <= Len(new)
      /\ \A i \in DOMAIN old : new[i].status \in {old[i].status, "resolved"}
      /\ \A i \in DOMAIN new :
           \/ i \in DOMAIN old
           \/ /\ g = tx[w].host /\ i = Len(old) + 1
              /\ Opening(w, f) # <<>>
  <2>1. CASE g = tx[w].host
    BY <1>1, <2>1, WrittenKeeps
  <2>2. CASE g # tx[w].host
    BY <1>3, <2>2
  <2> QED
    BY <2>1, <2>2
<1>5. det'[g][f] = Detach(new, tx[w].doomedProc[g])
  BY DEF Commit
<1> HIDE DEF old, new
<1>6. /\ Len(det'[g][f]) = Len(new) /\ DOMAIN det'[g][f] = DOMAIN new
      /\ \A i \in DOMAIN new : det'[g][f][i].status = new[i].status
  BY <1>4, <1>5, DetachKeeps
<1>7. DOMAIN old \subseteq DOMAIN new
  BY <1>3, <1>4
<1> QED
  BY <1>4, <1>6, <1>7 DEF old

\* Every step keeps the rows.
LEMMA StepKeepsRows ==
  ASSUME TypeOK, [Next]_vars
  PROVE  RowsKept
<1>1. CASE det' = det
  BY <1>1 DEF RowsKept, TypeOK
<1>2. ASSUME NEW w \in Workers, Commit(w)
      PROVE  RowsKept
  BY <1>2, CommitKeepsRows
<1>3. CASE Analyst
  <2>1. PICK h \in Hosts, f \in Fingerprints, verdict \in Verdicts : \E i \in DOMAIN det[h][f] :
          PatchAlert(h, f, i, verdict)
    BY <1>3 DEF Analyst
  <2>2. PICK i \in DOMAIN det[h][f] : PatchAlert(h, f, i, verdict)
    BY <2>1
  <2>3. \A g \in Hosts, e \in Fingerprints :
          /\ Len(det'[g][e]) = Len(det[g][e])
          /\ \A j \in DOMAIN det[g][e] :
               det'[g][e][j].status \in {det[g][e][j].status, "suppressed", "resolved"}
    BY <2>2, PatchKeeps
  <2>4. \A g \in Hosts, e \in Fingerprints : Len(det[g][e]) \in Nat
    BY DEF TypeOK
  <2> QED
    BY <2>3, <2>4 DEF RowsKept
<1> QED
  BY <1>1, <1>2, <1>3
  DEF Next, WorkerStep, Report, SelectHost, StoreAndRecord, DuplicateHost, FindStale,
      ResolveStale, RefreshAndPrune, Fail, Restart, Tick, vars, database

\* Detections are never deleted and a settled one never reopens, whatever the
\* reports and the analysts do.
THEOREM SettledForGood == Spec => HistoryIsKept
<1>1. ASSUME TypeOK, [Next]_vars
      PROVE  \A h \in Hosts, f \in Fingerprints :
               /\ Len(det[h][f]) <= Len(det'[h][f])
               /\ \A i \in DOMAIN det[h][f] :
                    det[h][f][i].status # "open" => det'[h][f][i].status # "open"
  BY <1>1, StepKeepsRows DEF RowsKept
<1> QED
  BY <1>1, TypeCorrect, PTL DEF Spec, HistoryIsKept

-----------------------------------------------------------------------------
(* One open detection per fingerprint.                                     *)

\* The row lock of upsert_host: two transactions past it have two hosts.
LockInv ==
  \A v, w \in Workers :
    (Holding(v) /\ Holding(w) /\ tx[v].host = tx[w].host) => v = w

\* What a lookup said stays true while its transaction holds the lock.
LookupInv ==
  \A w \in Workers : Holding(w) =>
    \A f \in Live(tx[w].payload) :
      OpenRows(tx[w].host, f) \subseteq {tx[w].existing[f].row}

\* UniqueOpen alone is not inductive: that a report inserts a row only where
\* there is no open one needs the lookup to be still right at the commit: the
\* row it found is the only one that may be open, because the lock keeps every
\* other report of the host out.
IInv == TypeOK /\ LockInv /\ LookupInv /\ UniqueOpen

\* A step that keeps the rows and adds none opens none.
LEMMA NothingOpens ==
  ASSUME TypeOK, RowsKept, NEW h \in Hosts, NEW f \in Fingerprints,
         DOMAIN det'[h][f] \subseteq DOMAIN det[h][f]
  PROVE  OpenRows(h, f)' \subseteq OpenRows(h, f)
BY DEF RowsKept, OpenRows

\* A step by which no transaction takes a lock or changes what it looked up
\* keeps the two invariants, when it opens no row of a locked host.
LEMMA LocksKept ==
  ASSUME LockInv, LookupInv,
         \A v \in Workers : Holding(v)' =>
           /\ Holding(v) /\ tx'[v].host = tx[v].host
           /\ tx'[v].payload = tx[v].payload /\ tx'[v].existing = tx[v].existing
           /\ \A f \in Live(tx[v].payload) :
                OpenRows(tx[v].host, f)' \subseteq OpenRows(tx[v].host, f)
  PROVE  LockInv' /\ LookupInv'
<1>1. LockInv'
  BY DEF LockInv
<1>2. LookupInv'
  <2>1. SUFFICES ASSUME NEW v \in Workers, Holding(v)', NEW f \in Live(tx'[v].payload)
        PROVE  OpenRows(tx[v].host, f)' \subseteq {tx'[v].existing[f].row}
    BY DEF LookupInv, Live
  <2>2. /\ f \in Live(tx[v].payload) /\ Holding(v)
        /\ tx'[v].existing[f].row = tx[v].existing[f].row
    BY <2>1
  <2>3. OpenRows(tx[v].host, f) \subseteq {tx[v].existing[f].row}
    BY <2>2 DEF LookupInv
  <2>4. OpenRows(tx[v].host, f)' \subseteq OpenRows(tx[v].host, f)
    BY <2>1, <2>2
  <2> QED
    BY <2>2, <2>3, <2>4
<1> QED
  BY <1>1, <1>2

\* The step that takes the lock looks up under it.
LEMMA RecordLocks ==
  ASSUME TypeOK, LockInv, LookupInv, UniqueOpen, NEW w \in Workers, StoreAndRecord(w)
  PROVE  LockInv' /\ LookupInv'
<1>1. /\ tx[w] \in Transaction /\ tx[w].host \in Hosts
  BY RecordTyped DEF Transaction
<1>2. /\ \A v \in Workers \ {w} : tx'[v] = tx[v]
      /\ tx'[w].host = tx[w].host /\ tx'[w].payload = tx[w].payload
      /\ tx'[w].existing = [f \in Fingerprints |->
             IF f \in Live(tx[w].payload) THEN Lookup(tx[w].host, f) ELSE [row |-> 0, count |-> 0]]
  BY <1>1 DEF StoreAndRecord, TypeOK, Transaction
<1>3. det' = det
  BY DEF StoreAndRecord, database
<1>4. \A v \in Workers \ {w} : ~(Holding(v) /\ tx[v].host = tx[w].host)
  BY DEF StoreAndRecord, CanLockHost
<1>5. \A v \in Workers \ {w} : Holding(v)' <=> Holding(v)
  BY <1>2 DEF Holding
<1>6. LockInv'
  BY <1>2, <1>4, <1>5 DEF LockInv
<1>7. LookupInv'
  <2>1. SUFFICES ASSUME NEW v \in Workers, Holding(v)', NEW f \in Fingerprints,
                        f \in Live(tx'[v].payload)
        PROVE  {i \in DOMAIN det[tx'[v].host][f] : det[tx'[v].host][f][i].status = "open"}
                 \subseteq {tx'[v].existing[f].row}
    BY <1>3 DEF LookupInv, OpenRows, Live
  <2>2. CASE v = w
    <3>1. tx'[v].host = tx[w].host /\ tx'[v].existing[f].row = Lookup(tx[w].host, f).row
      BY <1>2, <2>1, <2>2
    <3>2. OpenRows(tx[w].host, f) \subseteq {Lookup(tx[w].host, f).row}
      BY <1>1, LookupFinds DEF UniqueOpen
    <3> QED
      BY <3>1, <3>2 DEF OpenRows
  <2>3. CASE v # w
    BY <1>2, <1>5, <2>1, <2>3 DEF LookupInv, OpenRows
  <2> QED
    BY <2>2, <2>3
<1> QED
  BY <1>6, <1>7

\* A commit opens rows of its own host only, which no other transaction locks,
\* and only where there was none.
LEMMA CommitUnique ==
  ASSUME IInv, NEW w \in Workers, Commit(w)
  PROVE  LockInv' /\ LookupInv' /\ UniqueOpen'
<1>1. TypeOK /\ LockInv /\ LookupInv /\ UniqueOpen
  BY DEF IInv
<1>2. /\ RowsKept
      /\ \A g \in Hosts, f \in Fingerprints : \A i \in DOMAIN det'[g][f] :
           \/ i \in DOMAIN det[g][f]
           \/ /\ g = tx[w].host /\ i = Len(det[g][f]) + 1
              /\ Opening(w, f) # <<>>
  BY <1>1, CommitKeepsRows
<1>3. Holding(w) /\ tx[w] \in Transaction
  BY <1>1, CommitTyped DEF Commit, Holding
<1>4. tx' = [tx EXCEPT ![w] = Idle]
  BY DEF Commit
<1>5. ASSUME NEW v \in Workers, Holding(v)'
      PROVE  /\ Holding(v) /\ tx'[v] = tx[v] /\ tx[v].host \in Hosts
             /\ tx[v].host # tx[w].host
  <2>1. v # w
    BY <1>1, <1>4, <1>5 DEF Holding, Idle, TypeOK
  <2>2. tx'[v] = tx[v]
    BY <1>1, <1>4, <2>1 DEF TypeOK
  <2>3. Holding(v)
    BY <1>5, <2>2 DEF Holding
  <2>4. tx[v].host # tx[w].host
    BY <1>1, <1>3, <2>1, <2>3 DEF LockInv
  <2>5. tx[v] \in Transaction
    BY <1>1, <2>3 DEF TypeOK, Holding, Idle
  <2> QED
    BY <2>2, <2>3, <2>4, <2>5 DEF Transaction
<1>6. ASSUME NEW v \in Workers, Holding(v)', NEW f \in Live(tx[v].payload)
      PROVE  OpenRows(tx[v].host, f)' \subseteq OpenRows(tx[v].host, f)
  <2>1. tx[v].host \in Hosts /\ tx[v].host # tx[w].host /\ f \in Fingerprints
        /\ tx'[v].host = tx[v].host
    BY <1>5, <1>6 DEF Live
  <2>2. DOMAIN det'[tx[v].host][f] \subseteq DOMAIN det[tx[v].host][f]
    BY <1>2, <2>1
  <2>3. \A h \in Hosts : DOMAIN det'[h][f] \subseteq DOMAIN det[h][f]
               => {i \in DOMAIN det'[h][f] : det'[h][f][i].status = "open"}
                     \subseteq {i \in DOMAIN det[h][f] : det[h][f][i].status = "open"}
    BY <1>2, <2>1 DEF RowsKept
  <2> QED
    BY <2>1, <2>2, <2>3 DEF OpenRows
<1>7. LockInv' /\ LookupInv'
  BY <1>1, <1>5, <1>6, LocksKept
<1>8. UniqueOpen'
  <2>1. SUFFICES ASSUME NEW h \in Hosts, NEW f \in Fingerprints,
                        NEW i \in OpenRows(h, f)', NEW j \in OpenRows(h, f)'
        PROVE  i = j
    BY DEF UniqueOpen
  <2>2. \A k \in OpenRows(h, f)' \cap DOMAIN det[h][f] : k \in OpenRows(h, f)
    BY <1>2 DEF RowsKept, OpenRows
  <2>3. \A k \in OpenRows(h, f)' : k \in DOMAIN det'[h][f]
    BY DEF OpenRows
  <2>4. CASE i \in DOMAIN det[h][f] /\ j \in DOMAIN det[h][f]
    BY <1>1, <2>2, <2>4 DEF UniqueOpen
  <2>5. CASE i \notin DOMAIN det[h][f] \/ j \notin DOMAIN det[h][f]
    <3>1. h = tx[w].host /\ Opening(w, f) # <<>>
      BY <1>2, <2>3, <2>5
    <3>2. OpenRows(h, f) = {}
      <4>1. tx[w].payload.evidence[f] \in Seq(25 .. 100)
        BY <1>3 DEF Transaction, AllPayloads
      <4>2. /\ f \in Live(tx[w].payload)
            /\ tx[w].existing[f].row = 0 \/ Overtaken(w, f)
        BY <3>1, <4>1, SplitScores DEF Live
      <4>3. OpenRows(h, f) \subseteq {tx[w].existing[f].row}
        BY <1>1, <1>3, <3>1, <4>2 DEF LookupInv
      <4>4. tx[w].existing[f].row \notin OpenRows(h, f)
        <5>1. CASE tx[w].existing[f].row = 0
          BY <1>1, <2>1, <5>1 DEF TypeOK, OpenRows
        <5>2. CASE Overtaken(w, f)
          BY <3>1, <5>2 DEF Overtaken, OpenRows
        <5> QED
          BY <4>2, <5>1, <5>2
      <4> QED
        BY <4>3, <4>4
    <3>3. i = Len(det[h][f]) + 1 /\ j = Len(det[h][f]) + 1
      BY <1>2, <2>2, <2>3, <3>2
    <3> QED
      BY <3>3
  <2> QED
    BY <2>4, <2>5
<1> QED
  BY <1>7, <1>8

\* Every step keeps the inductive invariant.
LEMMA StepKeepsIInv ==
  ASSUME IInv, [Next]_vars, TypeOK'
  PROVE  IInv'
<1>1. TypeOK /\ LockInv /\ LookupInv /\ UniqueOpen
  BY DEF IInv
<1>2. ASSUME det' = det
      PROVE  UniqueOpen'
  BY <1>1, <1>2 DEF UniqueOpen, OpenRows
<1>3. ASSUME NEW w \in Workers, NEW t, det' = det, tx' = [tx EXCEPT ![w] = t],
             t.pc \in {"recorded", "judged", "resolved", "flushed"} =>
               /\ Holding(w) /\ t.host = tx[w].host
               /\ t.payload = tx[w].payload /\ t.existing = tx[w].existing
      PROVE  LockInv' /\ LookupInv'
  <2>1. ASSUME NEW v \in Workers, Holding(v)'
        PROVE  /\ Holding(v) /\ tx'[v].host = tx[v].host
               /\ tx'[v].payload = tx[v].payload /\ tx'[v].existing = tx[v].existing
    BY <1>1, <1>3, <2>1 DEF Holding, TypeOK
  <2>2. \A v \in Workers : Holding(v)' =>
          \A f \in Live(tx[v].payload) :
            OpenRows(tx[v].host, f)' \subseteq OpenRows(tx[v].host, f)
    BY <1>3, <2>1 DEF OpenRows
  <2> QED
    BY <1>1, <2>1, <2>2, LocksKept
<1>4. CASE UNCHANGED vars
  BY <1>1, <1>4 DEF IInv, LockInv, LookupInv, UniqueOpen, Holding, OpenRows, Live, vars, database
<1>5. ASSUME NEW w \in Workers, NEW h \in Hosts, NEW payload \in Payloads,
             SelectHost(w, h, payload)
      PROVE  IInv'
  <2> DEFINE t == [pc |-> "selected", host |-> h, payload |-> payload, known |-> hosts[h].known,
        risk |-> hosts[h].risk, seenAt |-> now, existing |-> NoRows, recordedAt |-> now,
        stale |-> {}, closes |-> {}, judgedAt |-> now, worst |-> 0,
        doomedProc |-> NothingDoomed, doomedNet |-> NothingDoomed]
  <2>1. det' = det /\ tx' = [tx EXCEPT ![w] = t]
    BY <1>5 DEF SelectHost, database
  <2>2. t.pc = "selected"
    OBVIOUS
  <2> HIDE DEF t
  <2> QED
    BY <1>2, <1>3, <2>1, <2>2 DEF IInv
<1>6. ASSUME NEW w \in Workers, StoreAndRecord(w)
      PROVE  IInv'
  BY <1>1, <1>2, <1>6, RecordLocks DEF IInv, StoreAndRecord, database
<1>7. ASSUME NEW w \in Workers, DuplicateHost(w) \/ Fail(w)
      PROVE  IInv'
  BY <1>2, <1>3, <1>7 DEF IInv, DuplicateHost, Fail, Idle, database
<1>8. ASSUME NEW w \in Workers, FindStale(w) \/ ResolveStale(w) \/ RefreshAndPrune(w)
      PROVE  IInv'
  <2>1. tx[w] \in Transaction /\ Holding(w) /\ det' = det
    BY <1>1, <1>8, StaleTyped, ResolveTyped, RefreshTyped
       DEF Holding, FindStale, ResolveStale, RefreshAndPrune, database
  <2>2. tx' = [tx EXCEPT ![w] = tx'[w]]
    BY <1>1, <1>8 DEF FindStale, ResolveStale, RefreshAndPrune, TypeOK
  <2>3. /\ tx'[w].host = tx[w].host /\ tx'[w].payload = tx[w].payload
        /\ tx'[w].existing = tx[w].existing
    <3>1. CASE FindStale(w)
      BY <1>1, <2>1, <3>1 DEF FindStale, TypeOK, Transaction
    <3>2. CASE ResolveStale(w)
      BY <1>1, <2>1, <3>2 DEF ResolveStale, TypeOK, Transaction
    <3>3. CASE RefreshAndPrune(w)
      BY <1>1, <2>1, <3>3 DEF RefreshAndPrune, TypeOK, Transaction
    <3> QED
      BY <1>8, <3>1, <3>2, <3>3
  <2> QED
    BY <1>2, <1>3, <2>1, <2>2, <2>3 DEF IInv
<1>9. ASSUME NEW w \in Workers, Commit(w)
      PROVE  IInv'
  BY <1>9, CommitUnique DEF IInv
<1>10. CASE Restart
  <2>1. det' = det /\ \A v \in Workers : ~Holding(v)'
    BY <1>10 DEF Restart, Holding, Idle, database
  <2> QED
    BY <1>2, <2>1 DEF IInv, LockInv, LookupInv
<1>11. CASE Tick
  BY <1>1, <1>11 DEF IInv, Tick, LockInv, LookupInv, UniqueOpen, Holding, OpenRows, Live, database
<1>12. CASE Analyst
  <2>1. PICK h \in Hosts, f \in Fingerprints, verdict \in Verdicts : \E i \in DOMAIN det[h][f] :
          PatchAlert(h, f, i, verdict)
    BY <1>12 DEF Analyst
  <2>2. PICK i \in DOMAIN det[h][f] : PatchAlert(h, f, i, verdict)
    BY <2>1
  <2>3. tx' = tx
    BY <2>2 DEF PatchAlert
  <2>4. \A g \in Hosts, e \in Fingerprints : OpenRows(g, e)' \subseteq OpenRows(g, e)
    <3>1. SUFFICES ASSUME NEW g \in Hosts, NEW e \in Fingerprints
          PROVE  OpenRows(g, e)' \subseteq OpenRows(g, e)
      OBVIOUS
    <3>2. RowsKept
      BY <1>1, StepKeepsRows
    <3>3. Len(det'[g][e]) = Len(det[g][e])
      BY <1>1, <2>2, PatchKeeps
    <3>4. DOMAIN det'[g][e] = DOMAIN det[g][e]
      BY <1>1, <3>3 DEF TypeOK
    <3> QED
      BY <1>1, <3>2, <3>4, NothingOpens
  <2>5. UniqueOpen'
    BY <1>1, <2>4 DEF UniqueOpen
  <2>6. ASSUME NEW v \in Workers, Holding(v)', NEW e \in Live(tx[v].payload)
        PROVE  OpenRows(tx[v].host, e)' \subseteq OpenRows(tx[v].host, e)
    <3>1. tx[v].host \in Hosts /\ e \in Fingerprints
      <4>1. tx[v].pc \in {"recorded", "judged", "resolved", "flushed"}
        BY <2>3, <2>6 DEF Holding
      <4>2. tx[v] \in Transaction
        BY <1>1, <4>1 DEF TypeOK, Idle
      <4> QED
        BY <4>2, <2>6 DEF Transaction, Live
    <3> QED
      BY <2>3, <2>4, <3>1 DEF OpenRows
  <2>7. \A v \in Workers : Holding(v)' => Holding(v)
    BY <2>3 DEF Holding
  <2>8. LockInv' /\ LookupInv'
    BY <1>1, <2>3, <2>6, <2>7, LocksKept
  <2> QED
    BY <2>5, <2>8 DEF IInv
<1> QED
  BY <1>4, <1>5, <1>6, <1>7, <1>8, <1>9, <1>10, <1>11, <1>12 DEF Next, WorkerStep, Report

\* README, fingerprint deduplication: no interleaving of any number of reports,
\* failures, restarts and analysts leaves two open detections with one
\* fingerprint, although the schema has no constraint against it.
THEOREM OneOpenDetection == Spec => []UniqueOpen
<1>1. Init => IInv
  <2>1. Init => TypeOK
    BY IngestAssumption DEF Init, TypeOK, HostRow, Scores, Times, NoTime
  <2> QED
    BY <2>1 DEF Init, IInv, LockInv, LookupInv, UniqueOpen, Holding, Idle, OpenRows
<1>2. IInv /\ [Next]_vars /\ TypeOK' => IInv'
  BY StepKeepsIInv
<1>3. IInv => UniqueOpen
  BY DEF IInv
<1> QED
  BY <1>1, <1>2, <1>3, TypeCorrect, PTL DEF Spec

=============================================================================
