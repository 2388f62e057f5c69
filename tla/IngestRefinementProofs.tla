------------------------ MODULE IngestRefinementProofs ------------------------
(***************************************************************************)
(* The ingest pipeline implements the alert queue for any hosts,           *)
(* fingerprints, reports, workers and time constants.                      *)
(***************************************************************************)
EXTENDS IngestRefinement, IngestPipelineProofs

-----------------------------------------------------------------------------
(* What a commit and a verdict write, column by column.                    *)

\* Two versions of a row that differ at most in what the queue does not show.
Alike(new, old) ==
  new.status = old.status /\ new.count = old.count /\ new.updated = old.updated

\* A fingerprint that a report carries has been observed.
LEMMA SomeScores ==
  ASSUME NEW scores \in Seq(25 .. 100)
  PROVE  Len(scores) > 0 <=> scores # <<>>
<1>1. Len(scores) \in Nat /\ (scores = <<>> <=> Len(scores) = 0)
  BY EmptySeq, LenProperties
<1> QED
  BY <1>1

\* A deleted process row costs a detection its reference and nothing else.
LEMMA DetachAlike ==
  ASSUME NEW rows \in Seq(Row), NEW doomed
  PROVE  /\ Len(Detach(rows, doomed)) = Len(rows)
         /\ \A i \in DOMAIN rows : Alike(Detach(rows, doomed)[i], rows[i])
<1>1. ASSUME NEW i \in DOMAIN rows
      PROVE  Alike(Detach(rows, doomed)[i], rows[i])
  <2>1. rows[i] \in Row
    OBVIOUS
  <2>2. Detach(rows, doomed)[i] =
           [rows[i] EXCEPT !.process = IF @ \in doomed THEN NoTime ELSE @]
    BY DEF Detach
  <2> QED
    BY <2>1, <2>2 DEF Row, Alike
<1> QED
  BY <1>1, DetachKeeps

\* The assignments of a transaction to a row that exists already.
LEMMA UpdatedRow ==
  ASSUME TypeOK, NEW w \in Workers, tx[w] \in Transaction, NEW h, h = tx[w].host,
         NEW f \in Fingerprints, NEW i \in DOMAIN det[h][f]
  PROVE  LET t == tx[w]
             old == det[h][f][i]
             new == Updated(w, f)[i]
             hit == f \in Live(t.payload) /\ i = t.existing[f].row
         IN  /\ hit =>
                  /\ new.status = old.status /\ new.updated = t.recordedAt
                  /\ new.count = t.existing[f].count + Len(Added(w, f))
             /\ ~hit /\ <<f, i>> \in t.stale =>
                  new.status = "resolved" /\ new.count = old.count
             /\ ~hit /\ <<f, i>> \notin t.stale => new = old
<1> DEFINE t == tx[w]
           old == det[h][f][i]
<1>1. old \in Row
  <2>1. det[h][f] \in Seq(Row)
    BY DEF TypeOK, Transaction
  <2> QED
    BY <2>1
<1>2. f \in Live(t.payload) <=> t.payload.evidence[f] # <<>>
  BY DEF Live
<1>3. Updated(w, f)[i] =
        IF t.payload.evidence[f] # <<>> /\ i = t.existing[f].row THEN Refreshed(w, f, old)
        ELSE IF <<f, i>> \in t.stale
          THEN [old EXCEPT !.status = "resolved", !.updated = t.judgedAt,
                  !.alert = IF <<f, i>> \in t.closes THEN "closed" ELSE @]
        ELSE old
  BY DEF Updated
<1>4. Refreshed(w, f, old) =
        [old EXCEPT !.score = Last(Added(w, f)), !.updated = t.recordedAt,
           !.count = t.existing[f].count + Len(Added(w, f)),
           !.process = IF f \in ProcessFingerprints THEN t.recordedAt ELSE @]
  BY DEF Refreshed
<1>5. /\ Refreshed(w, f, old).status = old.status
      /\ Refreshed(w, f, old).updated = t.recordedAt
      /\ Refreshed(w, f, old).count = t.existing[f].count + Len(Added(w, f))
  <2> HIDE DEF old, t
  <2> QED
    BY <1>1, <1>4 DEF Row
<1>6. ASSUME NEW at, NEW alert
      PROVE  LET closed == [old EXCEPT !.status = "resolved", !.updated = at, !.alert = alert]
             IN  closed.status = "resolved" /\ closed.count = old.count
  <2> HIDE DEF old
  <2> QED
    BY <1>1 DEF Row
<1>7. CASE f \in Live(t.payload) /\ i = t.existing[f].row
  BY <1>2, <1>3, <1>5, <1>7
<1>8. CASE ~(f \in Live(t.payload) /\ i = t.existing[f].row) /\ <<f, i>> \in t.stale
  <2>1. Updated(w, f)[i] =
          [old EXCEPT !.status = "resolved", !.updated = t.judgedAt,
             !.alert = IF <<f, i>> \in t.closes THEN "closed" ELSE @]
    BY <1>2, <1>3, <1>8
  <2> HIDE DEF old, t
  <2> QED
    BY <1>1, <1>8, <2>1 DEF Row, old, t
<1>9. CASE ~(f \in Live(t.payload) /\ i = t.existing[f].row) /\ <<f, i>> \notin t.stale
  BY <1>2, <1>3, <1>9
<1> QED
  BY <1>7, <1>8, <1>9

\* The rows of a fingerprint after a commit.
LEMMA CommitRows ==
  ASSUME TypeOK, NEW w \in Workers, Commit(w), NEW g \in Hosts, NEW f \in Fingerprints
  PROVE  LET t == tx[w]
             old == det[g][f]
             new == det'[g][f]
             opens == g = t.host /\ Opening(w, f) # <<>>
         IN  /\ Len(new) = IF opens THEN Len(old) + 1 ELSE Len(old)
             /\ g # t.host => \A i \in DOMAIN old : Alike(new[i], old[i])
             /\ g = t.host => \A i \in DOMAIN old : Alike(new[i], Updated(w, f)[i])
             /\ opens => /\ new[Len(new)].status = "open"
                         /\ new[Len(new)].count = Len(Opening(w, f))
                         /\ new[Len(new)].updated = t.recordedAt
<1> DEFINE t == tx[w]
           old == det[g][f]
           opens == g = t.host /\ Opening(w, f) # <<>>
           written == IF g = t.host THEN Written(w, f) ELSE old
<1>1. t \in Transaction
  BY CommitTyped
<1>2. old \in Seq(Row) /\ Len(old) \in Nat /\ DOMAIN old = 1 .. Len(old)
  BY DEF TypeOK
<1>3. det'[g][f] = Detach(written, t.doomedProc[g])
  BY DEF Commit
<1>5. CASE g # t.host
  BY <1>2, <1>3, <1>5, DetachAlike
<1>6. CASE g = t.host /\ ~opens
  <2>1. written = Updated(w, f)
    BY <1>6 DEF Written
  <2>2. /\ Updated(w, f) \in Seq(Row) /\ Len(Updated(w, f)) = Len(old)
        /\ DOMAIN Updated(w, f) = DOMAIN old
    BY <1>1, <1>6, UpdatedKeeps
  <2> QED
    <3>1. /\ Len(det'[g][f]) = Len(Updated(w, f))
          /\ \A i \in DOMAIN Updated(w, f) : Alike(det'[g][f][i], Updated(w, f)[i])
      BY <1>3, <2>1, <2>2, DetachAlike
    <3> QED
      BY <1>6, <2>2, <3>1
<1>7. CASE opens
  <2>1. written = Append(Updated(w, f), Inserted(w, f))
    BY <1>7 DEF Written
  <2>2. /\ Updated(w, f) \in Seq(Row) /\ Len(Updated(w, f)) = Len(old)
        /\ DOMAIN Updated(w, f) = DOMAIN old
    BY <1>1, <1>7, UpdatedKeeps
  <2>3. written \in Seq(Row)
    BY <1>1, <1>7, WrittenKeeps
  <2>4. /\ Inserted(w, f).status = "open" /\ Inserted(w, f).updated = t.recordedAt
        /\ Inserted(w, f).count = Len(Opening(w, f))
    BY DEF Inserted
  <2>5. /\ Len(written) = Len(old) + 1
        /\ written[Len(old) + 1] = Inserted(w, f)
        /\ \A i \in 1 .. Len(old) : written[i] = Updated(w, f)[i]
        /\ DOMAIN written = 1 .. Len(old) + 1
    <3> HIDE DEF written, old
    <3>1. Inserted(w, f) \in Row
      <4>1. Inserted(w, f) = written[Len(Updated(w, f)) + 1]
        BY <2>1, <2>2
      <4>2. Len(written) = Len(Updated(w, f)) + 1
        BY <2>1, <2>2
      <4> QED
        BY <1>2, <2>2, <2>3, <4>1, <4>2
    <3> QED
      BY <1>2, <2>1, <2>2, <3>1, AppendProperties
  <2>6. /\ Len(det'[g][f]) = Len(old) + 1
        /\ \A i \in 1 .. Len(old) + 1 : Alike(det'[g][f][i], written[i])
    <3> HIDE DEF written, old
    <3> QED
      BY <1>3, <2>3, <2>5, DetachAlike
  <2>7. Len(old) + 1 \in 1 .. Len(old) + 1 /\ 1 .. Len(old) \subseteq 1 .. Len(old) + 1
    BY <1>2
  <2> HIDE DEF written, old
  <2>8. Alike(det'[g][f][Len(old) + 1], Inserted(w, f))
    BY <2>5, <2>6, <2>7
  <2>9. \A i \in DOMAIN old : Alike(det'[g][f][i], Updated(w, f)[i])
    BY <1>2, <2>5, <2>6, <2>7
  <2> QED
    BY <1>7, <2>4, <2>6, <2>8, <2>9 DEF Alike, old
<1> QED
  BY <1>5, <1>6, <1>7

\* What a verdict writes: the status of one row, and the note of it.
LEMMA PatchRows ==
  ASSUME TypeOK, NEW h \in Hosts, NEW f \in Fingerprints, NEW i \in DOMAIN det[h][f],
         NEW verdict \in Verdicts, PatchAlert(h, f, i, verdict)
  PROVE  \E status \in {det[h][f][i].status, "suppressed", "resolved"} :
           /\ \A g \in Hosts, e \in Fingerprints :
                /\ Len(det'[g][e]) = Len(det[g][e])
                /\ \A j \in DOMAIN det[g][e] :
                     /\ det'[g][e][j].status = IF g = h /\ e = f /\ j = i THEN status
                                                ELSE det[g][e][j].status
                     /\ det'[g][e][j].count = det[g][e][j].count
                     /\ det'[g][e][j].updated = det[g][e][j].updated
           /\ overruled' = IF status = det[h][f][i].status THEN overruled
                           ELSE [overruled EXCEPT ![h] = @ \cup {f}]
<1>1. PICK status \in {det[h][f][i].status, "suppressed", "resolved"} :
        /\ det' = [det EXCEPT ![h][f][i].alert = verdict, ![h][f][i].status = status]
        /\ overruled' = IF status = det[h][f][i].status THEN overruled
                        ELSE [overruled EXCEPT ![h] = @ \cup {f}]
  BY Zenon DEF PatchAlert
<1> DEFINE row == [det[h][f][i] EXCEPT !.alert = verdict, !.status = status]
           rows == [det[h][f] EXCEPT ![i] = row]
<1>2. det[h][f] \in Seq(Row) /\ det[h][f][i] \in Row
  BY DEF TypeOK
<1>3. /\ row \in Row /\ row.status = status
      /\ row.count = det[h][f][i].count /\ row.updated = det[h][f][i].updated
  BY <1>2, IngestAssumption DEF Row, DetectionStatuses
<1>4. det' = [det EXCEPT ![h] = [det[h] EXCEPT ![f] = rows]]
  <2>1. h \in DOMAIN det /\ f \in DOMAIN det[h]
    BY DEF TypeOK
  <2> QED
    BY ZenonT(40), <1>1, <2>1
<1> HIDE DEF row
<1>5. /\ rows \in Seq(Row) /\ Len(rows) = Len(det[h][f])
      /\ \A j \in 1 .. Len(det[h][f]) : rows[j] = IF j = i THEN row ELSE det[h][f][j]
  BY <1>2, <1>3, ExceptSeq
<1> HIDE DEF rows
<1>6. ASSUME NEW g \in Hosts, NEW e \in Fingerprints
      PROVE  /\ Len(det'[g][e]) = Len(det[g][e])
             /\ \A j \in DOMAIN det[g][e] :
                  /\ det'[g][e][j].status = IF g = h /\ e = f /\ j = i THEN status
                                             ELSE det[g][e][j].status
                  /\ det'[g][e][j].count = det[g][e][j].count
                  /\ det'[g][e][j].updated = det[g][e][j].updated
  <2>1. CASE g = h /\ e = f
    <3>1. det'[g][e] = rows
      BY <1>4, <2>1 DEF TypeOK
    <3>2. DOMAIN det[g][e] = 1 .. Len(det[g][e])
      BY <1>2, <2>1
    <3> QED
      BY <1>3, <1>5, <2>1, <3>1, <3>2
  <2>2. CASE ~(g = h /\ e = f)
    <3>1. det'[g][e] = det[g][e]
      BY <1>4, <2>2 DEF TypeOK
    <3> QED
      BY <2>2, <3>1
  <2> QED
    BY <2>1, <2>2
<1> QED
  BY <1>1, <1>6

-----------------------------------------------------------------------------
(* The invariant the mapping rests on.                                     *)

\* The newest row is the only one that may be open, and an open row was last
\* updated when its fingerprint was last heard of.
FreshInv ==
  \A h \in Hosts, f \in Fingerprints :
    /\ evidenced[h][f] <= now
    /\ \A i \in OpenRows(h, f) :
         i = Len(det[h][f]) /\ det[h][f][i].updated = evidenced[h][f]

\* The newest row of f, as a transaction on h has read it: it may have been
\* settled since, but only by an analyst.
StillNewest(h, f, i) ==
  /\ i = Len(det[h][f]) /\ i \in DOMAIN det[h][f]
  /\ det[h][f][i].status = "open" \/ f \in overruled[h]

\* What a transaction has read stays true while it holds the lock.
ReadsHold(w) ==
  LET t == tx[w]
      h == t.host
  IN  Holding(w) =>
        /\ t.recordedAt <= now
        /\ \A f \in Fingerprints : evidenced[h][f] <= t.recordedAt
        /\ \A f \in Live(t.payload) : t.existing[f].row # 0 =>
              /\ StillNewest(h, f, t.existing[f].row)
              /\ t.existing[f].count = det[h][f][t.existing[f].row].count

\* The same for the rows a transaction is about to resolve.
JudgementHolds(w) ==
  LET t == tx[w]
      h == t.host
  IN  t.pc \in {"judged", "resolved", "flushed"} =>
        \A d \in t.stale :
          /\ d[1] \in Fingerprints \ Live(t.payload)
          /\ StillNewest(h, d[1], d[2])
          /\ now - evidenced[h][d[1]] >= STALE

\* A transaction works on a payload an agent may send.
SentInv == \A w \in Workers : tx[w] # Idle => tx[w].payload \in Payloads

RInv ==
  /\ TypeOK /\ IInv /\ SentInv
  /\ FreshInv
  /\ \A w \in Workers : ReadsHold(w) /\ JudgementHolds(w)

\* What a step must leave alone of a host for what was read of it to stay true.
HostKept(h) ==
  /\ now <= now'
  /\ overruled[h] \subseteq overruled'[h]
  /\ \A f \in Fingerprints :
       /\ Len(det'[h][f]) = Len(det[h][f]) /\ evidenced'[h][f] = evidenced[h][f]
       /\ \A i \in DOMAIN det[h][f] :
            /\ det'[h][f][i].count = det[h][f][i].count
            /\ det'[h][f][i].updated = det[h][f][i].updated
            /\ \/ det'[h][f][i].status = det[h][f][i].status
               \/ det'[h][f][i].status # "open" /\ f \in overruled'[h]

\* A worker that stays where it is keeps what it has read of a host left alone.
LEMMA WorkerKept ==
  ASSUME TypeOK, TypeOK', NEW w \in Workers, ReadsHold(w), JudgementHolds(w),
         tx'[w] = tx[w], Holding(w) => HostKept(tx[w].host)
  PROVE  ReadsHold(w)' /\ JudgementHolds(w)'
<1>1. SUFFICES ASSUME Holding(w)
      PROVE  ReadsHold(w)' /\ JudgementHolds(w)'
  BY DEF ReadsHold, JudgementHolds, Holding
<1> DEFINE t == tx[w]
           h == t.host
<1>2. t \in Transaction /\ h \in Hosts
  BY <1>1 DEF TypeOK, Holding, Idle, Transaction
<1>3. HostKept(h)
  BY <1>1
<1>4. \A f \in Fingerprints :
        /\ det[h][f] \in Seq(Row) /\ det'[h][f] \in Seq(Row)
        /\ evidenced[h][f] \in Int
  BY <1>2 DEF TypeOK, Times, NoTime
<1>5. ASSUME NEW f \in Fingerprints, NEW i, StillNewest(h, f, i)
      PROVE  StillNewest(h, f, i)' /\ det'[h][f][i].count = det[h][f][i].count
  <2>1. DOMAIN det'[h][f] = DOMAIN det[h][f]
    BY <1>3, <1>4 DEF HostKept
  <2>2. /\ i = Len(det[h][f]) /\ i \in DOMAIN det[h][f]
        /\ det[h][f][i].status = "open" \/ f \in overruled[h]
    BY <1>5 DEF StillNewest
  <2>3. /\ overruled[h] \subseteq overruled'[h]
        /\ Len(det'[h][f]) = Len(det[h][f])
        /\ det'[h][f][i].count = det[h][f][i].count
        /\ \/ det'[h][f][i].status = det[h][f][i].status
           \/ det'[h][f][i].status # "open" /\ f \in overruled'[h]
    BY <1>3, <2>2 DEF HostKept
  <2>4. /\ i = Len(det'[h][f]) /\ i \in DOMAIN det'[h][f]
        /\ det'[h][f][i].status = "open" \/ f \in overruled'[h]
    BY <2>1, <2>2, <2>3
  <2> QED
    BY <2>3, <2>4 DEF StillNewest
<1>6. ReadsHold(w)'
  <2>1. t.recordedAt <= now'
    <3>1. t.recordedAt \in Int /\ now \in Int /\ now' \in Int
      BY <1>2 DEF Transaction, TypeOK, Times
    <3> QED
      <4>1. t.recordedAt <= now
        BY <1>1 DEF ReadsHold
      <4>2. now <= now'
        BY <1>3 DEF HostKept
      <4> HIDE DEF t
      <4> QED
        BY <3>1, <4>1, <4>2
  <2>2. \A f \in Fingerprints : evidenced'[h][f] <= t.recordedAt
    BY <1>1, <1>3 DEF ReadsHold, HostKept
  <2>3. \A f \in Live(t.payload) : t.existing[f].row # 0 =>
          /\ StillNewest(h, f, t.existing[f].row)'
          /\ t.existing[f].count = det'[h][f][t.existing[f].row].count
    BY <1>1, <1>5 DEF ReadsHold, Live
  <2> QED
    BY <2>1, <2>2, <2>3 DEF ReadsHold, StillNewest, Live
<1>7. JudgementHolds(w)'
  <2>1. SUFFICES ASSUME t.pc \in {"judged", "resolved", "flushed"}, NEW d \in t.stale
        PROVE  /\ d[1] \in Fingerprints \ Live(t.payload)
               /\ StillNewest(h, d[1], d[2])'
               /\ now' - evidenced'[h][d[1]] >= STALE
    BY DEF JudgementHolds, StillNewest, Live
  <2>2. /\ d[1] \in Fingerprints \ Live(t.payload)
        /\ StillNewest(h, d[1], d[2])
        /\ now - evidenced[h][d[1]] >= STALE
    BY <2>1 DEF JudgementHolds
  <2>3. now \in Int /\ now' \in Int /\ now <= now' /\ STALE \in Int
    <3>1. now <= now'
      BY <1>3 DEF HostKept
    <3> QED
      BY <3>1, IngestAssumption DEF TypeOK, Times
  <2>4. evidenced'[h][d[1]] = evidenced[h][d[1]]
    BY <1>3, <2>2 DEF HostKept
  <2> QED
    BY <1>4, <1>5, <2>2, <2>3, <2>4
<1> QED
  BY <1>6, <1>7

\* A step of w that leaves the rows alone keeps what the others have read.
LEMMA OthersKept ==
  ASSUME RInv, TypeOK', NEW w \in Workers, now' = now, det' = det,
         evidenced' = evidenced, overruled' = overruled,
         \A v \in Workers \ {w} : tx'[v] = tx[v]
  PROVE  /\ FreshInv'
         /\ \A v \in Workers \ {w} : ReadsHold(v)' /\ JudgementHolds(v)'
<1>1. FreshInv'
  BY DEF RInv, FreshInv, OpenRows
<1>2. ASSUME NEW v \in Workers \ {w}
      PROVE  ReadsHold(v)' /\ JudgementHolds(v)'
  <2>1. ASSUME NEW h \in Hosts PROVE HostKept(h)
    BY DEF HostKept, RInv, TypeOK, Times
  <2>2. Holding(v) => tx[v].host \in Hosts
    BY DEF RInv, TypeOK, Holding, Idle, Transaction
  <2> QED
    BY <2>1, <2>2, WorkerKept DEF RInv
<1> QED
  BY <1>1, <1>2

\* The lookup reads the newest row.
LEMMA RecordReads ==
  ASSUME RInv, NEW w \in Workers, StoreAndRecord(w)
  PROVE  ReadsHold(w)' /\ JudgementHolds(w)'
<1> DEFINE t == tx[w]
           h == t.host
<1>1. /\ t \in Transaction /\ h \in Hosts
  BY RecordTyped DEF Transaction, RInv
<1>2. /\ tx'[w].pc = "recorded" /\ tx'[w].host = h /\ tx'[w].payload = t.payload
      /\ tx'[w].recordedAt = now
      /\ tx'[w].existing = [f \in Fingerprints |->
             IF f \in Live(t.payload) THEN Lookup(h, f) ELSE [row |-> 0, count |-> 0]]
  BY <1>1 DEF StoreAndRecord, RInv, TypeOK, Transaction
<1>3. /\ det' = det /\ now' = now /\ evidenced' = evidenced /\ overruled' = overruled
  BY DEF StoreAndRecord, database, history
<1>4. ASSUME NEW f \in Live(t.payload), tx'[w].existing[f].row # 0
      PROVE  /\ StillNewest(h, f, tx'[w].existing[f].row)
             /\ tx'[w].existing[f].count = det[h][f][tx'[w].existing[f].row].count
  <2>1. f \in Fingerprints /\ tx'[w].existing[f] = Lookup(h, f)
    BY <1>2 DEF Live
  <2>2. OpenRows(h, f) # {}
    BY <1>4, <2>1 DEF Lookup
  <2>3. Lookup(h, f) = [row |-> Max(OpenRows(h, f)), count |-> det[h][f][Max(OpenRows(h, f))].count]
    BY <2>2 DEF Lookup
  <2>4. Max(OpenRows(h, f)) \in OpenRows(h, f)
    <3>1. det[h][f] \in Seq(Row)
      BY <1>1, <2>1 DEF RInv, TypeOK
    <3>2. Len(det[h][f]) \in Nat /\ OpenRows(h, f) \subseteq 0 .. Len(det[h][f])
      <4>1. OpenRows(h, f) \subseteq DOMAIN det[h][f]
        BY DEF OpenRows
      <4>2. Len(det[h][f]) \in Nat /\ DOMAIN det[h][f] = 1 .. Len(det[h][f])
        BY <3>1
      <4> QED
        BY <4>1, <4>2
    <3> QED
      BY <2>2, <3>2, MaxOfBounded
  <2>5. PICK m : m = Max(OpenRows(h, f))
    OBVIOUS
  <2>6. m = Len(det[h][f]) /\ m \in DOMAIN det[h][f] /\ det[h][f][m].status = "open"
    BY <1>1, <2>1, <2>4, <2>5 DEF RInv, FreshInv, OpenRows
  <2>7. tx'[w].existing[f].row = m /\ tx'[w].existing[f].count = det[h][f][m].count
    BY <2>1, <2>3, <2>5
  <2> QED
    BY <2>6, <2>7 DEF StillNewest
<1>5. \A f \in Fingerprints : evidenced[h][f] <= now
  BY <1>1 DEF RInv, FreshInv
<1>6. now <= now
  BY DEF RInv, TypeOK, Times
<1> QED
  BY <1>2, <1>3, <1>4, <1>5, <1>6 DEF ReadsHold, JudgementHolds, StillNewest, Live

\* The staleness test looks at open rows, so at newest ones, and reads from
\* them when their fingerprint was last heard of.
LEMMA StaleReads ==
  ASSUME RInv, NEW w \in Workers, FindStale(w)
  PROVE  ReadsHold(w)' /\ JudgementHolds(w)'
<1> DEFINE t == tx[w]
           h == t.host
<1>1. t \in Transaction /\ h \in Hosts /\ Holding(w)
  BY StaleTyped DEF Transaction, RInv, FindStale, Holding
<1>2. /\ tx'[w].pc = "judged" /\ tx'[w].host = h /\ tx'[w].payload = t.payload
      /\ tx'[w].recordedAt = t.recordedAt /\ tx'[w].existing = t.existing
      /\ tx'[w].stale = StaleRows(h, Live(t.payload))
  BY <1>1 DEF FindStale, RInv, TypeOK, Transaction
<1>3. /\ det' = det /\ now' = now /\ evidenced' = evidenced /\ overruled' = overruled
  BY DEF FindStale, database, history
<1>4. ASSUME NEW d \in StaleRows(h, Live(t.payload))
      PROVE  /\ d[1] \in Fingerprints \ Live(t.payload)
             /\ StillNewest(h, d[1], d[2])
             /\ now - evidenced[h][d[1]] >= STALE
  <2>1. /\ d[1] \in Fingerprints \ Live(t.payload)
        /\ d[2] \in OpenRows(h, d[1])
        /\ now - det[h][d[1]][d[2]].updated >= STALE
    BY <1>4 DEF StaleRows
  <2> QED
    BY <1>1, <2>1 DEF RInv, FreshInv, StillNewest, OpenRows
<1>5. ReadsHold(w)
  BY DEF RInv
<1> QED
  BY <1>1, <1>2, <1>3, <1>4, <1>5 DEF ReadsHold, JudgementHolds, StillNewest, Live, Holding

\* The loop over the stale rows reads only their alerts.
LEMMA ResolveReads ==
  ASSUME RInv, NEW w \in Workers, ResolveStale(w)
  PROVE  ReadsHold(w)' /\ JudgementHolds(w)'
<1> DEFINE t == tx[w]
<1>1. t \in Transaction /\ Holding(w) /\ t.pc = "judged"
  BY ResolveTyped DEF RInv, ResolveStale, Holding
<1>2. /\ tx'[w].pc = "resolved" /\ tx'[w].host = t.host /\ tx'[w].payload = t.payload
      /\ tx'[w].recordedAt = t.recordedAt /\ tx'[w].existing = t.existing
      /\ tx'[w].stale = t.stale
  BY <1>1 DEF ResolveStale, RInv, TypeOK, Transaction
<1>3. /\ det' = det /\ now' = now /\ evidenced' = evidenced /\ overruled' = overruled
  BY DEF ResolveStale, database, history
<1>4. ReadsHold(w) /\ JudgementHolds(w)
  BY DEF RInv
<1> QED
  BY <1>1, <1>2, <1>3, <1>4 DEF ReadsHold, JudgementHolds, StillNewest, Live, Holding

\* The rollup and the pruning read nothing of this.
LEMMA RefreshReads ==
  ASSUME RInv, NEW w \in Workers, RefreshAndPrune(w)
  PROVE  ReadsHold(w)' /\ JudgementHolds(w)'
<1> DEFINE t == tx[w]
<1>1. t \in Transaction /\ Holding(w) /\ t.pc = "resolved"
  BY RefreshTyped DEF RInv, RefreshAndPrune, Holding
<1>2. /\ tx'[w].pc = "flushed" /\ tx'[w].host = t.host /\ tx'[w].payload = t.payload
      /\ tx'[w].recordedAt = t.recordedAt /\ tx'[w].existing = t.existing
      /\ tx'[w].stale = t.stale
  BY <1>1 DEF RefreshAndPrune, RInv, TypeOK, Transaction
<1>3. /\ det' = det /\ now' = now /\ evidenced' = evidenced /\ overruled' = overruled
  BY DEF RefreshAndPrune, database, history
<1>4. ReadsHold(w) /\ JudgementHolds(w)
  BY DEF RInv
<1> QED
  BY <1>1, <1>2, <1>3, <1>4 DEF ReadsHold, JudgementHolds, StillNewest, Live, Holding

\* What a commit makes of the rows of a fingerprint of its host h: it opens one
\* where there is none, adds to the newest one, or resolves the newest one.  Of
\* a row that was settled meanwhile it adds one finding and opens a row with
\* the others.
CommitOutcome(w, h, f) ==
  LET t == tx[w]
      old == det[h][f]
      new == det'[h][f]
      k == t.existing[f].row
      n == Len(t.payload.evidence[f])
  IN  /\ f \in Live(t.payload) /\ k = 0 =>
           /\ OpenRows(h, f) = {}
           /\ Len(new) = Len(old) + 1
           /\ \A i \in DOMAIN old : Alike(new[i], old[i])
           /\ new[Len(new)].status = "open" /\ new[Len(new)].count = n
           /\ new[Len(new)].updated = t.recordedAt
      /\ f \in Live(t.payload) /\ k # 0 =>
           /\ StillNewest(h, f, k)
           /\ \A i \in DOMAIN old : i # k => Alike(new[i], old[i])
           /\ new[k].status = old[k].status /\ new[k].updated = t.recordedAt
           /\ old[k].status = "open" =>
                Len(new) = Len(old) /\ new[k].count = old[k].count + n
           /\ old[k].status # "open" =>
                /\ new[k].count = old[k].count + 1
                /\ Len(new) = IF n = 1 THEN Len(old) ELSE Len(old) + 1
                /\ n # 1 =>
                     /\ new[Len(new)].status = "open" /\ new[Len(new)].count = n - 1
                     /\ new[Len(new)].updated = t.recordedAt
      /\ f \notin Live(t.payload) =>
           /\ Len(new) = Len(old)
           /\ \A i \in DOMAIN old : <<f, i>> \notin t.stale => Alike(new[i], old[i])
           /\ \A i : <<f, i>> \in t.stale =>
                /\ StillNewest(h, f, i) /\ now - evidenced[h][f] >= STALE
                /\ new[i].status = "resolved" /\ new[i].count = old[i].count

LEMMA CommitCases ==
  ASSUME RInv, NEW w \in Workers, Commit(w), NEW h, h = tx[w].host, NEW f \in Fingerprints
  PROVE  CommitOutcome(w, h, f)
<1> DEFINE t == tx[w]
           old == det[h][f]
           new == det'[h][f]
           k == t.existing[f].row
           n == Len(t.payload.evidence[f])
<1>1. /\ t \in Transaction /\ h \in Hosts /\ h = t.host /\ t.pc = "flushed"
      /\ Holding(w) /\ TypeOK
  BY CommitTyped DEF RInv, Commit, Holding
<1>2. /\ Len(new) = IF Opening(w, f) # <<>> THEN Len(old) + 1 ELSE Len(old)
      /\ \A i \in DOMAIN old : Alike(new[i], Updated(w, f)[i])
      /\ Opening(w, f) # <<>> =>
           /\ new[Len(new)].status = "open" /\ new[Len(new)].count = Len(Opening(w, f))
           /\ new[Len(new)].updated = t.recordedAt
  BY <1>1, CommitRows
<1>3. ASSUME NEW i \in DOMAIN old
      PROVE  /\ f \in Live(t.payload) /\ i = k =>
                  /\ new[i].status = old[i].status /\ new[i].updated = t.recordedAt
                  /\ new[i].count = t.existing[f].count + Len(Added(w, f))
             /\ ~(f \in Live(t.payload) /\ i = k) /\ <<f, i>> \in t.stale =>
                  new[i].status = "resolved" /\ new[i].count = old[i].count
             /\ ~(f \in Live(t.payload) /\ i = k) /\ <<f, i>> \notin t.stale =>
                  Alike(new[i], old[i])
  <2>1. Alike(new[i], Updated(w, f)[i])
    BY <1>2
  <2>2. /\ f \in Live(t.payload) /\ i = k =>
             /\ Updated(w, f)[i].status = old[i].status
             /\ Updated(w, f)[i].updated = t.recordedAt
             /\ Updated(w, f)[i].count = t.existing[f].count + Len(Added(w, f))
        /\ ~(f \in Live(t.payload) /\ i = k) /\ <<f, i>> \in t.stale =>
             Updated(w, f)[i].status = "resolved" /\ Updated(w, f)[i].count = old[i].count
        /\ ~(f \in Live(t.payload) /\ i = k) /\ <<f, i>> \notin t.stale =>
             Updated(w, f)[i] = old[i]
    BY <1>1, UpdatedRow
  <2> HIDE DEF t, old, new, k
  <2> QED
    BY <2>1, <2>2 DEF Alike
<1>4. \A d \in t.stale :
        /\ d[1] \in Fingerprints \ Live(t.payload)
        /\ StillNewest(h, d[1], d[2])
        /\ now - evidenced[h][d[1]] >= STALE
  BY <1>1 DEF RInv, JudgementHolds
<1>5. f \in Live(t.payload) => \A i : <<f, i>> \notin t.stale
  BY <1>4
<1>6. old \in Seq(Row) /\ DOMAIN old = 1 .. Len(old) /\ Len(old) \in Nat
  BY <1>1 DEF TypeOK
<1>7. /\ t.payload.evidence[f] \in Seq(25 .. 100) /\ n \in Nat
      /\ f \in Live(t.payload) <=> t.payload.evidence[f] # <<>>
  BY <1>1 DEF Transaction, AllPayloads, Live
<1>8. CASE f \in Live(t.payload) /\ k = 0
  <2>1. OpenRows(h, f) = {}
    <3>1. OpenRows(h, f) \subseteq {k}
      BY <1>1, <1>8 DEF RInv, IInv, LookupInv
    <3>2. 0 \notin OpenRows(h, f)
      BY <1>6 DEF OpenRows
    <3> QED
      BY <1>8, <3>1, <3>2
  <2>2. Opening(w, f) = t.payload.evidence[f]
    BY <1>8 DEF Opening
  <2>3. \A i \in DOMAIN old : i # k
    BY <1>6, <1>8
  <2>4. \A i \in DOMAIN old : Alike(new[i], old[i])
    BY <1>3, <1>5, <1>8, <2>3
  <2> QED
    BY <1>2, <1>7, <1>8, <2>1, <2>2, <2>4 DEF CommitOutcome
<1>9. CASE f \in Live(t.payload) /\ k # 0
  <2>1. StillNewest(h, f, k) /\ t.existing[f].count = old[k].count
    BY <1>1, <1>9 DEF RInv, ReadsHold
  <2>2. k \in DOMAIN old
    BY <2>1 DEF StillNewest
  <2>3. \A i \in DOMAIN old : i # k => Alike(new[i], old[i])
    BY <1>3, <1>5, <1>9
  <2>4. /\ new[k].status = old[k].status /\ new[k].updated = t.recordedAt
        /\ new[k].count = old[k].count + Len(Added(w, f))
    BY <1>3, <1>9, <2>1, <2>2
  <2>5. old[k].status # "open" <=> Overtaken(w, f)
    BY <1>7, <1>9 DEF Overtaken
  <2>6. old[k].status = "open" => Added(w, f) = t.payload.evidence[f] /\ Opening(w, f) = <<>>
    BY <1>9, <2>5 DEF Added, Opening
  <2>7. old[k].status # "open" =>
          Len(Added(w, f)) = 1 /\ Len(Opening(w, f)) = n - 1 /\ Opening(w, f) \in Seq(25 .. 100)
    BY <1>7, <2>5, SplitScores
  <2>8. old[k].status # "open" => (Opening(w, f) = <<>> <=> n = 1)
    <3>1. ASSUME old[k].status # "open"
          PROVE  Opening(w, f) # <<>> <=> Len(Opening(w, f)) > 0
      BY <2>7, <3>1, SomeScores
    <3>2. n \in Nat
      BY <1>7
    <3> HIDE DEF n, old, k
    <3> QED
      BY <2>7, <3>1, <3>2
  <2>9. old[k].status = "open" => Len(new) = Len(old) /\ new[k].count = old[k].count + n
    BY <1>2, <2>4, <2>6
  <2>10. old[k].status # "open" =>
           /\ new[k].count = old[k].count + 1
           /\ Len(new) = IF n = 1 THEN Len(old) ELSE Len(old) + 1
           /\ n # 1 => /\ new[Len(new)].status = "open" /\ new[Len(new)].count = n - 1
                       /\ new[Len(new)].updated = t.recordedAt
    BY <1>2, <2>4, <2>7, <2>8
  <2> QED
    BY <1>9, <2>1, <2>3, <2>4, <2>9, <2>10, Zenon DEF CommitOutcome
<1>10. CASE f \notin Live(t.payload)
  <2>1. \A i \in DOMAIN old : <<f, i>> \notin t.stale => Alike(new[i], old[i])
    BY <1>3, <1>10
  <2>2. ASSUME NEW i, <<f, i>> \in t.stale
        PROVE  /\ StillNewest(h, f, i) /\ now - evidenced[h][f] >= STALE
               /\ new[i].status = "resolved" /\ new[i].count = old[i].count
    <3>1. StillNewest(h, f, i) /\ now - evidenced[h][f] >= STALE
      BY <1>4, <2>2
    <3>2. i \in DOMAIN old
      BY <3>1 DEF StillNewest
    <3> QED
      BY <1>3, <1>10, <2>2, <3>1, <3>2
  <2>3. Opening(w, f) = <<>>
    BY <1>7, <1>10 DEF Opening, Overtaken
  <2>4. Len(new) = Len(old)
    BY <1>2, <2>3
  <2> QED
    BY <1>10, <2>1, <2>2, <2>4, Zenon DEF CommitOutcome
<1> QED
  BY <1>8, <1>9, <1>10

\* A commit keeps the invariant: the rows it leaves open are the newest and
\* as fresh as their evidence, and it writes to no other transaction's host.
LEMMA CommitReads ==
  ASSUME RInv, TypeOK', NEW w \in Workers, Commit(w)
  PROVE  FreshInv' /\ \A v \in Workers : ReadsHold(v)' /\ JudgementHolds(v)'
<1> DEFINE t == tx[w]
<1>1. /\ t \in Transaction /\ t.host \in Hosts /\ Holding(w) /\ TypeOK
      /\ t.recordedAt \in Times
  BY CommitTyped DEF RInv, Commit, Holding, Transaction
<1>2. /\ now' = now /\ tx' = [tx EXCEPT ![w] = Idle]
      /\ evidenced' = [evidenced EXCEPT ![t.host] =
           [f \in Fingerprints |-> IF f \in Live(t.payload) THEN t.recordedAt ELSE @[f]]]
      /\ overruled' = [overruled EXCEPT ![t.host] = {}]
  BY DEF Commit
<1>3. ASSUME NEW g \in Hosts, g # t.host
      PROVE  HostKept(g)
  <2>1. now <= now' /\ overruled'[g] = overruled[g] /\ evidenced'[g] = evidenced[g]
    BY <1>1, <1>2, <1>3 DEF TypeOK, Times
  <2>2. \A f \in Fingerprints :
          /\ Len(det'[g][f]) = Len(det[g][f])
          /\ \A i \in DOMAIN det[g][f] : Alike(det'[g][f][i], det[g][f][i])
    BY <1>1, <1>3, CommitRows
  <2> QED
    BY <2>1, <2>2 DEF HostKept, Alike
<1>4. ASSUME NEW v \in Workers
      PROVE  ReadsHold(v)' /\ JudgementHolds(v)'
  <2>1. CASE v = w
    <3>1. tx'[v] = Idle
      BY <1>1, <1>2, <2>1 DEF TypeOK
    <3> QED
      BY <3>1 DEF ReadsHold, JudgementHolds, Holding, Idle
  <2>2. CASE v # w
    <3>1. tx'[v] = tx[v]
      BY <1>1, <1>2, <2>2 DEF TypeOK
    <3>2. Holding(v) => tx[v].host \in Hosts /\ tx[v].host # t.host
      BY <1>1, <2>2 DEF RInv, IInv, LockInv, TypeOK, Holding, Idle, Transaction
    <3> QED
      BY <1>1, <1>3, <3>1, <3>2, WorkerKept DEF RInv
  <2> QED
    BY <2>1, <2>2
<1>5. ASSUME NEW g \in Hosts, NEW f \in Fingerprints
      PROVE  /\ evidenced'[g][f] <= now'
             /\ \A i \in OpenRows(g, f)' :
                  i = Len(det'[g][f]) /\ det'[g][f][i].updated = evidenced'[g][f]
  <2> DEFINE old == det[g][f]
             new == det'[g][f]
  <2>1. /\ old \in Seq(Row) /\ new \in Seq(Row)
        /\ DOMAIN old = 1 .. Len(old) /\ DOMAIN new = 1 .. Len(new) /\ Len(old) \in Nat
    BY <1>1 DEF TypeOK
  <2>2. /\ evidenced[g][f] <= now
        /\ \A i \in DOMAIN old : old[i].status = "open" =>
             i = Len(old) /\ old[i].updated = evidenced[g][f]
    BY DEF RInv, FreshInv, OpenRows
  <2>3. SUFFICES /\ evidenced'[g][f] <= now
                 /\ \A i \in DOMAIN new : new[i].status = "open" =>
                      i = Len(new) /\ new[i].updated = evidenced'[g][f]
    BY <1>2 DEF OpenRows
  <2>4. CASE g # t.host
    <3>1. Len(new) = Len(old) /\ \A i \in DOMAIN old : Alike(new[i], old[i])
      BY <1>1, <2>4, CommitRows
    <3>2. evidenced'[g][f] = evidenced[g][f]
      BY <1>1, <1>2, <2>4 DEF TypeOK
    <3> HIDE DEF old, new
    <3> QED
      BY <2>1, <2>2, <3>1, <3>2 DEF Alike
  <2>5. CASE g = t.host
    <3>1. evidenced'[g][f] = IF f \in Live(t.payload) THEN t.recordedAt ELSE evidenced[g][f]
      BY <1>1, <1>2, <2>5 DEF TypeOK
    <3>2. t.recordedAt <= now
      BY <1>1 DEF RInv, ReadsHold
    <3>3. CommitOutcome(w, g, f)
      BY <2>5, CommitCases
    <3>4. CASE f \in Live(t.payload) /\ t.existing[f].row = 0
      <4>1. /\ \A i \in DOMAIN old : old[i].status # "open"
            /\ Len(new) = Len(old) + 1
            /\ \A i \in DOMAIN old : Alike(new[i], old[i])
            /\ new[Len(new)].updated = t.recordedAt
        <5>1. /\ OpenRows(g, f) = {}
              /\ Len(new) = Len(old) + 1
              /\ \A i \in DOMAIN old : Alike(new[i], old[i])
              /\ new[Len(new)].updated = t.recordedAt
          BY <3>4, <3>3 DEF CommitOutcome
        <5>2. \A i \in DOMAIN old : old[i].status # "open"
          BY <5>1 DEF OpenRows
        <5> QED
          BY <5>1, <5>2
      <4>2. \A i \in DOMAIN new : i \in DOMAIN old \/ i = Len(new)
        BY <2>1, <4>1
      <4>3. evidenced'[g][f] = t.recordedAt
        BY <3>1, <3>4
      <4> HIDE DEF old, new, t
      <4>4. ASSUME NEW i \in DOMAIN new, new[i].status = "open"
            PROVE  i = Len(new) /\ new[i].updated = t.recordedAt
        BY <4>1, <4>2, <4>4 DEF Alike
      <4> QED
        BY <3>2, <4>3, <4>4
    <3>5. CASE f \in Live(t.payload) /\ t.existing[f].row # 0
      <4>1. /\ t.existing[f].row = Len(old) /\ Len(old) \in DOMAIN old
            /\ \A i \in DOMAIN old : i # Len(old) => Alike(new[i], old[i])
            /\ new[Len(old)].updated = t.recordedAt
            /\ new[Len(old)].status = old[Len(old)].status
            /\ \/ Len(new) = Len(old)
               \/ /\ Len(new) = Len(old) + 1 /\ old[Len(old)].status # "open"
                  /\ new[Len(new)].updated = t.recordedAt
        <5> DEFINE k == t.existing[f].row
        <5>1. /\ StillNewest(g, f, k)
              /\ \A i \in DOMAIN old : i # k => Alike(new[i], old[i])
              /\ new[k].updated = t.recordedAt /\ new[k].status = old[k].status
              /\ \/ Len(new) = Len(old)
                 \/ /\ Len(new) = Len(old) + 1 /\ old[k].status # "open"
                    /\ new[Len(new)].updated = t.recordedAt
          BY <3>5, <3>3 DEF CommitOutcome
        <5>2. k = Len(old) /\ k \in DOMAIN old
          BY <5>1 DEF StillNewest
        <5> HIDE DEF old, new, t
        <5> QED
          BY <5>1, <5>2
      <4>2. evidenced'[g][f] = t.recordedAt
        BY <3>1, <3>5
      <4>3. \A i \in DOMAIN new : i \in DOMAIN old \/ (Len(new) = Len(old) + 1 /\ i = Len(new))
        BY <2>1, <4>1
      <4> HIDE DEF old, new, t
      <4>4. ASSUME NEW i \in DOMAIN new, new[i].status = "open"
            PROVE  i = Len(new) /\ new[i].updated = t.recordedAt
        <5>1. CASE i \in DOMAIN old
          <6>1. old[i].status = "open"
            BY <4>1, <4>4, <5>1 DEF Alike
          <6>2. i = Len(old)
            BY <2>2, <5>1, <6>1
          <6> QED
            BY <4>1, <6>1, <6>2
        <5>2. CASE Len(new) = Len(old) + 1 /\ i = Len(new)
          BY <2>1, <4>1, <5>2
        <5> QED
          BY <4>3, <5>1, <5>2
      <4> QED
        BY <3>2, <4>2, <4>4
    <3>6. CASE f \notin Live(t.payload)
      <4>1. /\ Len(new) = Len(old)
            /\ \A i \in DOMAIN old : <<f, i>> \notin t.stale => Alike(new[i], old[i])
            /\ \A i \in DOMAIN old : <<f, i>> \in t.stale => new[i].status = "resolved"
        BY <3>6, <3>3 DEF CommitOutcome
      <4>2. evidenced'[g][f] = evidenced[g][f]
        BY <3>1, <3>6
      <4>3. DOMAIN new = DOMAIN old
        BY <2>1, <4>1
      <4> HIDE DEF old, new, t
      <4>4. ASSUME NEW i \in DOMAIN new, new[i].status = "open"
            PROVE  i = Len(new) /\ new[i].updated = evidenced[g][f]
        <5>1. <<f, i>> \notin t.stale
          BY <4>1, <4>3, <4>4
        <5> QED
          BY <2>2, <4>1, <4>3, <4>4, <5>1 DEF Alike
      <4> QED
        BY <2>2, <4>2, <4>4
    <3> QED
      BY <3>4, <3>5, <3>6
  <2> QED
    BY <2>4, <2>5
<1>6. FreshInv'
  BY <1>5 DEF FreshInv, OpenRows
<1> QED
  BY <1>4, <1>6

\* A verdict changes one status, and the note says whose.
LEMMA PatchReads ==
  ASSUME RInv, TypeOK', NEW h \in Hosts, NEW f \in Fingerprints, NEW i \in DOMAIN det[h][f],
         NEW verdict \in Verdicts, PatchAlert(h, f, i, verdict)
  PROVE  FreshInv' /\ \A w \in Workers : ReadsHold(w)' /\ JudgementHolds(w)'
<1>1. TypeOK /\ FreshInv
  BY DEF RInv
<1>2. now' = now /\ tx' = tx /\ evidenced' = evidenced
  BY DEF PatchAlert
<1>3. PICK status \in {det[h][f][i].status, "suppressed", "resolved"} :
        /\ \A g \in Hosts, e \in Fingerprints :
             /\ Len(det'[g][e]) = Len(det[g][e])
             /\ \A j \in DOMAIN det[g][e] :
                  /\ det'[g][e][j].status = IF g = h /\ e = f /\ j = i THEN status
                                             ELSE det[g][e][j].status
                  /\ det'[g][e][j].count = det[g][e][j].count
                  /\ det'[g][e][j].updated = det[g][e][j].updated
        /\ overruled' = IF status = det[h][f][i].status THEN overruled
                        ELSE [overruled EXCEPT ![h] = @ \cup {f}]
  BY <1>1, PatchRows
<1>4. \A g \in Hosts : overruled[g] \subseteq overruled'[g]
  BY <1>1, <1>3 DEF TypeOK
<1>5. status # det[h][f][i].status => f \in overruled'[h] /\ status # "open"
  BY <1>1, <1>3 DEF TypeOK
<1>6. ASSUME NEW g \in Hosts, NEW e \in Fingerprints, NEW j \in DOMAIN det[g][e]
      PROVE  \/ det'[g][e][j].status = det[g][e][j].status
             \/ det'[g][e][j].status # "open" /\ e \in overruled'[g]
  <2>1. det'[g][e][j].status = IF g = h /\ e = f /\ j = i THEN status
                               ELSE det[g][e][j].status
    BY <1>3
  <2> QED
    BY <1>5, <2>1
<1>7. ASSUME NEW g \in Hosts PROVE HostKept(g)
  <2>1. now <= now'
    BY <1>1, <1>2 DEF TypeOK, Times
  <2> QED
    BY <1>2, <1>3, <1>4, <1>6, <2>1 DEF HostKept
<1>8. ASSUME NEW w \in Workers
      PROVE  ReadsHold(w)' /\ JudgementHolds(w)'
  <2>1. Holding(w) => tx[w].host \in Hosts
    BY <1>1 DEF TypeOK, Holding, Idle, Transaction
  <2> QED
    BY <1>1, <1>2, <1>7, <2>1, WorkerKept DEF RInv
<1>9. ASSUME NEW g \in Hosts, NEW e \in Fingerprints
      PROVE  /\ evidenced'[g][e] <= now'
             /\ \A j \in OpenRows(g, e)' :
                  j = Len(det'[g][e]) /\ det'[g][e][j].updated = evidenced'[g][e]
  <2>1. /\ Len(det'[g][e]) = Len(det[g][e])
        /\ DOMAIN det'[g][e] = DOMAIN det[g][e]
    BY <1>1, <1>3 DEF TypeOK
  <2>2. OpenRows(g, e)' \subseteq OpenRows(g, e)
    BY <1>6, <2>1 DEF OpenRows
  <2>3. \A j \in DOMAIN det[g][e] : det'[g][e][j].updated = det[g][e][j].updated
    BY <1>3
  <2> QED
    BY <1>1, <1>2, <2>1, <2>2, <2>3 DEF FreshInv, OpenRows
<1> QED
  BY <1>8, <1>9 DEF FreshInv

LEMMA StepKeepsSent ==
  ASSUME TypeOK, SentInv, [Next]_vars
  PROVE  SentInv'
<1>1. ASSUME NEW w \in Workers, NEW h \in Hosts, NEW payload \in Payloads,
             SelectHost(w, h, payload)
      PROVE  SentInv'
  <2>1. \A v \in Workers : tx'[v] = tx[v] \/ tx'[v].payload = payload
    BY <1>1 DEF SelectHost, TypeOK
  <2> QED
    BY <1>1, <2>1 DEF SentInv
<1>2. ASSUME NEW w \in Workers, StoreAndRecord(w) \/ FindStale(w)
             \/ ResolveStale(w) \/ RefreshAndPrune(w)
      PROVE  SentInv'
  <2>1. tx[w] \in Transaction
    BY <1>2, RecordTyped, StaleTyped, ResolveTyped, RefreshTyped
  <2>2. tx[w] # Idle
    BY <2>1 DEF Transaction, Idle
  <2>3. \A v \in Workers \ {w} : tx'[v] = tx[v]
    BY <1>2 DEF StoreAndRecord, FindStale, ResolveStale, RefreshAndPrune, TypeOK
  <2>4. tx'[w].payload = tx[w].payload
    <3>1. CASE StoreAndRecord(w)
      BY <2>1, <3>1 DEF StoreAndRecord, TypeOK, Transaction
    <3>2. CASE FindStale(w)
      BY <2>1, <3>2 DEF FindStale, TypeOK, Transaction
    <3>3. CASE ResolveStale(w)
      BY <2>1, <3>3 DEF ResolveStale, TypeOK, Transaction
    <3>4. CASE RefreshAndPrune(w)
      BY <2>1, <3>4 DEF RefreshAndPrune, TypeOK, Transaction
    <3> QED
      BY <1>2, <3>1, <3>2, <3>3, <3>4
  <2> QED
    BY <2>2, <2>3, <2>4 DEF SentInv
<1>3. ASSUME NEW w \in Workers, DuplicateHost(w) \/ Fail(w) \/ Commit(w)
      PROVE  SentInv'
  <2>1. \A v \in Workers : tx'[v] = tx[v] \/ tx'[v] = Idle
    BY <1>3 DEF DuplicateHost, Fail, Commit, TypeOK
  <2> QED
    BY <2>1 DEF SentInv
<1>4. CASE Restart
  BY <1>4 DEF Restart, SentInv
<1>5. CASE tx' = tx
  BY <1>5 DEF SentInv
<1>6. CASE Tick \/ Analyst \/ UNCHANGED vars
  <2>1. CASE Analyst
    <3>1. PICK h \in Hosts, f \in Fingerprints, verdict \in Verdicts :
            \E i \in DOMAIN det[h][f] : PatchAlert(h, f, i, verdict)
      BY <2>1 DEF Analyst
    <3> QED
      BY <1>5, <3>1 DEF PatchAlert
  <2>2. CASE Tick \/ UNCHANGED vars
    BY <1>5, <2>2 DEF Tick, vars
  <2> QED
    BY <1>6, <2>1, <2>2
<1> QED
  BY <1>1, <1>2, <1>3, <1>4, <1>6 DEF Next, WorkerStep, Report

\* Every step keeps the invariant of the mapping.
LEMMA StepKeepsRInv ==
  ASSUME RInv, [Next]_vars, TypeOK'
  PROVE  RInv'
<1>1. TypeOK /\ IInv /\ FreshInv /\ IInv' /\ SentInv'
  BY StepKeepsIInv, StepKeepsSent DEF RInv
<1>2. SUFFICES FreshInv' /\ \A w \in Workers : ReadsHold(w)' /\ JudgementHolds(w)'
  BY <1>1 DEF RInv
<1>3. CASE UNCHANGED vars
  <2>1. \A g \in Hosts : HostKept(g)
    BY <1>1, <1>3 DEF HostKept, vars, database, history, TypeOK, Times
  <2>2. FreshInv'
    BY <1>1, <1>3 DEF FreshInv, OpenRows, vars, database, history
  <2>3. \A w \in Workers : Holding(w) => tx[w].host \in Hosts
    BY <1>1 DEF TypeOK, Holding, Idle, Transaction
  <2>4. tx' = tx
    BY <1>3 DEF vars
  <2> QED
    BY <1>1, <2>1, <2>2, <2>3, <2>4, WorkerKept DEF RInv
<1>4. ASSUME NEW w \in Workers, NEW h \in Hosts, NEW payload \in Payloads,
             SelectHost(w, h, payload)
      PROVE  FreshInv' /\ \A v \in Workers : ReadsHold(v)' /\ JudgementHolds(v)'
  <2>1. /\ now' = now /\ det' = det /\ evidenced' = evidenced /\ overruled' = overruled
        /\ \A v \in Workers \ {w} : tx'[v] = tx[v]
        /\ tx'[w].pc = "selected"
    BY <1>1, <1>4 DEF SelectHost, database, history, TypeOK
  <2>2. ReadsHold(w)' /\ JudgementHolds(w)'
    BY <2>1 DEF ReadsHold, JudgementHolds, Holding
  <2>3. FreshInv' /\ \A v \in Workers \ {w} : ReadsHold(v)' /\ JudgementHolds(v)'
    BY <1>1, <2>1, OthersKept
  <2> QED
    BY <2>2, <2>3
<1>5. ASSUME NEW w \in Workers,
             StoreAndRecord(w) \/ FindStale(w) \/ ResolveStale(w) \/ RefreshAndPrune(w)
      PROVE  FreshInv' /\ \A v \in Workers : ReadsHold(v)' /\ JudgementHolds(v)'
  <2>1. /\ now' = now /\ det' = det /\ evidenced' = evidenced /\ overruled' = overruled
        /\ \A v \in Workers \ {w} : tx'[v] = tx[v]
    BY <1>1, <1>5 DEF StoreAndRecord, FindStale, ResolveStale, RefreshAndPrune,
                      database, history, TypeOK
  <2>2. ReadsHold(w)' /\ JudgementHolds(w)'
    BY <1>5, RecordReads, StaleReads, ResolveReads, RefreshReads
  <2>3. FreshInv' /\ \A v \in Workers \ {w} : ReadsHold(v)' /\ JudgementHolds(v)'
    BY <1>1, <2>1, OthersKept
  <2> QED
    BY <2>2, <2>3
<1>6. ASSUME NEW w \in Workers, DuplicateHost(w) \/ Fail(w)
      PROVE  FreshInv' /\ \A v \in Workers : ReadsHold(v)' /\ JudgementHolds(v)'
  <2>1. /\ now' = now /\ det' = det /\ evidenced' = evidenced /\ overruled' = overruled
        /\ \A v \in Workers \ {w} : tx'[v] = tx[v]
        /\ tx'[w] = Idle
    BY <1>1, <1>6 DEF DuplicateHost, Fail, database, history, TypeOK
  <2>2. ReadsHold(w)' /\ JudgementHolds(w)'
    BY <2>1 DEF ReadsHold, JudgementHolds, Holding, Idle
  <2>3. FreshInv' /\ \A v \in Workers \ {w} : ReadsHold(v)' /\ JudgementHolds(v)'
    BY <1>1, <2>1, OthersKept
  <2> QED
    BY <2>2, <2>3
<1>7. ASSUME NEW w \in Workers, Commit(w)
      PROVE  FreshInv' /\ \A v \in Workers : ReadsHold(v)' /\ JudgementHolds(v)'
  BY <1>7, CommitReads
<1>8. CASE Restart
  <2>1. FreshInv'
    BY <1>1, <1>8 DEF Restart, FreshInv, OpenRows, database, history
  <2>2. \A v \in Workers : tx'[v] = Idle
    BY <1>8 DEF Restart
  <2> QED
    BY <2>1, <2>2 DEF ReadsHold, JudgementHolds, Holding, Idle
<1>9. CASE Tick
  <2>1. now' = now + 1 /\ now \in Int
    BY <1>1, <1>9 DEF Tick, TypeOK, Times
  <2>2. \A g \in Hosts : HostKept(g)
    BY <1>9, <2>1 DEF Tick, HostKept, database, history
  <2>3. \A g \in Hosts, f \in Fingerprints : evidenced[g][f] \in Int
    BY <1>1 DEF TypeOK, Times, NoTime
  <2>4. FreshInv'
    BY <1>1, <1>9, <2>1, <2>3 DEF Tick, FreshInv, OpenRows, database, history
  <2>5. \A w \in Workers : Holding(w) => tx[w].host \in Hosts
    BY <1>1 DEF TypeOK, Holding, Idle, Transaction
  <2>6. tx' = tx
    BY <1>9 DEF Tick
  <2> QED
    BY <1>1, <2>2, <2>4, <2>5, <2>6, WorkerKept DEF RInv
<1>10. CASE Analyst
  <2>1. PICK h \in Hosts, f \in Fingerprints, verdict \in Verdicts : \E i \in DOMAIN det[h][f] :
          PatchAlert(h, f, i, verdict)
    BY <1>10 DEF Analyst
  <2>2. PICK i \in DOMAIN det[h][f] : PatchAlert(h, f, i, verdict)
    BY <2>1
  <2> QED
    BY <2>2, PatchReads
<1> QED
  BY <1>3, <1>4, <1>5, <1>6, <1>7, <1>8, <1>9, <1>10 DEF Next, WorkerStep, Report

-----------------------------------------------------------------------------
(* The steps of the queue.                                                 *)

Shown == [status : DetectionStatuses, count : Nat]

LEMMA FindingsSeq ==
  ASSUME NEW rows \in Seq(Row)
  PROVE  /\ Findings(rows) \in Seq(Shown)
         /\ Len(Findings(rows)) = Len(rows) /\ DOMAIN Findings(rows) = DOMAIN rows
         /\ \A i \in DOMAIN rows :
              Findings(rows)[i] = [status |-> rows[i].status, count |-> rows[i].count]
<1>1. \A i \in DOMAIN rows :
        Findings(rows)[i] = [status |-> rows[i].status, count |-> rows[i].count]
  BY DEF Findings
<1>2. ASSUME NEW i \in DOMAIN rows PROVE Findings(rows)[i] \in Shown
  <2>1. rows[i] \in Row
    OBVIOUS
  <2>2. rows[i].status \in DetectionStatuses /\ rows[i].count \in Nat
    BY <2>1 DEF Row
  <2>3. [status |-> rows[i].status, count |-> rows[i].count] \in Shown
    BY <2>2 DEF Shown
  <2> QED
    BY <1>1, <2>3
<1>3. Findings(rows) = [i \in DOMAIN rows |-> Findings(rows)[i]]
  BY DEF Findings
<1> HIDE DEF Findings
<1> QED
  BY <1>1, <1>2, <1>3, RebuiltSeq

\* Rows with the same statuses and counts show the same findings.
LEMMA SameFindings ==
  ASSUME NEW old \in Seq(Row), NEW new \in Seq(Row), Len(new) = Len(old),
         \A i \in DOMAIN old : new[i].status = old[i].status /\ new[i].count = old[i].count
  PROVE  Findings(new) = Findings(old)
<1>1. DOMAIN new = DOMAIN old
  OBVIOUS
<1> QED
  BY <1>1 DEF Findings

\* A row that is added shows as one more finding.
LEMMA GrownFindings ==
  ASSUME NEW old \in Seq(Row), NEW new \in Seq(Row), Len(new) = Len(old) + 1,
         \A i \in DOMAIN old : new[i].status = old[i].status /\ new[i].count = old[i].count
  PROVE  Findings(new) =
           Append(Findings(old), [status |-> new[Len(new)].status, count |-> new[Len(new)].count])
<1> DEFINE added == [status |-> new[Len(new)].status, count |-> new[Len(new)].count]
           grown == Append(Findings(old), added)
<1>1. /\ Findings(old) \in Seq(Shown) /\ Findings(new) \in Seq(Shown)
      /\ Len(Findings(old)) = Len(old) /\ Len(Findings(new)) = Len(new)
      /\ DOMAIN old = 1 .. Len(old) /\ DOMAIN new = 1 .. Len(new) /\ Len(old) \in Nat
  BY FindingsSeq
<1>2. added \in Shown
  <2>1. new[Len(new)] \in Row
    BY <1>1
  <2> QED
    BY <2>1 DEF Row, Shown
<1>3. /\ grown \in Seq(Shown) /\ Len(grown) = Len(old) + 1
      /\ \A i \in 1 .. Len(old) : grown[i] = Findings(old)[i]
      /\ grown[Len(old) + 1] = added
  <2> HIDE DEF added
  <2> QED
    BY <1>1, <1>2, AppendProperties
<1>4. \A i \in 1 .. Len(old) : Findings(new)[i] = Findings(old)[i]
  <2>1. \A i \in 1 .. Len(old) : i \in DOMAIN new /\ i \in DOMAIN old
    BY <1>1
  <2> QED
    BY <2>1 DEF Findings
<1>5. Findings(new)[Len(old) + 1] = added
  BY <1>1 DEF Findings
<1> HIDE DEF grown, added
<1>6. ASSUME NEW i \in 1 .. Len(grown)
      PROVE  grown[i] = Findings(new)[i]
  <2>1. i \in 1 .. Len(old) \/ i = Len(old) + 1
    BY <1>1, <1>3
  <2> QED
    BY <1>3, <1>4, <1>5, <2>1
<1> QED
  BY <1>1, <1>3, <1>6, SeqEqual DEF grown, added

\* The queue shows whether the newest row is open.
LEMMA NewestShown ==
  ASSUME NEW rows \in Seq(Row)
  PROVE  /\ Findings(rows) # <<>> <=> rows # <<>>
         /\ AQ!NewestIsOpen(Findings(rows)) <=>
              rows # <<>> /\ rows[Len(rows)].status = "open"
<1>1. /\ Len(Findings(rows)) = Len(rows) /\ Findings(rows) \in Seq(Shown)
      /\ \A i \in DOMAIN rows : Findings(rows)[i].status = rows[i].status
      /\ DOMAIN rows = 1 .. Len(rows) /\ Len(rows) \in Nat
  <2>1. /\ Len(Findings(rows)) = Len(rows) /\ Findings(rows) \in Seq(Shown)
        /\ \A i \in DOMAIN rows :
             Findings(rows)[i] = [status |-> rows[i].status, count |-> rows[i].count]
    BY FindingsSeq
  <2>2. ASSUME NEW i \in DOMAIN rows PROVE Findings(rows)[i].status = rows[i].status
    BY DEF Findings
  <2>3. DOMAIN rows = 1 .. Len(rows) /\ Len(rows) \in Nat
    OBVIOUS
  <2> QED
    BY <2>1, <2>2, <2>3, Zenon
<1>2. Findings(rows) # <<>> <=> rows # <<>>
  <2> HIDE DEF Findings
  <2> QED
    BY <1>1
<1>3. rows # <<>> => Findings(rows)[Len(rows)].status = rows[Len(rows)].status
  <2>1. rows # <<>> => Len(rows) \in DOMAIN rows
    BY <1>1
  <2> QED
    BY <1>1, <2>1
<1> QED
  BY <1>1, <1>2, <1>3 DEF AQ!NewestIsOpen

\* Opening a row, adding to the newest row and resolving it, as the queue
\* shows them.
LEMMA OpenedShows ==
  ASSUME NEW old \in Seq(Row), NEW new \in Seq(Row), NEW n, Len(new) = Len(old) + 1,
         \A i \in DOMAIN old : Alike(new[i], old[i]),
         new[Len(new)].status = "open" /\ new[Len(new)].count = n,
         \A i \in DOMAIN old : old[i].status # "open"
  PROVE  Findings(new) = AQ!Observed(Findings(old), n, FALSE)
<1>1. ~AQ!NewestIsOpen(Findings(old))
  <2>1. old # <<>> => Len(old) \in DOMAIN old
    OBVIOUS
  <2>2. old # <<>> => old[Len(old)].status # "open"
    BY <2>1
  <2> QED
    BY <2>2, NewestShown
<1>2. Findings(new) = Append(Findings(old), [status |-> "open", count |-> n])
  <2>1. \A i \in DOMAIN old : new[i].status = old[i].status /\ new[i].count = old[i].count
    BY DEF Alike
  <2> QED
    BY <2>1, GrownFindings
<1> QED
  BY <1>1, <1>2 DEF AQ!Observed, AQ!NewFinding

LEMMA NewestShows ==
  ASSUME NEW old \in Seq(Row), NEW new \in Seq(Row), NEW k \in DOMAIN old, k = Len(old),
         Len(new) = Len(old), \A i \in DOMAIN old : i # k => Alike(new[i], old[i]),
         NEW over \in BOOLEAN, old[k].status = "open" \/ over
  PROVE  /\ \A n : new[k].status = old[k].status /\ new[k].count = old[k].count + n
                  /\ (old[k].status = "open" \/ n = 1) =>
                    Findings(new) = AQ!Observed(Findings(old), n, over)
         /\ new[k].status = "resolved" /\ new[k].count = old[k].count =>
                    Findings(new) = AQ!Quieted(Findings(old), over)
<1>1. Findings(old) # <<>> /\ (AQ!NewestIsOpen(Findings(old)) <=> old[k].status = "open")
  BY NewestShown
<1>2. Findings(new) =
        [Findings(old) EXCEPT ![k] = [status |-> new[k].status, count |-> new[k].count]]
  <2>1. \A i \in DOMAIN old : i # k =>
          new[i].status = old[i].status /\ new[i].count = old[i].count
    BY DEF Alike
  <2>2. DOMAIN new = DOMAIN old
    OBVIOUS
  <2> QED
    BY <2>1, <2>2 DEF Findings
<1>3. /\ Len(Findings(old)) = k
      /\ Findings(old)[k] = [status |-> old[k].status, count |-> old[k].count]
  BY FindingsSeq
<1>4. ASSUME NEW n, new[k].status = old[k].status, new[k].count = old[k].count + n
      PROVE  Findings(new) = [Findings(old) EXCEPT ![k].count = @ + n]
  <2>1. [Findings(old)[k] EXCEPT !.count = @ + n] =
          [status |-> new[k].status, count |-> new[k].count]
    BY <1>3, <1>4
  <2> QED
    BY <1>2, <2>1
<1>5. ASSUME new[k].status = "resolved", new[k].count = old[k].count
      PROVE  Findings(new) = [Findings(old) EXCEPT ![k].status = "resolved"]
  <2>1. [Findings(old)[k] EXCEPT !.status = "resolved"] =
          [status |-> new[k].status, count |-> new[k].count]
    BY <1>3, <1>5
  <2> QED
    BY <1>2, <2>1
<1> QED
  BY <1>1, <1>3, <1>4, <1>5 DEF AQ!Observed, AQ!Quieted

\* A row that was settled under the hands of a report gets its first finding,
\* and a new row the others.
LEMMA SplitShows ==
  ASSUME NEW old \in Seq(Row), NEW new \in Seq(Row), NEW k \in DOMAIN old, k = Len(old),
         Len(new) = Len(old) + 1, \A i \in DOMAIN old : i # k => Alike(new[i], old[i]),
         old[k].status # "open", new[k].status = old[k].status,
         new[k].count = old[k].count + 1,
         NEW n, n # 1, new[Len(new)].status = "open", new[Len(new)].count = n - 1
  PROVE  Findings(new) = AQ!Observed(Findings(old), n, TRUE)
<1> DEFINE first == [Findings(old) EXCEPT ![k].count = @ + 1]
           added == [status |-> "open", count |-> n - 1]
<1>1. /\ Findings(old) # <<>> /\ ~AQ!NewestIsOpen(Findings(old))
      /\ Len(Findings(old)) = k /\ DOMAIN Findings(old) = DOMAIN old
      /\ Findings(old)[k] = [status |-> old[k].status, count |-> old[k].count]
      /\ Findings(old) \in Seq(Shown)
  BY NewestShown, FindingsSeq
<1>2. /\ DOMAIN old = 1 .. k /\ DOMAIN new = 1 .. k + 1 /\ k \in Nat \ {0}
      /\ Len(new) = k + 1
  OBVIOUS
<1>3. [Findings(old)[k] EXCEPT !.count = @ + 1] =
        [status |-> new[k].status, count |-> new[k].count]
  BY <1>1
<1>4. /\ new[k] \in Row /\ new[k + 1] \in Row
      /\ [status |-> new[k].status, count |-> new[k].count] \in Shown
  <2>1. new[k] \in Row /\ new[k + 1] \in Row
    BY <1>2
  <2> QED
    BY <2>1 DEF Row, Shown
<1>5. added \in Shown
  <2>1. added = [status |-> new[k + 1].status, count |-> new[k + 1].count]
    BY <1>2
  <2> QED
    BY <1>4, <2>1 DEF Row, Shown
<1>6. /\ first \in Seq(Shown) /\ Len(first) = k
      /\ \A i \in 1 .. k : first[i] = IF i = k THEN [status |-> new[k].status, count |-> new[k].count]
                                       ELSE Findings(old)[i]
  <2>1. first = [Findings(old) EXCEPT ![k] = [status |-> new[k].status, count |-> new[k].count]]
    BY <1>3
  <2> HIDE DEF first, Findings
  <2> QED
    BY <1>1, <1>2, <1>4, <2>1, ExceptSeq
<1>7. /\ Append(first, added) \in Seq(Shown) /\ Len(Append(first, added)) = k + 1
      /\ \A i \in 1 .. k : Append(first, added)[i] = first[i]
      /\ Append(first, added)[k + 1] = added
  <2> HIDE DEF first, added
  <2> QED
    BY <1>2, <1>5, <1>6, AppendProperties
<1>8. /\ Findings(new) \in Seq(Shown) /\ Len(Findings(new)) = k + 1
      /\ \A i \in 1 .. k + 1 :
           Findings(new)[i] = [status |-> new[i].status, count |-> new[i].count]
  BY <1>2, FindingsSeq
<1>9. ASSUME NEW i \in 1 .. k + 1
      PROVE  Findings(new)[i] = Append(first, added)[i]
  <2>1. CASE i = k + 1
    BY <1>2, <1>7, <1>8, <2>1
  <2>2. CASE i = k
    BY <1>2, <1>6, <1>7, <1>8, <2>2
  <2>3. CASE i \in 1 .. k /\ i # k
    <3>1. Findings(old)[i] = [status |-> old[i].status, count |-> old[i].count]
      BY <1>2, <2>3, FindingsSeq
    <3>2. new[i].status = old[i].status /\ new[i].count = old[i].count
      BY <1>2, <2>3 DEF Alike
    <3>3. Append(first, added)[i] = Findings(old)[i]
      <4> HIDE DEF first, added, Findings
      <4> QED
        BY <1>6, <1>7, <2>3
    <3>4. Findings(new)[i] = [status |-> new[i].status, count |-> new[i].count]
      BY <1>8
    <3> HIDE DEF first, added, Findings
    <3> QED
      BY <3>1, <3>2, <3>3, <3>4
  <2>4. i = k + 1 \/ i = k \/ (i \in 1 .. k /\ i # k)
    BY <1>2
  <2> QED
    BY <2>1, <2>2, <2>3, <2>4, Zenon
<1>10. Findings(new) = Append(first, added)
  <2> HIDE DEF first, added, Findings
  <2> QED
    BY <1>2, <1>7, <1>8, <1>9, SeqEqual
<1>11. AQ!Observed(Findings(old), n, TRUE) = Append(first, added)
  <2> HIDE DEF Findings
  <2> QED
    BY <1>1 DEF AQ!Observed, AQ!NewFinding
<1> QED
  BY <1>10, <1>11

\* The fingerprints a commit quiets, and those settled under its hands.
Quiet(w) == {f \in Fingerprints : \E i : <<f, i>> \in tx[w].stale}
Settled(w) == {f \in overruled[tx[w].host] :
                 f \in Live(tx[w].payload) => tx[w].existing[f].row # 0}

\* A commit does to the findings of a fingerprint what the queue says.
LEMMA CommitFindings ==
  ASSUME RInv, TypeOK', NEW w \in Workers, Commit(w), NEW h, h = tx[w].host,
         NEW f \in Fingerprints
  PROVE  LET old == Findings(det[h][f])
             new == Findings(det'[h][f])
             n == Observations(tx[w].payload)[f]
             over == f \in Settled(w)
         IN  new = IF n > 0 THEN AQ!Observed(old, n, over)
                   ELSE IF f \in Quiet(w) THEN AQ!Quieted(old, over) ELSE old
<1> DEFINE t == tx[w]
           old == det[h][f]
           new == det'[h][f]
           n == Len(t.payload.evidence[f])
           k == t.existing[f].row
           over == f \in Settled(w)
<1>1. /\ t \in Transaction /\ h \in Hosts /\ TypeOK
  BY CommitTyped DEF RInv
<1>2. old \in Seq(Row) /\ new \in Seq(Row)
  BY <1>1 DEF TypeOK
<1>3. Observations(t.payload)[f] = n /\ (n > 0 <=> f \in Live(t.payload))
  <2>1. t.payload.evidence[f] \in Seq(25 .. 100)
    BY <1>1 DEF Transaction, AllPayloads
  <2>2. n > 0 <=> t.payload.evidence[f] # <<>>
    BY <2>1, SomeScores
  <2> QED
    BY <2>2 DEF Observations, Live
<1>4. CommitOutcome(w, h, f)
  BY CommitCases
<1>5. over \in BOOLEAN /\ (over <=> f \in overruled[h] /\ (f \in Live(t.payload) => k # 0))
  BY DEF Settled
<1> SUFFICES Findings(new) =
               IF n > 0 THEN AQ!Observed(Findings(old), n, over)
               ELSE IF f \in Quiet(w) THEN AQ!Quieted(Findings(old), over)
               ELSE Findings(old)
  BY <1>3
<1>6. CASE f \in Live(t.payload) /\ k = 0
  <2>1. /\ OpenRows(h, f) = {} /\ Len(new) = Len(old) + 1
        /\ \A i \in DOMAIN old : Alike(new[i], old[i])
        /\ new[Len(new)].status = "open" /\ new[Len(new)].count = n
    BY <1>4, <1>6 DEF CommitOutcome
  <2>2. \A i \in DOMAIN old : old[i].status # "open"
    BY <2>1 DEF OpenRows
  <2>3. over = FALSE
    BY <1>5, <1>6
  <2> HIDE DEF old, new, n, over
  <2> QED
    BY <1>2, <1>3, <1>6, <2>1, <2>2, <2>3, OpenedShows
<1>7. CASE f \in Live(t.payload) /\ k # 0
  <2>1. /\ StillNewest(h, f, k)
        /\ \A i \in DOMAIN old : i # k => Alike(new[i], old[i])
        /\ new[k].status = old[k].status
        /\ old[k].status = "open" =>
             Len(new) = Len(old) /\ new[k].count = old[k].count + n
        /\ old[k].status # "open" =>
             /\ new[k].count = old[k].count + 1
             /\ Len(new) = IF n = 1 THEN Len(old) ELSE Len(old) + 1
             /\ n # 1 => new[Len(new)].status = "open" /\ new[Len(new)].count = n - 1
    BY <1>4, <1>7 DEF CommitOutcome
  <2>2. /\ k = Len(old) /\ k \in DOMAIN old
        /\ old[k].status = "open" \/ f \in overruled[h]
    BY <2>1 DEF StillNewest
  <2>3. old[k].status = "open" \/ over = TRUE
    BY <1>5, <1>7, <2>2
  <2>4. CASE old[k].status = "open"
    <3> HIDE DEF old, new, n, over, k
    <3> QED
      BY <1>2, <1>3, <1>5, <1>7, <2>1, <2>2, <2>4, NewestShows
  <2>5. CASE old[k].status # "open" /\ n = 1
    <3>1. new[k].status = old[k].status /\ new[k].count = old[k].count + n
      BY <2>1, <2>5
    <3> HIDE DEF old, new, n, over, k
    <3>2. Len(new) = Len(old)
      BY <2>1, <2>5
    <3>3. Findings(new) = AQ!Observed(Findings(old), n, over)
      BY <1>2, <1>5, <2>1, <2>2, <2>3, <2>5, <3>1, <3>2, NewestShows
    <3> QED
      BY <1>3, <1>7, <3>3
  <2>6. CASE old[k].status # "open" /\ n # 1
    <3> HIDE DEF old, new, n, over, k
    <3> QED
      BY <1>2, <1>3, <1>7, <2>1, <2>2, <2>3, <2>6, SplitShows
  <2> QED
    BY <2>4, <2>5, <2>6
<1>8. CASE f \notin Live(t.payload) /\ f \in Quiet(w)
  <2>1. PICK i : <<f, i>> \in t.stale
    BY <1>8 DEF Quiet
  <2>2. /\ Len(new) = Len(old)
        /\ \A j \in DOMAIN old : <<f, j>> \notin t.stale => Alike(new[j], old[j])
        /\ \A j : <<f, j>> \in t.stale =>
             /\ StillNewest(h, f, j)
             /\ new[j].status = "resolved" /\ new[j].count = old[j].count
    BY <1>4, <1>8 DEF CommitOutcome
  <2>3. \A j : <<f, j>> \in t.stale => j = Len(old)
    BY <2>2 DEF StillNewest
  <2>4. /\ i = Len(old) /\ i \in DOMAIN old
        /\ old[i].status = "open" \/ f \in overruled[h]
    BY <2>1, <2>2 DEF StillNewest
  <2>5. old[i].status = "open" \/ over
    BY <1>5, <1>8, <2>4
  <2>6. new[i].status = "resolved" /\ new[i].count = old[i].count
    BY <2>1, <2>2
  <2>7. \A j \in DOMAIN old : j # i => Alike(new[j], old[j])
    BY <2>2, <2>3, <2>4
  <2> HIDE DEF old, new, n, over
  <2> QED
    BY <1>2, <1>3, <1>5, <1>8, <2>2, <2>4, <2>5, <2>6, <2>7, NewestShows
<1>9. CASE f \notin Live(t.payload) /\ f \notin Quiet(w)
  <2>1. Len(new) = Len(old) /\ \A j \in DOMAIN old : Alike(new[j], old[j])
    BY <1>4, <1>9 DEF CommitOutcome, Quiet
  <2>2. Findings(new) = Findings(old)
    BY <1>2, <2>1, SameFindings DEF Alike
  <2> HIDE DEF old, new, n, over
  <2> QED
    BY <1>3, <1>9, <2>2
<1> QED
  BY <1>6, <1>7, <1>8, <1>9

\* A commit is a report of the queue, made when its rows were looked up.
LEMMA CommitReports ==
  ASSUME RInv, TypeOK', NEW w \in Workers, Commit(w), NEW h, h = tx[w].host
  PROVE  AQ!Report(h)
<1> DEFINE t == tx[w]
           report == Observations(t.payload)
           queue == [g \in Hosts |-> [f \in Fingerprints |-> Findings(det[g][f])]]
<1>1. /\ t \in Transaction /\ h = t.host /\ h \in Hosts /\ TypeOK /\ Holding(w)
      /\ t.pc = "flushed" /\ t.payload \in Payloads /\ t.recordedAt \in Times
  <2>1. TypeOK /\ SentInv
    BY DEF RInv
  <2>2. t \in Transaction /\ t.host \in Hosts
    BY <2>1, CommitTyped
  <2>3. t.pc = "flushed"
    BY DEF Commit
  <2>4. t.payload \in Payloads
    BY <2>1, <2>3 DEF SentInv, Idle
  <2> QED
    BY <2>1, <2>2, <2>3, <2>4 DEF Holding, Transaction
<1>2. /\ now' = now /\ overruled' = [overruled EXCEPT ![h] = {}]
      /\ evidenced' = [evidenced EXCEPT ![h] =
           [f \in Fingerprints |-> IF f \in Live(t.payload) THEN t.recordedAt ELSE @[f]]]
  BY DEF Commit
<1>3. report \in {Observations(payload) : payload \in Payloads}
  BY <1>1
<1>4. t.recordedAt \in 0 .. now /\ \A f \in Fingerprints : evidenced[h][f] <= t.recordedAt
  BY <1>1 DEF RInv, ReadsHold, Times, TypeOK
<1>5. \A f \in Fingerprints : report[f] > 0 <=> f \in Live(t.payload)
  <2>1. SUFFICES ASSUME NEW f \in Fingerprints
        PROVE  report[f] > 0 <=> f \in Live(t.payload)
    OBVIOUS
  <2>2. t.payload.evidence[f] \in Seq(25 .. 100)
    BY <1>1 DEF Transaction, AllPayloads
  <2>3. Len(t.payload.evidence[f]) > 0 <=> t.payload.evidence[f] # <<>>
    BY <2>2, SomeScores
  <2> QED
    BY <2>3 DEF Observations, Live
<1>6. \A f \in Fingerprints : report[f] \in Nat
  BY <1>1 DEF Transaction, AllPayloads, Observations
<1>7. \A f \in Quiet(w) : report[f] = 0 /\ now - evidenced[h][f] >= STALE
  <2>1. SUFFICES ASSUME NEW f \in Fingerprints, NEW i, <<f, i>> \in t.stale
        PROVE  report[f] = 0 /\ now - evidenced[h][f] >= STALE
    BY DEF Quiet
  <2>2. f \notin Live(t.payload) /\ now - evidenced[h][f] >= STALE
    BY <1>1, <2>1 DEF RInv, JudgementHolds
  <2> HIDE DEF report
  <2> QED
    BY <1>5, <1>6, <2>2
<1>8. Settled(w) \in SUBSET overruled[h] /\ Quiet(w) \in SUBSET Fingerprints
  BY DEF Settled, Quiet
<1>9. evidenced' = [evidenced EXCEPT ![h] =
         [f \in Fingerprints |-> IF report[f] > 0 THEN t.recordedAt ELSE @[f]]]
  BY <1>2, <1>5
<1>10. [g \in Hosts |-> [f \in Fingerprints |-> Findings(det'[g][f])]] =
         [queue EXCEPT ![h] = [f \in Fingerprints |->
            IF report[f] > 0 THEN AQ!Observed(queue[h][f], report[f], f \in Settled(w))
            ELSE IF f \in Quiet(w) THEN AQ!Quieted(queue[h][f], f \in Settled(w))
            ELSE queue[h][f]]]
  <2>1. ASSUME NEW g \in Hosts, g # h, NEW f \in Fingerprints
        PROVE  Findings(det'[g][f]) = Findings(det[g][f])
    <3>1. /\ Len(det'[g][f]) = Len(det[g][f])
          /\ \A i \in DOMAIN det[g][f] : Alike(det'[g][f][i], det[g][f][i])
      BY <1>1, <2>1, CommitRows
    <3>2. det[g][f] \in Seq(Row) /\ det'[g][f] \in Seq(Row)
      BY <1>1 DEF TypeOK
    <3> QED
      BY <3>1, <3>2, SameFindings DEF Alike
  <2>2. ASSUME NEW f \in Fingerprints
        PROVE  Findings(det'[h][f]) =
                 IF report[f] > 0
                   THEN AQ!Observed(Findings(det[h][f]), report[f], f \in Settled(w))
                 ELSE IF f \in Quiet(w)
                   THEN AQ!Quieted(Findings(det[h][f]), f \in Settled(w))
                 ELSE Findings(det[h][f])
    BY CommitFindings
  <2> HIDE DEF report
  <2> QED
    BY <1>1, <2>1, <2>2
<1> HIDE DEF report, t
<1> QED
  BY <1>2, <1>3, <1>4, <1>7, <1>8, <1>9, <1>10 DEF AQ!Report

\* An analyst's update is a verdict of the queue, or invisible in it.
LEMMA PatchJudges ==
  ASSUME RInv, TypeOK', NEW h \in Hosts, NEW f \in Fingerprints, NEW i \in DOMAIN det[h][f],
         NEW verdict \in Verdicts, PatchAlert(h, f, i, verdict)
  PROVE  AQ!Verdict(h, f, i) \/ UNCHANGED AQ!vars
<1> DEFINE queue == [g \in Hosts |-> [e \in Fingerprints |-> Findings(det[g][e])]]
           queue1 == [g \in Hosts |-> [e \in Fingerprints |-> Findings(det'[g][e])]]
<1>1. TypeOK
  BY DEF RInv
<1>2. now' = now /\ evidenced' = evidenced
  BY DEF PatchAlert
<1>3. PICK status \in {det[h][f][i].status, "suppressed", "resolved"} :
        /\ \A g \in Hosts, e \in Fingerprints :
             /\ Len(det'[g][e]) = Len(det[g][e])
             /\ \A j \in DOMAIN det[g][e] :
                  /\ det'[g][e][j].status = IF g = h /\ e = f /\ j = i THEN status
                                             ELSE det[g][e][j].status
                  /\ det'[g][e][j].count = det[g][e][j].count
                  /\ det'[g][e][j].updated = det[g][e][j].updated
        /\ overruled' = IF status = det[h][f][i].status THEN overruled
                        ELSE [overruled EXCEPT ![h] = @ \cup {f}]
  BY <1>1, PatchRows
<1>4. \A g \in Hosts, e \in Fingerprints :
        det[g][e] \in Seq(Row) /\ det'[g][e] \in Seq(Row)
  BY <1>1 DEF TypeOK
<1>5. ASSUME NEW g \in Hosts, NEW e \in Fingerprints, ~(g = h /\ e = f)
      PROVE  Findings(det'[g][e]) = Findings(det[g][e])
  <2>1. /\ det[g][e] \in Seq(Row) /\ det'[g][e] \in Seq(Row)
        /\ Len(det'[g][e]) = Len(det[g][e])
    BY <1>3, <1>4
  <2>2. \A j \in DOMAIN det[g][e] : /\ det'[g][e][j].status = det[g][e][j].status
                                    /\ det'[g][e][j].count = det[g][e][j].count
    BY <1>3, <1>5
  <2> QED
    BY <2>1, <2>2, SameFindings
<1>6. CASE status = det[h][f][i].status
  <2>1. Findings(det'[h][f]) = Findings(det[h][f])
    BY <1>3, <1>4, <1>6, SameFindings
  <2>2. queue1 = queue
    BY <1>5, <2>1
  <2> QED
    BY <1>2, <1>3, <1>6, <2>2 DEF AQ!vars
<1>7. CASE status # det[h][f][i].status
  <2>1. Findings(det'[h][f]) = [Findings(det[h][f]) EXCEPT ![i].status = status]
    <3>1. DOMAIN det'[h][f] = DOMAIN det[h][f]
      BY <1>3, <1>4
    <3>2. \A j \in DOMAIN det[h][f] :
            /\ det'[h][f][j].status = IF j = i THEN status ELSE det[h][f][j].status
            /\ det'[h][f][j].count = det[h][f][j].count
      BY <1>3
    <3> QED
      BY <3>1, <3>2 DEF Findings
  <2>2. queue1 = [queue EXCEPT ![h][f][i].status = status]
    <3>1. queue[h][f] = Findings(det[h][f])
      OBVIOUS
    <3>2. queue1 = [queue EXCEPT ![h] = [queue[h] EXCEPT ![f] = Findings(det'[h][f])]]
      BY <1>5
    <3> QED
      BY <2>1, <3>1, <3>2
  <2>3. status \in {"resolved", "suppressed"}
    BY <1>3, <1>7
  <2> QED
    BY <1>2, <1>3, <1>7, <2>2, <2>3 DEF AQ!Verdict
<1> QED
  BY <1>6, <1>7

\* Every step of the pipeline is a step of the queue or invisible in it.
LEMMA StepImplements ==
  ASSUME RInv, TypeOK', [Next]_vars
  PROVE  [AQ!Next]_(AQ!vars)
<1>1. ASSUME now' = now, det' = det, evidenced' = evidenced, overruled' = overruled
      PROVE  UNCHANGED AQ!vars
  BY <1>1 DEF AQ!vars
<1>2. ASSUME NEW w \in Workers, Commit(w)
      PROVE  AQ!Next
  <2>1. tx[w].host \in Hosts
    BY <1>2, CommitTyped DEF RInv
  <2> QED
    BY <1>2, <2>1, CommitReports DEF AQ!Next
<1>3. CASE Analyst
  <2>1. PICK h \in Hosts, f \in Fingerprints, verdict \in Verdicts :
          \E i \in DOMAIN det[h][f] : PatchAlert(h, f, i, verdict)
    BY <1>3 DEF Analyst
  <2>2. PICK i \in DOMAIN det[h][f] : PatchAlert(h, f, i, verdict)
    BY <2>1
  <2>3. AQ!Verdict(h, f, i) \/ UNCHANGED AQ!vars
    BY <2>2, PatchJudges
  <2>4. i \in DOMAIN [g \in Hosts |-> [e \in Fingerprints |-> Findings(det[g][e])]][h][f]
    BY DEF Findings
  <2> QED
    BY <2>3, <2>4 DEF AQ!Next
<1>4. CASE Tick
  <2>1. AQ!Tick
    BY <1>4 DEF Tick, AQ!Tick, database, history
  <2> QED
    BY <2>1 DEF AQ!Next
<1>5. CASE Restart \/ UNCHANGED vars
  BY <1>1, <1>5 DEF Restart, vars, database, history
<1>6. ASSUME NEW w \in Workers, NEW h \in Hosts, NEW payload \in Payloads,
             SelectHost(w, h, payload)
      PROVE  UNCHANGED AQ!vars
  BY <1>1, <1>6 DEF SelectHost, database, history
<1>7. ASSUME NEW w \in Workers,
             \/ StoreAndRecord(w) \/ DuplicateHost(w) \/ FindStale(w)
             \/ ResolveStale(w) \/ RefreshAndPrune(w) \/ Fail(w)
      PROVE  UNCHANGED AQ!vars
  BY <1>1, <1>7
     DEF StoreAndRecord, DuplicateHost, FindStale, ResolveStale, RefreshAndPrune, Fail,
         database, history
<1> QED
  BY <1>2, <1>3, <1>4, <1>5, <1>6, <1>7 DEF Next, WorkerStep, Report

LEMMA InitRInv == Init => RInv
<1>1. Init => TypeOK
  BY IngestAssumption DEF Init, TypeOK, HostRow, Scores, Times, NoTime
<1>2. Init => IInv
  BY <1>1 DEF Init, IInv, LockInv, LookupInv, UniqueOpen, Holding, Idle, OpenRows
<1>3. Init => FreshInv
  BY DEF Init, FreshInv, OpenRows, NoTime
<1>4. Init => SentInv /\ \A w \in Workers : ReadsHold(w) /\ JudgementHolds(w)
  BY DEF Init, SentInv, ReadsHold, JudgementHolds, Holding, Idle
<1> QED
  BY <1>1, <1>2, <1>3, <1>4 DEF RInv

\* Any number of workers handle reports as if one at a time: the pipeline with
\* its interleaved transactions, failures, restarts and analysts implements
\* the alert queue.
THEOREM Refinement == Spec => ImplementsAlertQueue
<1>1. Init => AQ!Init
  BY DEF Init, AQ!Init, Findings, AQ!Never, NoTime
<1>2. RInv /\ [Next]_vars /\ TypeOK' => RInv'
  BY StepKeepsRInv
<1>3. RInv /\ TypeOK' /\ [Next]_vars => [AQ!Next]_(AQ!vars)
  BY StepImplements
<1> QED
  BY <1>1, <1>2, <1>3, InitRInv, TypeCorrect, PTL DEF Spec, ImplementsAlertQueue, AQ!Spec

\* service.py, _resolve_stale_detections: however its statements interleave
\* with other reports, a report resolves a detection only when no committed
\* report has carried its evidence for the stale time.
THEOREM ResolvedIsQuiet == Spec => ResolvesOnlyQuiet
<1>1. ASSUME RInv, TypeOK', NEW h \in Hosts, NEW f \in Fingerprints, NEW i \in OpenRows(h, f),
             NEW w \in Workers, Commit(w), det'[h][f][i].status = "resolved"
      PROVE  now - evidenced[h][f] >= STALE
  <2>1. i \in DOMAIN det[h][f] /\ det[h][f][i].status = "open"
    BY DEF OpenRows
  <2>2. h = tx[w].host
    <3>1. TypeOK
      BY <1>1 DEF RInv
    <3>2. h # tx[w].host => Alike(det'[h][f][i], det[h][f][i])
      BY <1>1, <2>1, <3>1, CommitRows
    <3> QED
      BY <1>1, <2>1, <3>2 DEF Alike
  <2>3. CommitOutcome(w, h, f)
    BY <1>1, <2>2, CommitCases
  <2> QED
    BY <1>1, <2>1, <2>3 DEF CommitOutcome, Alike
<1>2. RInv /\ TypeOK' =>
        \A h \in Hosts, f \in Fingerprints : \A i \in OpenRows(h, f) :
          (\E w \in Workers : Commit(w) /\ det'[h][f][i].status = "resolved")
            => now - evidenced[h][f] >= STALE
  BY <1>1
<1>3. RInv /\ [Next]_vars /\ TypeOK' => RInv'
  BY StepKeepsRInv
<1> QED
  BY <1>2, <1>3, InitRInv, TypeCorrect, PTL DEF Spec, ResolvesOnlyQuiet
=============================================================================
