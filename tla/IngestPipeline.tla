---------------------------- MODULE IngestPipeline ----------------------------
(***************************************************************************)
(* The ingest pipeline and the detection lifecycle: service.py over the    *)
(* tables of models.py and the sessions of db.py.                          *)
(*                                                                         *)
(* Each report is one transaction run by a worker thread of the API.  The  *)
(* database is PostgreSQL at READ COMMITTED (docker-compose.yml) or SQLite:*)
(* a statement sees what is committed when it runs plus the writes of its  *)
(* own transaction, an UPDATE or DELETE holds its rows until the commit,   *)
(* and a transaction that fails leaves no trace.  A transaction therefore  *)
(* keeps what it has read and decided in tx[w], and Commit publishes it.   *)
(*                                                                         *)
(* Time is a clock in ticks of 450 seconds or more, bounded by MaxTime.    *)
(***************************************************************************)
EXTENDS Integers, SequencesExt, FiniteSetsExt

CONSTANTS
  Hosts,
  Fingerprints,        \* detection keys a host can produce
  ProcessFingerprints, \* those of findings about a running process
  Entries,             \* autostart entries
  Payloads,            \* the reports an agent may send
  Workers,             \* threads of the API that run ingest_snapshot
  STALE,               \* STALE_DETECTION_SECONDS
  RETENTION,           \* retention_days, at least one tick
  PRUNE_INTERVAL,      \* _PRUNE_INTERVAL
  Verdicts,            \* the alert statuses analysts use in this instance
  MaxTime,             \* bound on the clock
  MaxObserved,         \* observations of a fingerprint after which it is no longer reported
  MaxFailures          \* bound on failed transactions and restarts

Times == 0 .. MaxTime
NoTime == -1              \* a null time or reference, and a prune never run

AlertStatuses == {"new", "acknowledged", "investigating", "closed", "false_positive"}
DetectionStatuses == {"open", "resolved", "suppressed"}
Scores == 0 .. 100

\* What the pipeline takes from a report: for each fingerprint the scores of
\* its alertable assessments, highest first as evaluate_host returns them
\* (same-named processes share a fingerprint), and the autostart entries.
AllPayloads == [evidence : [Fingerprints -> Seq(25 .. 100)], entries : SUBSET Entries]

ASSUME IngestAssumption ==
  /\ ProcessFingerprints \subseteq Fingerprints
  /\ Payloads \subseteq AllPayloads
  /\ Verdicts \subseteq AlertStatuses
  /\ {STALE, RETENTION, PRUNE_INTERVAL, MaxTime, MaxObserved, MaxFailures} \subseteq Nat

VARIABLES
  now,        \* the clock
  hosts,      \* the hosts table
  det,        \* per host and fingerprint, the detection rows, oldest first,
              \* each with the one alert created with it
  items,      \* the persistence_items table
  procRows,   \* per host, the timestamps of the process rows
  netRows,    \* per host, the timestamps of the network_events rows
  lastPrune,  \* _last_prune, a global of the API process
  tx,         \* per worker, the transaction it runs
  failures,   \* failed transactions and restarts so far
  observed,   \* history: assessments in committed reports
  evidenced,  \* history: when a committed report last carried the fingerprint
  overruled   \* history: fingerprints whose status an analyst changed since the
              \* last committed report of the host

database == <<hosts, det, items, procRows, netRows>>
history == <<observed, evidenced, overruled>>
vars == <<now, database, lastPrune, tx, failures, history>>

Row == [score : Scores, status : DetectionStatuses, updated : Times, count : Nat,
        process : Times \cup {NoTime}, alert : AlertStatuses]

HostRow == [known : BOOLEAN, lastSeen : Times \cup {NoTime}, risk : Scores]

\* The findings of a report.
Live(payload) == {f \in Fingerprints : payload.evidence[f] # <<>>}

\* A transaction: where it is and what it has read and decided so far.
\*   known, risk  the host row as the SELECT of upsert_host returned it
\*   seenAt       the clock written to last_seen
\*   existing     for a live fingerprint, the open row its first assessment finds
\*                (0: none) and the observation_count read from it
\*   recordedAt   the clock of its inserts and updates
\*   stale        the rows it resolves
\*   closes       those whose alert it closes
\*   judgedAt     the clock of the staleness test
\*   worst        the rollup it computed
\*   doomedProc, doomedNet  the rows its DELETEs removed
Idle == [pc |-> "idle"]
Transaction ==
  [pc : {"selected", "recorded", "judged", "resolved", "flushed"}, host : Hosts, payload : AllPayloads,
   known : BOOLEAN, risk : Scores, seenAt : Times,
   existing : [Fingerprints -> [row : Nat, count : Nat]], recordedAt : Times,
   stale : SUBSET (Fingerprints \X Nat), closes : SUBSET (Fingerprints \X Nat),
   judgedAt : Times, worst : Scores,
   doomedProc : [Hosts -> SUBSET Times], doomedNet : [Hosts -> SUBSET Times]]

NoRows == [f \in Fingerprints |-> [row |-> 0, count |-> 0]]
NothingDoomed == [h \in Hosts |-> {}]

\* The transactions that hold the lock on their host's row.
Holding(w) == tx[w].pc \in {"recorded", "judged", "resolved", "flushed"}

OpenRows(h, f) == {i \in DOMAIN det[h][f] : det[h][f][i].status = "open"}

\* Detection rows of h that a transaction has written and not yet committed.
\* A row it updates is read first and locked only when the UPDATE is flushed,
\* so an analyst's update may still fall between the two.
RowLocked(h, f, i) ==
  \E w \in Workers :
    /\ tx[w] # Idle /\ tx[w].host = h
    /\ \/ tx[w].pc \in {"judged", "resolved", "flushed"} /\ tx[w].existing[f].row = i
       \/ tx[w].pc \in {"resolved", "flushed"} /\ <<f, i>> \in tx[w].stale

\* The same for the alert that was created with the row.
AlertLocked(h, f, i) ==
  \E w \in Workers :
    tx[w].pc = "flushed" /\ tx[w].host = h /\ <<f, i>> \in tx[w].closes

-----------------------------------------------------------------------------
(* ingest_snapshot, statement by statement.                                *)

\* upsert_host, up to the flush: the SELECT and the values assigned to the row.
SelectHost(w, h, payload) ==
  /\ tx[w] = Idle
  /\ \A f \in Live(payload) : observed[h][f] < MaxObserved
  /\ tx' = [tx EXCEPT ![w] =
       [pc |-> "selected", host |-> h, payload |-> payload, known |-> hosts[h].known,
        risk |-> hosts[h].risk, seenAt |-> now, existing |-> NoRows, recordedAt |-> now,
        stale |-> {}, closes |-> {}, judgedAt |-> now, worst |-> 0,
        doomedProc |-> NothingDoomed, doomedNet |-> NothingDoomed]]
  /\ UNCHANGED <<now, database, lastPrune, failures, history>>

\* Slips of the lock: not taken at all, or taken shared by the SELECT and
\* upgraded by the flush.
NoRowLock(w) == TRUE
UpgradedLock(w) == \A v \in Workers \ {w} : tx[v] # Idle => tx[v].host # tx[w].host

\* The flush of upsert_host waits for the host's row (or, for a new host,
\* for the unique index) until no other transaction holds it.
CanLockHost(w) ==
  \A v \in Workers \ {w} : ~(Holding(v) /\ tx[v].host = tx[w].host)

\* A slip: the newest row, open or not.
LookupNewest(h, f) ==
  IF det[h][f] = <<>> THEN [row |-> 0, count |-> 0]
  ELSE [row |-> Len(det[h][f]), count |-> Last(det[h][f]).count]

\* The SELECT of _record_detection: the newest open row of the fingerprint, as
\* the first assessment finds it.
Lookup(h, f) ==
  IF OpenRows(h, f) = {} THEN [row |-> 0, count |-> 0]
  ELSE LET i == Max(OpenRows(h, f)) IN [row |-> i, count |-> det[h][f][i].count]

\* The flush, the inserts of the raw rows and, for every fingerprint of the
\* report, the SELECT of its first assessment.  From here on the host's lock
\* keeps other reports out.  An analyst may get in between the SELECT of a row
\* and the flush of its UPDATE, which FindStale stands for; what it does to the
\* row of one fingerprint does not touch another, so they are taken together.
StoreAndRecord(w) ==
  /\ tx[w].pc = "selected"
  /\ CanLockHost(w)
  /\ tx[w].known = hosts[tx[w].host].known
  /\ tx' = [tx EXCEPT ![w].pc = "recorded", ![w].recordedAt = now,
       ![w].existing = [f \in Fingerprints |->
          IF f \in Live(tx[w].payload) THEN Lookup(tx[w].host, f)
                                       ELSE [row |-> 0, count |-> 0]]]
  /\ UNCHANGED <<now, database, lastPrune, failures, history>>

\* The host was created by another first report after this one's SELECT: the
\* INSERT breaks the unique index and the report is lost with a 500.
DuplicateHost(w) ==
  /\ tx[w].pc = "selected"
  /\ CanLockHost(w)
  /\ tx[w].known # hosts[tx[w].host].known
  /\ tx' = [tx EXCEPT ![w] = Idle]
  /\ UNCHANGED <<now, database, lastPrune, failures, history>>

\* A slip of the staleness test: strictly older.
OlderRows(h, live) ==
  UNION {{<<f, i>> : i \in {j \in OpenRows(h, f) : now - det[h][f][j].updated > STALE}} :
           f \in Fingerprints \ live}

\* Another: settled rows are resolved again.
AnyOldRows(h, live) ==
  UNION {{<<f, i>> : i \in {j \in DOMAIN det[h][f] : now - det[h][f][j].updated >= STALE}} :
           f \in Fingerprints \ live}

\* The rows _resolve_stale_detections finds open and unobserved.
StaleRows(h, live) ==
  UNION {{<<f, i>> : i \in {j \in OpenRows(h, f) : now - det[h][f][j].updated >= STALE}} :
           f \in Fingerprints \ live}

\* The UPDATEs and INSERTs of _record_detection are flushed, and the SELECT of
\* _resolve_stale_detections reads the open rows.
FindStale(w) ==
  /\ tx[w].pc = "recorded"
  /\ tx' = [tx EXCEPT ![w].pc = "judged", ![w].judgedAt = now,
       ![w].stale = StaleRows(tx[w].host, Live(tx[w].payload))]
  /\ UNCHANGED <<now, database, lastPrune, failures, history>>

\* The loop over those rows.  The lazy load of detection.alerts first flushes
\* the status assigned to the row, which locks it, and then reads the alert:
\* one that has been closed or marked as a false positive is left alone.
ResolveStale(w) ==
  /\ tx[w].pc = "judged"
  /\ tx' = [tx EXCEPT ![w].pc = "resolved",
       ![w].closes = {d \in tx[w].stale :
          det[tx[w].host][d[1]][d[2]].alert \notin {"closed", "false_positive"}}]
  /\ UNCHANGED <<now, database, lastPrune, failures, history>>

\* An analyst has settled the row that the first assessment of f found open,
\* before its UPDATE was flushed.  From then on the row is locked.
Overtaken(w, f) ==
  /\ tx[w].payload.evidence[f] # <<>> /\ tx[w].existing[f].row # 0
  /\ det[tx[w].host][f][tx[w].existing[f].row].status # "open"

\* The scores that go into the row found open, one after the other: all of
\* them, or only the first when the SELECT of the second does not find it again.
Added(w, f) ==
  LET scores == tx[w].payload.evidence[f]
  IN  IF Overtaken(w, f) THEN <<Head(scores)>> ELSE scores

\* Those that go into a new row.
Opening(w, f) ==
  LET scores == tx[w].payload.evidence[f]
  IN  IF tx[w].existing[f].row = 0 THEN scores
      ELSE IF Overtaken(w, f) THEN Tail(scores) ELSE <<>>

\* Slips of the update: observations of a report counted once, a row whose
\* updated_at is left as it is, and a score that adds up.
CountedOnce(w, f, row) ==
  [row EXCEPT !.score = Last(Added(w, f)), !.updated = tx[w].recordedAt,
     !.count = tx[w].existing[f].count + 1]
Untouched(w, f, row) ==
  [row EXCEPT !.score = Last(Added(w, f)),
     !.count = tx[w].existing[f].count + Len(Added(w, f))]
ScoreAddsUp(w, f, row) ==
  [row EXCEPT !.score = @ + Last(Added(w, f)), !.updated = tx[w].recordedAt,
     !.count = tx[w].existing[f].count + Len(Added(w, f))]

\* The row a report found open, with its findings added: the last sets the score.
Refreshed(w, f, row) ==
  LET t == tx[w]
  IN  [row EXCEPT !.score = Last(Added(w, f)), !.updated = t.recordedAt,
         !.count = t.existing[f].count + Len(Added(w, f)),
         !.process = IF f \in ProcessFingerprints THEN t.recordedAt ELSE @]

\* The rows of fingerprint f of its host as transaction w leaves them.
Updated(w, f) ==
  LET t == tx[w]
  IN  [i \in DOMAIN det[t.host][f] |->
        LET row == det[t.host][f][i]
        IN  IF t.payload.evidence[f] # <<>> /\ i = t.existing[f].row
              THEN Refreshed(w, f, row)
            ELSE IF <<f, i>> \in t.stale
              THEN [row EXCEPT !.status = "resolved", !.updated = t.judgedAt,
                      !.alert = IF <<f, i>> \in t.closes THEN "closed" ELSE @]
            ELSE row]

Inserted(w, f) ==
  LET t == tx[w]
  IN  [score |-> Last(Opening(w, f)), status |-> "open", updated |-> t.recordedAt,
       count |-> Len(Opening(w, f)), alert |-> "new",
       process |-> IF f \in ProcessFingerprints THEN t.recordedAt ELSE NoTime]

\* A slip: a fingerprint whose detection is settled gets its last row back.
UpsertedByFingerprint(w, f) ==
  IF Opening(w, f) # <<>>
    THEN IF Updated(w, f) = <<>> THEN <<Inserted(w, f)>>
         ELSE [Updated(w, f) EXCEPT ![Len(Updated(w, f))] = Inserted(w, f)]
    ELSE Updated(w, f)

\* The rows of f after the transaction: findings without an open row get one.
Written(w, f) ==
  IF Opening(w, f) # <<>> THEN Append(Updated(w, f), Inserted(w, f)) ELSE Updated(w, f)

\* A slip of the rollup: read before the flush.
WorstBeforeFlush(w) ==
  Max({0} \cup UNION {{det[tx[w].host][f][i].score : i \in OpenRows(tx[w].host, f)} :
                        f \in Fingerprints})

\* refresh_host_risk: the worst open row, its own writes included.
WorstOf(w) ==
  Max({0} \cup UNION {{row.score : row \in {Written(w, f)[i] : i \in
          {j \in DOMAIN Written(w, f) : Written(w, f)[j].status = "open"}}} :
            f \in Fingerprints})

PruneIsDue == lastPrune = NoTime \/ now - lastPrune >= PRUNE_INTERVAL

Expired(timestamps) == {t \in timestamps : t < now - RETENTION}

\* The DELETEs do not see what another report has stored and not yet committed.
\* Rows are named by their time, so none of that time is deleted.
Uncommitted(w, h) ==
  {tx[v].recordedAt : v \in {u \in Workers \ {w} : Holding(u) /\ tx[u].host = h}}

Deletable(w, h, timestamps) == Expired(timestamps) \ Uncommitted(w, h)

\* A slip: only detections of the reporting host are looked at.
ReferencedByReporter(w, h) ==
  {row.process : row \in UNION {{rows[i] : i \in DOMAIN rows} : rows \in
     {Written(w, f) : f \in {g \in Fingerprints : h = tx[w].host}}}}

\* Process rows that some detection refers to, as the subquery of
\* prune_old_events sees them: committed ones and the transaction's own.
Referenced(w, h) ==
  {row.process : row \in UNION {{rows[i] : i \in DOMAIN rows} : rows \in
     {IF h = tx[w].host THEN Written(w, f) ELSE det[h][f] : f \in Fingerprints}}}

\* The flush of the closed alerts, refresh_host_risk and prune_old_events.
RefreshAndPrune(w) ==
  /\ tx[w].pc = "resolved"
  /\ tx' = [tx EXCEPT ![w].pc = "flushed", ![w].worst = WorstOf(w),
       ![w].doomedNet = IF PruneIsDue
                          THEN [h \in Hosts |-> Deletable(w, h, netRows[h])]
                          ELSE NothingDoomed,
       ![w].doomedProc = IF PruneIsDue
                           THEN [h \in Hosts |-> Deletable(w, h, procRows[h]) \ Referenced(w, h)]
                           ELSE NothingDoomed]
  /\ lastPrune' = IF PruneIsDue THEN now ELSE lastPrune
  /\ UNCHANGED <<now, database, failures, history>>

\* The foreign keys to a deleted process row are set to null.
Detach(rows, doomed) ==
  [i \in DOMAIN rows |->
     [rows[i] EXCEPT !.process = IF @ \in doomed THEN NoTime ELSE @]]

\* No UPDATE is sent for a column whose new value equals the loaded one.
NewRisk(w) ==
  IF tx[w].worst = tx[w].risk THEN hosts[tx[w].host].risk ELSE tx[w].worst

Commit(w) ==
  LET t == tx[w]
      h == t.host
  IN  /\ t.pc = "flushed"
      /\ tx' = [tx EXCEPT ![w] = Idle]
      /\ hosts' = [hosts EXCEPT ![h] =
           [known |-> TRUE, lastSeen |-> t.seenAt, risk |-> NewRisk(w)]]
      /\ det' = [g \in Hosts |-> [f \in Fingerprints |->
           Detach(IF g = h THEN Written(w, f) ELSE det[g][f], t.doomedProc[g])]]
      /\ items' = [items EXCEPT ![h] = IF t.payload.entries = {} THEN @ ELSE t.payload.entries]
      /\ procRows' = [g \in Hosts |->
           (IF g = h THEN procRows[g] \cup {t.recordedAt} ELSE procRows[g]) \ t.doomedProc[g]]
      /\ netRows' = [g \in Hosts |->
           (IF g = h THEN netRows[g] \cup {t.recordedAt} ELSE netRows[g]) \ t.doomedNet[g]]
      /\ observed' = [observed EXCEPT ![h] =
           [f \in Fingerprints |-> @[f] + Len(t.payload.evidence[f])]]
      /\ evidenced' = [evidenced EXCEPT ![h] =
           [f \in Fingerprints |-> IF f \in Live(t.payload) THEN t.recordedAt ELSE @[f]]]
      /\ overruled' = [overruled EXCEPT ![h] = {}]
      /\ UNCHANGED <<now, lastPrune, failures>>

-----------------------------------------------------------------------------
(* Failures, the clock and the analysts.                                   *)

\* An exception in a transaction: a lost database connection, a lock timeout.
\* The session closes without a commit; _last_prune keeps what it was set to.
Fail(w) ==
  /\ tx[w] # Idle
  /\ failures < MaxFailures
  /\ failures' = failures + 1
  /\ tx' = [tx EXCEPT ![w] = Idle]
  /\ UNCHANGED <<now, database, lastPrune, history>>

\* The API process dies and starts again.
Restart ==
  /\ failures < MaxFailures
  /\ failures' = failures + 1
  /\ tx' = [w \in Workers |-> Idle]
  /\ lastPrune' = NoTime
  /\ UNCHANGED <<now, database, history>>

Tick ==
  /\ now < MaxTime
  /\ now' = now + 1
  /\ UNCHANGED <<database, lastPrune, tx, failures, history>>

\* An analyst updates an alert (PATCH /alerts/{id}; the route is not part of
\* the sources).  A false positive suppresses the detection; a closed alert
\* may or may not resolve it, so both are allowed.  The detection row is
\* written, and waited for, only when its status changes.
PatchAlert(h, f, i, verdict) ==
  /\ ~AlertLocked(h, f, i)
  /\ det[h][f][i].alert # verdict
  /\ \E status \in (CASE verdict = "false_positive" -> {"suppressed"}
                      [] verdict = "closed" -> {det[h][f][i].status, "resolved"}
                      [] OTHER -> {det[h][f][i].status}) :
       /\ status # det[h][f][i].status => ~RowLocked(h, f, i)
       /\ det' = [det EXCEPT ![h][f][i].alert = verdict, ![h][f][i].status = status]
       /\ overruled' = IF status = det[h][f][i].status THEN overruled
                       ELSE [overruled EXCEPT ![h] = @ \cup {f}]
  /\ UNCHANGED <<now, hosts, items, procRows, netRows, lastPrune, tx, failures, observed, evidenced>>

-----------------------------------------------------------------------------

Init ==
  /\ now = 0
  /\ hosts = [h \in Hosts |-> [known |-> FALSE, lastSeen |-> NoTime, risk |-> 0]]
  /\ det = [h \in Hosts |-> [f \in Fingerprints |-> <<>>]]
  /\ items = [h \in Hosts |-> {}]
  /\ procRows = [h \in Hosts |-> {}]
  /\ netRows = [h \in Hosts |-> {}]
  /\ lastPrune = NoTime
  /\ tx = [w \in Workers |-> Idle]
  /\ failures = 0
  /\ observed = [h \in Hosts |-> [f \in Fingerprints |-> 0]]
  /\ evidenced = [h \in Hosts |-> [f \in Fingerprints |-> NoTime]]
  /\ overruled = [h \in Hosts |-> {}]

WorkerStep(w) ==
  \/ StoreAndRecord(w)
  \/ DuplicateHost(w)
  \/ FindStale(w)
  \/ ResolveStale(w)
  \/ RefreshAndPrune(w)
  \/ Commit(w)

Report(w, h) == \E payload \in Payloads : SelectHost(w, h, payload)

Analyst ==
  \E h \in Hosts, f \in Fingerprints, verdict \in Verdicts :
    \E i \in DOMAIN det[h][f] : PatchAlert(h, f, i, verdict)

Next ==
  \/ \E w \in Workers : WorkerStep(w) \/ Fail(w) \/ \E h \in Hosts : Report(w, h)
  \/ Restart
  \/ Tick
  \/ Analyst

Spec == Init /\ [][Next]_vars

\* Fairness.  Every statement of a transaction is eventually executed and a
\* lock that is released again and again is eventually granted (database
\* lock queues are first come, first served); time passes.
Fairness ==
  /\ \A w \in Workers : SF_vars(WorkerStep(w))
  /\ WF_vars(Tick)

FairSpec == Spec /\ Fairness

\* The agent of h keeps polling: it reports again whenever a worker is free.
Reporting(h) == SF_vars(\E w \in Workers : Report(w, h))

ReportingSpec == FairSpec /\ \A h \in Hosts : Reporting(h)

-----------------------------------------------------------------------------
(* What the pipeline promises.                                             *)

TypeOK ==
  /\ now \in Times
  /\ hosts \in [Hosts -> HostRow]
  /\ det \in [Hosts -> [Fingerprints -> Seq(Row)]]
  /\ items \in [Hosts -> SUBSET Entries]
  /\ procRows \in [Hosts -> SUBSET Times]
  /\ netRows \in [Hosts -> SUBSET Times]
  /\ lastPrune \in Times \cup {NoTime}
  /\ tx \in [Workers -> Transaction \cup {Idle}]
  /\ failures \in Nat
  /\ observed \in [Hosts -> [Fingerprints -> Nat]]
  /\ evidenced \in [Hosts -> [Fingerprints -> Times \cup {NoTime}]]
  /\ overruled \in [Hosts -> SUBSET Fingerprints]

\* README, fingerprint deduplication: a repeat observation updates the
\* existing finding.  No interleaving of reports leaves two open detections
\* with one fingerprint, although no constraint of the schema forbids it.
UniqueOpen ==
  \A h \in Hosts, f \in Fingerprints : \A i, j \in OpenRows(h, f) : i = j

\* The counts of the rows add up to n: a running total over them ends there.
AddUpTo(rows, n) ==
  \E total \in [0 .. Len(rows) -> 0 .. n] :
    /\ total[0] = 0 /\ total[Len(rows)] = n
    /\ \A i \in DOMAIN rows : total[i] = total[i - 1] + rows[i].count

\* observation_count loses no update: over the detections of a fingerprint it
\* adds up to the assessments of the committed reports, although each worker
\* adds to a value it read before.
ObservationsCounted ==
  \A h \in Hosts, f \in Fingerprints : AddUpTo(det[h][f], observed[h][f])

\* A report resolves a detection only when no committed report has carried
\* its evidence for the stale time: a report that was slow to get the lock
\* does not resolve what a faster one has just seen.
ResolvesOnlyQuiet ==
  [][\A h \in Hosts, f \in Fingerprints : \A i \in OpenRows(h, f) :
       (\E w \in Workers : Commit(w) /\ det'[h][f][i].status = "resolved")
         => now - evidenced[h][f] >= STALE]_vars

\* README, data model: process rows referenced by a detection are kept.  The
\* reference of a detection is never nulled by the foreign key.
EvidenceRetained ==
  [][\A h \in Hosts, f \in Fingerprints : \A i \in DOMAIN det[h][f] :
       det[h][f][i].process # NoTime => det'[h][f][i].process # NoTime]_vars

\* Detections and alerts are never deleted, and a settled one never reopens.
HistoryIsKept ==
  [][\A h \in Hosts, f \in Fingerprints :
       /\ Len(det[h][f]) <= Len(det'[h][f])
       /\ \A i \in DOMAIN det[h][f] :
            det[h][f][i].status # "open" => det'[h][f][i].status # "open"]_vars

\* A detection that was settled before the last report of its host came in is
\* left as it is, in every column, by each later report of any host.
SettledIsFinal ==
  [][(\E w \in Workers : Commit(w)) =>
       \A h \in Hosts, f \in Fingerprints : \A i \in DOMAIN det[h][f] :
         det[h][f][i].status # "open" /\ f \notin overruled[h]
           => det'[h][f][i] = det[h][f][i]]_vars

WorstOpen(h) ==
  Max({0} \cup UNION {{det[h][f][i].score : i \in OpenRows(h, f)} : f \in Fingerprints})

\* A rollup is right when it is written: no detection that the commit of a
\* report leaves open is above it, whatever analysts and other reports did
\* since it was computed.  Excepted is the one case in which no UPDATE is sent
\* for it: the value is the loaded one, and another report has changed the
\* rollup since it was loaded.
WrittenRollupIsRight ==
  [][\A w \in Workers, h \in Hosts :
       (/\ Commit(w) /\ h = tx[w].host
        /\ tx[w].worst # tx[w].risk \/ tx[w].risk = hosts[h].risk)
         => hosts'[h].risk >= WorstOpen(h)']_vars

\* Every report comes to an end: no lock is waited for for ever.
ReportsEnd == \A w \in Workers : tx[w] # Idle ~> tx[w] = Idle

\* service.py, STALE_DETECTION_SECONDS: the queue of a host that keeps
\* reporting drains.  Every detection that stays unobserved for the stale
\* time is resolved; the ones left open at the end of the bounded clock are
\* those it stops too early for.
QuietQueueDrains ==
  \A h \in Hosts, f \in Fingerprints :
    <>[](\A i \in OpenRows(h, f) : det[h][f][i].updated > MaxTime - STALE)

-----------------------------------------------------------------------------
(* Statements of the repository that the code does not live up to.         *)

\* models.py, Host.risk_score: the rollup of the host's worst open detection,
\* refreshed on every ingest.  It never hides an open detection.
RollupCovers == \A h \in Hosts : hosts[h].risk >= WorstOpen(h)

\* README, lifecycle: marking an alert as a false positive suppresses its
\* fingerprint so the same evidence does not immediately reopen it.
SuppressionHolds ==
  \A h \in Hosts, f \in Fingerprints :
    \A i, j \in DOMAIN det[h][f] :
      ~(det[h][f][i].status = "suppressed" /\ i < j /\ det[h][f][j].status = "open")

\* The same sentence, for the detection itself: what an analyst has suppressed
\* is not turned into something else by a report.
VerdictSurvives ==
  [][(\E w \in Workers : Commit(w)) =>
       \A h \in Hosts, f \in Fingerprints : \A i \in DOMAIN det[h][f] :
         det[h][f][i].status = "suppressed" => det'[h][f][i].status = "suppressed"]_vars

=============================================================================
