# MiningGuard: a TLA+ model of detection and ingest

MiningGuard looks for cryptocurrency mining on a fleet of hosts. Agents sample
processes, sockets, names and autostart entries; an API scores each snapshot
with a rule engine and keeps the detections and alerts an operator works on.
This directory models the scoring engine, the ingest pipeline, the agent's
samplers, its name resolver and the agent itself, checks them on small instances
with TLC, and proves the main results with TLAPS.

## The system

| Part | Source | State it keeps | Operations |
| --- | --- | --- | --- |
| risk engine | `rules.py` | none | `evaluate_process`, `evaluate_persistence_only`, `evaluate_host` |
| indicators | `intel.py` | tables, the loaded feed | `match_*`, `path_trust`, `is_*` |
| ingest pipeline | `service.py`, `models.py` | hosts, detections, alerts, autostart entries, raw rows, `_last_prune` | `ingest_snapshot` and its five steps |
| sessions | `db.py` | engine, pool | one session, one transaction per report |
| API, schemas | `api.py`, `schemas.py` | none | ingest, PATCH of an alert (its routes are not in the sources) |
| process sampler | `collector/processes.py` | per pid: handle, CPU history, static attributes | `prime`, `sample`, `enrich`, `select_reportable` |
| network sampler | `collector/network.py` | per endpoint: first seen, last seen, count | `sample` |
| reverse resolver | `collector/network.py` | cache, failed, pending, a queue, four threads | `lookup`, `_run`, `drain` |
| agent loop | `collector/agent.py` | slow sources and their age | `snapshot`, `post_snapshot`, `run_forever` |
| DNS, GPU, autostart readers | `collector/` | none | one read each |
| configuration, CLI, demo, dashboard | | none | |

Interaction. An agent's snapshot becomes a `HostObservation`
(`build_observation`), the engine returns one assessment per process and per
autostart entry it reports on its own, and `ingest_snapshot` turns the
alertable ones into detections, resolves what was not observed for 15 minutes,
refreshes the host's rollup and prunes old rows, all in one transaction.
Several worker threads do so at once, and analysts patch alerts meanwhile. On
the agent, resolver threads fill a cache that the sampling thread reads.

What is hard:

- two reports of one host overlap (a retry, a second agent, a slow request):
  every read of the pipeline can be stale by the time it is used;
- analysts change the rows a report has read;
- a report fails or the API restarts between any two statements;
- processes exit and pids change hands between two samples of one snapshot,
  and everything the agent remembers is filed under a pid;
- polls are late, come back empty or fail half-way, and what they had already
  updated stays;
- same-named processes share a fingerprint, and one rule can fire twice;
- the score is a sum, then a ceiling, then a second sum with DNS evidence, with
  signals added and dropped by the browser rules on the way.

What makes each part correct:

- engine: load alone never raises an alert; DNS evidence only reinforces; more
  evidence never lowers a score; what is withheld is listed, as far as the list
  goes; the demo fleet has the severities of the README and reports nothing but
  its miners;
- pipeline: at most one open detection per fingerprint, no lost observation,
  nothing resolved that was just seen, settled detections stay settled, the
  rollup written covers the open detections, evidence rows survive pruning, every
  report ends and stale detections are resolved;
- samplers: sustained time and connection age never exceed what happened, a
  reused pid inherits nothing while pids rest for longer than polls are apart,
  nothing is remembered for long;
- resolver: an address is looked up once, the pending limit holds, an address
  that is asked for often enough gets its answer;
- agent: a connection is scored with the process that has it, trimming never
  costs evidence, and lasting evidence arrives once the calls succeed.

## Modules

| Module | Models | Kind |
| --- | --- | --- |
| `RiskEngine` | `rules.py`, the predicates of `intel.py` | pure operators |
| `RiskScan` | a host assessed again and again while evidence appears | state machine over `RiskEngine` |
| `MCRiskScan` | names, paths and domains for TLC; the demo fleet of `demo.py` | instance |
| `RiskEngineProofs` | theorems about the engine and the scan | proofs |
| `IngestPipeline` | `service.py` over `models.py` and `db.py` | state machine |
| `MCIngestPipeline` | small sets of reports | instance |
| `IngestPipelineProofs` | theorems about the pipeline | proofs |
| `AlertQueue` | what the server promises of its findings, one report at a time | abstract specification |
| `IngestRefinement` | the pipeline's tables seen as an `AlertQueue` | refinement mapping |
| `IngestRefinementProofs` | that the pipeline implements the queue | proofs |
| `IngestEvidenceProofs` | the counts, the evidence rows and the rollup | proofs |
| `NameTable` | what the process sampler promises the agent: which name a pid is reported under | abstract specification |
| `ProcessSampler` | `collector/processes.py` over the process table | state machine, implements `NameTable` |
| `MCProcessSampler` | one pid and two or three processes | instance |
| `ProcessSamplerProofs` | theorems about the process sampler | proofs |
| `NetworkSampler` | `NetworkSampler` of `collector/network.py` over the sockets | state machine |
| `MCNetworkSampler` | one endpoint, three openings | instance |
| `NetworkSamplerProofs` | theorems about the connection sampler | proofs |
| `Agent` | `collector/agent.py` and `select_reportable`, built upon `NameTable` | state machine |
| `MCAgent` | two pids, three processes | instance |
| `AgentProofs` | theorems about the agent | proofs |
| `NameService` | what the resolver promises the sampler: an address is answered once | abstract specification |
| `ReverseResolver` | `_ReverseResolver` of `collector/network.py` | state machine, implements `NameService` |
| `MCReverseResolver` | four addresses, three polls | instance |
| `ReverseResolverProofs` | theorems about the resolver | proofs |

### RiskEngine

A name, a path or a domain is an element of a constant set, and constants say
what the matchers of `intel.py` answer about it (`MinerNames`, `PathTrust`,
`PoolDomains`, ...). The tests, their order and their combination are those of
the code. A list of signals is a set of signal *kinds*. A rule that fires at two
strengths (`unknown_executable`: 20 for a hostile path, 10 for an unrecognised
one) or for two reasons (`mining_infrastructure`: a pool, an in-browser service)
has a kind for each, so that no kind occurs twice and `RuleOf` gives the rule
back. Scores are integers; so are CPU percentages and durations. The text of a
reason is left out. `Fingerprint` is the tuple that the code hashes, with the
multiplicity of each rule; hash collisions are left out.

The definitions follow the functions: `ResourceSignals`, `IdentitySignals`,
`NetworkSignals`, ... are `_resource_signals`, `_identity_signals`,
`_network_signals`; `Finalize` is `_finalize`; `EvaluateProcess`,
`EvaluatePersistenceOnly` and `EvaluateHost` are the functions of those names.
`EvaluateHost` returns a set; the order by score matters only to the ingest,
which takes the scores of a fingerprint highest first.

### RiskScan

`host` is the observation, `found` what `evaluate_host` returned for it and
`suppressed` the findings that the answer to the report lists as withheld. Each
action adds one piece of evidence (a socket, an autostart entry, a resolved
name, more CPU time, GPU load) and evaluates again. The actions are the
monitored host, not code of the repository; they make it possible to say how a
verdict moves.

`Rescan` is the part of `ingest_snapshot` that makes the answer: it walks the
findings highest score first, collects those that are withheld and not alerted
(`Held`), and returns the first `ListLimit` of them, ten in the code
(`Listings`). Which of two findings of one score comes first depends on the
order of the report, so there may be several lists.

`MCRiskScan` translates the hosts of `demo.py` one by one, with every process,
socket, autostart entry and name of theirs, those included that are there to
provoke a false positive: `systemd` and `nginx` beside a miner and bad names,
`explorer` beside another, a `python` on the clean workstation.

### IngestPipeline

One action per group of statements of `ingest_snapshot`:

| Action | Code |
| --- | --- |
| `SelectHost` | the SELECT of `upsert_host` and the values assigned to the host |
| `StoreAndRecord` | its flush, which takes the host's row lock; the raw rows; the SELECT of `_record_detection` for the first assessment of each fingerprint |
| `DuplicateHost` | the same flush when another first report created the host: the unique index refuses the row and the report is lost |
| `FindStale` | the UPDATEs and INSERTs of `_record_detection`, flushed; the SELECT of `_resolve_stale_detections` |
| `ResolveStale` | its loop: the status of each stale detection, flushed by the lazy load of its alerts, and the alerts that this load reads |
| `RefreshAndPrune` | the flush of the closed alerts, `refresh_host_risk`, `prune_old_events` |
| `Commit` | the commit |
| `Fail`, `Restart` | an exception in any statement; the API process starting again |
| `Tick` | time |
| `PatchAlert` | an analyst; external |

The database is PostgreSQL at READ COMMITTED (SQLite admits fewer
interleavings). A transaction keeps in `tx[w]` what it has read and decided;
`Commit` publishes it, a failure drops it. The row lock on the host is taken by
the flush of `upsert_host` (`last_seen` always changes, so an UPDATE is always
sent) and held to the commit: `CanLockHost`. Between the flush and the commit no
other report of the host reads or writes, which is why several statements
are one action. An analyst is not kept out by that lock, only by those of the
detection and alert rows: `RowLocked` and `AlertLocked` say which are locked
when. A row is read first and locked when its UPDATE is flushed, and a verdict
may come between the two:

- between the SELECT of `_record_detection` and its UPDATE (`StoreAndRecord` and
  `FindStale`). The code looks a detection up once for every assessment, and
  same-named processes share a fingerprint. If a verdict settles the row that
  the first of such twins has found (`Overtaken`), the first still counts into
  it, and the lookup of the second finds nothing open: it opens a new row, and
  the twins are split over two detections (`Added`, `Opening`). What happens to
  the row of one fingerprint does not touch another, so the lookups of different
  fingerprints are taken together.
- between the SELECT of `_resolve_stale_detections` and the flush of the resolved
  status (`FindStale` and `ResolveStale`). That flush is the autoflush of the
  lazy load of `detection.alerts`, so the alert is read when the detection is
  already locked, and one that has been marked as a false positive is left alone
  although its detection is resolved.

`_last_prune` is a variable of the process
and is not rolled back. SQLAlchemy sends no UPDATE for an attribute that is
assigned its loaded value: `NewRisk`. The DELETEs of pruning see what is
committed and what their own transaction wrote, and not what another report has
stored and not yet committed (`Uncommitted`). The model names a stored row by
its time, where the tables have an id.

A report is reduced to what the pipeline does with it: for each fingerprint the
scores of the alertable assessments, highest first, and the autostart entries.
`observed` and `evidenced` are history variables: the assessments of committed
reports, and when the last one carried the fingerprint.

`PatchAlert` is modelled from the README, `web/app.js` and `AlertUpdateIn`: its
route is not in the sources. A false-positive verdict suppresses the detection;
closing an alert may or may not resolve the detection, so both are allowed.

### AlertQueue and IngestRefinement

`AlertQueue` has no workers, transactions or locks: a report is one step, which
adds each observation to the open finding of its key or opens a new one, and may
resolve findings that no report has carried for the stale time. A verdict is
another step. `IngestRefinement` maps the pipeline to it: a finding is a row of
`det` reduced to its status and its count, `heard` is `evidenced`, and the step
of a report is its `Commit`; every other statement of a report is a stutter.

One thing a report at a time does not explain: an analyst may settle a row that
a report has already read as open. The report still counts its first observation
into that row, the others into a new one, or resolves it. `overruled`, a history variable of the pipeline and a variable of
the queue, holds the fingerprints settled since the host's last report, and for
those, and only those, the queue allows it: what an analyst settled before the
host's previous report committed is never written over.

### ProcessSampler

`states` is `_state`, `rows` what the last `sample` returned; `running`,
`started`, `vacant`, `age` and `pegged` are the operating system. Processes are
numbered as they start, so that a number says *which* process a cached name or a
handle belongs to, where the code has only the pid.

| Action | Code |
| --- | --- |
| `Init` | `prime`: handles for some pids, a first CPU reading for some of those |
| `Sample` | `sample`: `StateFor` (`_state_for`), `Read` (the loop body, `_load_static` included), `Stale` (the states deleted at its end) |
| `SampleFails` | an exception out of `sample`: some pids are read, nothing is deleted or returned |
| `Verified` | the test of `enrich` |
| `Start`, `Exit`, `Tick` | the system; external |

A CPU reading is `idle` or `busy`, below or above the elevated threshold. It is
the average since the previous reading of that handle, so it must be `busy` when
the process was busy throughout, and may be either when it was busy for a part
or when the two readings come from two processes; the first reading of a handle
is 0. `CreationTime` is psutil's: a `Process` object reads it once and caches
it. `sustained` is kept with `since`, the time since `last_sample`, in place of
time stamps. `ReuseAfter` is how long the system leaves a freed pid alone, and
`MaxGap` the longest time between complete polls.

`ImplementsNameTable` maps this to `NameTable`, which has no clocks, handles or
CPU history: `known` is the process whose name a state keeps, `named` the pids
and names of the last rows, and, where pids rest for longer than polls are apart
(`PidsRest` is `MaxGap < ReuseAfter`), `freed` are the pids that no poll has seen
free yet. A complete poll is `Sample`, an aborted one `Abandon`. `Agent` is
written with the operators and actions of the same module, so what it takes for
granted about names is what the sampler is shown to do.

`sample` drops the rows of idle pseudo-processes (Windows' "System Idle
Process"); `HasRow` keeps them, so the model has more rows than the code and the
properties are about all of them.

### NetworkSampler

A key is what `_endpoints` is keyed by. `open` are the keys with a socket. A
poll that completes sees all of them, or none: where the system refuses
`net_connections`, `_list_connections` goes on process by process and gives each
connection its pid by `conn._replace(pid=...)`, but what psutil lists of a single
process has no field `pid`, so the first connection found raises `ValueError`.
The poll then fails (`SampleFails`), or returns an empty list when no process
that may be read has a socket. `hidden` counts the polls that came back empty
while the key was open. `Sample` updates the keys it sees (`Seen`) and deletes
those out of sight for long (`Forgotten`); `SampleFails` stops half-way.
Thresholds are
the multiples of the interval that the code has (3 and 8). `quiet`, `sighted`,
`used`, `openings` and `hidden` are histories that the properties compare the
endpoint with: a *use* of a key ends when the key was closed for longer than
`Bridge`, the time an endpoint is remembered plus the wait for the poll that
deletes it.

### Agent

`pc` follows `run_forever`: `SampleProcesses` and `TakeSnapshot` are the two
halves of `snapshot`, between which the system goes on; `SnapshotFails` is an
exception in either; `Upload` is `post_snapshot`. An HTTP error, a timeout among
them, leaves open whether the server got the snapshot. An answer that is not
JSON is not caught and ends the agent (`"crashed"`).

The names are those of `NameTable`, which `ProcessSampler` implements: `NT` gives
`SampleProcesses`, `SnapshotFails`, `Start` and `Exit` their part in it. The
connections appear by what `NetworkSampler` may list. `known` is the process
whose name is cached under a pid, kept until a complete sample finds the pid
free; with `PidsRest` a freed pid is not given away before such a sample, and
may rest for longer.
`enrich` drops no row, as the run `process_reuse` shows. `Selections` is
`select_reportable` for every order of the processes by CPU, `Owners` the
processes that are added back because they own a connection. `owner` is not in
the program's record: it is the process that really has the socket, and lets
`EvidenceIsOwned` and `Attached` say whether joining by pid, as the server does,
finds it. `calm` says that the calls of the agent succeed at present.

### ReverseResolver

The variables are the attributes of the class; `busy` is the local `ip` of each
worker thread, `pc` and `todo` say where the one sampling thread is and which
addresses of the poll it has still to ask for. A block under `self._lock` is one
step, and what happens outside it is a step of its own:

| Action | Code |
| --- | --- |
| `Poll`, `PollEnds` | `sample` asking for one connection after the other |
| `ReturnAtOnce`, `MakePending` | the locked part of `lookup`, without and with a lookup to queue |
| `Enqueue` | `_ensure_workers` and the put, after the lock was left |
| `StartFails` | `_ensure_workers` raises: the address is pending and will never be queued |
| `Take`, `Settle` | `_run`: the get; the answer of `gethostbyaddr` stored under the lock |
| `Drain`, `DrainEnds`, `DrainTimesOut` | `drain`, as a one-shot scan calls it |

`lookups` is a history of the calls of `gethostbyaddr`. What an address answers
may differ from call to call. `StartFails` returns to between two polls, as in
`run_forever`, which catches what a snapshot raises. A disabled resolver does
nothing and is left out.

`NameService` has neither threads nor queue: an address that was never asked for
may begin to wait while there is room (`Ask`), and one that waits gets its answer,
a name or none (`Answer`). `ImplementsNameService` maps `pending` to the addresses
that wait and `_cache` and `_failed` together to the answers. Only `MakePending`
and `Settle` are steps of it.

Definitions introduced as slips (`NoRowLock`, `WorstBeforeFlush`,
`ClampBelow`, ...) are not part of the model. Each is a plausible mistake in the
definition that follows it; `PROJECT.json` lists which property fails when the
slip takes the definition's place.

## Runs

`MCRiskScan.cfg` runs six properties of `RiskScan`:

- `TypeOK`;
- `ResourceNeverConvicts`: an alertable finding has positive evidence that is
  not resource usage;
- `DnsNeverStandsAlone`: what is reported on a host with bad DNS entries had
  evidence of its own worth at least the difference;
- `NoSilentPressure`: a process under load is alerted, or listed as withheld, or
  the list is full of findings that score at least as high. `rules.py:186-188`
  means more: no deliberate non-alert should be silent. With the list cut at ten
  the eleventh is (and a scan on the command line prints the capped ones only);
- `DemoFleetVerdicts`: on each demo host the worst finding has the severity of
  the README's table, the miner is reported (and on the server the downloader in
  the crontab), no process beside it is, and only the answer of the build server
  lists findings as withheld;
- `EvidenceOnlyRaises`: no step lowers the score of a process.

Bounds: a name, a path and a domain for each class the code distinguishes, and
those of the demo fleet; seven kinds of socket, five autostart entries, four
CPU readings on both sides of each threshold; up to `MaxEvidence = 2` pieces of
evidence on a bare host with one or two processes (the demo hosts have theirs
from the start and take more load only). `ListLimit = 1` makes the list of
withheld findings overflow on the build server, which has two. Rules read
sockets one by one and entries one by one, so two or three of each reach every
combination of signals.

| Run | Properties | Instance |
| --- | --- | --- |
| `MCIngestTwoWorkers` | `UniqueOpen`, `ObservationsCounted`, `ResolvesOnlyQuiet`, `HistoryIsKept`, `SettledIsFinal`, `WrittenRollupIsRight`, `ImplementsAlertQueue` | two workers on one host, a fingerprint with two processes, an analyst |
| `MCIngestPrune` | `TypeOK`, `EvidenceRetained` | two workers, two hosts, a fingerprint and an autostart entry, retention of one tick, a failure or restart |
| `MCIngestLive` | `ReportsEnd`, `QuietQueueDrains` | two workers, a failure or restart, fairness |

`ObservationsCounted` says of the rows of a fingerprint that a running total over
their counts ends at the number of committed assessments (`AddUpTo`).
`WrittenRollupIsRight` is what is true of the rollup where reports overlap: one
that is sent covers what its commit leaves open. That the rollup on record covers
the open detections is not (`MCIngestRollup`, below). `SettledIsFinal` says that
a report writes no column of a detection that was settled before the host's
previous report came in; what an analyst settles while a report runs may still
be written over.

Bounds: a tick is 450 seconds or more; `STALE = 1` and a clock of two
ticks give a detection time to be opened, refreshed, go stale and be resolved,
and a report time to be overtaken. `MaxObserved` bounds how often a fingerprint
is reported (its guard is in `SelectHost`), `MaxFailures` the failures: one in
the runs of pruning and liveness, none in `MCIngestTwoWorkers`, where a report
that fails leaves no trace but `_last_prune` and the theorems cover it. The
conflicts of interest are between two reports, or a report and an analyst, over
one row, so two workers and one host are enough; pruning needs a second host,
because a report prunes the rows of all, and a report of that host running at
the same time, whose rows the pruning one does not see. Nothing tells workers or
hosts apart, so the safety runs take them as symmetric. Deadlock is not checked: the clock and
the number of reports are bounded, so every run stops.

Fairness (`ReportingSpec`): strong fairness of each worker's next statement,
because a worker thread is scheduled and the database grants a row lock in the
order of its queue; weak fairness of the clock; and, for the host in question,
that its agent reports whenever a worker is free, again and again, as
`run_forever` does. Nothing is assumed of failures; the run has one.

`MCReverseResolver.cfg` runs `TypeOK`, `PendingBounded`, `OncePerAddress`,
`DrainIsHonest`, `QueuedSettles`, `AskedOftenSettles` and
`ImplementsNameService` (no answer is replaced). Four addresses, two
threads and room for two pending addresses make a poll find the resolver full;
one poll asks twice for one address; starting a thread may fail once, which
takes one of the two places for good. With as many failures as places nothing
would be looked up any more, so `AskedOftenSettles` is a statement about fewer
failures than that. Deadlock is checked: the resolver never stops. Fairness
(`FairSpec`): weak fairness of the sampling thread inside `lookup` and of every
worker, because threads are scheduled and `gethostbyaddr` returns, late but
always. When polls happen is left open; `AskedOftenSettles` says which it needs.

`MCProcessSampler.cfg` runs `TypeOK`, `SustainedIsLived` (no credit for CPU a
process has not lived), `SpellIsCounted` (nothing of a spell is lost after the
first reading that could see it), `RowsNameTheirProcess` and
`ImplementsNameTable`. One pid is enough,
because nothing in the sampler relates two of them but the poll they share;
three processes let a pid change hands twice. `MaxGap = 2 < ReuseAfter = 3` is
the condition of three of the properties, at its edge; a clock of 4 lets a state
outlive a process and a spell span three polls.

`MCNetworkSampler.cfg` runs `TypeOK`, `DurationIsUse`, `SessionsAreOpenings`,
`RepeatsAreRecognised` and `EndpointsAreForgotten`. Keys are independent as
well. The gaps 3 and 8 are those of the code, with one interval to a tick;
`MaxGap = 3` is the largest for which `SessionsAreOpenings` is promised, `Cap =
13` is past every threshold and past `Bridge`; three openings and two empty
polls exceed what one use needs to be counted twice.

`MCAgent.cfg` runs `TypeOK`, `EvidenceIsOwned`, `SelectionIsRight` and
`LastingEvidenceArrives`. Two pids with a limit of one make the limit bite while
one process is interesting or owns a connection and the other does not; three
processes let a pid change hands between the two halves of a snapshot. The
safety properties also hold with three pids (3.9 million states).
Fairness (`LiveSpec`): weak fairness of the agent's steps, because its one
thread runs and every call it makes returns or times out. Nothing is assumed of
the system or the server. `LastingEvidenceArrives` therefore has as premises
that the calls succeed from some point on and that no answer was other than
JSON. Deadlock is checked in these three: the agent never stops the system.

Runs that are expected to fail, each on a statement of the repository:

| Run | Statement | What happens |
| --- | --- | --- |
| `MCIngestSuppress` | README: a false positive suppresses its fingerprint | the lookup asks for open rows only, so the same evidence opens a new detection |
| `MCIngestRollup` | `models.py`: the rollup of the worst open detection | two overlapping reports; the second computes the value it had loaded, sends no UPDATE, and the first one's lower value stays |
| `MCIngestVerdict` | README: a false positive suppresses | a report that has read the detection as open resolves it over the verdict; the alert keeps the verdict, so the two disagree |
| `MCProcessReuse` | `processes.py`, `enrich`: a reused pid's row is dropped | the creation time is compared with itself, so the row is reported under the name of the predecessor |

More departures from what the repository says are in the model without a run of
their own, and in `PROJECT.json` under the hazards: the list of withheld findings
ends after ten, a host that falls silent keeps its stale detections, an empty
list of autostart entries leaves the old ones, the listing process by process
fails as soon as it finds a connection, and any process with the file name of a
suspicious entry's target keeps the entry from being reported on its own.

## Proofs

Every theorem below holds for all values of the constants that satisfy the
named assumptions of the module it is about; TLC evaluates those assumptions in
the runs. The theorems name the definitions that the runs check, and none has a
further hypothesis.

`RiskEngineProofs` (for any indicators, thresholds and hosts, from the
assumptions of `RiskEngine` and `RiskScan`; `PidsAssumption` says that a report
lists no pid twice, as the sampler's dictionary sees to):

- `ScoreIsMonotone`: adding positive signals never lowers a score. The sum is
  taken class by class, so it is monotone term by term, and corroboration can
  only be gained.
- `NoResourceConviction`: `Spec => []ResourceNeverConvicts`. Every finding is
  `Finalize` of some set of signals (`Scanned`: `found = EvaluateHost(host)`),
  and without corroboration `Score` is at most 24.
- `ScanTypes`: `Spec => []TypeOK`. The host stays one that the engine is defined
  on and lists every pid once (`HostOK`), and each rule group returns kinds of
  the rule table.
- `EvidenceRaisesScores`: `Spec => EvidenceOnlyRaises`. Not a corollary of
  `ScoreIsMonotone`, because rules take signals away as evidence comes in: a
  longer load replaces `elevated_cpu` by `sustained_cpu`, and a connection can
  move a process to the browser reading, which drops one signal and adds
  another. A set of signals outweighs another (`Outweighs`) when it lacks at most
  mitigations and an `elevated_cpu` that `sustained_cpu` stands in for, and
  brings no mitigation of its own; the signals after a step outweigh those
  before it, and what outweighs scores no lower.
- `DnsOnlyReinforces`: `Spec => []DnsNeverStandsAlone`, from `Scanned`, `HostOK`
  (the score of a pid is that of one process) and the most that merged DNS
  signals can add.
- `PressureIsSurfaced`: `Spec => []NoSilentPressure`, and
  `ShortListsHideNothing`: on a host with no more withheld findings than the list
  holds, every process under load is alerted or listed. No later rule group
  removes a resource signal, and with one among its positive signals a finding is
  withheld when it stays below the alert threshold (`PressureIsHeld`); a list
  that is not full is the whole of what is withheld, and a full one was cut in
  the order of the scores.

`IngestPipelineProofs` (for any hosts, fingerprints, reports, workers and time
constants, from `IngestAssumption` only):

- `TypeCorrect`: `Spec => []TypeOK`, one lemma for each action that builds a
  transaction or publishes one.
- `SettledForGood`: `Spec => HistoryIsKept`. A transaction updates, resolves and
  appends (`WrittenKeeps`), the foreign key only touches the reference
  (`DetachKeeps`), an analyst never opens a row (`PatchKeeps`).
- `OneOpenDetection`: `Spec => []UniqueOpen`. `UniqueOpen` is not inductive: a
  report decides to insert long before it commits. `IInv` adds that two
  transactions past the lock have different hosts (`LockInv`) and that a lookup
  that found nothing is still right while its transaction holds the lock
  (`LookupInv`). The lock is the whole reason: `NoRowLock` breaks it.

`IngestRefinementProofs` (from `IngestAssumption` only):

- `Refinement`: `Spec => ImplementsAlertQueue`. `RInv` carries what a report has
  read to its commit: a row it found open is still the newest of its fingerprint
  and, unless its fingerprint is overruled, still open (`StillNewest`); its count
  is still the one it read (`ReadsHold`); so a commit is a step of the queue, the
  one whose twins a verdict has split included; what it is about to resolve has still not been
  confirmed for the stale time (`JudgementHolds`). Other workers keep this
  because they cannot write that host (`LockInv`), the analyst because what it
  changes becomes overruled.
- `ResolvedIsQuiet`: `Spec => ResolvesOnlyQuiet`, from the same invariant.

`IngestEvidenceProofs` (from `IngestAssumption`, on top of `RInv` and `TypeOK`):

- `NoObservationLost`: `Spec => []ObservationsCounted`, with any number of
  overlapping reports. A commit appends a row or raises the count of the newest,
  which carries the running total on (`LongerTotal`, `RaisedTotal`); that the
  count it adds to is still the one on record, and not one read before another
  report's commit, is `RInv`.
- `EvidenceIsRetained`: `Spec => EvidenceRetained`, with any number of
  overlapping reports of any hosts. `DoomedInv` says of a report that has issued
  its DELETE and not yet committed that no row but those it writes itself refers
  to what it deleted, and no other running report is about to store a reference
  to it: what was committed is looked for, and what was not is out of its sight.
- `SettledStays`: `Spec => SettledIsFinal`. A report writes a settled row only if
  it read it as open, and then its fingerprint is overruled (`RInv`); the foreign
  key changes no row either (`DoomedInv`).
- `WrittenRollupCovers`: `Spec => WrittenRollupIsRight`. `WorstInv` says that from
  `refresh_host_risk` to the commit the rollup of a report covers the rows its
  commit leaves open. An analyst settles rows meanwhile and opens none; another
  report of the host waits for the lock. If the UPDATE was not sent, and the
  rollup on record is still the one that was loaded, it has that value anyway.
`ProcessSamplerProofs` (for any pids, processes and time constants, from
`SamplerAssumption` only):

- `TypeCorrect`, `CreditIsLived`, `SpellsAreCounted` and `RowsAreRight`: the
  invariants of the run. `IInv` adds to them that a state outlives its process
  by no more than `gap`, during which the pid is vacant (`HandleInv`); so a pid
  that has been vacant for `ReuseAfter > MaxGap` has no state when it is given
  away.
- `SamplerIsNameTable`: `Spec => ImplementsNameTable`, one lemma per action. A
  step that reads is a `Sample` or an `Abandon` of the processes whose names it
  loaded (`PolledName`). A process that starts needs that no poll is more than
  `MaxGap` after the last: a pid that may be given away again has been vacant for
  longer than `gap` and is no longer among the `freed`. A tick is a
  stutter.

`NetworkSamplerProofs` (for any keys, gaps and bounds, from `NetworkAssumption`
only): `TypesHold`, `NothingIsKept`, `SessionsAreReal`, `DurationsAreReal` and
`RepeatsAreFound`. `NetInv` says of each key that an endpoint is no older than
its use and was out of sight for at most `ForgetAfter + gap` (`KeptKey`), that
a key without one was not seen for long (`ForgottenKey`), and that a key which
is open but was not in the last complete poll has an opening or an empty poll
that is not yet counted (`CountedKey`), without which `SessionsAreOpenings` is
not inductive.

`AgentProofs` (for any pids, destinations and limit, from `AgentAssumption`
only): `TypesAreRight`, `EvidenceNeverMoves` (`Spec => []EvidenceIsOwned`) and
`NothingIsLostToTheLimit` (`Spec => []SelectionIsRight`). The invariant is that
every cached or sampled name is that of the process which holds the pid, or of
one that held it and whose pid has rested since (`NamesHold`). What it needs of
the process sampler is what `SamplerIsNameTable` shows of it.

`ReverseResolverProofs` (for any addresses, threads, limit and polls, from
`ResolverAssumption` only):

- `ResolverTypes`: `Spec => []TypeOK`.
- `OneLookup`: `Spec => []OncePerAddress`, and `DrainedMeansDone`:
  `Spec => []DrainIsHonest`. Both follow from `IInv`: an address that is being
  asked for, queued or looked up is in one of these places only, it is pending
  and not settled (`PlacesInv`), the queue has no duplicates, no two workers
  have one address, and an address that was looked up is settled or still with
  its worker. `OncePerAddress` alone is not inductive: it says nothing of what
  is queued.
- `LimitHolds`: `Spec => []PendingBounded`, from the finiteness of `pending`.
- `ResolverIsNameService`: `Spec => ImplementsNameService`. That a worker's
  address still waits and has no answer yet is `PlacesInv`; every step but
  `MakePending` and `Settle` changes neither what waits nor what is answered.

Only model-checked: the liveness properties (`ReportsEnd`, `QuietQueueDrains`,
`QueuedSettles`, `AskedOftenSettles`, `LastingEvidenceArrives`), because fairness
and ENABLED are out of the provers' reach; `DemoFleetVerdicts`, which is about
particular hosts; and the four runs that end in a counterexample, of whose
statements (`SuppressionHolds`, `RollupCovers`, `VerdictSurvives`,
`ReportsAreConfirmed`) nothing is proved. What is true of the rollup and of
settled detections all the same is `WrittenRollupCovers` and `SettledStays`.
Nothing is proved about the constants that stand for the indicator tables beyond
what `RiskEngine` assumes of them.

## Not modelled

- The string matching behind the indicators, the text of reasons, the response
  shapes, the dashboard and the command line hold no state that the properties
  speak of.
- The readers of DNS, GPU and autostart data parse the output of other tools
  and keep nothing. The routes of the API are not in the sources. The feed of
  indicators is read once.
- In the samplers: averages of CPU, memory and parent names, which no rule uses
  over time; an `exec`, which changes the program of a process without changing
  its pid or creation time and which nothing in the code could notice.
- In the agent: the slow sources (read every 300 seconds) and the one-shot
  snapshot of the command line, which add evidence to a snapshot without
  touching the join of processes and connections; connections that have no pid
  are kept, but are not told apart.
- Agent and pipeline are not composed: the pipeline ignores `collected_at` and
  orders reports by their commits, so what an agent sends enters it as any
  element of `Payloads`.

## Plan

Done: the engine and the pipeline, the resolver, both samplers, the agent, the
alert queue, the name table and the name service with their refinements, and a
proof of every invariant and action property that a passing run checks, but for
`DemoFleetVerdicts`. Left:

1. the slow sources of the agent, and what a failed one leaves in the next
   snapshots;
2. the agent composed with the pipeline: which snapshot's evidence an alert
   carries when an upload that timed out commits late;
3. an abstract specification of the connections a snapshot lists, implemented by
   `NetworkSampler` and used by `Agent` as `NameTable` is.
