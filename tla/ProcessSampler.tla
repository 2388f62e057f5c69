---------------------------- MODULE ProcessSampler ----------------------------
(***************************************************************************)
(* The process sampler of the agent, collector/processes.py, over the      *)
(* process table of the operating system.                                  *)
(*                                                                         *)
(* The sampler polls; between polls processes start, exit and have their   *)
(* pids given to others.  All it keeps of a process is filed under its     *)
(* pid.  Processes are numbered in the order in which they start, so that  *)
(* a number stands for what is never reused: a handle with its creation    *)
(* time, or the name, path and command line read through it.               *)
(*                                                                         *)
(* Time is counted in ticks; clocks stop at Cap.                           *)
(***************************************************************************)
EXTENDS Integers

CONSTANTS
  Pids,
  MaxProcesses,  \* bound on the processes that ever start
  Cap,           \* bound on the clocks
  MaxGap,        \* longest time between two complete polls
  ReuseAfter     \* time for which the system does not reuse a freed pid

ASSUME SamplerAssumption ==
  /\ {MaxProcesses, Cap, MaxGap, ReuseAfter} \subseteq Nat
  /\ Cap > 0

VARIABLES
  running,  \* per pid, the process that holds it, or Nobody
  started,  \* the number of processes started so far
  vacant,   \* per pid, how long it has been free
  age,      \* per pid, how long its process has run
  pegged,   \* per pid, how long its process has used elevated CPU without pause
  states,   \* _state
  rows,     \* what the last poll returned
  gap,      \* time since the last complete poll
  missed    \* history: per pid, what of the present spell of elevated CPU had
            \* passed when a reading could first see it

table == <<running, started, vacant>>
vars == <<running, started, vacant, age, pegged, states, rows, gap, missed>>

Nobody == 0
Clock == 0 .. Cap
Later(clock) == IF clock < Cap THEN clock + 1 ELSE Cap
Plus(m, n) == IF m + n < Cap THEN m + n ELSE Cap

Processes == 1 .. MaxProcesses
LivePids == {p \in Pids : running[p] # Nobody}

\* A _ProcState:
\*   process   the one its handle was opened for, whose creation time it has
\*   baseline  whether the handle has a CPU reading to compare the next with
\*   name      the process whose name, path and command line are cached
\*   since     time since last_sample
NoState == [process |-> Nobody]
State == [process : Processes, baseline : BOOLEAN, name : Processes \cup {Nobody},
          sustained : Clock, since : Clock]

Row == [pid : Pids, name : Processes, busy : BOOLEAN, sustained : Clock]

-----------------------------------------------------------------------------
(* One process in a poll.                                                  *)

\* _state_for, when the handle can be opened.
StateFor(p) ==
  IF states[p] # NoState THEN states[p]
  ELSE [process |-> running[p], baseline |-> FALSE, name |-> Nobody,
        sustained |-> 0, since |-> 0]

\* A reading over an interval the process spent at elevated CPU.
AllBusy(p) ==
  LET s == StateFor(p)
  IN  /\ s.baseline /\ s.process = running[p]
      /\ 0 < s.since /\ s.since < Cap /\ s.since <= pegged[p]

\* What may come of p in a poll: its handle cannot be opened or read, or the
\* reading is below the threshold or elevated.  The first reading of a handle
\* is 0; one taken from two processes, or at no distance, may be anything.
Outcomes(p) ==
  (IF states[p] = NoState THEN {"unopened"} ELSE {}) \cup {"unread"} \cup
  (IF ~StateFor(p).baseline THEN {"idle"}
   ELSE IF AllBusy(p) THEN {"busy"} ELSE {"idle", "busy"})

\* Slips: last_sample set before the reading, and not set at all.
ReadTooEarly(p, outcome, named) ==
  LET s == StateFor(p)
  IN  CASE outcome = "unopened" -> NoState
        [] outcome = "unread" -> [s EXCEPT !.since = 0]
        [] OTHER -> [s EXCEPT !.baseline = TRUE, !.since = 0,
                       !.sustained = IF outcome = "busy" THEN Plus(@, s.since) ELSE 0,
                       !.name = IF named /\ @ = Nobody THEN running[p] ELSE @]
ReadAndKept(p, outcome, named) ==
  LET s == StateFor(p)
  IN  CASE outcome = "unopened" -> NoState
        [] outcome = "unread" -> s
        [] OTHER -> [s EXCEPT !.baseline = TRUE,
                       !.sustained = IF outcome = "busy" THEN Plus(@, s.since) ELSE 0,
                       !.name = IF named /\ @ = Nobody THEN running[p] ELSE @]

\* The body of the loop of sample: the state it leaves.  Static attributes are
\* loaded once, and not when the process is gone or access to it is denied.
Read(p, outcome, named) ==
  LET s == StateFor(p)
  IN  CASE outcome = "unopened" -> NoState
        [] outcome = "unread" -> s
        [] OTHER -> [s EXCEPT !.baseline = TRUE, !.since = 0,
                       !.sustained = IF outcome = "busy" THEN Plus(@, s.since) ELSE 0,
                       !.name = IF named /\ @ = Nobody THEN running[p] ELSE @]

\* How much of the present spell the readings of p have missed.
MissedBy(p, outcome) ==
  IF outcome \in {"unopened", "unread"} \/ AllBusy(p) THEN missed[p] ELSE pegged[p]

\* A slip: a process whose name could not be read is reported.
HasReading(outcome, state) == outcome \in {"idle", "busy"}

\* Only a process that was read and whose attributes are known has a row.  The
\* code also drops the rows of idle pseudo-processes; the model keeps them.
HasRow(outcome, state) == outcome \in {"idle", "busy"} /\ state.name # Nobody

-----------------------------------------------------------------------------
(* The sampler.                                                            *)

\* A slip: states are never deleted.
NoneStale == {}

\* The pids whose states a poll deletes.
Stale == Pids \ LivePids

\* sample.
Sample ==
  \E outcome \in [LivePids -> UNION {Outcomes(p) : p \in LivePids}],
     named \in SUBSET LivePids :
    /\ \A p \in LivePids : outcome[p] \in Outcomes(p)
    /\ states' = [p \in Pids |->
         IF p \in LivePids THEN Read(p, outcome[p], p \in named)
         ELSE IF p \in Stale THEN NoState ELSE states[p]]
    /\ rows' = {[pid |-> p, name |-> states'[p].name, busy |-> outcome[p] = "busy",
                 sustained |-> states'[p].sustained] :
                  p \in {q \in LivePids : HasRow(outcome[q], states'[q])}}
    /\ missed' = [p \in Pids |->
         IF p \in LivePids THEN MissedBy(p, outcome[p]) ELSE missed[p]]
    /\ gap' = 0
    /\ UNCHANGED <<table, age, pegged>>

\* An error that sample does not handle: the pids it has come to are read, no
\* state is deleted, and the snapshot is lost (run_forever goes on).
SampleFails ==
  \E reached \in SUBSET LivePids :
    \E outcome \in [reached -> UNION {Outcomes(p) : p \in reached}], named \in SUBSET reached :
      /\ \A p \in reached : outcome[p] \in Outcomes(p)
      /\ states' = [p \in Pids |->
           IF p \in reached THEN Read(p, outcome[p], p \in named) ELSE states[p]]
      /\ missed' = [p \in Pids |->
           IF p \in reached THEN MissedBy(p, outcome[p]) ELSE missed[p]]
      /\ rows' = {}
      /\ UNCHANGED <<table, age, pegged, gap>>

\* enrich compares the creation time of a handle with that in its state.
\* psutil reads it from the system once, when the handle is opened, and
\* afterwards returns that value.
CreationTime(handle) == handle
Verified(reported) ==
  {row \in reported : states[row.pid] = NoState \/
                      CreationTime(states[row.pid].process) = states[row.pid].process}

-----------------------------------------------------------------------------
(* The system.                                                             *)

Start(p) ==
  /\ running[p] = Nobody /\ vacant[p] >= ReuseAfter
  /\ started < MaxProcesses
  /\ started' = started + 1
  /\ running' = [running EXCEPT ![p] = started']
  /\ vacant' = [vacant EXCEPT ![p] = 0]
  /\ UNCHANGED <<age, pegged, states, rows, gap, missed>>

Exit(p) ==
  /\ running[p] # Nobody
  /\ running' = [running EXCEPT ![p] = Nobody]
  /\ age' = [age EXCEPT ![p] = 0]
  /\ pegged' = [pegged EXCEPT ![p] = 0]
  /\ missed' = [missed EXCEPT ![p] = 0]
  /\ UNCHANGED <<started, vacant, states, rows, gap>>

\* Time passes, during which some processes use elevated CPU.
Tick ==
  /\ gap < MaxGap
  /\ \E hot \in SUBSET LivePids :
       /\ pegged' = [p \in Pids |-> IF p \in hot THEN Later(pegged[p]) ELSE 0]
       /\ missed' = [p \in Pids |-> IF p \in hot THEN missed[p] ELSE 0]
  /\ age' = [p \in Pids |-> IF p \in LivePids THEN Later(age[p]) ELSE 0]
  /\ vacant' = [p \in Pids |->
       IF p \notin LivePids /\ vacant[p] < ReuseAfter THEN vacant[p] + 1 ELSE vacant[p]]
  /\ states' = [p \in Pids |->
       IF states[p] = NoState THEN NoState ELSE [states[p] EXCEPT !.since = Later(@)]]
  /\ gap' = gap + 1
  /\ UNCHANGED <<running, started, rows>>

\* The agent starts with some processes running, and prime takes a first
\* reading of those it can open.
Init ==
  /\ started \in Processes \cup {0}
  /\ running \in [Pids -> 0 .. started]
  /\ \A p, q \in LivePids : running[p] = running[q] => p = q
  /\ \E opened \in SUBSET LivePids : \E primed \in SUBSET opened :
       states = [p \in Pids |->
         IF p \notin opened THEN NoState
         ELSE [process |-> running[p], baseline |-> p \in primed, name |-> Nobody,
               sustained |-> 0, since |-> 0]]
  /\ vacant = [p \in Pids |-> IF p \in LivePids THEN 0 ELSE ReuseAfter]
  /\ age = [p \in Pids |-> 0]
  /\ pegged = [p \in Pids |-> 0]
  /\ missed = [p \in Pids |-> 0]
  /\ rows = {}
  /\ gap = 0

Environment == Tick \/ \E p \in Pids : Start(p) \/ Exit(p)

Next == Sample \/ SampleFails \/ Environment

Spec == Init /\ [][Next]_vars

-----------------------------------------------------------------------------
(* What the samples promise.                                               *)

TypeOK ==
  /\ running \in [Pids -> Processes \cup {Nobody}]
  /\ started \in Processes \cup {0}
  /\ vacant \in [Pids -> 0 .. ReuseAfter]
  /\ age \in [Pids -> Clock]
  /\ pegged \in [Pids -> Clock]
  /\ states \in [Pids -> State \cup {NoState}]
  /\ rows \subseteq Row
  /\ gap \in 0 .. MaxGap
  /\ missed \in [Pids -> Clock]

\* _ProcState: name, path and command line are read once and reused for the
\* life of a pid.  As long as pids rest for longer than polls are apart, no row
\* carries those of a process that held the pid before.
RowsNameTheirProcess ==
  [][MaxGap < ReuseAfter /\ Sample => \A row \in rows' : row.name = running[row.pid]]_vars

\* No process is credited with more sustained CPU than it has lived, whatever
\* readings failed and whoever held the pid before.
SustainedIsLived ==
  MaxGap < ReuseAfter =>
    \A p \in LivePids : states[p] # NoState =>
      Plus(states[p].sustained, states[p].since) <= age[p]

\* cpu_sustained_seconds, "the time the process has stayed continuously above
\* the elevated-CPU threshold", loses nothing of a spell after the first reading
\* that could see it: the next reading makes up for those that failed.
SpellIsCounted ==
  \A p \in LivePids :
    LET s == states[p]
    IN  s # NoState /\ s.baseline /\ s.process = running[p] =>
          pegged[p] <= s.sustained + s.since + missed[p]

\* Statement of enrich: the identity of the reported processes is confirmed, and
\* a row whose pid was reused is dropped rather than report the wrong process.
ReportsAreConfirmed ==
  [][Sample => \A row \in Verified(rows)' : row.name = running[row.pid]]_vars

-----------------------------------------------------------------------------
(* What the agent builds upon.                                             *)

\* The process whose name a state keeps.
NameIn(state) == IF state = NoState THEN Nobody ELSE state.name

\* The pids that were freed since the last complete poll.
Freed == {p \in Pids \ LivePids : MaxGap < ReuseAfter /\ vacant[p] <= gap}

NT == INSTANCE NameTable WITH
        PidsRest <- MaxGap < ReuseAfter,
        freed <- Freed,
        known <- [p \in Pids |-> NameIn(states[p])],
        named <- {<<row.pid, row.name>> : row \in rows}

\* The sampler is the table of names that Agent is built upon: whatever
\* readings fail, a name is loaded once, from the process that holds the pid,
\* and kept until a poll sees the pid free; and while pids rest for longer than
\* polls are apart, such a poll comes before the pid is used again.
ImplementsNameTable == NT!Spec
=============================================================================
