------------------------------- MODULE NameTable -------------------------------
(***************************************************************************)
(* What the process sampler promises the agent: under which name it        *)
(* reports a pid.                                                          *)
(*                                                                         *)
(* A name is loaded from the process that holds the pid and is kept until  *)
(* a complete sample finds the pid free.  ProcessSampler implements this   *)
(* with its states and clocks; Agent is built upon it.                     *)
(***************************************************************************)
EXTENDS Integers

CONSTANTS
  Pids,
  MaxProcesses,  \* bound on the processes that ever start
  PidsRest       \* whether a freed pid rests until a sample has seen it free

VARIABLES
  running,  \* per pid, the process that holds it, or Nobody
  started,  \* the number of processes started so far
  freed,    \* if pids rest, those that do
  known,    \* per pid, the process whose name is kept
  named     \* pairs of a pid the last sample reported and the name it gave it

Nobody == 0
Processes == 1 .. MaxProcesses
LivePids == {p \in Pids : running[p] # Nobody}

\* The name kept for p once the names of `loaded` were read.
Loaded(p, loaded) == IF known[p] = Nobody /\ p \in loaded THEN running[p] ELSE known[p]

\* A slip: the name of a vacant pid is kept.
KeptAfter(loaded) == [p \in Pids |-> Loaded(p, loaded)]

\* The names that are kept after a complete sample.
KnownAfter(loaded) == [p \in Pids |-> IF p \in LivePids THEN Loaded(p, loaded) ELSE Nobody]

\* A slip: a process whose name could not be loaded is reported.
NamedUnloaded(read, loaded) == {<<p, KnownAfter(loaded)[p]>> : p \in read}

\* What it reports: of the processes it could read, those with a name.
NamedAfter(read, loaded) ==
  {<<p, KnownAfter(loaded)[p]>> : p \in {q \in read : KnownAfter(loaded)[q] # Nobody}}

\* A complete sample.  A pid may rest for longer.
Sample ==
  \E read \in SUBSET LivePids : \E loaded \in SUBSET read :
    /\ known' = KnownAfter(loaded)
    /\ named' = NamedAfter(read, loaded)
    /\ freed' \in SUBSET freed
    /\ UNCHANGED <<running, started>>

\* The names that are kept after a sample that failed.
PartlyKnown(loaded) == [p \in Pids |-> Loaded(p, loaded)]

\* The sample is given up, while it is taken or later.
Abandon ==
  /\ \E loaded \in SUBSET LivePids : known' = PartlyKnown(loaded)
  /\ named' = {}
  /\ UNCHANGED <<running, started, freed>>

Start(p) ==
  /\ running[p] = Nobody
  /\ PidsRest => p \notin freed
  /\ started < MaxProcesses
  /\ started' = started + 1
  /\ running' = [running EXCEPT ![p] = started']
  /\ UNCHANGED <<freed, known, named>>

Exit(p) ==
  /\ running[p] # Nobody
  /\ running' = [running EXCEPT ![p] = Nobody]
  /\ freed' = IF PidsRest THEN freed \cup {p} ELSE freed
  /\ UNCHANGED <<started, known, named>>

Init ==
  /\ started \in Processes \cup {0}
  /\ running \in [Pids -> 0 .. started]
  /\ \A p, q \in LivePids : running[p] = running[q] => p = q
  /\ freed = {}
  /\ known = [p \in Pids |-> Nobody]
  /\ named = {}

Next == Sample \/ Abandon \/ \E p \in Pids : Start(p) \/ Exit(p)

Spec == Init /\ [][Next]_<<running, started, freed, known, named>>
=============================================================================
