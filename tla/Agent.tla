-------------------------------- MODULE Agent --------------------------------
(***************************************************************************)
(* The agent, collector/agent.py: it samples the processes, then lists the *)
(* connections, trims the processes to those worth reporting, and uploads  *)
(* both as a snapshot, from which the server attaches each connection to   *)
(* the process reported under its pid.                                     *)
(*                                                                         *)
(* The two samples are taken at different times, and processes start, exit *)
(* and connect between them.  The samplers have modules of their own; here *)
(* a process has the name its sampler has cached for the pid and is or is  *)
(* not interesting, and a connection has an owner and a destination.       *)
(***************************************************************************)
EXTENDS Integers, FiniteSets

CONSTANTS
  Pids,
  Dests,
  MaxProcesses,  \* bound on the processes that ever start
  Limit,         \* collector_top_processes
  PidsRest       \* whether a freed pid rests until a poll has seen it free

ASSUME AgentAssumption ==
  /\ MaxProcesses \in Nat /\ Limit \in Nat
  /\ IsFiniteSet(Pids) /\ Pids \cap Nat = {}
  /\ PidsRest \in BOOLEAN

VARIABLES
  running,    \* per pid, the process that holds it, or Nobody
  started,    \* the number of processes started so far
  freed,      \* if pids rest, those that have not been seen free
  sockets,    \* pairs of a process and a destination it is connected to
  calm,       \* whether everything the agent calls succeeds at present
  pc,         \* where run_forever is
  known,      \* per pid, the process whose name the sampler has cached
  processes,  \* snapshot's processes
  payload,    \* snapshot's result
  delivered   \* history: the connections that the last snapshot the server
              \* got attaches to a process of that name

system == <<running, started, freed, sockets, calm>>
vars == <<system, pc, known, processes, payload, delivered>>

Nobody == 0
NoPid == 0
Processes == 1 .. MaxProcesses
LivePids == {p \in Pids : running[p] # Nobody}
Alive == {running[p] : p \in LivePids}

Row == [pid : Pids, name : Processes, interesting : BOOLEAN]
\* owner is not in the record of the agent; it is the process that is connected.
Connection == [pid : Pids \cup {NoPid}, owner : Processes, dest : Dests]
Nothing == [rows |-> {}, connections |-> {}]

-----------------------------------------------------------------------------
(* Sampling.                                                               *)

\* The names of the processes and what the sampler keeps of them.
NT == INSTANCE NameTable WITH named <- {<<r.pid, r.name>> : r \in processes}

\* processes.sample, the first step of a snapshot.
SampleProcesses ==
  /\ pc = "sleeping"
  /\ \E read, busy \in SUBSET LivePids : \E loaded \in SUBSET read :
       /\ calm => loaded = LivePids
       /\ known' = NT!KnownAfter(loaded)
       /\ processes' = {[pid |-> n[1], name |-> n[2], interesting |-> n[1] \in busy] :
                          n \in NT!NamedAfter(read, loaded)}
  /\ freed' \in SUBSET freed
  /\ pc' = "sampled"
  /\ UNCHANGED <<running, started, sockets, calm, payload, delivered>>

\* What network.sample lists of the visible connections: those of other users
\* come without their pid.
Listed(visible, anonymous) ==
  {[pid |-> IF c \in anonymous THEN NoPid ELSE CHOOSE p \in LivePids : running[p] = c[1],
    owner |-> c[1], dest |-> c[2]] : c \in visible}

Interesting(rows) == {r \in rows : r.interesting}

\* A slip: the interesting processes take no slots.
SlotsForTheRest(rows) ==
  {Interesting(rows) \cup rest : rest \in
     {some \in SUBSET (rows \ Interesting(rows)) : Cardinality(some) <= Limit}}

\* select_reportable, for some order of the others by their CPU.
Selections(rows) ==
  LET others == rows \ Interesting(rows)
      slots  == IF Limit > Cardinality(Interesting(rows))
                THEN Limit - Cardinality(Interesting(rows)) ELSE 0
  IN  {Interesting(rows) \cup rest : rest \in
         {some \in SUBSET others :
            Cardinality(some) = IF slots < Cardinality(others) THEN slots
                                ELSE Cardinality(others)}}

\* A slip: the owners of the connections are not added.
NoOwners(rows, connections) == {}

\* The processes that own a connection.
Owners(rows, connections) ==
  {r \in rows : \E c \in connections : c.pid # NoPid /\ c.pid = r.pid}

\* The rest of snapshot: network.sample, the selection and its enrichment,
\* which drops no row (see ProcessSampler).  A refused listing is empty, or a
\* failure.
TakeSnapshot ==
  /\ pc = "sampled"
  /\ \E visible \in {sockets, {}} : \E anonymous \in SUBSET visible :
       LET connections == Listed(visible, anonymous)
       IN  /\ calm => visible = sockets /\ anonymous = {}
           /\ \E selected \in Selections(processes) :
                payload' = [rows |-> selected \cup Owners(processes, connections),
                            connections |-> connections]
  /\ pc' = "uploading"
  /\ UNCHANGED <<system, known, processes, delivered>>

\* A failure of either sampler: the snapshot is given up.  The process sampler
\* has then loaded some names and has deleted none.
SnapshotFails ==
  /\ pc \in {"sleeping", "sampled"} /\ ~calm
  /\ \E loaded \in SUBSET LivePids :
       /\ pc = "sampled" => loaded = {}
       /\ known' = NT!PartlyKnown(loaded)
  /\ pc' = "sleeping"
  /\ processes' = {}
  /\ UNCHANGED <<system, payload, delivered>>

-----------------------------------------------------------------------------
(* Uploading.                                                              *)

\* The connections that the server attaches to a process, by the pid.
Attached(snapshot) ==
  {<<c.owner, c.dest>> : c \in
     {d \in snapshot.connections :
        \E r \in snapshot.rows : r.pid = d.pid /\ r.name = d.owner}}

\* post_snapshot: the server answers; or there is an error of HTTP, a timeout
\* among them, which leaves open whether the server has the snapshot; or the
\* answer is no JSON, an error that run_forever does not handle.
Upload ==
  /\ pc = "uploading"
  /\ \E outcome \in {"answered", "error", "no JSON"}, got \in BOOLEAN :
       /\ calm => outcome = "answered"
       /\ outcome = "answered" => got
       /\ pc' = CASE outcome = "answered" -> "sleeping"
                  [] outcome = "error" -> "sleeping"
                  [] OTHER -> "crashed"
       /\ delivered' = IF got THEN Attached(payload) ELSE delivered
  /\ processes' = {} /\ payload' = Nothing
  /\ UNCHANGED <<system, known>>

-----------------------------------------------------------------------------
(* The system.                                                             *)

agent == <<pc, known, processes, payload, delivered>>

Start(p) == UNCHANGED <<sockets, calm, agent>> /\ NT!Start(p)

\* A process takes its connections with it.
Exit(p) ==
  /\ sockets' = {c \in sockets : c[1] # running[p]}
  /\ UNCHANGED <<calm, agent>>
  /\ NT!Exit(p)

Connect(n, d) ==
  /\ n \in Alive
  /\ sockets' = sockets \cup {<<n, d>>}
  /\ UNCHANGED <<running, started, freed, calm, agent>>

Disconnect(n, d) ==
  /\ sockets' = sockets \ {<<n, d>>}
  /\ UNCHANGED <<running, started, freed, calm, agent>>

Weather ==
  /\ calm' = ~calm
  /\ UNCHANGED <<running, started, freed, sockets, agent>>

Init ==
  /\ started \in Processes \cup {0}
  /\ running \in [Pids -> 0 .. started]
  /\ \A p, q \in LivePids : running[p] = running[q] => p = q
  /\ freed = {}
  /\ sockets \in SUBSET (Alive \X Dests)
  /\ calm \in BOOLEAN
  /\ pc = "sleeping"
  /\ known = [p \in Pids |-> Nobody]
  /\ processes = {} /\ payload = Nothing /\ delivered = {}

AgentStep == SampleProcesses \/ TakeSnapshot \/ SnapshotFails \/ Upload

Environment ==
  \/ Weather
  \/ \E p \in Pids : Start(p) \/ Exit(p)
  \/ \E n \in Processes, d \in Dests : Connect(n, d) \/ Disconnect(n, d)

Next == AgentStep \/ Environment

Spec == Init /\ [][Next]_vars

\* The agent's thread goes on; nothing is assumed of the system and the server.
LiveSpec == Spec /\ WF_vars(AgentStep)

-----------------------------------------------------------------------------
(* What the snapshots promise.                                             *)

TypeOK ==
  /\ running \in [Pids -> Processes \cup {Nobody}]
  /\ started \in Processes \cup {0}
  /\ freed \subseteq Pids
  /\ sockets \subseteq Alive \X Dests
  /\ calm \in BOOLEAN
  /\ pc \in {"sleeping", "sampled", "uploading", "crashed"}
  /\ known \in [Pids -> Processes \cup {Nobody}]
  /\ processes \subseteq Row
  /\ payload \in [rows : SUBSET Row, connections : SUBSET Connection]
  /\ delivered \subseteq Processes \X Dests

\* The server attaches a connection to the process reported under its pid.  As
\* long as a freed pid rests until a poll has seen it free, this is the process
\* that is connected, although the two are sampled at different times and the
\* name may have been read many polls ago.
EvidenceIsOwned ==
  PidsRest =>
    \A c \in payload.connections, r \in payload.rows : c.pid = r.pid => r.name = c.owner

\* select_reportable keeps "anything already interesting", and snapshot "any
\* process that owns a connection", whatever the limit; the others fill "the
\* quota" and do not exceed it.
SelectionIsRight ==
  pc = "uploading" =>
    LET busy   == {r \in processes : r.interesting}
        owning == {r \in processes : \E c \in payload.connections : c.pid = r.pid}
    IN  /\ busy \cup owning \subseteq payload.rows
        /\ payload.rows \subseteq processes
        /\ payload.rows = processes \/ Limit <= Cardinality(payload.rows)
        /\ \/ Cardinality(payload.rows \ owning) <= Limit
           \/ payload.rows = busy \cup owning

\* Once all calls succeed, and unless an answer was no JSON, every connection that
\* lasts reaches the server again and again together with its process, however
\* many processes compete for the slots and whatever failed before.
LastingEvidenceArrives ==
  <>[]calm /\ [](pc # "crashed") =>
    \A n \in Processes, d \in Dests :
      <>[](<<n, d>> \in sockets) => []<>(<<n, d>> \in delivered)
=============================================================================
