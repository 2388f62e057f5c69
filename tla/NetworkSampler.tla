---------------------------- MODULE NetworkSampler ----------------------------
(***************************************************************************)
(* The connection sampler of the agent, NetworkSampler of                  *)
(* collector/network.py, over the sockets of the operating system.         *)
(*                                                                         *)
(* A key stands for a pid, an address, a port and a protocol.  The age of  *)
(* a socket is not to be had from the system, so the sampler takes it from *)
(* the polls that saw the key: neighbouring sightings are one use of it.   *)
(*                                                                         *)
(* Time is counted in ticks; clocks stop at Cap.                           *)
(***************************************************************************)
EXTENDS Integers

CONSTANTS
  Keys,
  SessionGap,   \* collector_interval * 3
  ForgetAfter,  \* collector_interval * 8
  MaxGap,       \* longest time between two complete polls
  Cap,          \* bound on the clocks
  MaxOpenings,  \* bound on the openings of a key in one use
  MaxHidden     \* bound on the polls that hide an open key in one use

\* The longest interruption that a use can have.
Bridge == ForgetAfter + MaxGap

ASSUME NetworkAssumption ==
  /\ {SessionGap, ForgetAfter, MaxGap, Cap, MaxOpenings, MaxHidden} \subseteq Nat
  /\ Bridge < Cap
  /\ MaxOpenings > 0

VARIABLES
  open,         \* keys with a socket to a routable address in a live state
  endpoints,    \* _endpoints
  connections,  \* what the last poll returned
  gap,          \* time since the last complete poll
  quiet,        \* history: per key, time since it was last open
  sighted,      \* history: per key, time since a poll last saw it
  used,         \* history: per key, time since its present use began
  openings,     \* history: per key, how often it was opened in that use
  hidden        \* history: per key, polls of that use that hid it

sampler == <<endpoints, connections, gap>>
history == <<quiet, sighted, used, openings, hidden>>
vars == <<open, sampler, history>>

Clock == 0 .. Cap
Later(clock) == IF clock < Cap THEN clock + 1 ELSE Cap

\* An _Endpoint, with the time since first_seen and since last_seen.
NoEndpoint == [count |-> 0]
Endpoint == [first : Clock, last : Clock, count : Nat \ {0}]
Connection == [key : Keys, duration : Clock, count : Nat \ {0}]
Tracked == {k \in Keys : endpoints[k] # NoEndpoint}

-----------------------------------------------------------------------------
(* One key in a poll.                                                      *)

\* Slips: last_seen is set only when a session is counted; a new endpoint
\* starts with no session.
SeenAfterGap(k) ==
  LET e == endpoints[k]
  IN  IF e = NoEndpoint THEN [first |-> 0, last |-> 0, count |-> 1]
      ELSE IF e.last > SessionGap THEN [e EXCEPT !.last = 0, !.count = @ + 1]
      ELSE e
SeenUncounted(k) ==
  LET e == endpoints[k]
  IN  IF e = NoEndpoint THEN [first |-> 0, last |-> 0, count |-> 0]
      ELSE [e EXCEPT !.last = 0, !.count = IF e.last > SessionGap THEN @ + 1 ELSE @]

\* The endpoint of a key that the poll sees.
Seen(k) ==
  LET e == endpoints[k]
  IN  IF e = NoEndpoint THEN [first |-> 0, last |-> 0, count |-> 1]
      ELSE [e EXCEPT !.last = 0, !.count = IF e.last > SessionGap THEN @ + 1 ELSE @]

\* Slips: endpoints out of sight are never deleted, and deleted at once.
NeverForgotten(k) == FALSE
ForgottenAtOnce(k) == TRUE

\* An endpoint out of sight is deleted once it has been so for long.
Forgotten(k) == endpoints[k].last > ForgetAfter

-----------------------------------------------------------------------------
(* The sampler.                                                            *)

\* sample.  When the system refuses the listing, the sampler asks process by
\* process: the list is empty if no process that may be read has a socket, and
\* otherwise an error, for what a process lists has no pid to be replaced.
Sample ==
  \E seen \in {open, {}} :
    LET out == open \ seen IN
    /\ \A k \in out : hidden[k] < MaxHidden
    /\ endpoints' = [k \in Keys |->
         IF k \in seen THEN Seen(k)
         ELSE IF k \in Tracked /\ Forgotten(k) THEN NoEndpoint ELSE endpoints[k]]
    /\ connections' = {[key |-> k, duration |-> Seen(k).first, count |-> Seen(k).count] : k \in seen}
    /\ gap' = 0
    /\ sighted' = [k \in Keys |-> IF k \in seen THEN 0 ELSE sighted[k]]
    /\ hidden' = [k \in Keys |-> IF k \in out THEN hidden[k] + 1 ELSE hidden[k]]
    /\ UNCHANGED <<open, quiet, used, openings>>

\* An error that sample does not handle, such as that one or a resolver thread
\* that cannot be started: some keys are updated, none is deleted, nothing is
\* returned.
SampleFails ==
  \E seen \in SUBSET open :
    /\ endpoints' = [k \in Keys |-> IF k \in seen THEN Seen(k) ELSE endpoints[k]]
    /\ connections' = {}
    /\ sighted' = [k \in Keys |-> IF k \in seen THEN 0 ELSE sighted[k]]
    /\ UNCHANGED <<open, gap, quiet, used, openings, hidden>>

-----------------------------------------------------------------------------
(* The system.                                                             *)

\* A key that was closed for longer than Bridge is in a new use.
Open(k) ==
  /\ k \notin open
  /\ quiet[k] <= Bridge => openings[k] < MaxOpenings
  /\ open' = open \cup {k}
  /\ quiet' = [quiet EXCEPT ![k] = 0]
  /\ used' = [used EXCEPT ![k] = IF quiet[k] > Bridge THEN 0 ELSE @]
  /\ openings' = [openings EXCEPT ![k] = IF quiet[k] > Bridge THEN 1 ELSE @ + 1]
  /\ hidden' = [hidden EXCEPT ![k] = IF quiet[k] > Bridge THEN 0 ELSE @]
  /\ UNCHANGED <<sampler, sighted>>

Close(k) ==
  /\ k \in open
  /\ open' = open \ {k}
  /\ UNCHANGED <<sampler, history>>

Tick ==
  /\ gap < MaxGap
  /\ gap' = gap + 1
  /\ endpoints' = [k \in Keys |->
       IF k \in Tracked THEN [endpoints[k] EXCEPT !.first = Later(@), !.last = Later(@)]
       ELSE NoEndpoint]
  /\ quiet' = [k \in Keys |-> IF k \in open THEN 0 ELSE Later(quiet[k])]
  /\ sighted' = [k \in Keys |-> Later(sighted[k])]
  /\ used' = [k \in Keys |-> Later(used[k])]
  /\ UNCHANGED <<open, connections, openings, hidden>>

Init ==
  /\ open \in SUBSET Keys
  /\ endpoints = [k \in Keys |-> NoEndpoint]
  /\ connections = {}
  /\ gap = 0
  /\ quiet = [k \in Keys |-> IF k \in open THEN 0 ELSE Cap]
  /\ sighted = [k \in Keys |-> Cap]
  /\ used = [k \in Keys |-> 0]
  /\ openings = [k \in Keys |-> IF k \in open THEN 1 ELSE 0]
  /\ hidden = [k \in Keys |-> 0]

Environment == Tick \/ \E k \in Keys : Open(k) \/ Close(k)

Next == Sample \/ SampleFails \/ Environment

Spec == Init /\ [][Next]_vars

-----------------------------------------------------------------------------
(* What the samples promise.                                               *)

TypeOK ==
  /\ open \subseteq Keys
  /\ endpoints \in [Keys -> Endpoint \cup {NoEndpoint}]
  /\ connections \subseteq Connection
  /\ gap \in 0 .. MaxGap
  /\ quiet \in [Keys -> Clock]
  /\ sighted \in [Keys -> Clock]
  /\ used \in [Keys -> Clock]
  /\ openings \in [Keys -> 0 .. MaxOpenings]
  /\ hidden \in [Keys -> 0 .. MaxHidden]

\* duration_seconds, "the signal that separates a mining session from an
\* ordinary API call": no poll, however many failed before it, reports a
\* connection as older than its present use, in which it was never closed for
\* longer than endpoints are remembered.
DurationIsUse ==
  [][Sample => \A c \in connections' : c.duration <= used[c.key]]_vars

\* connection_count: when polls are at most three intervals apart, a session is
\* counted only for a socket that was opened or that an empty listing hid.  A socket
\* that stays open is not counted again.
SessionsAreOpenings ==
  MaxGap <= SessionGap =>
    \A k \in Tracked : endpoints[k].count <= openings[k] + hidden[k]

\* "Keep recently closed endpoints briefly so repeat connections to the same
\* destination are recognised as a pattern": a key that is seen again more than
\* three and at most eight intervals after it was last seen is reported with
\* more than one session.
RepeatsAreRecognised ==
  [][Sample => \A c \in connections' :
       SessionGap < sighted[c.key] /\ sighted[c.key] <= ForgetAfter => c.count > 1]_vars

\* "Keep recently closed endpoints briefly": none is remembered that no poll saw
\* for longer than eight intervals and the time between two polls.
EndpointsAreForgotten ==
  \A k \in Tracked : sighted[k] <= Bridge
=============================================================================
