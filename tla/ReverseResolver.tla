--------------------------- MODULE ReverseResolver ---------------------------
(***************************************************************************)
(* _ReverseResolver of collector/network.py: the sampling thread asks for  *)
(* the name of every remote address of a poll and never waits; a few       *)
(* daemon threads look the addresses up.  A block under self._lock is one  *)
(* step; the queue is a thread-safe FIFO outside that lock.                *)
(***************************************************************************)
EXTENDS Naturals, Sequences, FiniteSets

CONSTANTS
  Addresses,             \* the remote addresses a host talks to
  Names,                 \* the host names a lookup may answer
  NoAddress,             \* what an idle worker is looking up
  Threads,               \* the mg-rdns-<n> threads, _RESOLVER_THREADS of them
  RESOLVER_QUEUE_LIMIT,
  Polls,                 \* the addresses of the connections of one poll, in order
  MaxStartFailures       \* bound on the times a thread cannot be started

ASSUME ResolverAssumption ==
  /\ NoAddress \notin Addresses
  /\ RESOLVER_QUEUE_LIMIT \in Nat \ {0}
  /\ Polls \subseteq Seq(Addresses)
  /\ MaxStartFailures \in Nat

VARIABLES
  cache,      \* _cache: the name of every address that has one
  failed,     \* _failed
  pending,    \* _pending
  queue,      \* _queue
  workers,    \* _workers: the threads that were started
  busy,       \* the address each worker has taken from the queue
  pc,         \* the sampling thread: between polls, in lookup, in drain
  todo,       \* the addresses of the current poll it has not asked for
  failures,   \* how often starting a thread has failed
  lookups     \* history: calls of gethostbyaddr for each address

shared == <<cache, failed, pending>>
vars == <<cache, failed, pending, queue, workers, busy, pc, todo, failures, lookups>>

Settled == DOMAIN cache \cup failed
Queued == {queue[i] : i \in 1..Len(queue)}
Taken == {busy[t] : t \in {u \in Threads : busy[u] # NoAddress}}
Asking == IF pc = "queueing" THEN {Head(todo)} ELSE {}

\* The pending addresses that somebody is still working on.  An address whose
\* lookup could not be queued is pending for good.
InFlight == Asking \cup Queued \cup Taken

-----------------------------------------------------------------------------
(* The sampling thread.                                                    *)

\* sample calls lookup for one connection after the other.
Poll ==
  /\ pc = "between"
  /\ \E addresses \in Polls : todo' = addresses
  /\ pc' = "looking"
  /\ UNCHANGED <<shared, queue, workers, busy, failures, lookups>>

PollEnds ==
  /\ pc = "looking" /\ todo = <<>>
  /\ pc' = "between"
  /\ UNCHANGED <<shared, queue, workers, busy, todo, failures, lookups>>

\* Slips of lookup: the full resolver takes one more; a pending address is
\* queued again.
OneTooMany(ip) ==
  /\ ip \notin Settled \cup pending
  /\ Cardinality(pending) <= RESOLVER_QUEUE_LIMIT
RetriesPending(ip) == ip \notin Settled /\ Cardinality(pending) < RESOLVER_QUEUE_LIMIT

\* The conditions under which lookup queues an address.
Queues(ip) ==
  /\ ip \notin Settled \cup pending
  /\ Cardinality(pending) < RESOLVER_QUEUE_LIMIT

\* lookup returns at once: with the cached name, or with "" for an address that
\* failed, is pending, or finds the resolver full.
ReturnAtOnce ==
  /\ pc = "looking" /\ todo # <<>>
  /\ ~Queues(Head(todo))
  /\ todo' = Tail(todo)
  /\ UNCHANGED <<shared, queue, workers, busy, pc, failures, lookups>>

\* lookup makes the address pending and leaves the lock.
MakePending ==
  /\ pc = "looking" /\ todo # <<>>
  /\ Queues(Head(todo))
  /\ pending' = pending \cup {Head(todo)}
  /\ pc' = "queueing"
  /\ UNCHANGED <<cache, failed, queue, workers, busy, todo, failures, lookups>>

\* _ensure_workers and the put.  The first lookup starts every thread; a
\* started thread can only wait for the put, so both are one step.
Enqueue ==
  /\ pc = "queueing"
  /\ workers' = IF workers = {} THEN Threads ELSE workers
  /\ queue' = Append(queue, Head(todo))
  /\ todo' = Tail(todo)
  /\ pc' = "looking"
  /\ UNCHANGED <<shared, busy, failures, lookups>>

\* _ensure_workers raises because a thread cannot be started.  The threads
\* before it stay, the put is not reached, the poll is given up (run_forever
\* catches the exception) and the address stays pending.
StartFails ==
  /\ pc = "queueing" /\ workers = {}
  /\ failures < MaxStartFailures
  /\ \E started \in SUBSET Threads : started # Threads /\ workers' = started
  /\ failures' = failures + 1
  /\ todo' = <<>>
  /\ pc' = "between"
  /\ UNCHANGED <<shared, queue, busy, lookups>>

\* drain: a one-shot scan polls, waits for the lookups, and polls again.
Drain ==
  /\ pc = "between"
  /\ pc' = "draining"
  /\ UNCHANGED <<shared, queue, workers, busy, todo, failures, lookups>>

DrainTimesOut ==
  /\ pc = "draining"
  /\ pc' = "between"
  /\ UNCHANGED <<shared, queue, workers, busy, todo, failures, lookups>>

DrainEnds ==
  /\ pc = "draining" /\ pending = {}
  /\ pc' = "between"
  /\ UNCHANGED <<shared, queue, workers, busy, todo, failures, lookups>>

-----------------------------------------------------------------------------
(* A worker: _run.                                                         *)

\* A slip: an address stops being pending when a thread takes it.
TakeForGood(t) ==
  /\ t \in workers
  /\ busy[t] = NoAddress /\ queue # <<>>
  /\ busy' = [busy EXCEPT ![t] = Head(queue)]
  /\ queue' = Tail(queue)
  /\ pending' = pending \ {Head(queue)}
  /\ lookups' = [lookups EXCEPT ![Head(queue)] = @ + 1]
  /\ UNCHANGED <<cache, failed, workers, pc, todo, failures>>

Take(t) ==
  /\ t \in workers
  /\ busy[t] = NoAddress /\ queue # <<>>
  /\ busy' = [busy EXCEPT ![t] = Head(queue)]
  /\ queue' = Tail(queue)
  /\ lookups' = [lookups EXCEPT ![Head(queue)] = @ + 1]
  /\ UNCHANGED <<shared, workers, pc, todo, failures>>

Resolved(t) ==
  /\ \E name \in Names :
       cache' = [ip \in DOMAIN cache \cup {busy[t]} |-> IF ip = busy[t] THEN name ELSE cache[ip]]
  /\ failed' = failed

\* A slip: the empty name is cached like any other.
CachesNothing(t) ==
  /\ cache' = [ip \in DOMAIN cache \cup {busy[t]} |->
                 IF ip = busy[t] THEN NoAddress ELSE cache[ip]]
  /\ failed' = failed

NotResolved(t) ==
  /\ failed' = failed \cup {busy[t]}
  /\ cache' = cache

\* Slips of _run: the thread dies of the first address without a name; an
\* address that failed stays pending.
DiesUnresolved(t) ==
  /\ busy[t] # NoAddress
  /\ \/ Resolved(t) /\ pending' = pending \ {busy[t]} /\ workers' = workers
     \/ UNCHANGED shared /\ workers' = workers \ {t}
  /\ busy' = [busy EXCEPT ![t] = NoAddress]
  /\ UNCHANGED <<queue, pc, todo, failures, lookups>>
KeepsFailedPending(t) ==
  /\ busy[t] # NoAddress
  /\ \/ Resolved(t) /\ pending' = pending \ {busy[t]}
     \/ NotResolved(t) /\ pending' = pending
  /\ busy' = [busy EXCEPT ![t] = NoAddress]
  /\ UNCHANGED <<queue, workers, pc, todo, failures, lookups>>

\* gethostbyaddr has answered or raised.
Settle(t) ==
  /\ busy[t] # NoAddress
  /\ Resolved(t) \/ NotResolved(t)
  /\ pending' = pending \ {busy[t]}
  /\ busy' = [busy EXCEPT ![t] = NoAddress]
  /\ UNCHANGED <<queue, workers, pc, todo, failures, lookups>>

-----------------------------------------------------------------------------

Init ==
  /\ cache = [ip \in {} |-> NoAddress] /\ failed = {} /\ pending = {}
  /\ queue = <<>> /\ workers = {} /\ busy = [t \in Threads |-> NoAddress]
  /\ pc = "between" /\ todo = <<>>
  /\ failures = 0
  /\ lookups = [ip \in Addresses |-> 0]

Lookup == ReturnAtOnce \/ MakePending \/ Enqueue \/ PollEnds

Worker(t) == Take(t) \/ Settle(t)

Next ==
  \/ Poll \/ Lookup \/ StartFails \/ Drain \/ DrainTimesOut \/ DrainEnds
  \/ \E t \in Threads : Worker(t)

Spec == Init /\ [][Next]_vars

\* The sampling thread runs, and gethostbyaddr may stall for seconds but
\* returns.  Nothing is assumed of when a poll or a drain begins.
Fairness == WF_vars(Lookup) /\ \A t \in Threads : WF_vars(Worker(t))

FairSpec == Spec /\ Fairness

-----------------------------------------------------------------------------
(* Properties.                                                             *)

\* Every address has at most one name, and only addresses have one.
TypeOK ==
  /\ \E known \in SUBSET Addresses : cache \in [known -> Names]
  /\ failed \subseteq Addresses /\ pending \subseteq Addresses
  /\ queue \in Seq(Addresses)
  /\ workers \subseteq Threads
  /\ busy \in [Threads -> Addresses \cup {NoAddress}]
  /\ pc \in {"between", "looking", "queueing", "draining"}
  /\ todo \in Seq(Addresses)
  /\ failures \in Nat
  /\ lookups \in [Addresses -> Nat]

\* The memory the resolver can have in use for unanswered addresses is bounded,
\* whatever the polls ask for and however slow the answers are.
PendingBounded == Cardinality(pending) <= RESOLVER_QUEUE_LIMIT

\* No address is looked up twice: not by two threads, not because a poll asks
\* again while the answer is on its way, not after it has failed.
OncePerAddress == \A ip \in Addresses : lookups[ip] <= 1

\* drain returns as soon as nothing is pending: by then no lookup is queued or
\* running: whatever was queued, the next poll of a one-shot scan reads the answer
\* to it.  An address turned away at the limit was not queued and stays unnamed.
DrainIsHonest == pending = {} => InFlight = {}

\* A lookup that was queued is answered, by a name or by a failure, and the
\* thread that got the failure goes on.
QueuedSettles ==
  \A ip \in Addresses : ip \in Queued \cup Taken ~> ip \in Settled

\* network.py, lookup: an address that finds the resolver full is not queued
\* and nothing remembers it.  If polls keep asking it is answered all the same,
\* unless its own queueing failed, as long as fewer lookups than the limit were
\* lost to threads that could not be started.
AskedOftenSettles ==
  \A ip \in Addresses :
    []<>(pc = "looking" /\ todo # <<>> /\ Head(todo) = ip)
      => <>(ip \in Settled \/ ip \in pending \ InFlight)

-----------------------------------------------------------------------------
(* What the sampler is promised.                                           *)

NS == INSTANCE NameService WITH
        Limit <- RESOLVER_QUEUE_LIMIT,
        waiting <- pending,
        answers <- [ip \in Settled |-> IF ip \in DOMAIN cache THEN <<cache[ip]>> ELSE <<>>]

\* Whatever the threads interleave, the resolver answers an address once: only
\* one that waits, after which it waits no more, and no answer, be it that
\* there is no name, is ever replaced.
ImplementsNameService == NS!Spec
=============================================================================
