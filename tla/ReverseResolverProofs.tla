------------------------ MODULE ReverseResolverProofs ------------------------
(***************************************************************************)
(* Proofs about ReverseResolver, for any number of threads and addresses,  *)
(* any limit and any polls.                                                *)
(***************************************************************************)
EXTENDS ReverseResolver, FiniteSetTheorems, TLAPS

-----------------------------------------------------------------------------
(* The queue as the set of the addresses in it.                            *)

ElementsOf(s) == {s[i] : i \in 1..Len(s)}
Distinct(s) == \A i, j \in 1..Len(s) : s[i] = s[j] => i = j

\* put adds the address at the end, and no duplicate if it was not there.
LEMMA PutAdds ==
  ASSUME NEW s \in Seq(Addresses), NEW x \in Addresses
  PROVE  /\ Append(s, x) \in Seq(Addresses)
         /\ ElementsOf(Append(s, x)) = ElementsOf(s) \cup {x}
         /\ Distinct(s) /\ x \notin ElementsOf(s) => Distinct(Append(s, x))
<1>1. /\ Append(s, x) \in Seq(Addresses) /\ Len(s) \in Nat
      /\ Len(Append(s, x)) = Len(s) + 1
      /\ \A i \in 1..Len(s) : Append(s, x)[i] = s[i]
      /\ Append(s, x)[Len(s) + 1] = x
  OBVIOUS
<1>2. 1..(Len(s) + 1) = (1..Len(s)) \cup {Len(s) + 1}
  BY <1>1
<1>3. ElementsOf(Append(s, x)) = ElementsOf(s) \cup {x}
  BY <1>1, <1>2 DEF ElementsOf
<1>4. ASSUME Distinct(s), x \notin ElementsOf(s)
      PROVE  Distinct(Append(s, x))
  BY <1>1, <1>2, <1>4 DEF Distinct, ElementsOf
<1> QED
  BY <1>1, <1>3, <1>4

\* get removes the address at the front.
LEMMA GetRemoves ==
  ASSUME NEW s \in Seq(Addresses), s # <<>>
  PROVE  /\ Head(s) \in Addresses /\ Tail(s) \in Seq(Addresses)
         /\ Head(s) \in ElementsOf(s)
         /\ ElementsOf(Tail(s)) \subseteq ElementsOf(s)
         /\ Distinct(s) => Distinct(Tail(s)) /\ Head(s) \notin ElementsOf(Tail(s))
<1>1. /\ Len(s) \in Nat \ {0} /\ Head(s) = s[1] /\ Head(s) \in Addresses
      /\ Tail(s) \in Seq(Addresses) /\ Len(Tail(s)) = Len(s) - 1
      /\ \A i \in 1..(Len(s) - 1) : Tail(s)[i] = s[i + 1]
  OBVIOUS
<1>2. \A i \in 1..(Len(s) - 1) : i + 1 \in 1..Len(s) /\ i + 1 # 1
  BY <1>1
<1>3. Head(s) \in ElementsOf(s)
  BY <1>1 DEF ElementsOf
<1>4. ElementsOf(Tail(s)) \subseteq ElementsOf(s)
  BY <1>1, <1>2 DEF ElementsOf
<1>5. ASSUME Distinct(s)
      PROVE  Distinct(Tail(s)) /\ Head(s) \notin ElementsOf(Tail(s))
  <2>1. Head(s) \notin ElementsOf(Tail(s))
    BY <1>1, <1>2, <1>5 DEF Distinct, ElementsOf
  <2>2. Distinct(Tail(s))
    BY <1>1, <1>2, <1>5 DEF Distinct
  <2> QED
    BY <2>1, <2>2
<1> QED
  BY <1>1, <1>3, <1>4, <1>5

-----------------------------------------------------------------------------
(* Types.                                                                  *)

\* lookup holds an address while it queues it.
TInv == TypeOK /\ (pc = "queueing" => todo # <<>>)

\* A settled address is a known address, and becomes one of Settled.
LEMMA SettleTyped ==
  ASSUME TypeOK, NEW t \in Threads, Settle(t)
  PROVE  /\ \E known \in SUBSET Addresses : cache' \in [known -> Names]
         /\ failed' \subseteq Addresses
         /\ busy[t] \in Addresses
         /\ Settled' = Settled \cup {busy[t]}
<1>1. busy[t] \in Addresses
  BY DEF TypeOK, Settle
<1>2. PICK known \in SUBSET Addresses : cache \in [known -> Names]
  BY DEF TypeOK
<1>3. CASE Resolved(t)
  <2>1. PICK name \in Names :
          cache' = [ip \in DOMAIN cache \cup {busy[t]} |->
                      IF ip = busy[t] THEN name ELSE cache[ip]]
    BY <1>3 DEF Resolved
  <2>2. DOMAIN cache = known
    BY <1>2
  <2>3. cache' \in [known \cup {busy[t]} -> Names]
    BY <1>2, <2>1, <2>2
  <2>4. known \cup {busy[t]} \in SUBSET Addresses
    BY <1>1
  <2> QED
    BY <1>1, <1>3, <2>1, <2>3, <2>4 DEF Resolved, Settled, TypeOK
<1>4. CASE NotResolved(t)
  BY <1>1, <1>2, <1>4 DEF NotResolved, Settled, TypeOK
<1> QED
  BY <1>3, <1>4 DEF Settle

\* Every step keeps the types.
LEMMA StepKeepsTypes == TInv /\ [Next]_vars => TInv'
<1> SUFFICES ASSUME TInv, [Next]_vars
             PROVE  TInv'
  OBVIOUS
<1> USE ResolverAssumption
<1>1. CASE Poll
  BY <1>1 DEF Poll, TInv, TypeOK, shared
<1>2. CASE PollEnds
  BY <1>2 DEF PollEnds, TInv, TypeOK, shared
<1>3. CASE ReturnAtOnce
  BY <1>3 DEF ReturnAtOnce, TInv, TypeOK, shared
<1>4. CASE MakePending
  <2>1. Head(todo) \in Addresses
    BY <1>4 DEF MakePending, TInv, TypeOK
  <2> QED
    BY <1>4, <2>1 DEF MakePending, TInv, TypeOK
<1>5. CASE Enqueue
  <2>1. Head(todo) \in Addresses /\ Tail(todo) \in Seq(Addresses)
    BY <1>5, GetRemoves DEF Enqueue, TInv, TypeOK
  <2>2. queue' \in Seq(Addresses)
    BY <1>5, <2>1, PutAdds DEF Enqueue, TInv, TypeOK
  <2> QED
    BY <1>5, <2>1, <2>2 DEF Enqueue, TInv, TypeOK, shared
<1>6. CASE StartFails
  BY <1>6 DEF StartFails, TInv, TypeOK, shared
<1>7. CASE Drain \/ DrainTimesOut \/ DrainEnds
  BY <1>7 DEF Drain, DrainTimesOut, DrainEnds, TInv, TypeOK, shared
<1>8. ASSUME NEW t \in Threads, Take(t)
      PROVE  TInv'
  <2>1. Head(queue) \in Addresses /\ Tail(queue) \in Seq(Addresses)
    BY <1>8, GetRemoves DEF Take, TInv, TypeOK
  <2> QED
    BY <1>8, <2>1 DEF Take, TInv, TypeOK, shared
<1>9. ASSUME NEW t \in Threads, Settle(t)
      PROVE  TInv'
  BY <1>9, SettleTyped DEF Settle, TInv, TypeOK
<1>10. CASE UNCHANGED vars
  BY <1>10 DEF vars, TInv, TypeOK
<1> QED
  BY <1>1, <1>2, <1>3, <1>4, <1>5, <1>6, <1>7, <1>8, <1>9, <1>10
  DEF Next, Lookup, Worker

\* Every set, queue and history of the resolver keeps its type.
THEOREM ResolverTypes == Spec => []TypeOK
<1>1. Init => TInv
  <2> SUFFICES ASSUME Init PROVE TInv
    OBVIOUS
  <2>1. cache \in [{} -> Names]
    BY DEF Init
  <2> QED
    BY <2>1 DEF Init, TInv, TypeOK
<1>2. TInv => TypeOK
  BY DEF TInv
<1> QED
  BY <1>1, <1>2, StepKeepsTypes, PTL DEF Spec

-----------------------------------------------------------------------------
(* One lookup per address.                                                 *)

QueueInv == Distinct(queue)

BusyInv == \A t, u \in Threads : busy[t] = busy[u] /\ busy[t] # NoAddress => t = u

\* An address that is being asked for, queued or looked up is in one of these
\* places only, and it is pending and not settled.
PlacesInv ==
  /\ Queued \cap Taken = {}
  /\ pc = "queueing" => Head(todo) \notin Queued \cup Taken
  /\ InFlight \subseteq pending
  /\ pending \cap Settled = {}

LookupInv ==
  \A ip \in Addresses : lookups[ip] = 0 \/ (lookups[ip] = 1 /\ ip \in Settled \cup Taken)

IInv == TInv /\ QueueInv /\ BusyInv /\ PlacesInv /\ LookupInv

\* The set of addresses in the queue, as ReverseResolver and the lemmas on
\* sequences write it.
LEMMA QueuedIsElements == Queued = ElementsOf(queue) /\ Queued' = ElementsOf(queue')
BY DEF Queued, ElementsOf

\* The places of an address do not depend on the steps that leave the queue,
\* the workers and the three sets alone.
LEMMA PlacesUnchanged ==
  ASSUME IInv, TInv', pc' # "queueing",
         UNCHANGED <<shared, queue, busy, lookups>>
  PROVE  IInv'
<1>1. Queued' = Queued /\ Taken' = Taken /\ Settled' = Settled /\ Asking' = {}
  BY DEF Queued, Taken, Settled, Asking, shared
<1>2. InFlight' \subseteq InFlight
  BY <1>1 DEF InFlight
<1> QED
  BY <1>1, <1>2
  DEF IInv, QueueInv, BusyInv, PlacesInv, LookupInv, Distinct, shared

\* An address that becomes pending is in no other place.
LEMMA MakePendingKeeps ==
  ASSUME IInv, TInv', MakePending
  PROVE  IInv'
<1>1. Queued' = Queued /\ Taken' = Taken /\ Settled' = Settled /\ Asking' = {Head(todo)}
  BY DEF MakePending, Queued, Taken, Settled, Asking
<1>2. Head(todo) \notin Settled \cup pending /\ Asking = {}
  BY DEF MakePending, Queues, Asking
<1>3. PlacesInv'
  BY <1>1, <1>2 DEF IInv, PlacesInv, InFlight, MakePending
<1> QED
  BY <1>1, <1>3 DEF IInv, QueueInv, BusyInv, LookupInv, Distinct, MakePending

\* It moves from the sampling thread to the queue.
LEMMA EnqueueKeeps ==
  ASSUME IInv, TInv', Enqueue
  PROVE  IInv'
<1>1. todo # <<>> /\ Head(todo) \in Addresses /\ queue \in Seq(Addresses)
  BY GetRemoves DEF Enqueue, IInv, TInv, TypeOK
<1>2. Taken' = Taken /\ Settled' = Settled /\ Asking' = {} /\ Asking = {Head(todo)}
  BY DEF Enqueue, Taken, Settled, Asking, shared
<1>3. Head(todo) \notin Queued \cup Taken
  BY DEF IInv, PlacesInv, Enqueue
<1>4. Queued' = Queued \cup {Head(todo)} /\ QueueInv'
  BY <1>1, <1>3, PutAdds, QueuedIsElements DEF Enqueue, IInv, QueueInv
<1>5. PlacesInv'
  BY <1>2, <1>3, <1>4 DEF IInv, PlacesInv, InFlight, Enqueue, shared
<1> QED
  BY <1>2, <1>4, <1>5 DEF IInv, BusyInv, LookupInv, Enqueue, shared

\* It moves from the queue to one worker.
LEMMA TakeKeeps ==
  ASSUME IInv, TInv', NEW t \in Threads, Take(t)
  PROVE  IInv'
<1> DEFINE ip == Head(queue)
<1>1. /\ ip \in Addresses /\ ip \in Queued /\ ip \notin Queued'
      /\ Queued' \subseteq Queued /\ QueueInv'
  BY GetRemoves, QueuedIsElements DEF Take, IInv, QueueInv, TInv, TypeOK
<1>2. busy[t] = NoAddress /\ busy' = [busy EXCEPT ![t] = ip]
  BY DEF Take
<1>3. ip # NoAddress /\ busy \in [Threads -> Addresses \cup {NoAddress}]
  BY <1>1, ResolverAssumption DEF IInv, TInv, TypeOK
<1>4. Taken' = Taken \cup {ip}
  BY <1>2, <1>3 DEF Taken
<1>5. Settled' = Settled /\ Asking' = Asking /\ pending' = pending
  BY DEF Take, Settled, Asking, shared
<1>6. ip \notin Taken /\ ip \notin Settled /\ ip \notin Asking
  BY <1>1 DEF IInv, PlacesInv, InFlight, Asking
<1>7. BusyInv'
  BY <1>2, <1>3, <1>6 DEF BusyInv, IInv, Taken
<1>8. PlacesInv'
  BY <1>1, <1>4, <1>5, <1>6 DEF IInv, PlacesInv, InFlight, Asking, Take
<1>9. LookupInv'
  <2>1. lookups[ip] = 0
    BY <1>1, <1>6 DEF IInv, LookupInv
  <2>2. lookups' = [lookups EXCEPT ![ip] = @ + 1] /\ lookups \in [Addresses -> Nat]
    BY DEF Take, IInv, TInv, TypeOK
  <2>3. lookups'[ip] = 1 /\ \A other \in Addresses \ {ip} : lookups'[other] = lookups[other]
    BY <2>1, <2>2, <1>1
  <2> QED
    BY <2>3, <1>4, <1>5 DEF IInv, LookupInv
<1> QED
  BY <1>1, <1>7, <1>8, <1>9 DEF IInv

\* It moves from the worker to the settled ones, and no other place has it.
LEMMA SettleKeeps ==
  ASSUME IInv, TInv', NEW t \in Threads, Settle(t)
  PROVE  IInv'
<1> DEFINE ip == busy[t]
<1>1. ip \in Addresses /\ Settled' = Settled \cup {ip}
  BY SettleTyped DEF IInv, TInv
<1>2. ip # NoAddress /\ ip \in Taken
  BY DEF Settle, Taken
<1>3. busy' = [busy EXCEPT ![t] = NoAddress]
      /\ busy \in [Threads -> Addresses \cup {NoAddress}]
  BY DEF Settle, IInv, TInv, TypeOK
<1>4. Taken' = Taken \ {ip}
  BY <1>2, <1>3 DEF IInv, BusyInv, Taken
<1>5. Queued' = Queued /\ Asking' = Asking /\ pending' = pending \ {ip}
  BY DEF Settle, Queued, Asking
<1>6. ip \notin Queued /\ ip \notin Asking
  BY <1>2 DEF IInv, PlacesInv, Asking
<1>7. BusyInv'
  BY <1>3 DEF IInv, BusyInv
<1>8. PlacesInv'
  BY <1>1, <1>4, <1>5, <1>6 DEF IInv, PlacesInv, InFlight, Asking, Settle
<1>9. LookupInv'
  BY <1>1, <1>4 DEF IInv, LookupInv, Settle
<1> QED
  BY <1>7, <1>8, <1>9 DEF IInv, QueueInv, Distinct, Settle

\* Every step keeps the inductive invariant.
LEMMA StepKeepsPlaces == IInv /\ [Next]_vars => IInv'
<1> SUFFICES ASSUME IInv, [Next]_vars
             PROVE  IInv'
  OBVIOUS
<1>1. TInv'
  BY StepKeepsTypes DEF IInv
<1>2. CASE Poll \/ PollEnds \/ ReturnAtOnce \/ StartFails \/ Drain \/ DrainTimesOut \/ DrainEnds
  BY <1>1, <1>2, PlacesUnchanged
  DEF Poll, PollEnds, ReturnAtOnce, StartFails, Drain, DrainTimesOut, DrainEnds
<1>3. CASE MakePending
  BY <1>1, <1>3, MakePendingKeeps
<1>4. CASE Enqueue
  BY <1>1, <1>4, EnqueueKeeps
<1>5. ASSUME NEW t \in Threads, Take(t)
      PROVE  IInv'
  BY <1>1, <1>5, TakeKeeps
<1>6. ASSUME NEW t \in Threads, Settle(t)
      PROVE  IInv'
  BY <1>1, <1>6, SettleKeeps
<1>7. CASE UNCHANGED vars
  <2>1. Queued' = Queued /\ Taken' = Taken /\ Settled' = Settled /\ Asking' = Asking
    BY <1>7 DEF vars, Queued, Taken, Settled, Asking
  <2> QED
    BY <1>1, <1>7, <2>1
    DEF vars, IInv, QueueInv, BusyInv, PlacesInv, LookupInv, Distinct, InFlight
<1> QED
  BY <1>2, <1>3, <1>4, <1>5, <1>6, <1>7 DEF Next, Lookup, Worker

\* The invariant holds before the first poll.
LEMMA InitHasPlaces == Init => IInv
<1> SUFFICES ASSUME Init PROVE IInv
  OBVIOUS
<1>1. cache \in [{} -> Names] /\ DOMAIN cache = {}
  BY DEF Init
<1>2. TInv
  BY <1>1 DEF Init, TInv, TypeOK
<1>3. Queued = {} /\ Taken = {} /\ Settled = {} /\ Asking = {}
  BY <1>1 DEF Init, Queued, Taken, Settled, Asking
<1> QED
  BY <1>2, <1>3
  DEF Init, IInv, QueueInv, BusyInv, PlacesInv, LookupInv, Distinct, InFlight

\* network.py, lookup and _run: whatever the interleaving of the sampling
\* thread and the workers, an address is looked up at most once, although the
\* queue is outside the lock.
THEOREM OneLookup == Spec => []OncePerAddress
<1>1. IInv => OncePerAddress
  BY DEF IInv, TInv, TypeOK, LookupInv, OncePerAddress
<1> QED
  BY <1>1, InitHasPlaces, StepKeepsPlaces, PTL DEF Spec

\* drain: when nothing is pending, no lookup is queued or running.
THEOREM DrainedMeansDone == Spec => []DrainIsHonest
<1>1. IInv => DrainIsHonest
  BY DEF IInv, PlacesInv, DrainIsHonest
<1> QED
  BY <1>1, InitHasPlaces, StepKeepsPlaces, PTL DEF Spec

-----------------------------------------------------------------------------
(* The limit.                                                              *)

BoundInv == IsFiniteSet(pending) /\ PendingBounded

\* _RESOLVER_QUEUE_LIMIT bounds the pending addresses: only lookup adds one,
\* and the test and the addition are under one lock.
THEOREM LimitHolds == Spec => []PendingBounded
<1>1. Init => BoundInv
  BY FS_EmptySet, ResolverAssumption DEF Init, BoundInv, PendingBounded
<1>2. BoundInv /\ [Next]_vars => BoundInv'
  <2> SUFFICES ASSUME BoundInv, [Next]_vars
               PROVE  BoundInv'
    OBVIOUS
  <2>0. Cardinality(pending) \in Nat /\ RESOLVER_QUEUE_LIMIT \in Nat
    BY FS_CardinalityType, ResolverAssumption DEF BoundInv
  <2>1. CASE MakePending
    <3>1. /\ pending' = pending \cup {Head(todo)}
          /\ Head(todo) \notin pending
          /\ Cardinality(pending) < RESOLVER_QUEUE_LIMIT
      BY <2>1 DEF MakePending, Queues
    <3>2. IsFiniteSet(pending') /\ Cardinality(pending') = Cardinality(pending) + 1
      BY <3>1, FS_AddElement DEF BoundInv
    <3> QED
      BY <2>0, <3>1, <3>2 DEF BoundInv, PendingBounded
  <2>2. ASSUME NEW t \in Threads, Settle(t)
        PROVE  BoundInv'
    <3>1. pending' \subseteq pending
      BY <2>2 DEF Settle
    <3>2. IsFiniteSet(pending') /\ Cardinality(pending') <= Cardinality(pending)
      BY <3>1, FS_Subset DEF BoundInv
    <3>3. Cardinality(pending') \in Nat
      BY <3>2, FS_CardinalityType
    <3> QED
      BY <2>0, <3>2, <3>3 DEF BoundInv, PendingBounded
  <2>3. CASE pending' = pending
    BY <2>3 DEF BoundInv, PendingBounded
  <2> QED
    BY <2>1, <2>2, <2>3
    DEF Next, Lookup, Worker, Poll, PollEnds, ReturnAtOnce, Enqueue, StartFails, Drain,
        DrainTimesOut, DrainEnds, Take, shared, vars
<1>3. BoundInv => PendingBounded
  BY DEF BoundInv
<1> QED
  BY <1>1, <1>2, <1>3, PTL DEF Spec

-----------------------------------------------------------------------------
(* The resolver as the sampler sees it.                                    *)

Answered == [ip \in Settled |-> IF ip \in DOMAIN cache THEN <<cache[ip]>> ELSE <<>>]

\* lookup asks for an address that neither waits nor has an answer.
LEMMA AskMaps ==
  ASSUME IInv, MakePending
  PROVE  \E ip \in Addresses : NS!Ask(ip)
<1>1. /\ Head(todo) \in Addresses
      /\ Head(todo) \notin Settled \cup pending /\ Cardinality(pending) < RESOLVER_QUEUE_LIMIT
      /\ pending' = pending \cup {Head(todo)} /\ cache' = cache /\ failed' = failed
  BY DEF MakePending, Queues, IInv, TInv, TypeOK
<1>2. Answered' = Answered /\ DOMAIN Answered = Settled
  BY <1>1 DEF Answered, Settled
<1>3. NS!Cardinality(pending) = Cardinality(pending)
  BY DEF NS!Cardinality, NS!IsFiniteSet, Cardinality, IsFiniteSet
<1>4. NS!Ask(Head(todo))
  BY <1>1, <1>2, <1>3 DEF NS!Ask, Answered
<1> QED
  BY <1>1, <1>4

\* _run answers an address that waits, and no other answer is touched.
LEMMA AnswerMaps ==
  ASSUME IInv, NEW t \in Threads, Settle(t)
  PROVE  \E ip \in Addresses : NS!Answer(ip)
<1> DEFINE ip == busy[t]
<1>1. TypeOK /\ ip \in Addresses /\ Settled' = Settled \cup {ip}
  BY SettleTyped DEF IInv, TInv
<1>2. ip \in pending /\ ip \notin Settled
  <2>1. ip \in Taken
    BY DEF Taken, Settle
  <2> QED
    BY <2>1 DEF IInv, PlacesInv, InFlight
<1>3. pending' = pending \ {ip} /\ (Resolved(t) \/ NotResolved(t))
  BY DEF Settle
<1>4. DOMAIN Answered = Settled
  BY DEF Answered
<1>5. \A a \in Settled : Answered'[a] = Answered[a]
  <2>1. CASE Resolved(t)
    <3>1. PICK name \in Names :
            cache' = [a \in DOMAIN cache \cup {ip} |-> IF a = ip THEN name ELSE cache[a]]
      BY <2>1 DEF Resolved
    <3>2. \A a \in Settled : (a \in DOMAIN cache' <=> a \in DOMAIN cache)
                             /\ (a \in DOMAIN cache => cache'[a] = cache[a])
      BY <1>2, <3>1
    <3> QED
      BY <1>1, <3>2 DEF Answered
  <2>2. CASE NotResolved(t)
    BY <1>1, <2>2 DEF Answered, NotResolved
  <2> QED
    BY <1>3, <2>1, <2>2
<1>6. Answered'[ip] \in NS!Replies
  <2>1. CASE Resolved(t)
    <3>1. PICK name \in Names :
            cache' = [a \in DOMAIN cache \cup {ip} |-> IF a = ip THEN name ELSE cache[a]]
      BY <2>1 DEF Resolved
    <3>2. ip \in DOMAIN cache' /\ cache'[ip] = name
      BY <3>1
    <3> QED
      BY <1>1, <3>2 DEF Answered, NS!Replies
  <2>2. CASE NotResolved(t)
    <3>1. ip \notin DOMAIN cache'
      BY <1>2, <2>2 DEF NotResolved, Settled
    <3> QED
      BY <1>1, <3>1 DEF Answered, NS!Replies, NS!NoName
  <2> QED
    BY <1>3, <2>1, <2>2
<1>7. Answered' = [a \in DOMAIN Answered \cup {ip} |-> IF a = ip THEN Answered'[ip] ELSE Answered[a]]
  <2>1. Answered' = [a \in Settled \cup {ip} |-> Answered'[a]]
    BY <1>1 DEF Answered
  <2> QED
    BY <1>2, <1>4, <1>5, <2>1
<1> QED
  BY <1>1, <1>2, <1>3, <1>6, <1>7 DEF NS!Answer, Answered

\* Whatever the sampling thread and the workers interleave, the resolver
\* answers each address at most once, only after it was asked for, and for
\* good.
THEOREM ResolverIsNameService == Spec => ImplementsNameService
<1>1. Init => NS!Init
  <2> SUFFICES ASSUME Init PROVE NS!Init
    OBVIOUS
  <2>1. Settled = {} /\ pending = {}
    BY DEF Init, Settled
  <2> QED
    BY <2>1 DEF NS!Init, NS!NoName
<1>2. IInv /\ [Next]_vars => [NS!Next]_<<pending, Answered>>
  <2> SUFFICES ASSUME IInv, [Next]_vars
               PROVE  [NS!Next]_<<pending, Answered>>
    OBVIOUS
  <2>1. CASE MakePending
    BY <2>1, AskMaps DEF NS!Next
  <2>2. ASSUME NEW t \in Threads, Settle(t)
        PROVE  NS!Next
    BY <2>2, AnswerMaps DEF NS!Next
  <2>3. CASE UNCHANGED shared
    BY <2>3 DEF shared, Answered, Settled
  <2> QED
    BY <2>1, <2>2, <2>3
    DEF Next, Lookup, Worker, Poll, PollEnds, ReturnAtOnce, Enqueue, StartFails, Drain,
        DrainTimesOut, DrainEnds, Take, vars, shared
<1> QED
  BY <1>1, <1>2, InitHasPlaces, StepKeepsPlaces, PTL
  DEF Spec, ImplementsNameService, NS!Spec, Answered

=============================================================================
