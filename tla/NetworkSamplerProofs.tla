-------------------------- MODULE NetworkSamplerProofs --------------------------
(***************************************************************************)
(* The connection sampler for any number of keys and any time constants.   *)
(***************************************************************************)
EXTENDS NetworkSampler, TLAPS

LEMMA ConstantFacts ==
  /\ SessionGap \in Nat /\ ForgetAfter \in Nat /\ MaxGap \in Nat
  /\ MaxOpenings \in Nat /\ MaxHidden \in Nat
BY NetworkAssumption

LEMMA ClockFacts ==
  /\ Clock \subseteq Nat /\ 0 \in Clock /\ Cap \in Clock
  /\ \A c \in Clock : Later(c) \in Clock /\ c <= Cap /\ c <= Later(c)
  /\ Bridge \in Nat /\ Bridge < Cap
BY NetworkAssumption DEF Clock, Later, Bridge

\* What a sighting makes of the endpoint of a key.
LEMMA SeenFacts ==
  ASSUME TypeOK, NEW k \in Keys
  PROVE  /\ Seen(k) \in Endpoint /\ Seen(k) # NoEndpoint /\ Seen(k).last = 0
         /\ endpoints[k] = NoEndpoint => Seen(k).first = 0 /\ Seen(k).count = 1
         /\ endpoints[k] # NoEndpoint =>
              /\ endpoints[k] \in Endpoint
              /\ Seen(k).first = endpoints[k].first
              /\ Seen(k).count = IF endpoints[k].last > SessionGap
                                 THEN endpoints[k].count + 1 ELSE endpoints[k].count
<1> DEFINE e == endpoints[k]
<1>1. CASE e = NoEndpoint
  <2>1. Seen(k) = [first |-> 0, last |-> 0, count |-> 1]
    BY <1>1 DEF Seen
  <2>2. Seen(k).count # NoEndpoint.count
    BY <2>1 DEF NoEndpoint
  <2> QED
    BY <1>1, <2>1, <2>2, ClockFacts DEF Endpoint
<1>2. CASE e # NoEndpoint
  <2>1. e \in Endpoint
    BY <1>2 DEF TypeOK
  <2>2. Seen(k) = [e EXCEPT !.last = 0,
                     !.count = IF e.last > SessionGap THEN e.count + 1 ELSE e.count]
    BY <1>2, <2>1 DEF Seen, Endpoint
  <2>5. (IF e.last > SessionGap THEN e.count + 1 ELSE e.count) \in Nat \ {0}
    BY <2>1 DEF Endpoint
  <2> DEFINE n == IF e.last > SessionGap THEN e.count + 1 ELSE e.count
             r == Seen(k)
  <2>6. r = [e EXCEPT !.last = 0, !.count = n] /\ n \in Nat \ {0} /\ e \in Endpoint /\ 0 \in Clock
    BY <2>1, <2>2, <2>5, ClockFacts
  <2> HIDE DEF e, n, r
  <2>7. r \in Endpoint /\ r.last = 0 /\ r.first = e.first /\ r.count = n
    BY <2>6 DEF Endpoint
  <2>3. Seen(k) \in Endpoint /\ Seen(k).last = 0 /\ Seen(k).first = e.first
        /\ Seen(k).count = IF e.last > SessionGap THEN e.count + 1 ELSE e.count
    BY <2>7 DEF n, r
  <2>4. Seen(k).count # NoEndpoint.count
    BY <2>3 DEF NoEndpoint, Endpoint
  <2> QED
    BY <1>2, <2>1, <2>3, <2>4 DEF e
<1> QED
  BY <1>1, <1>2

-----------------------------------------------------------------------------
(* The inductive invariant, key by key.                                    *)

\* An endpoint stands for a use that is not over.
KeptKey(k) ==
  endpoints[k] # NoEndpoint =>
    /\ endpoints[k].last = sighted[k]
    /\ endpoints[k].last <= ForgetAfter + gap
    /\ quiet[k] <= endpoints[k].last
    /\ endpoints[k].first <= used[k]

\* What has no endpoint was not seen for long.
ForgottenKey(k) == endpoints[k] = NoEndpoint => sighted[k] > ForgetAfter

\* An open key has been opened.  If the last complete poll did not see it, it
\* has been opened or hidden once more than it was counted.
CountedKey(k) ==
  /\ k \in open => quiet[k] = 0 /\ openings[k] > 0
  /\ MaxGap <= SessionGap /\ endpoints[k] # NoEndpoint =>
       /\ endpoints[k].count <= openings[k] + hidden[k]
       /\ k \in open /\ endpoints[k].last > gap =>
            endpoints[k].count < openings[k] + hidden[k]

KeyInv(k) == KeptKey(k) /\ ForgottenKey(k) /\ CountedKey(k)
NetInv == TypeOK /\ \A k \in Keys : KeyInv(k)

LEMMA InitNetInv == Init => NetInv
<1> SUFFICES ASSUME Init PROVE NetInv
  OBVIOUS
<1>1. TypeOK
  BY ClockFacts, NetworkAssumption DEF Init, TypeOK
<1>2. ASSUME NEW k \in Keys PROVE KeyInv(k)
  <2>1. endpoints[k] = NoEndpoint /\ sighted[k] = Cap
    BY DEF Init
  <2>2. ForgetAfter < Cap
    BY NetworkAssumption DEF Bridge
  <2>3. k \in open => quiet[k] = 0 /\ openings[k] = 1
    BY DEF Init
  <2> QED
    BY <2>1, <2>2, <2>3 DEF KeyInv, KeptKey, ForgottenKey, CountedKey
<1> QED
  BY <1>1, <1>2 DEF NetInv

\* A key that a poll sees.
LEMMA SeenKey ==
  ASSUME NetInv, NEW k \in open, gap' \in Nat,
         endpoints'[k] = Seen(k), sighted'[k] = 0, hidden'[k] = hidden[k],
         UNCHANGED <<open, quiet, used, openings>>
  PROVE  KeyInv(k)'
<1>1. k \in Keys /\ TypeOK /\ KeyInv(k)
  BY DEF NetInv, TypeOK
<1>2. /\ quiet[k] \in Clock /\ used[k] \in Clock /\ gap \in Nat
      /\ openings[k] \in Nat /\ hidden[k] \in Nat /\ gap <= MaxGap
  BY <1>1, NetworkAssumption DEF TypeOK
<1>3. KeptKey(k)' /\ ForgottenKey(k)'
  <2>1. Seen(k) # NoEndpoint /\ Seen(k).last = 0 /\ Seen(k).first <= used[k]
    <3>1. endpoints[k] # NoEndpoint => endpoints[k].first <= used[k]
      BY <1>1 DEF KeyInv, KeptKey
    <3>2. used[k] \in Nat
      BY <1>2, ClockFacts
    <3>3. /\ Seen(k) # NoEndpoint /\ Seen(k).last = 0
          /\ Seen(k).first = 0 \/ (endpoints[k] # NoEndpoint /\ Seen(k).first = endpoints[k].first)
      BY <1>1, SeenFacts
    <3> QED
      BY <3>1, <3>2, <3>3
  <2>2. quiet[k] = 0
    BY <1>1 DEF KeyInv, CountedKey
  <2> QED
    BY <1>2, <2>1, <2>2, NetworkAssumption DEF KeptKey, ForgottenKey
<1>4. CountedKey(k)'
  <2>1. quiet[k] = 0 /\ openings[k] > 0
    BY <1>1 DEF KeyInv, CountedKey
  <2>2. ASSUME MaxGap <= SessionGap
        PROVE  Seen(k).count <= openings[k] + hidden[k]
    <3>1. CASE endpoints[k] = NoEndpoint
      BY <1>1, <1>2, <2>1, <3>1, SeenFacts
    <3>2. CASE endpoints[k] # NoEndpoint
      <4>1. /\ endpoints[k] \in Endpoint
            /\ Seen(k).count = IF endpoints[k].last > SessionGap
                               THEN endpoints[k].count + 1 ELSE endpoints[k].count
        BY <1>1, <3>2, SeenFacts
      <4>2. endpoints[k].count \in Nat /\ endpoints[k].last \in Nat
        BY <4>1, ClockFacts DEF Endpoint
      <4>3. /\ endpoints[k].count <= openings[k] + hidden[k]
            /\ endpoints[k].last > gap => endpoints[k].count < openings[k] + hidden[k]
        BY <1>1, <2>2, <3>2 DEF KeyInv, CountedKey
      <4> QED
        BY <1>2, <2>2, <4>1, <4>2, <4>3, NetworkAssumption
    <3> QED
      BY <3>1, <3>2
  <2>3. Seen(k).last = 0
    BY <1>1, SeenFacts
  <2> QED
    BY <2>1, <2>2, <2>3 DEF CountedKey
<1> QED
  BY <1>3, <1>4 DEF KeyInv

LEMMA SampleTyped ==
  ASSUME TypeOK, Sample
  PROVE  TypeOK'
<1>1. PICK seen \in {open, {}} :
        /\ \A k \in open \ seen : hidden[k] < MaxHidden
        /\ endpoints' = [k \in Keys |->
             IF k \in seen THEN Seen(k)
             ELSE IF k \in Tracked /\ Forgotten(k) THEN NoEndpoint ELSE endpoints[k]]
        /\ connections' = {[key |-> k, duration |-> Seen(k).first, count |-> Seen(k).count] : k \in seen}
        /\ gap' = 0
        /\ sighted' = [k \in Keys |-> IF k \in seen THEN 0 ELSE sighted[k]]
        /\ hidden' = [k \in Keys |-> IF k \in open \ seen THEN hidden[k] + 1 ELSE hidden[k]]
  BY Zenon DEF Sample
<1>2. UNCHANGED <<open, quiet, used, openings>>
  BY DEF Sample
<1>3. seen \subseteq Keys
  BY DEF TypeOK
<1>4. endpoints' \in [Keys -> Endpoint \cup {NoEndpoint}]
  BY <1>1, <1>3, SeenFacts DEF TypeOK
<1>5. connections' \subseteq Connection
  BY <1>1, <1>3, SeenFacts DEF Connection, Endpoint
<1>6. gap' \in 0 .. MaxGap
  BY <1>1, NetworkAssumption
<1>7. sighted' \in [Keys -> Clock]
  BY <1>1, ClockFacts DEF TypeOK
<1>8. hidden' \in [Keys -> 0 .. MaxHidden]
  BY <1>1, NetworkAssumption DEF TypeOK
<1> QED
  BY <1>2, <1>4, <1>5, <1>6, <1>7, <1>8 DEF TypeOK

\* A key that a complete poll does not see.
LEMMA UnseenKey ==
  ASSUME NetInv, NEW k \in Keys, gap' = 0,
         endpoints'[k] = IF k \in Tracked /\ Forgotten(k) THEN NoEndpoint ELSE endpoints[k],
         sighted'[k] = sighted[k],
         hidden'[k] = IF k \in open THEN hidden[k] + 1 ELSE hidden[k],
         UNCHANGED <<open, quiet, used, openings>>
  PROVE  KeyInv(k)'
<1>1. TypeOK /\ KeyInv(k)
  BY DEF NetInv
<1>2. openings[k] \in Nat /\ hidden[k] \in Nat /\ gap \in Nat
  BY <1>1, NetworkAssumption DEF TypeOK
<1>3. k \in open => quiet[k] = 0 /\ openings[k] > 0
  BY <1>1 DEF KeyInv, CountedKey
<1>4. CASE endpoints[k] = NoEndpoint
  BY <1>1, <1>3, <1>4 DEF Tracked, KeyInv, KeptKey, ForgottenKey, CountedKey
<1>5. CASE endpoints[k] # NoEndpoint
  <2>1. endpoints[k] \in Endpoint
    BY <1>1, <1>5 DEF TypeOK
  <2>2. endpoints[k].last \in Nat /\ endpoints[k].count \in Nat
    BY <2>1, ClockFacts DEF Endpoint
  <2>3. /\ endpoints[k].last = sighted[k] /\ quiet[k] <= endpoints[k].last
        /\ endpoints[k].first <= used[k]
    BY <1>1, <1>5 DEF KeyInv, KeptKey
  <2>4. CASE endpoints[k].last > ForgetAfter
    <3>1. endpoints'[k] = NoEndpoint
      BY <1>5, <2>4 DEF Tracked, Forgotten
    <3> QED
      BY <1>3, <2>3, <2>4, <3>1 DEF KeyInv, KeptKey, ForgottenKey, CountedKey
  <2>5. CASE ~(endpoints[k].last > ForgetAfter)
    <3>1. endpoints'[k] = endpoints[k]
      BY <2>5 DEF Tracked, Forgotten
    <3>2. KeptKey(k)' /\ ForgottenKey(k)'
      BY <1>5, <2>2, <2>3, <2>5, <3>1, NetworkAssumption DEF KeptKey, ForgottenKey
    <3>3. MaxGap <= SessionGap => endpoints[k].count <= openings[k] + hidden[k]
      BY <1>1, <1>5 DEF KeyInv, CountedKey
    <3>4. CountedKey(k)'
      BY <1>2, <1>3, <2>2, <3>1, <3>3 DEF CountedKey
    <3> QED
      BY <3>2, <3>4 DEF KeyInv
  <2> QED
    BY <2>4, <2>5
<1> QED
  BY <1>4, <1>5

LEMMA SampleKeeps ==
  ASSUME NetInv, Sample
  PROVE  NetInv'
<1>1. PICK seen \in {open, {}} :
        /\ endpoints' = [k \in Keys |->
             IF k \in seen THEN Seen(k)
             ELSE IF k \in Tracked /\ Forgotten(k) THEN NoEndpoint ELSE endpoints[k]]
        /\ gap' = 0
        /\ sighted' = [k \in Keys |-> IF k \in seen THEN 0 ELSE sighted[k]]
        /\ hidden' = [k \in Keys |-> IF k \in open \ seen THEN hidden[k] + 1 ELSE hidden[k]]
  BY Zenon DEF Sample
<1>2. UNCHANGED <<open, quiet, used, openings>>
  BY DEF Sample
<1>3. ASSUME NEW k \in Keys PROVE KeyInv(k)'
  <2>1. CASE k \in seen
    BY <1>1, <1>2, <2>1, SeenKey
  <2>2. CASE k \notin seen
    <3>1. /\ endpoints'[k] = IF k \in Tracked /\ Forgotten(k) THEN NoEndpoint ELSE endpoints[k]
          /\ sighted'[k] = sighted[k]
          /\ hidden'[k] = IF k \in open THEN hidden[k] + 1 ELSE hidden[k]
      BY <1>1, <2>2
    <3> QED
      BY <1>1, <1>2, <3>1, UnseenKey
  <2> QED
    BY <2>1, <2>2
<1> QED
  BY <1>3, SampleTyped DEF NetInv

LEMMA SampleFailsKeeps ==
  ASSUME NetInv, SampleFails
  PROVE  NetInv'
<1>1. PICK seen \in SUBSET open :
        /\ endpoints' = [k \in Keys |-> IF k \in seen THEN Seen(k) ELSE endpoints[k]]
        /\ sighted' = [k \in Keys |-> IF k \in seen THEN 0 ELSE sighted[k]]
  BY Zenon DEF SampleFails
<1>2. UNCHANGED <<open, gap, quiet, used, openings, hidden>> /\ connections' = {}
  BY DEF SampleFails
<1>3. TypeOK /\ seen \subseteq Keys
  BY DEF NetInv, TypeOK
<1>4. TypeOK'
  <2>1. endpoints' \in [Keys -> Endpoint \cup {NoEndpoint}]
    BY <1>1, <1>3, SeenFacts DEF TypeOK
  <2>2. sighted' \in [Keys -> Clock]
    BY <1>1, <1>3, ClockFacts DEF TypeOK
  <2> QED
    BY <1>2, <1>3, <2>1, <2>2 DEF TypeOK
<1>5. ASSUME NEW k \in Keys PROVE KeyInv(k)'
  <2>1. CASE k \in seen
    <3>1. gap' \in Nat /\ hidden'[k] = hidden[k]
      BY <1>2, <1>3, NetworkAssumption DEF TypeOK
    <3> QED
      BY <1>1, <1>2, <2>1, <3>1, SeenKey
  <2>2. CASE k \notin seen
    <3>1. endpoints'[k] = endpoints[k] /\ sighted'[k] = sighted[k] /\ KeyInv(k)
      BY <1>1, <2>2 DEF NetInv
    <3> QED
      BY <1>2, <3>1 DEF KeyInv, KeptKey, ForgottenKey, CountedKey
  <2> QED
    BY <2>1, <2>2
<1> QED
  BY <1>4, <1>5 DEF NetInv

LEMMA OpenKeeps ==
  ASSUME NetInv, NEW k \in Keys, Open(k)
  PROVE  NetInv'
<1>1. TypeOK /\ KeyInv(k) /\ k \notin open
  BY DEF NetInv, Open
<1>2. /\ quiet[k] \in Nat /\ openings[k] \in 0 .. MaxOpenings /\ hidden[k] \in Nat /\ gap \in 0 .. MaxGap
  <2>1. quiet[k] \in Clock /\ openings[k] \in 0 .. MaxOpenings /\ hidden[k] \in 0 .. MaxHidden
    BY <1>1 DEF TypeOK
  <2>2. gap \in 0 .. MaxGap
    BY <1>1 DEF TypeOK
  <2>3. quiet[k] \in Nat
    BY <2>1, ClockFacts
  <2> QED
    BY <2>1, <2>2, <2>3, ConstantFacts
<1>3. TypeOK'
  <2>1. openings' \in [Keys -> 0 .. MaxOpenings]
    BY <1>1, <1>2, ClockFacts, NetworkAssumption DEF TypeOK, Open
  <2>2. /\ quiet' \in [Keys -> Clock] /\ used' \in [Keys -> Clock]
        /\ hidden' \in [Keys -> 0 .. MaxHidden]
    BY <1>1, ClockFacts, NetworkAssumption DEF TypeOK, Open
  <2> QED
    BY <1>1, <2>1, <2>2 DEF TypeOK, Open, sampler
<1>4. ASSUME NEW j \in Keys PROVE KeyInv(j)'
  <2>1. CASE j # k
    <3>1. /\ quiet'[j] = quiet[j] /\ used'[j] = used[j] /\ openings'[j] = openings[j]
          /\ hidden'[j] = hidden[j] /\ (j \in open' <=> j \in open)
          /\ UNCHANGED <<sampler, sighted>>
      BY <1>1, <2>1 DEF TypeOK, Open
    <3>2. KeyInv(j)
      BY DEF NetInv
    <3> QED
      BY <3>1, <3>2 DEF KeyInv, KeptKey, ForgottenKey, CountedKey, sampler
  <2>2. CASE j = k
    <3>1. /\ quiet'[k] = 0 /\ UNCHANGED <<endpoints, gap, sighted>> /\ k \in open'
          /\ used'[k] = IF quiet[k] > Bridge THEN 0 ELSE used[k]
          /\ openings'[k] = IF quiet[k] > Bridge THEN 1 ELSE openings[k] + 1
          /\ hidden'[k] = IF quiet[k] > Bridge THEN 0 ELSE hidden[k]
      BY <1>1 DEF TypeOK, Open, sampler
    <3>2. openings'[k] > 0
      BY <1>2, <3>1, NetworkAssumption
    <3>3. CASE endpoints[k] = NoEndpoint
      BY <1>1, <2>2, <3>1, <3>2, <3>3 DEF KeyInv, KeptKey, ForgottenKey, CountedKey
    <3>4. CASE endpoints[k] # NoEndpoint
      <4>1. endpoints[k].last \in Nat /\ endpoints[k].count \in Nat
        BY <1>1, <3>4, ClockFacts DEF TypeOK, Endpoint
      <4>2. /\ endpoints[k].last = sighted[k] /\ endpoints[k].last <= ForgetAfter + gap
            /\ quiet[k] <= endpoints[k].last /\ endpoints[k].first <= used[k]
        BY <1>1, <3>4 DEF KeyInv, KeptKey
      <4>3. ~(quiet[k] > Bridge)
        BY <1>2, <4>1, <4>2, NetworkAssumption DEF Bridge
      <4>4. KeptKey(k)' /\ ForgottenKey(k)'
        BY <3>1, <3>4, <4>1, <4>2, <4>3 DEF KeptKey, ForgottenKey
      <4>5. MaxGap <= SessionGap => endpoints[k].count <= openings[k] + hidden[k]
        BY <1>1, <3>4 DEF KeyInv, CountedKey
      <4>6. CountedKey(k)'
        BY <1>2, <3>1, <3>2, <4>1, <4>3, <4>5, NetworkAssumption DEF CountedKey
      <4> QED
        BY <2>2, <4>4, <4>6 DEF KeyInv
    <3> QED
      BY <3>3, <3>4
  <2> QED
    BY <2>1, <2>2
<1> QED
  BY <1>3, <1>4 DEF NetInv

LEMMA CloseKeeps ==
  ASSUME NetInv, NEW k \in Keys, Close(k)
  PROVE  NetInv'
<1>1. open' \subseteq open /\ UNCHANGED <<endpoints, connections, gap, quiet, sighted, used, openings, hidden>>
  BY DEF Close, sampler, history
<1>2. TypeOK'
  BY <1>1 DEF NetInv, TypeOK
<1>3. ASSUME NEW j \in Keys PROVE KeyInv(j)'
  BY <1>1 DEF NetInv, KeyInv, KeptKey, ForgottenKey, CountedKey
<1> QED
  BY <1>2, <1>3 DEF NetInv

LEMMA TickKeeps ==
  ASSUME NetInv, Tick
  PROVE  NetInv'
<1>1. TypeOK /\ gap < MaxGap /\ gap' = gap + 1 /\ gap \in Nat
      /\ UNCHANGED <<open, connections, openings, hidden>>
  <2>1. TypeOK /\ gap \in 0 .. MaxGap
    BY DEF NetInv, TypeOK
  <2>2. gap < MaxGap /\ gap' = gap + 1
    BY DEF Tick
  <2>3. UNCHANGED <<open, connections, openings, hidden>>
    BY DEF Tick
  <2> QED
    BY <2>1, <2>2, <2>3, ConstantFacts
<1>2. ASSUME NEW k \in Keys
      PROVE  /\ quiet'[k] = IF k \in open THEN 0 ELSE Later(quiet[k])
             /\ sighted'[k] = Later(sighted[k]) /\ used'[k] = Later(used[k])
             /\ endpoints[k] = NoEndpoint => endpoints'[k] = NoEndpoint
             /\ endpoints[k] # NoEndpoint =>
                  /\ endpoints[k] \in Endpoint /\ endpoints'[k] \in Endpoint
                  /\ endpoints'[k] # NoEndpoint
                  /\ endpoints'[k].first = Later(endpoints[k].first)
                  /\ endpoints'[k].last = Later(endpoints[k].last)
                  /\ endpoints'[k].count = endpoints[k].count
  <2>1. /\ quiet'[k] = IF k \in open THEN 0 ELSE Later(quiet[k])
        /\ sighted'[k] = Later(sighted[k]) /\ used'[k] = Later(used[k])
    BY DEF Tick
  <2>2. endpoints[k] = NoEndpoint => endpoints'[k] = NoEndpoint
    BY DEF Tick, Tracked
  <2>3. ASSUME endpoints[k] # NoEndpoint
        PROVE  /\ endpoints[k] \in Endpoint /\ endpoints'[k] \in Endpoint
               /\ endpoints'[k] # NoEndpoint
               /\ endpoints'[k].first = Later(endpoints[k].first)
               /\ endpoints'[k].last = Later(endpoints[k].last)
               /\ endpoints'[k].count = endpoints[k].count
    <3>1. endpoints[k] \in Endpoint
      BY <1>1, <2>3 DEF TypeOK
    <3>2. endpoints'[k] = [endpoints[k] EXCEPT !.first = Later(endpoints[k].first),
                                               !.last = Later(endpoints[k].last)]
      BY <2>3, <3>1 DEF Tick, Tracked, Endpoint
    <3>3. /\ endpoints'[k] \in Endpoint
          /\ endpoints'[k].first = Later(endpoints[k].first)
          /\ endpoints'[k].last = Later(endpoints[k].last)
          /\ endpoints'[k].count = endpoints[k].count
      BY <3>1, <3>2, ClockFacts DEF Endpoint
    <3>4. endpoints'[k].count # NoEndpoint.count
      BY <3>3 DEF Endpoint, NoEndpoint
    <3> QED
      BY <3>1, <3>3, <3>4
  <2> QED
    BY <2>1, <2>2, <2>3
<1>3. TypeOK'
  <2>1. endpoints' = [k \in Keys |-> endpoints'[k]]
    BY DEF Tick
  <2>2. endpoints' \in [Keys -> Endpoint \cup {NoEndpoint}]
    BY <1>2, <2>1
  <2>3. quiet' \in [Keys -> Clock] /\ sighted' \in [Keys -> Clock] /\ used' \in [Keys -> Clock]
    BY <1>1, ClockFacts DEF Tick, TypeOK
  <2> QED
    BY <1>1, <2>2, <2>3, NetworkAssumption DEF TypeOK
<1>4. ASSUME NEW k \in Keys PROVE KeyInv(k)'
  <2>1. KeyInv(k) /\ sighted[k] \in Clock /\ used[k] \in Clock /\ quiet[k] \in Clock
    BY <1>1 DEF NetInv, TypeOK
  <2>2. k \in open => quiet'[k] = 0 /\ openings'[k] > 0
    BY <1>1, <1>2, <2>1 DEF KeyInv, CountedKey
  <2>3. CASE endpoints[k] = NoEndpoint
    <3>1. endpoints'[k] = NoEndpoint /\ sighted[k] > ForgetAfter
      BY <1>2, <2>1, <2>3 DEF KeyInv, ForgottenKey
    <3>2. sighted'[k] > ForgetAfter
      BY <1>2, <2>1, <3>1, NetworkAssumption DEF Clock, Later, Bridge
    <3> QED
      BY <1>1, <2>2, <3>1, <3>2 DEF KeyInv, KeptKey, ForgottenKey, CountedKey
  <2>4. CASE endpoints[k] # NoEndpoint
    <3> DEFINE e == endpoints[k]
               f == endpoints'[k]
    <3>1. /\ e \in Endpoint /\ f # NoEndpoint /\ f.first = Later(e.first)
          /\ f.last = Later(e.last) /\ f.count = e.count
      BY <1>2, <2>4
    <3>2. e.first \in Clock /\ e.last \in Clock /\ e.count \in Nat
      BY <3>1 DEF Endpoint
    <3>3. /\ e.last = sighted[k] /\ e.last <= ForgetAfter + gap
          /\ quiet[k] <= e.last /\ e.first <= used[k]
      BY <2>1, <2>4 DEF KeyInv, KeptKey
    <3>4. f.last = e.last + 1
      BY <1>1, <3>1, <3>2, <3>3, NetworkAssumption DEF Later, Clock, Bridge
    <3>5. KeptKey(k)' /\ ForgottenKey(k)'
      <4>1. f.last <= ForgetAfter + gap'
        BY <1>1, <3>2, <3>3, <3>4, NetworkAssumption DEF Clock
      <4>2. quiet'[k] <= f.last
        BY <1>2, <2>1, <3>2, <3>3, <3>4, NetworkAssumption DEF Clock, Later
      <4>3. f.first <= used'[k]
        BY <1>2, <2>1, <3>1, <3>2, <3>3, NetworkAssumption DEF Clock, Later
      <4>4. f.last = sighted'[k]
        BY <1>2, <3>1, <3>3
      <4> QED
        BY <3>1, <4>1, <4>2, <4>3, <4>4 DEF KeptKey, ForgottenKey
    <3>6. CountedKey(k)'
      <4>1. MaxGap <= SessionGap =>
              /\ e.count <= openings[k] + hidden[k]
              /\ k \in open /\ e.last > gap => e.count < openings[k] + hidden[k]
        BY <2>1, <2>4 DEF KeyInv, CountedKey
      <4>2. f.last > gap' => e.last > gap
        <5>1. e.last \in Nat
          BY <3>2, ClockFacts
        <5> HIDE DEF e, f
        <5> QED
          BY <1>1, <3>4, <5>1
      <4> HIDE DEF e
      <4> QED
        BY <1>1, <2>2, <3>1, <4>1, <4>2 DEF CountedKey
    <3> QED
      BY <3>5, <3>6 DEF KeyInv
  <2> QED
    BY <2>3, <2>4
<1> QED
  BY <1>3, <1>4 DEF NetInv

LEMMA NetInvInductive == NetInv /\ [Next]_vars => NetInv'
<1> SUFFICES ASSUME NetInv, [Next]_vars PROVE NetInv'
  OBVIOUS
<1>1. CASE Sample
  BY <1>1, SampleKeeps
<1>2. CASE SampleFails
  BY <1>2, SampleFailsKeeps
<1>3. CASE Tick
  BY <1>3, TickKeeps
<1>4. ASSUME NEW k \in Keys, Open(k) PROVE NetInv'
  BY <1>4, OpenKeeps
<1>5. ASSUME NEW k \in Keys, Close(k) PROVE NetInv'
  BY <1>5, CloseKeeps
<1>6. CASE UNCHANGED vars
  BY <1>6 DEF NetInv, TypeOK, KeyInv, KeptKey, ForgottenKey, CountedKey, Tracked, vars, sampler, history
<1> QED
  BY <1>1, <1>2, <1>3, <1>4, <1>5, <1>6 DEF Next, Environment

LEMMA NetInvHolds == Spec => []NetInv
BY InitNetInv, NetInvInductive, PTL DEF Spec

-----------------------------------------------------------------------------
(* The theorems.                                                           *)

\* TypeOK of the sampler: endpoints, counts and clocks keep their types.
THEOREM TypesHold == Spec => []TypeOK
<1>1. NetInv => TypeOK
  BY DEF NetInv
<1> QED
  BY <1>1, NetInvHolds, PTL

\* The cleanup at the end of sample: no endpoint outlives eight intervals and
\* the time between two polls without being seen.
THEOREM NothingIsKept == Spec => []EndpointsAreForgotten
<1>1. ASSUME NetInv, NEW k \in Tracked PROVE sighted[k] <= Bridge
  <2>1. k \in Keys /\ endpoints[k] # NoEndpoint /\ endpoints[k] \in Endpoint /\ gap \in 0 .. MaxGap
    BY <1>1 DEF Tracked, NetInv, TypeOK
  <2>2. endpoints[k].last = sighted[k] /\ endpoints[k].last <= ForgetAfter + gap
    BY <1>1, <2>1 DEF NetInv, KeyInv, KeptKey
  <2>3. endpoints[k].last \in Nat
    BY <2>1, ClockFacts DEF Endpoint
  <2> QED
    BY <2>1, <2>2, <2>3, NetworkAssumption DEF Bridge
<1>2. NetInv => EndpointsAreForgotten
  BY <1>1 DEF EndpointsAreForgotten
<1> QED
  BY <1>2, NetInvHolds, PTL

\* connection_count: while polls keep to three intervals, no session is counted
\* for a socket that stayed open and listed.
THEOREM SessionsAreReal == Spec => []SessionsAreOpenings
<1>1. NetInv => SessionsAreOpenings
  BY DEF NetInv, KeyInv, CountedKey, SessionsAreOpenings, Tracked
<1> QED
  BY <1>1, NetInvHolds, PTL

\* What a connection of a complete poll says of its key.
LEMMA ConnectionFacts ==
  ASSUME TypeOK, Sample, NEW c \in connections'
  PROVE  c.key \in open /\ c.duration = Seen(c.key).first /\ c.count = Seen(c.key).count
<1>1. PICK seen \in {open, {}} :
        connections' = {[key |-> k, duration |-> Seen(k).first, count |-> Seen(k).count] : k \in seen}
  BY Zenon DEF Sample
<1>2. PICK k \in seen : c = [key |-> k, duration |-> Seen(k).first, count |-> Seen(k).count]
  BY <1>1
<1> QED
  BY <1>2

\* duration_seconds: no poll reports a connection as older than its use.
THEOREM DurationsAreReal == Spec => DurationIsUse
<1>1. ASSUME NetInv, Sample, NEW c \in connections' PROVE c.duration <= used[c.key]
  <2>1. TypeOK /\ c.key \in Keys /\ c.duration = Seen(c.key).first
    BY <1>1, ConnectionFacts DEF NetInv, TypeOK
  <2>2. used[c.key] \in Nat
    BY <2>1, ClockFacts DEF TypeOK
  <2>3. endpoints[c.key] # NoEndpoint => endpoints[c.key].first <= used[c.key]
    BY <1>1, <2>1 DEF NetInv, KeyInv, KeptKey
  <2>4. Seen(c.key).first = 0 \/ (endpoints[c.key] # NoEndpoint /\ Seen(c.key).first = endpoints[c.key].first)
    BY <2>1, SeenFacts
  <2> QED
    BY <2>1, <2>2, <2>3, <2>4
<1>2. NetInv => [Sample => \A c \in connections' : c.duration <= used[c.key]]_vars
  BY <1>1
<1> QED
  BY <1>2, NetInvHolds, PTL DEF DurationIsUse

\* The brief memory of closed endpoints: what returns in time is a repetition.
THEOREM RepeatsAreFound == Spec => RepeatsAreRecognised
<1>1. ASSUME NetInv, Sample, NEW c \in connections',
             SessionGap < sighted[c.key], sighted[c.key] <= ForgetAfter
      PROVE  c.count > 1
  <2>1. TypeOK /\ c.key \in Keys /\ c.count = Seen(c.key).count /\ KeyInv(c.key)
    BY <1>1, ConnectionFacts DEF NetInv, TypeOK
  <2>2. sighted[c.key] \in Nat
    BY <2>1, ClockFacts DEF TypeOK
  <2>3. endpoints[c.key] # NoEndpoint
    BY <1>1, <2>1, <2>2, NetworkAssumption DEF KeyInv, ForgottenKey
  <2>4. endpoints[c.key].last = sighted[c.key]
    BY <2>1, <2>3 DEF KeyInv, KeptKey
  <2>5. endpoints[c.key] \in Endpoint /\ Seen(c.key).count = endpoints[c.key].count + 1
    BY <1>1, <2>1, <2>2, <2>3, <2>4, SeenFacts, NetworkAssumption
  <2> QED
    BY <2>1, <2>5 DEF Endpoint
<1>2. NetInv => [Sample => \A c \in connections' :
                   SessionGap < sighted[c.key] /\ sighted[c.key] <= ForgetAfter => c.count > 1]_vars
  BY <1>1
<1> QED
  BY <1>2, NetInvHolds, PTL DEF RepeatsAreRecognised
=============================================================================
