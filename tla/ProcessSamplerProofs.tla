-------------------------- MODULE ProcessSamplerProofs --------------------------
(***************************************************************************)
(* The process sampler for any number of pids and processes and any time   *)
(* constants.                                                              *)
(***************************************************************************)
EXTENDS ProcessSampler, TLAPS

LEMMA ClockFacts ==
  /\ Clock \subseteq Nat /\ 0 \in Clock /\ Cap \in Clock
  /\ \A c \in Clock : Later(c) \in Clock /\ c <= Cap
  /\ \A m, n \in Clock : Plus(m, n) \in Clock
BY SamplerAssumption DEF Clock, Later, Plus

\* The state a process has in a poll before it is read.
LEMMA StateForTyped ==
  ASSUME TypeOK, NEW p \in LivePids
  PROVE  /\ p \in Pids /\ running[p] \in Processes
         /\ StateFor(p) \in State
         /\ states[p] # NoState => StateFor(p) = states[p]
         /\ states[p] = NoState =>
              StateFor(p) = [process |-> running[p], baseline |-> FALSE, name |-> Nobody,
                             sustained |-> 0, since |-> 0]
<1>1. p \in Pids /\ running[p] \in Processes
  BY DEF TypeOK, LivePids
<1>2. [process |-> running[p], baseline |-> FALSE, name |-> Nobody,
       sustained |-> 0, since |-> 0] \in State
  BY <1>1, ClockFacts DEF State
<1>3. states[p] # NoState => states[p] \in State
  BY <1>1 DEF TypeOK
<1> QED
  BY <1>1, <1>2, <1>3 DEF StateFor

\* What a poll makes of the state of one process.
LEMMA ReadTyped ==
  ASSUME TypeOK, NEW p \in LivePids, NEW outcome \in Outcomes(p), NEW named \in BOOLEAN
  PROVE  LET s == StateFor(p)
             r == Read(p, outcome, named)
         IN  /\ outcome = "unopened" => states[p] = NoState /\ r = NoState
             /\ outcome = "unread" => r = s
             /\ outcome \in {"idle", "busy"} =>
                  /\ r \in State /\ r.process = s.process /\ r.baseline /\ r.since = 0
                  /\ r.sustained = IF outcome = "busy" THEN Plus(s.sustained, s.since) ELSE 0
                  /\ r.name \in {s.name, running[p]}
             /\ outcome \in {"unopened", "unread", "idle", "busy"}
             /\ AllBusy(p) => outcome \in {"unread", "busy"}
             /\ r \in State \cup {NoState}
             /\ MissedBy(p, outcome) \in Clock
<1> DEFINE s == StateFor(p)
           r == Read(p, outcome, named)
<1>1. s \in State /\ running[p] \in Processes /\ p \in Pids
  BY StateForTyped
<1>2. outcome \in {"unopened", "unread", "idle", "busy"}
  BY DEF Outcomes
<1>3. outcome = "unopened" => states[p] = NoState
  BY DEF Outcomes
<1>4. AllBusy(p) => outcome \in {"unread", "busy"}
  <2>1. AllBusy(p) => states[p] # NoState
    BY StateForTyped DEF AllBusy
  <2> QED
    BY <2>1 DEF Outcomes, AllBusy
<1>5. outcome = "unopened" => r = NoState
  BY DEF Read
<1>6. outcome = "unread" => r = s
  BY DEF Read
<1>7. ASSUME outcome \in {"idle", "busy"}
      PROVE  /\ r \in State /\ r.process = s.process /\ r.baseline /\ r.since = 0
             /\ r.sustained = IF outcome = "busy" THEN Plus(s.sustained, s.since) ELSE 0
             /\ r.name \in {s.name, running[p]}
  <2>1. r = [s EXCEPT !.baseline = TRUE, !.since = 0,
               !.sustained = IF outcome = "busy" THEN Plus(s.sustained, s.since) ELSE 0,
               !.name = IF named /\ s.name = Nobody THEN running[p] ELSE s.name]
    BY <1>1, <1>7 DEF Read, State
  <2>2. (IF outcome = "busy" THEN Plus(s.sustained, s.since) ELSE 0) \in Clock
    BY <1>1, ClockFacts DEF State
  <2>3. 0 \in Clock
    BY ClockFacts
  <2> HIDE DEF s, r
  <2> QED
    BY <1>1, <2>1, <2>2, <2>3 DEF State
<1>8. MissedBy(p, outcome) \in Clock
  BY <1>1 DEF MissedBy, TypeOK
<1> QED
  BY <1>1, <1>2, <1>3, <1>4, <1>5, <1>6, <1>7, <1>8

-----------------------------------------------------------------------------
(* Polls, pid by pid.                                                      *)

\* What a poll, complete or not, does to a pid that it reads.
PolledPid(p) ==
  \E outcome \in Outcomes(p), named \in BOOLEAN :
    states'[p] = Read(p, outcome, named) /\ missed'[p] = MissedBy(p, outcome)

LEMMA SamplePids ==
  ASSUME TypeOK, Sample
  PROVE  /\ UNCHANGED <<table, age, pegged>> /\ gap' = 0
         /\ states' = [p \in Pids |-> states'[p]] /\ missed' = [p \in Pids |-> missed'[p]]
         /\ \A p \in LivePids : PolledPid(p)
         /\ \A p \in Pids \ LivePids : states'[p] = NoState /\ missed'[p] = missed[p]
         /\ \A row \in rows' : /\ row.pid \in LivePids /\ states'[row.pid] # NoState
                              /\ row.name = states'[row.pid].name /\ row.name # Nobody
                              /\ row \in [pid : {row.pid}, name : {row.name}, busy : BOOLEAN,
                                          sustained : {states'[row.pid].sustained}]
<1>1. PICK outcome \in [LivePids -> UNION {Outcomes(p) : p \in LivePids}],
           named \in SUBSET LivePids :
        /\ \A p \in LivePids : outcome[p] \in Outcomes(p)
        /\ states' = [p \in Pids |->
             IF p \in LivePids THEN Read(p, outcome[p], p \in named)
             ELSE IF p \in Stale THEN NoState ELSE states[p]]
        /\ rows' = {[pid |-> p, name |-> states'[p].name, busy |-> outcome[p] = "busy",
                     sustained |-> states'[p].sustained] :
                      p \in {q \in LivePids : HasRow(outcome[q], states'[q])}}
        /\ missed' = [p \in Pids |->
             IF p \in LivePids THEN MissedBy(p, outcome[p]) ELSE missed[p]]
  BY Zenon DEF Sample
<1>2. UNCHANGED <<table, age, pegged>> /\ gap' = 0
  BY DEF Sample
<1>3. ASSUME NEW p \in LivePids
      PROVE  PolledPid(p)
  <2>1. p \in Pids /\ (p \in named) \in BOOLEAN
    BY DEF LivePids
  <2>2. states'[p] = Read(p, outcome[p], p \in named) /\ missed'[p] = MissedBy(p, outcome[p])
    BY <1>1, <2>1
  <2> QED
    BY <1>1, <2>1, <2>2 DEF PolledPid
<1>4. \A p \in Pids \ LivePids : states'[p] = NoState /\ missed'[p] = missed[p]
  BY <1>1 DEF Stale
<1>5. ASSUME NEW row \in rows'
      PROVE  /\ row.pid \in LivePids /\ states'[row.pid] # NoState
             /\ row.name = states'[row.pid].name /\ row.name # Nobody
             /\ row \in [pid : {row.pid}, name : {row.name}, busy : BOOLEAN,
                         sustained : {states'[row.pid].sustained}]
  <2>1. PICK p \in LivePids :
          /\ HasRow(outcome[p], states'[p])
          /\ row = [pid |-> p, name |-> states'[p].name, busy |-> outcome[p] = "busy",
                    sustained |-> states'[p].sustained]
    BY <1>1
  <2>2. outcome[p] \in {"idle", "busy"} /\ states'[p].name # Nobody
    BY <2>1 DEF HasRow
  <2>3. PICK loaded \in BOOLEAN : states'[p] = Read(p, outcome[p], loaded)
    <3>1. states'[p] = Read(p, outcome[p], p \in named) /\ (p \in named) \in BOOLEAN
      BY <1>1 DEF LivePids
    <3> QED
      BY <3>1, Zenon
  <2>4. states'[p] \in State
    BY <1>1, <2>2, <2>3, ReadTyped
  <2>5. states'[p] # NoState
    BY <2>4 DEF State, NoState, Nobody, Processes
  <2>6. (outcome[p] = "busy") \in BOOLEAN
    OBVIOUS
  <2> QED
    BY <2>1, <2>2, <2>5, <2>6
<1> QED
  BY <1>1, <1>2, <1>3, <1>4, <1>5

LEMMA FailPids ==
  ASSUME TypeOK, SampleFails
  PROVE  /\ UNCHANGED <<table, age, pegged, gap>> /\ rows' = {}
         /\ states' = [p \in Pids |-> states'[p]] /\ missed' = [p \in Pids |-> missed'[p]]
         /\ \A p \in Pids : \/ p \in LivePids /\ PolledPid(p)
                            \/ states'[p] = states[p] /\ missed'[p] = missed[p]
<1>1. PICK reached \in SUBSET LivePids :
        \E outcome \in [reached -> UNION {Outcomes(p) : p \in reached}],
           named \in SUBSET reached :
          /\ \A p \in reached : outcome[p] \in Outcomes(p)
          /\ states' = [p \in Pids |->
               IF p \in reached THEN Read(p, outcome[p], p \in named) ELSE states[p]]
          /\ missed' = [p \in Pids |->
               IF p \in reached THEN MissedBy(p, outcome[p]) ELSE missed[p]]
  BY Zenon DEF SampleFails
<1>2. PICK outcome \in [reached -> UNION {Outcomes(p) : p \in reached}],
           named \in SUBSET reached :
          /\ \A p \in reached : outcome[p] \in Outcomes(p)
          /\ states' = [p \in Pids |->
               IF p \in reached THEN Read(p, outcome[p], p \in named) ELSE states[p]]
          /\ missed' = [p \in Pids |->
               IF p \in reached THEN MissedBy(p, outcome[p]) ELSE missed[p]]
  BY <1>1
<1>3. UNCHANGED <<table, age, pegged, gap>> /\ rows' = {}
  BY DEF SampleFails
<1>4. ASSUME NEW p \in Pids
      PROVE  \/ p \in LivePids /\ PolledPid(p)
             \/ states'[p] = states[p] /\ missed'[p] = missed[p]
  <2>1. CASE p \in reached
    <3>1. p \in LivePids /\ (p \in named) \in BOOLEAN /\ outcome[p] \in Outcomes(p)
      BY <1>2, <2>1
    <3>2. states'[p] = Read(p, outcome[p], p \in named) /\ missed'[p] = MissedBy(p, outcome[p])
      BY <1>2, <2>1
    <3> QED
      BY <3>1, <3>2 DEF PolledPid
  <2>2. CASE p \notin reached
    BY <1>2, <2>2
  <2> QED
    BY <2>1, <2>2
<1> QED
  BY <1>2, <1>3, <1>4

LEMMA PolledTyped ==
  ASSUME TypeOK, NEW p \in LivePids, PolledPid(p)
  PROVE  states'[p] \in State \cup {NoState} /\ missed'[p] \in Clock
<1>1. PICK outcome \in Outcomes(p), named \in BOOLEAN :
        states'[p] = Read(p, outcome, named) /\ missed'[p] = MissedBy(p, outcome)
  BY DEF PolledPid
<1> QED
  BY <1>1, ReadTyped

\* Every variable keeps its type.
THEOREM TypeCorrect == Spec => []TypeOK
<1>1. Init => TypeOK
  <2>1. SUFFICES ASSUME Init PROVE TypeOK
    OBVIOUS
  <2>2. started \in Processes \cup {0} /\ running \in [Pids -> Processes \cup {Nobody}]
    <3>1. started \in 0 .. MaxProcesses /\ running \in [Pids -> 0 .. started]
      BY <2>1, SamplerAssumption DEF Init, Processes
    <3>2. 0 .. started \subseteq Processes \cup {Nobody}
      BY <3>1, SamplerAssumption DEF Processes, Nobody
    <3> QED
      BY <2>1, <3>1, <3>2 DEF Init
  <2>3. states \in [Pids -> State \cup {NoState}]
    <3>1. PICK opened \in SUBSET LivePids : \E primed \in SUBSET opened :
            states = [p \in Pids |->
              IF p \notin opened THEN NoState
              ELSE [process |-> running[p], baseline |-> p \in primed, name |-> Nobody,
                    sustained |-> 0, since |-> 0]]
      BY <2>1, Zenon DEF Init
    <3>2. \A p \in opened : running[p] \in Processes
      BY <2>2 DEF LivePids
    <3> QED
      BY <3>1, <3>2, ClockFacts DEF State
  <2> QED
    BY <2>1, <2>2, <2>3, ClockFacts, SamplerAssumption DEF Init, TypeOK
<1>2. ASSUME TypeOK, [Next]_vars
      PROVE  TypeOK'
  <2>1. CASE UNCHANGED vars
    BY <1>2, <2>1 DEF TypeOK, vars
  <2>2. CASE Sample
    <3>1. /\ \A p \in Pids : states'[p] \in State \cup {NoState} /\ missed'[p] \in Clock
          /\ \A row \in rows' : row \in Row
      <4>1. \A p \in LivePids : states'[p] \in State \cup {NoState} /\ missed'[p] \in Clock
        BY <1>2, <2>2, SamplePids, PolledTyped
      <4>2. \A p \in Pids \ LivePids :
              states'[p] \in State \cup {NoState} /\ missed'[p] \in Clock
        BY <1>2, <2>2, SamplePids DEF TypeOK
      <4>3. ASSUME NEW row \in rows' PROVE row \in Row
        <5>1. /\ row.pid \in LivePids /\ states'[row.pid] # NoState
              /\ row.name = states'[row.pid].name /\ row.name # Nobody
              /\ row \in [pid : {row.pid}, name : {row.name}, busy : BOOLEAN,
                          sustained : {states'[row.pid].sustained}]
          BY <1>2, <2>2, SamplePids
        <5>2. states'[row.pid] \in State
          BY <4>1, <5>1
        <5>3. row.name \in Processes /\ states'[row.pid].sustained \in Clock
          BY <5>1, <5>2 DEF State
        <5>4. row.pid \in Pids
          BY <5>1 DEF LivePids
        <5> QED
          BY <5>1, <5>3, <5>4 DEF Row
      <4> QED
        BY <4>1, <4>2, <4>3
    <3>2. /\ UNCHANGED <<table, age, pegged>> /\ gap' = 0
          /\ states' = [p \in Pids |-> states'[p]] /\ missed' = [p \in Pids |-> missed'[p]]
      BY <1>2, <2>2, SamplePids
    <3> QED
      BY <1>2, <3>1, <3>2, SamplerAssumption DEF TypeOK, table
  <2>3. CASE SampleFails
    <3>1. \A p \in Pids : states'[p] \in State \cup {NoState} /\ missed'[p] \in Clock
      BY <1>2, <2>3, FailPids, PolledTyped DEF TypeOK
    <3>2. /\ UNCHANGED <<table, age, pegged, gap>> /\ rows' = {}
          /\ states' = [p \in Pids |-> states'[p]] /\ missed' = [p \in Pids |-> missed'[p]]
      BY <1>2, <2>3, FailPids
    <3> QED
      BY <1>2, <3>1, <3>2 DEF TypeOK, table
  <2>4. ASSUME NEW p \in Pids, Start(p)
        PROVE  TypeOK'
    BY <1>2, <2>4, SamplerAssumption DEF TypeOK, Start, Processes
  <2>5. ASSUME NEW p \in Pids, Exit(p)
        PROVE  TypeOK'
    BY <1>2, <2>5, ClockFacts DEF TypeOK, Exit
  <2>6. CASE Tick
    <3>1. pegged' \in [Pids -> Clock] /\ missed' \in [Pids -> Clock] /\ age' \in [Pids -> Clock]
      BY <1>2, <2>6, ClockFacts DEF TypeOK, Tick
    <3>2. states' \in [Pids -> State \cup {NoState}]
      <4>1. ASSUME NEW p \in Pids, states[p] # NoState
            PROVE  [states[p] EXCEPT !.since = Later(@)] \in State
        <5>1. states[p] \in State
          BY <1>2, <4>1 DEF TypeOK
        <5>2. Later(states[p].since) \in Clock
          BY <5>1, ClockFacts DEF State
        <5> QED
          BY <5>1, <5>2 DEF State
      <4> QED
        BY <2>6, <4>1 DEF Tick
    <3>3. vacant' \in [Pids -> 0 .. ReuseAfter]
      BY <1>2, <2>6, SamplerAssumption DEF TypeOK, Tick
    <3>4. gap' \in 0 .. MaxGap
      BY <1>2, <2>6, SamplerAssumption DEF TypeOK, Tick
    <3> QED
      BY <1>2, <2>6, <3>1, <3>2, <3>3, <3>4 DEF TypeOK, Tick
  <2> QED
    BY <1>2, <2>1, <2>2, <2>3, <2>4, <2>5, <2>6 DEF Next, Environment
<1> QED
  BY <1>1, <1>2, PTL DEF Spec

-----------------------------------------------------------------------------
(* Attribution.                                                            *)

\* Clocks of pids that nobody holds, and of those that somebody does.
ClockInv ==
  \A p \in Pids :
    /\ running[p] = Nobody => age[p] = 0 /\ pegged[p] = 0
    /\ running[p] # Nobody => vacant[p] = 0

\* A state outlives its process by no more than the time to the next complete
\* poll, in which its pid stays free.
HandleInv ==
  MaxGap < ReuseAfter =>
    \A p \in Pids : states[p] # NoState =>
      /\ running[p] # Nobody => /\ states[p].process = running[p]
                                /\ states[p].name \in {Nobody, running[p]}
      /\ running[p] = Nobody => vacant[p] <= gap

\* The invariant of the four promises.
IInv == TypeOK /\ ClockInv /\ HandleInv /\ SustainedIsLived /\ SpellIsCounted

LEMMA PlusLater ==
  ASSUME NEW m \in Clock, NEW n \in Clock, NEW k \in Clock, Plus(m, n) <= k
  PROVE  Plus(m, Later(n)) <= Later(k)
BY SamplerAssumption DEF Clock, Plus, Later

\* What a reading does to the three invariants of a live pid.
LEMMA ReadingKeeps ==
  ASSUME IInv, NEW p \in LivePids, PolledPid(p)
  PROVE  /\ MaxGap < ReuseAfter /\ states'[p] # NoState =>
              /\ states'[p].process = running[p]
              /\ states'[p].name \in {Nobody, running[p]}
              /\ Plus(states'[p].sustained, states'[p].since) <= age[p]
         /\ states'[p] # NoState /\ states'[p].baseline /\ states'[p].process = running[p] =>
              pegged[p] <= states'[p].sustained + states'[p].since + missed'[p]
<1>1. PICK outcome \in Outcomes(p), named \in BOOLEAN :
        states'[p] = Read(p, outcome, named) /\ missed'[p] = MissedBy(p, outcome)
  BY DEF PolledPid
<1> DEFINE s == StateFor(p)
           r == states'[p]
<1>2. TypeOK
  BY DEF IInv
<1>3. /\ p \in Pids /\ running[p] \in Processes /\ s \in State
      /\ states[p] # NoState => s = states[p]
      /\ states[p] = NoState =>
           s = [process |-> running[p], baseline |-> FALSE, name |-> Nobody,
                sustained |-> 0, since |-> 0]
  BY <1>2, StateForTyped
<1>4. /\ outcome = "unopened" => r = NoState
      /\ outcome = "unread" => r = s
      /\ outcome \in {"idle", "busy"} =>
           /\ r.process = s.process /\ r.baseline /\ r.since = 0
           /\ r.sustained = IF outcome = "busy" THEN Plus(s.sustained, s.since) ELSE 0
           /\ r.name \in {s.name, running[p]}
      /\ outcome \in {"unopened", "unread", "idle", "busy"}
      /\ AllBusy(p) => outcome \in {"unread", "busy"}
  BY <1>1, <1>2, ReadTyped
<1>5. /\ s.sustained \in Clock /\ s.since \in Clock /\ age[p] \in Clock
      /\ pegged[p] \in Clock /\ missed[p] \in Clock
      /\ 0 \in Clock /\ Plus(s.sustained, s.since) \in Clock
  BY <1>2, <1>3, ClockFacts DEF TypeOK, State
<1>6. ASSUME MaxGap < ReuseAfter, r # NoState
      PROVE  /\ r.process = running[p] /\ r.name \in {Nobody, running[p]}
             /\ Plus(r.sustained, r.since) <= age[p]
  <2>1. /\ s.process = running[p] /\ s.name \in {Nobody, running[p]}
        /\ Plus(s.sustained, s.since) <= age[p]
    <3>1. CASE states[p] # NoState
      BY <1>3, <1>6, <3>1 DEF IInv, HandleInv, SustainedIsLived, LivePids
    <3>2. CASE states[p] = NoState
      <4>1. s.process = running[p] /\ s.name = Nobody /\ s.sustained = 0 /\ s.since = 0
        BY <1>3, <3>2
      <4>2. Plus(0, 0) <= age[p]
        BY <1>5, SamplerAssumption DEF Plus, Clock
      <4> QED
        BY <4>1, <4>2
    <3> QED
      BY <3>1, <3>2
  <2>2. CASE outcome = "unread"
    BY <1>4, <2>1, <2>2
  <2>3. CASE outcome \in {"idle", "busy"}
    <3>1. r.sustained \in {0, Plus(s.sustained, s.since)} /\ r.since = 0
      BY <1>4, <2>3
    <3>2. Plus(0, 0) <= age[p] /\ Plus(Plus(s.sustained, s.since), 0) <= age[p]
      BY <1>5, <2>1, SamplerAssumption DEF Plus, Clock
    <3> QED
      BY <1>4, <2>1, <2>3, <3>1, <3>2
  <2> QED
    BY <1>4, <1>6, <2>2, <2>3
<1>7. ASSUME r # NoState, r.baseline, r.process = running[p]
      PROVE  pegged[p] <= r.sustained + r.since + missed'[p]
  <2>1. CASE outcome = "unread"
    <3>1. states[p] # NoState
      BY <1>3, <1>4, <1>7, <2>1
    <3>2. pegged[p] <= s.sustained + s.since + missed[p]
      BY <1>3, <1>4, <1>7, <2>1, <3>1 DEF IInv, SpellIsCounted
    <3> QED
      BY <1>1, <1>4, <2>1, <3>2 DEF MissedBy
  <2>2. CASE outcome \in {"idle", "busy"} /\ ~AllBusy(p)
    <3>1. missed'[p] = pegged[p] /\ r.since = 0 /\ r.sustained \in Clock
      BY <1>1, <1>4, <1>5, <2>2 DEF MissedBy
    <3> QED
      BY <1>5, <3>1 DEF Clock
  <2>3. CASE outcome = "busy" /\ AllBusy(p)
    <3>1. states[p] # NoState /\ s.baseline /\ s.process = running[p]
      BY <1>3, <2>3 DEF AllBusy
    <3>2. pegged[p] <= s.sustained + s.since + missed[p]
      BY <1>3, <3>1 DEF IInv, SpellIsCounted
    <3>3. missed'[p] = missed[p] /\ r.since = 0 /\ r.sustained = Plus(s.sustained, s.since)
      BY <1>1, <1>4, <2>3 DEF MissedBy
    <3> QED
      BY <1>5, <3>2, <3>3, SamplerAssumption DEF Plus, Clock
  <2> QED
    BY <1>4, <1>7, <2>1, <2>2, <2>3
<1> QED
  BY <1>6, <1>7

LEMMA StepKeepsIInv ==
  ASSUME IInv, [Next]_vars, TypeOK'
  PROVE  IInv'
<1>1. TypeOK /\ ClockInv /\ HandleInv /\ SustainedIsLived /\ SpellIsCounted
  BY DEF IInv
<1>2. CASE UNCHANGED vars
  BY <1>1, <1>2
     DEF IInv, ClockInv, HandleInv, SustainedIsLived, SpellIsCounted, LivePids, vars
<1>3. CASE Sample
  <2>1. /\ running' = running /\ vacant' = vacant /\ age' = age /\ pegged' = pegged
        /\ \A p \in LivePids : PolledPid(p)
        /\ \A p \in Pids \ LivePids : states'[p] = NoState
    BY <1>1, <1>3, SamplePids DEF table
  <2>2. LivePids' = LivePids
    BY <2>1 DEF LivePids
  <2>3. ClockInv'
    BY <1>1, <2>1 DEF ClockInv
  <2>4. HandleInv'
    BY <2>1, ReadingKeeps DEF HandleInv, LivePids
  <2>5. SustainedIsLived'
    BY <2>1, <2>2, ReadingKeeps DEF SustainedIsLived
  <2>6. SpellIsCounted'
    BY <2>1, <2>2, ReadingKeeps DEF SpellIsCounted
  <2> QED
    BY <2>3, <2>4, <2>5, <2>6 DEF IInv
<1>4. CASE SampleFails
  <2>1. /\ running' = running /\ vacant' = vacant /\ age' = age /\ pegged' = pegged
        /\ gap' = gap
        /\ \A p \in Pids : \/ p \in LivePids /\ PolledPid(p)
                           \/ states'[p] = states[p] /\ missed'[p] = missed[p]
    BY <1>1, <1>4, FailPids DEF table
  <2>2. LivePids' = LivePids /\ LivePids \subseteq Pids
    BY <2>1 DEF LivePids
  <2>3. ClockInv'
    BY <1>1, <2>1 DEF ClockInv
  <2>4. HandleInv'
    BY <1>1, <2>1, ReadingKeeps DEF HandleInv, LivePids
  <2>5. SustainedIsLived'
    BY <1>1, <2>1, <2>2, ReadingKeeps DEF SustainedIsLived
  <2>6. SpellIsCounted'
    <3>1. SUFFICES ASSUME NEW p \in LivePids, states'[p] # NoState, states'[p].baseline,
                          states'[p].process = running[p]
          PROVE  pegged[p] <= states'[p].sustained + states'[p].since + missed'[p]
      BY <2>1, <2>2 DEF SpellIsCounted
    <3>2. CASE PolledPid(p)
      BY <3>1, <3>2, ReadingKeeps
    <3>3. CASE states'[p] = states[p] /\ missed'[p] = missed[p]
      BY <1>1, <3>1, <3>3 DEF SpellIsCounted
    <3> QED
      BY <2>1, <2>2, <3>2, <3>3
  <2> QED
    BY <2>3, <2>4, <2>5, <2>6 DEF IInv
<1>5. ASSUME NEW p \in Pids, Start(p)
      PROVE  IInv'
  <2>1. /\ running[p] = Nobody /\ vacant[p] >= ReuseAfter
        /\ running' = [running EXCEPT ![p] = started + 1]
        /\ vacant' = [vacant EXCEPT ![p] = 0]
        /\ UNCHANGED <<age, pegged, states, gap, missed>>
    BY <1>5 DEF Start
  <2>2. started + 1 # Nobody /\ started \in Nat
    BY <1>1, SamplerAssumption DEF TypeOK, Processes, Nobody
  <2>3. ClockInv'
    BY <1>1, <2>1, <2>2 DEF ClockInv, TypeOK
  <2>4. MaxGap < ReuseAfter => states[p] = NoState
    <3>1. vacant[p] \in Int /\ gap \in Int /\ gap <= MaxGap /\ MaxGap \in Int /\ ReuseAfter \in Int
      BY <1>1, SamplerAssumption DEF TypeOK
    <3> QED
      BY <1>1, <2>1, <3>1 DEF HandleInv
  <2>5. \A q \in Pids \ {p} : running'[q] = running[q] /\ vacant'[q] = vacant[q]
    BY <1>1, <2>1 DEF TypeOK
  <2>6. HandleInv'
    BY <1>1, <2>1, <2>4, <2>5 DEF HandleInv
  <2>7. \A q \in LivePids' : q = p \/ q \in LivePids
    BY <2>5 DEF LivePids
  <2>8. SustainedIsLived'
    BY <1>1, <2>1, <2>4, <2>7 DEF SustainedIsLived
  <2>9. SpellIsCounted'
    <3>1. SUFFICES ASSUME NEW q \in LivePids', states[q] # NoState, states[q].baseline,
                          states[q].process = running'[q]
          PROVE  pegged[q] <= states[q].sustained + states[q].since + missed[q]
      BY <2>1 DEF SpellIsCounted
    <3>2. CASE q = p
      <4>1. pegged[p] = 0
        BY <1>1, <2>1 DEF ClockInv
      <4>2. states[p] \in State
        BY <1>1, <3>1, <3>2 DEF TypeOK
      <4>3. states[p].sustained \in Nat /\ states[p].since \in Nat /\ missed[p] \in Nat
        BY <1>1, <4>2, ClockFacts DEF State, TypeOK
      <4> QED
        BY <3>2, <4>1, <4>3
    <3>3. CASE q # p
      BY <1>1, <2>5, <2>7, <3>1, <3>3 DEF SpellIsCounted, LivePids
    <3> QED
      BY <3>2, <3>3
  <2> QED
    BY <2>3, <2>6, <2>8, <2>9 DEF IInv
<1>6. ASSUME NEW p \in Pids, Exit(p)
      PROVE  IInv'
  <2>1. /\ running[p] # Nobody
        /\ running' = [running EXCEPT ![p] = Nobody]
        /\ age' = [age EXCEPT ![p] = 0] /\ pegged' = [pegged EXCEPT ![p] = 0]
        /\ missed' = [missed EXCEPT ![p] = 0]
        /\ UNCHANGED <<vacant, states, gap>>
    BY <1>6 DEF Exit
  <2>2. vacant[p] = 0 /\ gap >= 0
    BY <1>1, <2>1 DEF ClockInv, TypeOK
  <2>3. \A q \in Pids \ {p} : /\ running'[q] = running[q] /\ age'[q] = age[q]
                               /\ pegged'[q] = pegged[q] /\ missed'[q] = missed[q]
    BY <1>1, <2>1 DEF TypeOK
  <2>4. running'[p] = Nobody /\ age'[p] = 0 /\ pegged'[p] = 0
    BY <1>1, <2>1 DEF TypeOK
  <2>5. ClockInv'
    BY <1>1, <2>1, <2>3, <2>4 DEF ClockInv
  <2>6. HandleInv'
    BY <1>1, <2>1, <2>2, <2>3, <2>4 DEF HandleInv
  <2>7. \A q \in LivePids' : q # p /\ q \in LivePids /\ q \in Pids
    BY <2>3, <2>4 DEF LivePids
  <2>8. SustainedIsLived'
    BY <1>1, <2>1, <2>3, <2>7 DEF SustainedIsLived
  <2>9. SpellIsCounted'
    BY <1>1, <2>1, <2>3, <2>7 DEF SpellIsCounted
  <2> QED
    BY <2>5, <2>6, <2>8, <2>9 DEF IInv
<1>7. CASE Tick
  <2>1. PICK hot \in SUBSET LivePids :
          /\ pegged' = [p \in Pids |-> IF p \in hot THEN Later(pegged[p]) ELSE 0]
          /\ missed' = [p \in Pids |-> IF p \in hot THEN missed[p] ELSE 0]
    BY <1>7 DEF Tick
  <2>2. /\ running' = running /\ gap' = gap + 1
        /\ age' = [p \in Pids |-> IF p \in LivePids THEN Later(age[p]) ELSE 0]
        /\ vacant' = [p \in Pids |->
             IF p \notin LivePids /\ vacant[p] < ReuseAfter THEN vacant[p] + 1 ELSE vacant[p]]
        /\ states' = [p \in Pids |->
             IF states[p] = NoState THEN NoState ELSE [states[p] EXCEPT !.since = Later(@)]]
    BY <1>7 DEF Tick
  <2>3. LivePids' = LivePids
    BY <2>2 DEF LivePids
  <2>4. ASSUME NEW p \in Pids, states'[p] # NoState
        PROVE  /\ states[p] # NoState /\ states[p] \in State
               /\ states'[p].process = states[p].process /\ states'[p].name = states[p].name
               /\ states'[p].baseline = states[p].baseline
               /\ states'[p].sustained = states[p].sustained
               /\ states'[p].since = Later(states[p].since)
    <3>1. states[p] # NoState
      BY <2>2, <2>4
    <3>2. states[p] \in State
      BY <1>1, <3>1 DEF TypeOK
    <3>3. states'[p] = [states[p] EXCEPT !.since = Later(@)]
      BY <2>2, <3>1
    <3> QED
      BY <3>1, <3>2, <3>3 DEF State
  <2>5. ClockInv'
    BY <1>1, <2>1, <2>2 DEF ClockInv, LivePids
  <2>6. HandleInv'
    <3>1. SUFFICES ASSUME MaxGap < ReuseAfter, NEW p \in Pids, states'[p] # NoState
          PROVE  /\ running[p] # Nobody => /\ states'[p].process = running[p]
                                           /\ states'[p].name \in {Nobody, running[p]}
                 /\ running[p] = Nobody => vacant'[p] <= gap'
      BY <2>2 DEF HandleInv
    <3>2. running[p] # Nobody => /\ states'[p].process = running[p]
                                /\ states'[p].name \in {Nobody, running[p]}
      BY <1>1, <2>4, <3>1 DEF HandleInv
    <3>3. ASSUME running[p] = Nobody PROVE vacant'[p] <= gap'
      <4>1. vacant[p] <= gap
        BY <1>1, <2>4, <3>1, <3>3 DEF HandleInv
      <4>2. vacant[p] \in Int /\ gap \in Int
        BY <1>1, SamplerAssumption DEF TypeOK
      <4> QED
        BY <2>2, <4>1, <4>2
    <3> QED
      BY <3>2, <3>3
  <2>7. SustainedIsLived'
    <3>1. SUFFICES ASSUME MaxGap < ReuseAfter, NEW p \in LivePids, states'[p] # NoState
          PROVE  Plus(states'[p].sustained, states'[p].since) <= age'[p]
      BY <2>3 DEF SustainedIsLived
    <3>2. p \in Pids
      BY DEF LivePids
    <3>3. Plus(states[p].sustained, states[p].since) <= age[p]
      BY <1>1, <2>4, <3>1, <3>2 DEF SustainedIsLived
    <3>4. /\ states[p].sustained \in Clock /\ states[p].since \in Clock /\ age[p] \in Clock
      BY <1>1, <2>4, <3>1, <3>2 DEF State, TypeOK
    <3>5. Plus(states[p].sustained, Later(states[p].since)) <= Later(age[p])
      BY <3>3, <3>4, PlusLater
    <3>6. age'[p] = Later(age[p])
      BY <2>2, <3>2
    <3> QED
      BY <2>4, <3>1, <3>2, <3>5, <3>6
  <2>8. SpellIsCounted'
    <3>1. SUFFICES ASSUME NEW p \in LivePids, states'[p] # NoState, states'[p].baseline,
                          states'[p].process = running[p]
          PROVE  pegged'[p] <= states'[p].sustained + states'[p].since + missed'[p]
      BY <2>2, <2>3 DEF SpellIsCounted
    <3>2. p \in Pids
      BY DEF LivePids
    <3>3. /\ states[p] # NoState /\ states[p].baseline /\ states[p].process = running[p]
          /\ states'[p].sustained = states[p].sustained
          /\ states'[p].since = Later(states[p].since)
          /\ states[p].sustained \in Clock /\ states[p].since \in Clock
      BY <2>4, <3>1, <3>2 DEF State
    <3>4. pegged[p] \in Clock /\ missed[p] \in Clock
      BY <1>1, <3>2 DEF TypeOK
    <3>5. pegged[p] <= states[p].sustained + states[p].since + missed[p]
      BY <1>1, <3>3 DEF SpellIsCounted
    <3>6. CASE p \in hot
      <4>1. pegged'[p] = Later(pegged[p]) /\ missed'[p] = missed[p]
        BY <2>1, <3>2, <3>6
      <4> QED
        BY <3>3, <3>4, <3>5, <4>1, SamplerAssumption DEF Clock, Later
    <3>7. CASE p \notin hot
      <4>1. pegged'[p] = 0 /\ missed'[p] = 0
        BY <2>1, <3>2, <3>7
      <4> QED
        BY <3>3, <4>1, SamplerAssumption DEF Clock, Later
    <3> QED
      BY <3>6, <3>7
  <2> QED
    BY <2>5, <2>6, <2>7, <2>8 DEF IInv
<1> QED
  BY <1>1, <1>2, <1>3, <1>4, <1>5, <1>6, <1>7 DEF Next, Environment, IInv

LEMMA InitIInv == ASSUME Init, TypeOK PROVE IInv
<1>1. PICK opened \in SUBSET LivePids : \E primed \in SUBSET opened :
        states = [p \in Pids |->
          IF p \notin opened THEN NoState
          ELSE [process |-> running[p], baseline |-> p \in primed, name |-> Nobody,
                sustained |-> 0, since |-> 0]]
  BY Zenon DEF Init
<1>2. ASSUME NEW p \in Pids, states[p] # NoState
      PROVE  /\ p \in LivePids /\ states[p].process = running[p] /\ states[p].name = Nobody
             /\ states[p].sustained = 0 /\ states[p].since = 0
  BY <1>1, <1>2
<1>3. ClockInv
  BY DEF Init, ClockInv, LivePids
<1>4. HandleInv
  BY <1>2 DEF HandleInv, LivePids
<1>5. SustainedIsLived
  <2>1. Plus(0, 0) <= 0
    BY SamplerAssumption DEF Plus
  <2> QED
    BY <1>2, <2>1 DEF Init, SustainedIsLived, LivePids
<1>6. SpellIsCounted
  BY <1>2 DEF Init, SpellIsCounted, LivePids
<1> QED
  BY <1>3, <1>4, <1>5, <1>6 DEF IInv

LEMMA InvariantHolds == Spec => []IInv
<1>1. Init /\ TypeOK => IInv
  BY InitIInv
<1>2. IInv /\ [Next]_vars /\ TypeOK' => IInv'
  BY StepKeepsIInv
<1> QED
  BY <1>1, <1>2, TypeCorrect, PTL DEF Spec

\* No process is credited with more sustained CPU than it has lived.
THEOREM CreditIsLived == Spec => []SustainedIsLived
<1>1. IInv => SustainedIsLived
  BY DEF IInv
<1> QED
  BY <1>1, InvariantHolds, PTL

\* cpu_sustained_seconds loses nothing of a spell of elevated CPU after the
\* first reading that could see it.
THEOREM SpellsAreCounted == Spec => []SpellIsCounted
<1>1. IInv => SpellIsCounted
  BY DEF IInv
<1> QED
  BY <1>1, InvariantHolds, PTL

\* A complete poll leaves in its rows the names of those who hold the pids.
LEMMA NamesAreCurrent ==
  ASSUME IInv, MaxGap < ReuseAfter, Sample, NEW row \in rows'
  PROVE  row.name = running[row.pid]
<1>1. TypeOK
  BY DEF IInv
<1>2. /\ row.pid \in LivePids /\ states'[row.pid] # NoState
      /\ row.name = states'[row.pid].name /\ row.name # Nobody
      /\ PolledPid(row.pid)
  BY <1>1, SamplePids
<1>3. states'[row.pid].name \in {Nobody, running[row.pid]}
  BY <1>2, ReadingKeeps
<1> QED
  BY <1>2, <1>3

\* _ProcState: while pids rest for longer than polls are apart, every row
\* carries the name, path and command line of the process that holds its pid.
THEOREM RowsAreRight == Spec => RowsNameTheirProcess
<1>1. IInv => (MaxGap < ReuseAfter /\ Sample => \A row \in rows' : row.name = running[row.pid])
  BY NamesAreCurrent
<1> QED
  BY <1>1, InvariantHolds, PTL DEF RowsNameTheirProcess

-----------------------------------------------------------------------------
(* The sampler as the agent sees it.                                       *)

\* The name a poll leaves for a pid that it reads.
LEMMA PolledName ==
  ASSUME TypeOK, NEW p \in LivePids, NEW outcome \in Outcomes(p), NEW named \in BOOLEAN
  PROVE  NameIn(Read(p, outcome, named)) =
           IF NameIn(states[p]) = Nobody /\ named /\ outcome \in {"idle", "busy"}
             THEN running[p] ELSE NameIn(states[p])
<1> DEFINE s == StateFor(p)
<1>1. /\ p \in Pids /\ running[p] \in Processes /\ s \in State
      /\ states[p] # NoState => s = states[p]
      /\ states[p] = NoState => s.name = Nobody
  BY StateForTyped
<1>2. NameIn(s) = s.name /\ s.name = NameIn(states[p])
  BY <1>1 DEF NameIn, State, NoState, Processes, Nobody
<1>3. outcome \in {"unopened", "unread", "idle", "busy"}
  BY DEF Outcomes
<1>4. CASE outcome = "unopened"
  BY <1>4 DEF Read, NameIn, Outcomes
<1>5. CASE outcome = "unread"
  BY <1>2, <1>5 DEF Read
<1>6. CASE outcome \in {"idle", "busy"}
  <2>1. Read(p, outcome, named) # NoState
    BY <1>6, ReadTyped DEF State, NoState, Processes, Nobody
  <2>2. Read(p, outcome, named).name = IF named /\ s.name = Nobody THEN running[p] ELSE s.name
    BY <1>1, <1>6 DEF Read, State
  <2> QED
    BY <1>2, <1>6, <2>1, <2>2 DEF NameIn
<1> QED
  BY <1>3, <1>4, <1>5, <1>6

\* A complete poll is a sample of the table.
LEMMA SampleMaps ==
  ASSUME IInv, Sample
  PROVE  NT!Sample
<1>1. TypeOK
  BY DEF IInv
<1>2. PICK outcome \in [LivePids -> UNION {Outcomes(p) : p \in LivePids}],
           named \in SUBSET LivePids :
        /\ \A p \in LivePids : outcome[p] \in Outcomes(p)
        /\ states' = [p \in Pids |->
             IF p \in LivePids THEN Read(p, outcome[p], p \in named)
             ELSE IF p \in Stale THEN NoState ELSE states[p]]
        /\ rows' = {[pid |-> p, name |-> states'[p].name, busy |-> outcome[p] = "busy",
                     sustained |-> states'[p].sustained] :
                      p \in {q \in LivePids : HasRow(outcome[q], states'[q])}}
  BY Zenon DEF Sample
<1> DEFINE known == [p \in Pids |-> NameIn(states[p])]
           read == {p \in LivePids : outcome[p] \in {"idle", "busy"}}
           loaded == named \cap read
<1>3. LivePids \subseteq Pids /\ running' = running /\ started' = started /\ vacant' = vacant
      /\ gap' = 0
  BY DEF LivePids, Sample, table
<1>4. \A p \in LivePids : NameIn(states'[p]) =
        IF known[p] = Nobody /\ p \in loaded THEN running[p] ELSE known[p]
  <2> SUFFICES ASSUME NEW p \in LivePids
               PROVE  NameIn(states'[p]) =
                        IF known[p] = Nobody /\ p \in loaded THEN running[p] ELSE known[p]
    OBVIOUS
  <2>1. states'[p] = Read(p, outcome[p], p \in named) /\ outcome[p] \in Outcomes(p)
        /\ known[p] = NameIn(states[p])
    BY <1>2, <1>3
  <2>2. CASE p \in named
    <3>1. states'[p] = Read(p, outcome[p], TRUE)
      BY <2>1, <2>2
    <3> QED
      BY <1>1, <2>1, <2>2, <3>1, PolledName
  <2>3. CASE p \notin named
    <3>1. (p \in named) = FALSE
      BY <2>3
    <3>2. states'[p] = Read(p, outcome[p], FALSE)
      BY <2>1, <3>1, Zenon
    <3> QED
      BY <1>1, <2>1, <2>3, <3>2, PolledName
  <2> QED
    BY <2>2, <2>3
<1>5. \A p \in Pids \ LivePids : NameIn(states'[p]) = Nobody
  BY <1>2 DEF Stale, NameIn
<1>6. [p \in Pids |-> NameIn(states'[p])] = NT!KnownAfter(loaded)
  BY <1>3, <1>4, <1>5 DEF NT!KnownAfter, NT!Loaded, NT!LivePids, NT!Nobody, LivePids, Nobody
<1>7. {<<row.pid, row.name>> : row \in rows'} = NT!NamedAfter(read, loaded)
  <2> DEFINE T == {q \in LivePids : HasRow(outcome[q], states'[q])}
             row(p) == [pid |-> p, name |-> states'[p].name, busy |-> outcome[p] = "busy",
                        sustained |-> states'[p].sustained]
  <2>1. \A p \in read : states'[p] \in State
    <3> SUFFICES ASSUME NEW p \in read
                 PROVE  states'[p] \in State
      OBVIOUS
    <3>1. PICK b \in BOOLEAN : states'[p] = Read(p, outcome[p], b)
      <4>1. states'[p] = Read(p, outcome[p], p \in named) /\ (p \in named) \in BOOLEAN
        BY <1>2, <1>3
      <4> QED
        BY <4>1, Zenon
    <3> QED
      BY <1>1, <1>2, <3>1, ReadTyped
  <2>2. \A p \in read : NameIn(states'[p]) = states'[p].name
    BY <2>1 DEF NameIn, State, NoState, Processes, Nobody
  <2>3. T = {p \in read : NameIn(states'[p]) # Nobody}
    BY <2>2 DEF HasRow
  <2>4. \A p \in Pids : NT!KnownAfter(loaded)[p] = NameIn(states'[p])
    <3>1. \A p \in Pids : [q \in Pids |-> NameIn(states'[q])][p] = NameIn(states'[p])
      OBVIOUS
    <3> QED
      BY <1>6, <3>1
  <2>5. {<<r.pid, r.name>> : r \in rows'} = {<<p, NameIn(states'[p])>> : p \in T}
    <3>1. rows' = {row(p) : p \in T}
      BY <1>2
    <3>2. \A p \in T : row(p).pid = p /\ row(p).name = NameIn(states'[p])
      BY <2>2, <2>3
    <3> HIDE DEF row, T
    <3> QED
      BY <3>1, <3>2
  <2>6. NT!NamedAfter(read, loaded) = {<<p, NameIn(states'[p])>> : p \in T}
    <3>1. T = {q \in read : NT!KnownAfter(loaded)[q] # Nobody} /\ T \subseteq Pids
      BY <1>3, <2>3, <2>4
    <3>2. NT!NamedAfter(read, loaded) = {<<p, NT!KnownAfter(loaded)[p]>> : p \in T}
      BY <3>1 DEF NT!NamedAfter, NT!Nobody, Nobody
    <3> HIDE DEF T
    <3> QED
      BY <2>4, <3>1, <3>2
  <2> QED
    BY <2>5, <2>6
<1>8. Freed' \subseteq Freed
  BY <1>1, <1>3, SamplerAssumption DEF Freed, LivePids, TypeOK
<1>9. read \in SUBSET NT!LivePids /\ loaded \in SUBSET read
  BY DEF NT!LivePids, NT!Nobody, LivePids, Nobody
<1> HIDE DEF known, read, loaded
<1> QED
  BY <1>3, <1>6, <1>7, <1>8, <1>9 DEF NT!Sample

\* One that fails is given up, with the names it has loaded.
LEMMA FailMaps ==
  ASSUME IInv, SampleFails
  PROVE  NT!Abandon
<1>1. TypeOK
  BY DEF IInv
<1>2. PICK reached \in SUBSET LivePids :
        \E outcome \in [reached -> UNION {Outcomes(p) : p \in reached}],
           named \in SUBSET reached :
          /\ \A p \in reached : outcome[p] \in Outcomes(p)
          /\ states' = [p \in Pids |->
               IF p \in reached THEN Read(p, outcome[p], p \in named) ELSE states[p]]
          /\ missed' = [p \in Pids |->
               IF p \in reached THEN MissedBy(p, outcome[p]) ELSE missed[p]]
  BY Zenon DEF SampleFails
<1>3. PICK outcome \in [reached -> UNION {Outcomes(p) : p \in reached}],
           named \in SUBSET reached :
          /\ \A p \in reached : outcome[p] \in Outcomes(p)
          /\ states' = [p \in Pids |->
               IF p \in reached THEN Read(p, outcome[p], p \in named) ELSE states[p]]
          /\ missed' = [p \in Pids |->
               IF p \in reached THEN MissedBy(p, outcome[p]) ELSE missed[p]]
  BY <1>2
<1> DEFINE known == [p \in Pids |-> NameIn(states[p])]
           loaded == {p \in named : outcome[p] \in {"idle", "busy"}}
<1>4. /\ LivePids \subseteq Pids /\ running' = running /\ started' = started
      /\ vacant' = vacant /\ gap' = gap /\ rows' = {}
  BY DEF LivePids, SampleFails, table
<1>5. \A p \in Pids : NameIn(states'[p]) =
        IF known[p] = Nobody /\ p \in loaded THEN running[p] ELSE known[p]
  <2> SUFFICES ASSUME NEW p \in Pids
               PROVE  NameIn(states'[p]) =
                        IF known[p] = Nobody /\ p \in loaded THEN running[p] ELSE known[p]
    OBVIOUS
  <2>1. known[p] = NameIn(states[p])
    OBVIOUS
  <2>2. CASE p \in named
    <3>1. states'[p] = Read(p, outcome[p], p \in named)
          /\ p \in LivePids /\ outcome[p] \in Outcomes(p)
      BY <1>3, <2>2
    <3>2. (p \in named) = TRUE
      BY <2>2
    <3>3. states'[p] = Read(p, outcome[p], TRUE)
      BY <3>1, <3>2, Zenon
    <3> QED
      BY <1>1, <2>1, <2>2, <3>1, <3>3, PolledName
  <2>3. CASE p \in reached \ named
    <3>1. states'[p] = Read(p, outcome[p], p \in named)
          /\ p \in LivePids /\ outcome[p] \in Outcomes(p)
      BY <1>3, <2>3
    <3>2. (p \in named) = FALSE
      BY <2>3
    <3>3. states'[p] = Read(p, outcome[p], FALSE)
      BY <3>1, <3>2, Zenon
    <3> QED
      BY <1>1, <2>1, <2>3, <3>1, <3>3, PolledName
  <2>4. CASE p \notin reached
    BY <1>3, <2>1, <2>4
  <2> QED
    BY <2>2, <2>3, <2>4
<1>6. [p \in Pids |-> NameIn(states'[p])] = NT!PartlyKnown(loaded)
  BY <1>5 DEF NT!PartlyKnown, NT!Loaded, NT!Nobody, Nobody
<1>7. Freed' = Freed
  BY <1>4 DEF Freed, LivePids
<1>8. loaded \in SUBSET NT!LivePids
  BY DEF NT!LivePids, NT!Nobody, LivePids, Nobody
<1>9. {<<row.pid, row.name>> : row \in rows'} = {}
  BY <1>4
<1> HIDE DEF known, loaded
<1> QED
  BY <1>4, <1>6, <1>7, <1>8, <1>9 DEF NT!Abandon

\* Where pids rest for longer than polls are apart, one that is given away has
\* been seen free.
LEMMA StartMaps ==
  ASSUME IInv, NEW p \in Pids, Start(p)
  PROVE  NT!Start(p)
<1>1. /\ running[p] = Nobody /\ vacant[p] >= ReuseAfter /\ started < MaxProcesses
      /\ started' = started + 1 /\ running' = [running EXCEPT ![p] = started']
      /\ vacant' = [vacant EXCEPT ![p] = 0] /\ states' = states /\ rows' = rows /\ gap' = gap
  BY DEF Start
<1>2. /\ running \in [Pids -> Processes \cup {Nobody}] /\ started \in Nat
      /\ vacant \in [Pids -> 0 .. ReuseAfter] /\ gap \in 0 .. MaxGap
      /\ MaxGap \in Nat /\ ReuseAfter \in Nat
  BY SamplerAssumption DEF IInv, TypeOK, Processes
<1>3. p \notin Freed
  BY <1>1, <1>2 DEF Freed
<1>4. Freed' = Freed
  <2>1. p \notin Freed'
    BY <1>1, <1>2 DEF Freed, LivePids, Nobody
  <2>2. \A q \in Pids \ {p} : q \in Freed' <=> q \in Freed
    BY <1>1, <1>2 DEF Freed, LivePids
  <2> QED
    BY <1>3, <2>1, <2>2 DEF Freed
<1> QED
  BY <1>1, <1>3, <1>4 DEF NT!Start, NT!Nobody, Nobody

LEMMA ExitMaps ==
  ASSUME IInv, NEW p \in Pids, Exit(p)
  PROVE  NT!Exit(p)
<1>1. /\ running[p] # Nobody /\ running' = [running EXCEPT ![p] = Nobody]
      /\ started' = started /\ vacant' = vacant /\ states' = states /\ rows' = rows /\ gap' = gap
  BY DEF Exit
<1>2. /\ running \in [Pids -> Processes \cup {Nobody}]
      /\ gap \in 0 .. MaxGap /\ MaxGap \in Nat /\ vacant[p] = 0
  BY <1>1, SamplerAssumption DEF IInv, TypeOK, ClockInv
<1>3. \A q \in Pids \ {p} : q \in Freed' <=> q \in Freed
  BY <1>1, <1>2 DEF Freed, LivePids
<1>4. p \notin Freed /\ (p \in Freed' <=> MaxGap < ReuseAfter)
  BY <1>1, <1>2 DEF Freed, LivePids
<1>5. Freed' = IF MaxGap < ReuseAfter THEN Freed \cup {p} ELSE Freed
  BY <1>3, <1>4 DEF Freed
<1> QED
  BY <1>1, <1>5 DEF NT!Exit, NT!Nobody, Nobody

\* Time by itself changes nothing that the table shows.
LEMMA TickMaps ==
  ASSUME IInv, Tick
  PROVE  /\ UNCHANGED <<running, started, rows, Freed>>
         /\ [p \in Pids |-> NameIn(states'[p])] = [p \in Pids |-> NameIn(states[p])]
<1>1. TypeOK /\ UNCHANGED <<running, started, rows>> /\ gap' = gap + 1 /\ gap < MaxGap
      /\ vacant' = [p \in Pids |->
           IF p \notin LivePids /\ vacant[p] < ReuseAfter THEN vacant[p] + 1 ELSE vacant[p]]
      /\ states' = [p \in Pids |->
           IF states[p] = NoState THEN NoState ELSE [states[p] EXCEPT !.since = Later(@)]]
  BY DEF IInv, Tick
<1>2. ASSUME NEW p \in Pids
      PROVE  NameIn(states'[p]) = NameIn(states[p])
  <2>1. CASE states[p] = NoState
    BY <1>1, <2>1
  <2>2. CASE states[p] # NoState
    <3>1. states[p] \in State
      BY <1>1, <2>2 DEF TypeOK
    <3>2. states'[p] = [states[p] EXCEPT !.since = Later(states[p].since)]
      BY <1>1, <2>2
    <3>3. states'[p].name = states[p].name /\ states'[p].process = states[p].process
          /\ states'[p].since = Later(states[p].since)
      BY <3>1, <3>2 DEF State
    <3>4. states'[p] # NoState
      BY <3>1, <3>3 DEF State, NoState, Processes, Nobody
    <3> QED
      BY <2>2, <3>3, <3>4 DEF NameIn
  <2> QED
    BY <2>1, <2>2
<1>3. Freed' = Freed
  <2>1. vacant \in [Pids -> 0 .. ReuseAfter] /\ gap \in Nat /\ MaxGap \in Nat /\ ReuseAfter \in Nat
    BY <1>1, SamplerAssumption DEF TypeOK
  <2>2. ASSUME NEW p \in Pids \ LivePids, MaxGap < ReuseAfter
        PROVE  vacant'[p] <= gap' <=> vacant[p] <= gap
    BY <1>1, <2>1, <2>2
  <2> QED
    BY <1>1, <2>2 DEF Freed, LivePids
<1> QED
  BY <1>1, <1>2, <1>3

\* Whatever readings fail and however pids change hands, the sampler is the
\* table of names that the agent is built upon.
THEOREM SamplerIsNameTable == Spec => ImplementsNameTable
<1>1. Init => NT!Init
  <2> SUFFICES ASSUME Init PROVE NT!Init
    OBVIOUS
  <2>1. /\ started \in Processes \cup {0} /\ running \in [Pids -> 0 .. started]
        /\ (\A p, q \in LivePids : running[p] = running[q] => p = q)
        /\ rows = {} /\ gap = 0
        /\ vacant = [p \in Pids |-> IF p \in LivePids THEN 0 ELSE ReuseAfter]
    BY DEF Init
  <2>2. PICK opened \in SUBSET LivePids : \E primed \in SUBSET opened :
          states = [p \in Pids |->
            IF p \notin opened THEN NoState
            ELSE [process |-> running[p], baseline |-> p \in primed, name |-> Nobody,
                  sustained |-> 0, since |-> 0]]
    BY Zenon DEF Init
  <2>3. ASSUME NEW p \in Pids
        PROVE  NameIn(states[p]) = Nobody
    <3>1. CASE p \in opened
      <4>1. states[p].name = Nobody
        BY <2>2, <3>1
      <4> QED
        BY <4>1 DEF NameIn
    <3>2. CASE p \notin opened
      BY <2>2, <3>2 DEF NameIn
    <3> QED
      BY <3>1, <3>2
  <2>4. Freed = {}
    <3>1. \A p \in Pids \ LivePids : vacant[p] = ReuseAfter
      BY <2>1
    <3>2. MaxGap < ReuseAfter => ~(ReuseAfter <= gap)
      BY <2>1, SamplerAssumption
    <3> QED
      BY <3>1, <3>2 DEF Freed
  <2>5. {<<row.pid, row.name>> : row \in rows} = {}
    BY <2>1
  <2> QED
    BY <2>1, <2>3, <2>4, <2>5
       DEF NT!Init, NT!Processes, NT!LivePids, NT!Nobody, Processes, LivePids, Nobody
<1>2. IInv /\ [Next]_vars =>
        [NT!Next]_<<running, started, Freed, [p \in Pids |-> NameIn(states[p])],
                    {<<row.pid, row.name>> : row \in rows}>>
  <2> SUFFICES ASSUME IInv, [Next]_vars
               PROVE  [NT!Next]_<<running, started, Freed, [p \in Pids |-> NameIn(states[p])],
                                  {<<row.pid, row.name>> : row \in rows}>>
    OBVIOUS
  <2>1. CASE Sample
    BY <2>1, SampleMaps DEF NT!Next
  <2>2. CASE SampleFails
    BY <2>2, FailMaps DEF NT!Next
  <2>3. ASSUME NEW p \in Pids, Start(p)
        PROVE  NT!Next
    BY <2>3, StartMaps DEF NT!Next
  <2>4. ASSUME NEW p \in Pids, Exit(p)
        PROVE  NT!Next
    BY <2>4, ExitMaps DEF NT!Next
  <2>5. CASE Tick
    BY <2>5, TickMaps
  <2>6. CASE UNCHANGED vars
    BY <2>6 DEF vars, table, Freed, LivePids
  <2> QED
    BY <2>1, <2>2, <2>3, <2>4, <2>5, <2>6 DEF Next, Environment
<1> QED
  BY <1>1, <1>2, InvariantHolds, PTL DEF Spec, ImplementsNameTable, NT!Spec
=============================================================================
