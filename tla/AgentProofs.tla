------------------------------ MODULE AgentProofs ------------------------------
(***************************************************************************)
(* The agent for any finite set of pids, any destinations, any number of   *)
(* processes and any limit.                                                *)
(***************************************************************************)
EXTENDS Agent, FiniteSetTheorems, TLAPS

\* Whoever is connected is alive, under one pid.
LEMMA OwnerAlive ==
  ASSUME TypeOK, NEW c \in sockets
  PROVE  /\ c = <<c[1], c[2]>> /\ c[1] \in Processes /\ c[2] \in Dests
         /\ \E p \in LivePids : running[p] = c[1]
<1>1. c \in Alive \X Dests
  BY DEF TypeOK
<1>2. PICK p \in LivePids : running[p] = c[1]
  BY <1>1 DEF Alive
<1>3. running[p] \in Processes
  BY <1>2 DEF TypeOK, LivePids
<1> QED
  BY <1>1, <1>2, <1>3

\* What is listed names a pid of the owner, or none.
LEMMA ListedFacts ==
  ASSUME TypeOK, NEW visible \in SUBSET sockets, NEW anonymous \in SUBSET visible,
         NEW c \in Listed(visible, anonymous)
  PROVE  /\ c \in Connection
         /\ c.pid # NoPid => c.pid \in LivePids /\ running[c.pid] = c.owner
<1>1. PICK s \in visible :
        c = [pid |-> IF s \in anonymous THEN NoPid
                     ELSE CHOOSE p \in LivePids : running[p] = s[1],
             owner |-> s[1], dest |-> s[2]]
  BY DEF Listed
<1>2. /\ s[1] \in Processes /\ s[2] \in Dests
      /\ \E p \in LivePids : running[p] = s[1]
  BY <1>1, OwnerAlive
<1> DEFINE q == CHOOSE p \in LivePids : running[p] = s[1]
<1>3. q \in LivePids /\ running[q] = s[1]
  BY <1>2
<1>4. q \in Pids
  BY <1>3 DEF LivePids
<1>5. c.pid \in {NoPid, q} /\ c.owner = s[1] /\ c.dest = s[2]
      /\ c = [pid |-> c.pid, owner |-> c.owner, dest |-> c.dest]
  BY <1>1
<1> HIDE DEF q
<1> QED
  BY <1>2, <1>3, <1>4, <1>5 DEF Connection

\* What is selected: the interesting rows, and of the others those the quota
\* lets in.
LEMMA SelectionFacts ==
  ASSUME NEW rows, NEW selected \in Selections(rows), IsFiniteSet(rows)
  PROVE  /\ Interesting(rows) \subseteq selected /\ selected \subseteq rows
         /\ selected = rows \/ Limit <= Cardinality(selected)
         /\ selected = Interesting(rows) \/ Cardinality(selected) <= Limit
<1> DEFINE busy == Interesting(rows)
           others == rows \ busy
           slots == IF Limit > Cardinality(busy) THEN Limit - Cardinality(busy) ELSE 0
<1>1. PICK rest \in SUBSET others :
        /\ selected = busy \cup rest
        /\ Cardinality(rest) = IF slots < Cardinality(others) THEN slots ELSE Cardinality(others)
  BY Zenon DEF Selections
<1>2. busy \subseteq rows /\ others \subseteq rows
  BY DEF Interesting
<1>3. /\ IsFiniteSet(busy) /\ IsFiniteSet(others) /\ IsFiniteSet(rest)
  BY <1>2, FS_Subset
<1>4. /\ Cardinality(busy) \in Nat /\ Cardinality(others) \in Nat /\ Cardinality(rest) \in Nat
      /\ Limit \in Nat
  BY <1>3, FS_CardinalityType, AgentAssumption
<1>5. Cardinality(selected) = Cardinality(busy) + Cardinality(rest)
  <2>1. busy \cap rest = {}
    OBVIOUS
  <2>2. Cardinality(busy \cup rest) = Cardinality(busy) + Cardinality(rest) - Cardinality(busy \cap rest)
    BY <1>3, FS_Union
  <2>3. Cardinality(busy \cap rest) = 0
    BY <2>1, FS_EmptySet
  <2> HIDE DEF busy, others
  <2> QED
    BY <1>1, <1>4, <2>2, <2>3
<1>6. selected = rows \/ Limit <= Cardinality(selected)
  <2>1. CASE slots < Cardinality(others)
    BY <1>1, <1>4, <1>5, <2>1
  <2>2. CASE ~(slots < Cardinality(others))
    <3>1. Cardinality(others) = Cardinality(rest)
      BY <1>1, <2>2
    <3>2. others = rest
      BY <1>3, <3>1, FS_Subset
    <3> QED
      BY <1>1, <1>2, <3>2
  <2> QED
    BY <2>1, <2>2
<1>7. selected = busy \/ Cardinality(selected) <= Limit
  <2>1. CASE Limit > Cardinality(busy)
    <3>1. Cardinality(rest) <= slots
      BY <1>1, <1>4, <2>1
    <3> QED
      BY <1>4, <1>5, <2>1, <3>1
  <2>2. CASE ~(Limit > Cardinality(busy))
    <3>1. Cardinality(rest) = 0
      BY <1>1, <1>4, <2>2
    <3>2. rest = {}
      BY <1>3, <3>1, FS_EmptySet
    <3> QED
      BY <1>1, <3>2
  <2> QED
    BY <2>1, <2>2
<1> QED
  BY <1>1, <1>2, <1>6, <1>7

-----------------------------------------------------------------------------
(* The inductive invariant.                                                *)

\* A cached name, and the name in a sampled row, is that of the process that
\* holds the pid, or held it and the pid has not been used since.
Current(p, n) == n = running[p] \/ (running[p] = Nobody /\ p \in freed)

NamesHold ==
  PidsRest => /\ \A p \in Pids : known[p] # Nobody => Current(p, known[p])
              /\ \A r \in processes : Current(r.pid, r.name)

\* What a finished snapshot holds.
SnapshotHolds ==
  /\ IsFiniteSet(processes)
  /\ EvidenceIsOwned
  /\ SelectionIsRight

AgentInv == TypeOK /\ NamesHold /\ SnapshotHolds

LEMMA InitAgentInv == Init => AgentInv
<1> SUFFICES ASSUME Init PROVE AgentInv
  OBVIOUS
<1>1. TypeOK
  <2>1. running \in [Pids -> Processes \cup {Nobody}]
    BY AgentAssumption DEF Init, Processes, Nobody
  <2>2. Alive \subseteq Processes
    BY <2>1 DEF Alive, LivePids
  <2>3. Nothing \in [rows : SUBSET Row, connections : SUBSET Connection]
    BY DEF Nothing
  <2> QED
    BY <2>1, <2>2, <2>3 DEF Init, TypeOK
<1>2. NamesHold
  BY DEF Init, NamesHold
<1>3. SnapshotHolds
  BY FS_EmptySet DEF Init, SnapshotHolds, EvidenceIsOwned, SelectionIsRight, Nothing
<1> QED
  BY <1>1, <1>2, <1>3 DEF AgentInv

\* The operators of the table of names, in terms of the agent's.
LEMMA TableFacts ==
  /\ \A loaded :
       /\ NT!KnownAfter(loaded) =
            [p \in Pids |-> IF p \notin LivePids THEN Nobody
                            ELSE IF known[p] = Nobody /\ p \in loaded THEN running[p] ELSE known[p]]
       /\ NT!PartlyKnown(loaded) =
            [p \in Pids |-> IF known[p] = Nobody /\ p \in loaded THEN running[p] ELSE known[p]]
  /\ \A read, loaded :
       NT!NamedAfter(read, loaded) =
         {<<p, NT!KnownAfter(loaded)[p]>> :
            p \in {q \in read : NT!KnownAfter(loaded)[q] # Nobody}}
BY DEF NT!KnownAfter, NT!PartlyKnown, NT!NamedAfter, NT!Loaded, NT!LivePids, NT!Nobody,
       LivePids, Nobody

LEMMA SampleProcessesKeeps ==
  ASSUME AgentInv, SampleProcesses
  PROVE  AgentInv'
<1>1. PICK read \in SUBSET LivePids, busy \in SUBSET LivePids : \E loaded \in SUBSET read :
        /\ known' = NT!KnownAfter(loaded)
        /\ processes' = {[pid |-> n[1], name |-> n[2], interesting |-> n[1] \in busy] :
                           n \in NT!NamedAfter(read, loaded)}
  BY Zenon DEF SampleProcesses
<1>2. PICK loaded \in SUBSET read :
        /\ known' = NT!KnownAfter(loaded)
        /\ processes' = {[pid |-> n[1], name |-> n[2], interesting |-> n[1] \in busy] :
                           n \in NT!NamedAfter(read, loaded)}
  BY <1>1
<1> DEFINE T == {p \in read : known'[p] # Nobody}
<1>3. /\ known' = [p \in Pids |->
             IF p \notin LivePids THEN Nobody
             ELSE IF known[p] = Nobody /\ p \in loaded THEN running[p] ELSE known[p]]
       /\ NT!NamedAfter(read, loaded) = {<<p, known'[p]>> : p \in T}
  BY <1>2, TableFacts
<1>4. processes' = {[pid |-> p, name |-> known'[p], interesting |-> p \in busy] : p \in T}
  <2> DEFINE row(n) == [pid |-> n[1], name |-> n[2], interesting |-> n[1] \in busy]
  <2>1. \A p \in T : row(<<p, known'[p]>>) = [pid |-> p, name |-> known'[p], interesting |-> p \in busy]
    OBVIOUS
  <2>2. processes' = {row(n) : n \in {<<p, known'[p]>> : p \in T}}
    BY <1>2, <1>3
  <2> HIDE DEF row, T
  <2>3. processes' = {row(<<p, known'[p]>>) : p \in T}
    BY <2>2
  <2> QED
    BY <2>1, <2>3
<1>5. /\ freed' \subseteq freed /\ pc' = "sampled"
      /\ UNCHANGED <<running, started, sockets, calm, payload, delivered>>
  BY DEF SampleProcesses
<1>6. TypeOK /\ NamesHold /\ LivePids \subseteq Pids
  BY DEF AgentInv, LivePids
<1>7. known' \in [Pids -> Processes \cup {Nobody}]
  BY <1>6, <1>3 DEF TypeOK
<1>8. ASSUME NEW r \in processes'
      PROVE  /\ r \in Row /\ r.pid \in LivePids /\ r.name = known'[r.pid] /\ r.name # Nobody
  <2>1. PICK p \in T : r = [pid |-> p, name |-> known'[p], interesting |-> p \in busy]
    BY <1>8, <1>4
  <2>2. p \in LivePids /\ p \in Pids /\ known'[p] # Nobody /\ known'[p] \in Processes
    BY <1>6, <1>7, <2>1
  <2>4. PICK b \in BOOLEAN : r = [pid |-> p, name |-> known'[p], interesting |-> b]
    <3>1. (p \in busy) \in BOOLEAN
      OBVIOUS
    <3> QED
      BY <2>1, <3>1, Zenon
  <2> QED
    BY <2>2, <2>4 DEF Row
<1>9. TypeOK'
  <2>1. processes' \subseteq Row
    BY <1>8
  <2>2. sockets \subseteq Alive' \X Dests
    BY <1>5, <1>6 DEF TypeOK, Alive, LivePids
  <2> QED
    BY <1>5, <1>6, <1>7, <2>1, <2>2 DEF TypeOK
<1>10. NamesHold'
  <2> SUFFICES ASSUME PidsRest PROVE NamesHold'
    BY DEF NamesHold
  <2>1. ASSUME NEW p \in Pids, known'[p] # Nobody PROVE known'[p] = running[p]
    <3>1. p \in LivePids /\ known'[p] \in {known[p], running[p]}
          /\ (known'[p] = running[p] \/ known[p] # Nobody)
      BY <1>3, <2>1
    <3>2. known[p] # Nobody => known[p] = running[p]
      BY <1>6, <3>1 DEF NamesHold, Current, LivePids
    <3> QED
      BY <3>1, <3>2
  <2>2. ASSUME NEW r \in processes' PROVE r.name = running[r.pid]
    BY <1>6, <1>8, <2>1, <2>2
  <2> QED
    BY <1>5, <2>1, <2>2 DEF NamesHold, Current
<1>11. IsFiniteSet(processes')
  <2> DEFINE f == [p \in T |-> [pid |-> p, name |-> known'[p], interesting |-> p \in busy]]
  <2>1. IsFiniteSet(T)
    <3>1. T \in SUBSET Pids
      BY <1>6
    <3> QED
      BY <3>1, AgentAssumption, FS_Subset
  <2>2. f \in [T -> processes']
    BY <1>4
  <2>3. \A r \in processes' : \E p \in T : f[p] = r
    BY <1>4
  <2>4. f \in Surjection(T, processes')
    BY <2>2, <2>3 DEF Surjection
  <2> QED
    BY <2>1, <2>4, FS_Surjection
<1>12. SnapshotHolds'
  BY <1>5, <1>11 DEF AgentInv, SnapshotHolds, EvidenceIsOwned, SelectionIsRight
<1> QED
  BY <1>9, <1>10, <1>12 DEF AgentInv

LEMMA TakeSnapshotKeeps ==
  ASSUME AgentInv, TakeSnapshot
  PROVE  AgentInv'
<1>1. PICK visible \in {sockets, {}} : \E anonymous \in SUBSET visible :
        \E selected \in Selections(processes) :
          payload' = [rows |-> selected \cup Owners(processes, Listed(visible, anonymous)),
                      connections |-> Listed(visible, anonymous)]
  BY Zenon DEF TakeSnapshot
<1>2. PICK anonymous \in SUBSET visible : \E selected \in Selections(processes) :
        payload' = [rows |-> selected \cup Owners(processes, Listed(visible, anonymous)),
                    connections |-> Listed(visible, anonymous)]
  BY <1>1
<1> DEFINE connections == Listed(visible, anonymous)
<1>3. PICK selected \in Selections(processes) :
        payload' = [rows |-> selected \cup Owners(processes, connections),
                    connections |-> connections]
  BY <1>2
<1>4. pc' = "uploading" /\ UNCHANGED <<system, known, processes, delivered>>
  BY DEF TakeSnapshot
<1>5. TypeOK /\ NamesHold /\ IsFiniteSet(processes)
  BY DEF AgentInv, SnapshotHolds
<1>6. ASSUME NEW c \in connections
      PROVE  /\ c \in Connection
             /\ c.pid # NoPid => c.pid \in LivePids /\ running[c.pid] = c.owner
  BY <1>5, <1>6, ListedFacts
<1>7. /\ Interesting(processes) \subseteq selected /\ selected \subseteq processes
      /\ selected = processes \/ Limit <= Cardinality(selected)
      /\ selected = Interesting(processes) \/ Cardinality(selected) <= Limit
  BY <1>3, <1>5, SelectionFacts
<1> HIDE DEF connections
<1>8. /\ payload'.rows = selected \cup Owners(processes, connections)
      /\ payload'.connections = connections
      /\ payload'.rows \subseteq processes
  BY <1>3, <1>7 DEF Owners
<1>9. TypeOK'
  <2>1. payload' \in [rows : SUBSET Row, connections : SUBSET Connection]
    BY <1>3, <1>5, <1>6, <1>8 DEF TypeOK
  <2> QED
    BY <1>4, <1>5, <2>1 DEF TypeOK, system, Alive, LivePids
<1>10. NamesHold'
  BY <1>4, <1>5 DEF NamesHold, Current, system
<1>11. EvidenceIsOwned'
  <2> SUFFICES ASSUME PidsRest, NEW c \in connections, NEW r \in payload'.rows, c.pid = r.pid
               PROVE  r.name = c.owner
    BY <1>8 DEF EvidenceIsOwned
  <2>1. r \in processes /\ r.pid \in Pids
    BY <1>5, <1>8 DEF TypeOK, Row
  <2>2. c.pid # NoPid
    BY <2>1, AgentAssumption DEF NoPid
  <2>3. running[r.pid] = c.owner /\ running[r.pid] # Nobody
    BY <1>6, <2>2 DEF LivePids
  <2> QED
    BY <1>5, <2>1, <2>3 DEF NamesHold, Current
<1>12. SelectionIsRight'
  <2> DEFINE busy == {r \in processes : r.interesting}
             owning == {r \in processes : \E c \in connections : c.pid = r.pid}
  <2>1. busy = Interesting(processes)
    BY DEF Interesting
  <2>2. owning = Owners(processes, connections)
    <3>1. \A r \in processes : r.pid # NoPid
      BY <1>5, AgentAssumption DEF TypeOK, Row, NoPid
    <3> QED
      BY <3>1 DEF Owners
  <2>3. payload'.rows = selected \cup owning
    BY <1>8, <2>2
  <2>4. IsFiniteSet(payload'.rows) /\ IsFiniteSet(selected) /\ selected \subseteq payload'.rows
        /\ (payload'.rows \ owning) \subseteq selected
    BY <1>5, <1>7, <1>8, <2>3, FS_Subset
  <2>5. /\ Cardinality(payload'.rows) \in Nat /\ Cardinality(selected) \in Nat
        /\ Cardinality(payload'.rows \ owning) \in Nat /\ Limit \in Nat
    BY <2>4, FS_Subset, FS_CardinalityType, AgentAssumption
  <2>6. payload'.rows = processes \/ Limit <= Cardinality(payload'.rows)
    <3>1. Cardinality(selected) <= Cardinality(payload'.rows)
      BY <2>4, FS_Subset
    <3> QED
      BY <1>7, <1>8, <2>4, <2>5, <3>1
  <2>7. \/ Cardinality(payload'.rows \ owning) <= Limit
        \/ payload'.rows = busy \cup owning
    <3>1. Cardinality(payload'.rows \ owning) <= Cardinality(selected)
      BY <2>4, FS_Subset
    <3> QED
      BY <1>7, <2>1, <2>3, <2>5, <3>1
  <2>8. busy \cup owning \subseteq payload'.rows
    BY <1>7, <2>1, <2>3
  <2> QED
    BY <1>4, <1>8, <2>6, <2>7, <2>8 DEF SelectionIsRight
<1> QED
  BY <1>4, <1>5, <1>9, <1>10, <1>11, <1>12 DEF AgentInv, SnapshotHolds

LEMMA SnapshotFailsKeeps ==
  ASSUME AgentInv, SnapshotFails
  PROVE  AgentInv'
<1>1. PICK loaded \in SUBSET LivePids :
        known' = [p \in Pids |-> IF known[p] = Nobody /\ p \in loaded THEN running[p] ELSE known[p]]
  <2>1. PICK loaded \in SUBSET LivePids : known' = NT!PartlyKnown(loaded)
    BY Zenon DEF SnapshotFails
  <2> QED
    BY <2>1, TableFacts
<1>2. pc' = "sleeping" /\ processes' = {} /\ UNCHANGED <<system, payload, delivered>>
  BY DEF SnapshotFails
<1>3. TypeOK /\ NamesHold
  BY DEF AgentInv
<1>4. TypeOK'
  <2>1. known' \in [Pids -> Processes \cup {Nobody}]
    BY <1>1, <1>3 DEF TypeOK
  <2> QED
    BY <1>2, <1>3, <2>1 DEF TypeOK, system, Alive, LivePids
<1>5. NamesHold'
  BY <1>1, <1>2, <1>3 DEF NamesHold, Current, system
<1>6. SnapshotHolds'
  BY <1>2, FS_EmptySet DEF AgentInv, SnapshotHolds, EvidenceIsOwned, SelectionIsRight
<1> QED
  BY <1>4, <1>5, <1>6 DEF AgentInv

LEMMA UploadKeeps ==
  ASSUME AgentInv, Upload
  PROVE  AgentInv'
<1>1. /\ processes' = {} /\ payload' = Nothing /\ UNCHANGED <<system, known>>
      /\ pc' \in {"sleeping", "crashed"}
      /\ delivered' \in {Attached(payload), delivered}
  BY DEF Upload
<1>2. TypeOK /\ NamesHold
  BY DEF AgentInv
<1>3. TypeOK'
  <2>1. Attached(payload) \subseteq Processes \X Dests
    BY <1>2 DEF TypeOK, Attached, Connection
  <2>2. Nothing \in [rows : SUBSET Row, connections : SUBSET Connection]
    BY DEF Nothing
  <2> QED
    BY <1>1, <1>2, <2>1, <2>2 DEF TypeOK, system, Alive, LivePids
<1>4. NamesHold'
  BY <1>1, <1>2 DEF NamesHold, Current, system
<1>5. SnapshotHolds'
  BY <1>1, FS_EmptySet DEF SnapshotHolds, EvidenceIsOwned, SelectionIsRight, Nothing
<1> QED
  BY <1>3, <1>4, <1>5 DEF AgentInv

LEMMA StartKeeps ==
  ASSUME AgentInv, NEW p \in Pids, Start(p)
  PROVE  AgentInv'
<1>1. TypeOK /\ NamesHold /\ running[p] = Nobody /\ (PidsRest => p \notin freed)
      /\ UNCHANGED <<freed, sockets, calm, agent>>
  BY DEF AgentInv, Start, NT!Start, NT!Nobody, Nobody
<1>2. started' \in Processes /\ running' = [running EXCEPT ![p] = started']
  BY <1>1, AgentAssumption DEF Start, NT!Start, TypeOK, Processes
<1>3. ASSUME NEW q \in Pids, q # p PROVE running'[q] = running[q]
  BY <1>1, <1>2, <1>3 DEF TypeOK
<1>4. TypeOK'
  <2>1. running' \in [Pids -> Processes \cup {Nobody}]
    BY <1>1, <1>2 DEF TypeOK
  <2>2. Alive \subseteq Alive'
    BY <1>1, <1>3 DEF Alive, LivePids
  <2>3. sockets' \subseteq Alive' \X Dests
    BY <1>1, <2>2 DEF TypeOK
  <2> QED
    BY <1>1, <1>2, <2>1, <2>3 DEF TypeOK, agent
<1>5. NamesHold'
  <2> SUFFICES ASSUME PidsRest PROVE NamesHold'
    BY DEF NamesHold
  <2>1. ASSUME NEW q \in Pids, NEW n, n # Nobody, Current(q, n)
        PROVE  n = running'[q] \/ (running'[q] = Nobody /\ q \in freed')
    BY <1>1, <1>3, <2>1 DEF Current
  <2>2. ASSUME NEW q \in Pids, known'[q] # Nobody
        PROVE  known'[q] = running'[q] \/ (running'[q] = Nobody /\ q \in freed')
    <3>1. known'[q] = known[q]
      BY <1>1 DEF agent
    <3>2. Current(q, known[q])
      BY <1>1, <2>2, <3>1 DEF NamesHold
    <3> QED
      BY <2>1, <2>2, <3>1, <3>2
  <2>3. ASSUME NEW r \in processes'
        PROVE  r.name = running'[r.pid] \/ (running'[r.pid] = Nobody /\ r.pid \in freed')
    <3>1. r \in processes
      BY <1>1 DEF agent
    <3>2. r.pid \in Pids /\ r.name # Nobody
      BY <1>1, <3>1 DEF TypeOK, Row, Processes, Nobody
    <3>3. Current(r.pid, r.name)
      BY <1>1, <3>1 DEF NamesHold
    <3> QED
      BY <2>1, <3>2, <3>3
  <2> QED
    BY <2>2, <2>3 DEF NamesHold, Current
<1>6. SnapshotHolds'
  BY <1>1 DEF AgentInv, SnapshotHolds, EvidenceIsOwned, SelectionIsRight, agent
<1> QED
  BY <1>4, <1>5, <1>6 DEF AgentInv

LEMMA ExitKeeps ==
  ASSUME AgentInv, NEW p \in Pids, Exit(p)
  PROVE  AgentInv'
<1>1. TypeOK /\ NamesHold /\ freed' = (IF PidsRest THEN freed \cup {p} ELSE freed)
      /\ running' = [running EXCEPT ![p] = Nobody]
      /\ sockets' = {c \in sockets : c[1] # running[p]}
      /\ UNCHANGED <<started, calm, agent>>
  BY DEF AgentInv, Exit, NT!Exit, NT!Nobody, Nobody
<1>2. running'[p] = Nobody /\ \A q \in Pids : q # p => running'[q] = running[q]
  BY <1>1 DEF TypeOK
<1>3. TypeOK'
  <2>1. running' \in [Pids -> Processes \cup {Nobody}]
    BY <1>1 DEF TypeOK
  <2>2. ASSUME NEW n \in Alive, n # running[p] PROVE n \in Alive'
    BY <1>2, <2>2 DEF Alive, LivePids
  <2>3. sockets' \subseteq Alive' \X Dests
    <3>1. sockets \subseteq Alive \X Dests
      BY <1>1 DEF TypeOK
    <3> QED
      BY <1>1, <2>2, <3>1
  <2> QED
    BY <1>1, <2>1, <2>3 DEF TypeOK, agent
<1>4. NamesHold'
  <2> SUFFICES ASSUME PidsRest PROVE NamesHold'
    BY DEF NamesHold
  <2>1. ASSUME NEW q \in Pids, NEW n, Current(q, n), n # Nobody
        PROVE  n = running'[q] \/ (running'[q] = Nobody /\ q \in freed')
    BY <1>1, <1>2, <2>1 DEF Current
  <2>2. ASSUME NEW q \in Pids, known'[q] # Nobody
        PROVE  known'[q] = running'[q] \/ (running'[q] = Nobody /\ q \in freed')
    <3>1. known'[q] = known[q]
      BY <1>1 DEF agent
    <3>2. Current(q, known[q])
      BY <1>1, <2>2, <3>1 DEF NamesHold
    <3> QED
      BY <2>1, <2>2, <3>1, <3>2
  <2>3. ASSUME NEW r \in processes'
        PROVE  r.name = running'[r.pid] \/ (running'[r.pid] = Nobody /\ r.pid \in freed')
    <3>1. r \in processes
      BY <1>1 DEF agent
    <3>2. r.pid \in Pids /\ r.name # Nobody
      BY <1>1, <3>1 DEF TypeOK, Row, Processes, Nobody
    <3>3. Current(r.pid, r.name)
      BY <1>1, <3>1 DEF NamesHold
    <3> QED
      BY <2>1, <3>2, <3>3
  <2> QED
    BY <2>2, <2>3 DEF NamesHold, Current
<1>5. SnapshotHolds'
  BY <1>1 DEF AgentInv, SnapshotHolds, EvidenceIsOwned, SelectionIsRight, agent
<1> QED
  BY <1>3, <1>4, <1>5 DEF AgentInv

\* Connections and failures leave processes and snapshots alone.
LEMMA RestKeeps ==
  ASSUME AgentInv, UNCHANGED <<running, started, freed, agent>>,
         calm' \in BOOLEAN, sockets' \subseteq Alive \X Dests
  PROVE  AgentInv'
<1>1. TypeOK'
  BY DEF AgentInv, TypeOK, agent, Alive, LivePids
<1>2. NamesHold'
  BY DEF AgentInv, NamesHold, Current, agent
<1>3. SnapshotHolds'
  BY DEF AgentInv, SnapshotHolds, EvidenceIsOwned, SelectionIsRight, agent
<1> QED
  BY <1>1, <1>2, <1>3 DEF AgentInv

LEMMA AgentInvInductive == AgentInv /\ [Next]_vars => AgentInv'
<1> SUFFICES ASSUME AgentInv, [Next]_vars PROVE AgentInv'
  OBVIOUS
<1>1. CASE SampleProcesses
  BY <1>1, SampleProcessesKeeps
<1>2. CASE TakeSnapshot
  BY <1>2, TakeSnapshotKeeps
<1>3. CASE SnapshotFails
  BY <1>3, SnapshotFailsKeeps
<1>4. CASE Upload
  BY <1>4, UploadKeeps
<1>5. ASSUME NEW p \in Pids, Start(p) PROVE AgentInv'
  BY <1>5, StartKeeps
<1>6. ASSUME NEW p \in Pids, Exit(p) PROVE AgentInv'
  BY <1>6, ExitKeeps
<1>7. sockets \subseteq Alive \X Dests /\ calm \in BOOLEAN
  BY DEF AgentInv, TypeOK
<1>8. ASSUME NEW n \in Processes, NEW d \in Dests, Connect(n, d) PROVE AgentInv'
  <2>1. sockets' \subseteq Alive \X Dests /\ UNCHANGED <<running, started, freed, calm, agent>>
    BY <1>7, <1>8 DEF Connect
  <2> QED
    BY <1>7, <2>1, RestKeeps
<1>9. ASSUME NEW n \in Processes, NEW d \in Dests, Disconnect(n, d) PROVE AgentInv'
  <2>1. sockets' \subseteq Alive \X Dests /\ UNCHANGED <<running, started, freed, calm, agent>>
    BY <1>7, <1>9 DEF Disconnect
  <2> QED
    BY <1>7, <2>1, RestKeeps
<1>10. CASE Weather
  <2>1. calm' \in BOOLEAN /\ UNCHANGED <<running, started, freed, sockets, agent>>
    BY <1>7, <1>10 DEF Weather
  <2> QED
    BY <1>7, <2>1, RestKeeps
<1>11. CASE UNCHANGED vars
  BY <1>7, <1>11, RestKeeps DEF vars, system, agent
<1> QED
  BY <1>1, <1>2, <1>3, <1>4, <1>5, <1>6, <1>8, <1>9, <1>10, <1>11 DEF Next, AgentStep, Environment

LEMMA AgentInvHolds == Spec => []AgentInv
BY InitAgentInv, AgentInvInductive, PTL DEF Spec

-----------------------------------------------------------------------------
(* The theorems.                                                           *)

\* TypeOK of the agent: whoever is connected is alive, and rows and connections
\* are well formed.
THEOREM TypesAreRight == Spec => []TypeOK
<1>1. AgentInv => TypeOK
  BY DEF AgentInv
<1> QED
  BY <1>1, AgentInvHolds, PTL

\* What the server attaches by pid was that process's connection, although the
\* samples are taken apart and names are cached, as long as pids rest.
THEOREM EvidenceNeverMoves == Spec => []EvidenceIsOwned
<1>1. AgentInv => EvidenceIsOwned
  BY DEF AgentInv, SnapshotHolds
<1> QED
  BY <1>1, AgentInvHolds, PTL

\* select_reportable and the loop over the owners keep what must be kept, fill
\* the quota and do not exceed it, for any number of processes and any limit.
THEOREM NothingIsLostToTheLimit == Spec => []SelectionIsRight
<1>1. AgentInv => SelectionIsRight
  BY DEF AgentInv, SnapshotHolds
<1> QED
  BY <1>1, AgentInvHolds, PTL

=============================================================================
