------------------------------ MODULE NameService ------------------------------
(***************************************************************************)
(* What the reverse resolver promises the sampler: an address that is      *)
(* asked for is answered at most once, by a name or by none, the answer    *)
(* never changes, and no more than Limit addresses wait for theirs.        *)
(* ReverseResolver implements this with a lock, a queue and threads.       *)
(***************************************************************************)
EXTENDS Naturals, FiniteSets

CONSTANTS
  Addresses,
  Names,
  Limit       \* how many addresses may wait

VARIABLES
  waiting,    \* the addresses that wait for an answer
  answers     \* per address with an answer: its name in a tuple, or NoName

NoName == <<>>
Replies == {<<name>> : name \in Names} \cup {NoName}

Ask(ip) ==
  /\ ip \notin waiting \cup DOMAIN answers
  /\ Cardinality(waiting) < Limit
  /\ waiting' = waiting \cup {ip}
  /\ UNCHANGED answers

Answer(ip) ==
  /\ ip \in waiting
  /\ waiting' = waiting \ {ip}
  /\ \E reply \in Replies :
       answers' = [a \in DOMAIN answers \cup {ip} |-> IF a = ip THEN reply ELSE answers[a]]

Init == waiting = {} /\ answers = [ip \in {} |-> NoName]

Next == \E ip \in Addresses : Ask(ip) \/ Answer(ip)

Spec == Init /\ [][Next]_<<waiting, answers>>
=============================================================================
