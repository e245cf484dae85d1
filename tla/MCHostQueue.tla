----------------------------- MODULE MCHostQueue -----------------------------
EXTENDS HostQueue, TLC

CONSTANTS q1, q2, t1, t2

OneQueue   == {q1}
TwoQueues  == {q1, q2}
OneClient  == {t1}
TwoClients == {t1, t2}

(* Every client submits to every queue; each to a queue of its own. *)
Shared  == [t \in Clients |-> Queues]
Private == [t \in Clients |-> IF t = t1 THEN {q1} ELSE {q2}]

Everybody == Permutations(Clients) \cup Permutations(Queues)

(* With private queues only a client together with its queue can be renamed. *)
Pairs ==
  {[x \in {q1, q2, t1, t2} |-> x],
   [x \in {q1, q2, t1, t2} |-> CASE x = q1 -> q2 [] x = q2 -> q1 [] x = t1 -> t2 [] OTHER -> t1]}
=============================================================================
