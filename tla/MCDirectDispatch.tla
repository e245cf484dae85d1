-------------------------- MODULE MCDirectDispatch --------------------------
EXTENDS DirectDispatch, TLC

CONSTANTS q1, q2, t1, t2

TwoQueues  == {q1, q2}
OneClient  == {t1}
TwoClients == {t1, t2}
Shared     == [t \in Clients |-> Queues]

Everybody == Permutations(Clients) \cup Permutations(Queues)
=============================================================================
