------------------------------ MODULE MCMonitor ------------------------------
EXTENDS Monitor

CONSTANTS t1, t2, t3

MCThreads    == {t1, t2, t3}
MCThreads2   == {t1, t2}
MCSemaphores == Sems

(* Which client calls what: between them everything; a waiter and a
   notifier beside a thread that only locks. *)
AllCalls == [t \in Threads |-> IF t = t1 THEN {"lock", "tryLock", "wait"}
                                         ELSE {"lock", "notify", "notifyAll"}]
WaitNotify == [t \in Threads |-> {"lock"} \cup (IF t = t1 THEN {"wait"}
                                               ELSE IF t = t2 THEN {"notify"} ELSE {})]
=============================================================================
