------------------------------ MODULE Semaphore ------------------------------
(***************************************************************************)
(* amd::Semaphore (rocclr/thread/semaphore.{hpp,cpp}): an atomic counter    *)
(* that saturates at one on the posting side, in front of a POSIX           *)
(* semaphore that is touched only when somebody had to sleep.  The state    *)
(* and the atomic steps of its four operations; the threads that perform    *)
(* them are in the modules that extend this one.                            *)
(***************************************************************************)
EXTENDS Integers

CONSTANT Semaphores     \* the semaphore objects

VARIABLES value,        \* Semaphore::state_, one atomic_int per object
          tokens        \* the count of the sem_t behind it

semVars == <<value, tokens>>

SemTypeOK == /\ value  \in [Semaphores -> Int]
             /\ tokens \in [Semaphores -> Nat]

SemInit == /\ value  = [s \in Semaphores |-> 0]
           /\ tokens = [s \in Semaphores |-> 0]

----------------------------------------
(* reset(): stores zero; a token already in the sem_t is left there. *)
Reset(s) == /\ value' = [value EXCEPT ![s] = 0]
            /\ UNCHANGED tokens

(* The first line of wait() and timedWait(): state_--, which returns the
   value before; the caller sleeps on the sem_t unless it was positive. *)
Decrement(s) == /\ value' = [value EXCEPT ![s] = @ - 1]
                /\ UNCHANGED tokens

MustSleep(s) == value[s] <= 0

(* Mutant of Take: the sleeper does not wait for a token. *)
TakeUnposted(s) == /\ tokens' = [tokens EXCEPT ![s] = @ - 1]
                   /\ UNCHANGED value

(* sem_wait() returns: one token is consumed. *)
Take(s) == /\ tokens[s] > 0
           /\ tokens' = [tokens EXCEPT ![s] = @ - 1]
           /\ UNCHANGED value

(* The CAS loop of post(): nothing changes when the counter is positive. *)
Increment(s) == /\ value' = [value EXCEPT ![s] = IF @ > 0 THEN @ ELSE @ + 1]
                /\ UNCHANGED tokens

(* Mutant of HasSleeper: one sleeper is not enough. *)
HasSleepers(s) == value[s] < -1

(* post() calls sem_post() when the counter it replaced was negative. *)
HasSleeper(s) == value[s] < 0

Signal(s) == /\ tokens' = [tokens EXCEPT ![s] = @ + 1]
             /\ UNCHANGED value
=============================================================================
