---------------------------- MODULE Semaphores ----------------------------
(***************************************************************************)
(* What the kernel promises of a semaphore, one of a device too, to        *)
(* processes that use it by system calls only: a value that counts down to *)
(* minus the number of those that wait, nobody who waits while it is above *)
(* zero, the release of one process by every V, by priority, and waiters   *)
(* that may die at any moment and take their P back.  Nothing is promised  *)
(* of anything once the kernel is broken.                                  *)
(***************************************************************************)
EXTENDS Integers

CONSTANTS
  Process,
  Semaphore

VARIABLES
  value,                    \* [Semaphore -> Int]
  waiting,                  \* [Semaphore -> the set of the processes that wait]
  prio,                     \* [Process -> Int]
  living,                   \* the processes there are
  running,                  \* the process that calls
  broken

semVars == <<value, waiting, prio, living, broken>>

SemInit ==
  /\ value \in [Semaphore -> Nat]
  /\ waiting = [k \in Semaphore |-> {}]
  /\ ~ broken

\* Whoever runs takes one, or waits.
P(k) ==
  /\ value' = [value EXCEPT ![k] = @ - 1]
  /\ waiting' = IF value[k] > 0 THEN waiting ELSE [waiting EXCEPT ![k] = @ \cup {running}]
  /\ UNCHANGED <<prio, living>>

\* Of those that wait, one that nobody precedes goes on.
V(k) ==
  /\ value' = [value EXCEPT ![k] = @ + 1]
  /\ \/ waiting[k] = {} /\ UNCHANGED waiting
     \/ \E p \in waiting[k] : /\ \A q \in waiting[k] : prio[q] <= prio[p]
                              /\ waiting' = [waiting EXCEPT ![k] = @ \ {p}]
  /\ UNCHANGED <<prio, living>>

Die(p) ==
  /\ p \in living /\ living' = living \ {p}
  /\ waiting' = [k \in Semaphore |-> waiting[k] \ {p}]
  /\ value' = [k \in Semaphore |-> IF p \in waiting[k] THEN value[k] + 1 ELSE value[k]]
  /\ UNCHANGED prio

Born(p) ==
  /\ p \notin living /\ living' = living \cup {p}
  /\ \A q \in Process \ {p} : prio'[q] = prio[q]
  /\ UNCHANGED <<value, waiting>>

SemNext ==
  \/ \E k \in Semaphore : P(k) \/ V(k)
  \/ \E p \in Process : Die(p) \/ Born(p)
  \/ broken'

SemSpec == SemInit /\ [][SemNext]_semVars
=============================================================================
