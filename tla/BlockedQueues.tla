--------------------------- MODULE BlockedQueues ---------------------------
(***************************************************************************)
(* What asl.c promises the rest of the kernel: a priority queue of blocked *)
(* processes for every semaphore address, and in every pcb the address it  *)
(* was last queued at.  There is always room for one more process.  "prio" *)
(* is the priority field of the pcbs.                                      *)
(***************************************************************************)
EXTENDS ProcQ

CONSTANTS
  Key,                      \* semaphore addresses
  NoKey                     \* the NULL semaphore address

ASSUME NoKeyAssumption == NoKey \notin Key

VARIABLES
  procQ,                    \* [Key -> queue of the processes blocked there]
  p_semkey                  \* pcb_t.p_semkey

bqVars == <<procQ, p_semkey>>

Blocked == UNION {Elems(procQ[k]) : k \in Key}

initASL ==
  /\ procQ = [k \in Key |-> <<>>]
  /\ p_semkey = [p \in Pcb |-> NoKey]

headBlocked(key) == headProcQ(procQ[key])

insertNoSemkey(prio, key, p) ==
  /\ procQ' = [procQ EXCEPT ![key] = insertProcQ(@, prio, p)]
  /\ UNCHANGED p_semkey
insertBehindAll(prio, key, p) ==
  /\ procQ' = [procQ EXCEPT ![key] = Append(@, p)]
  /\ p_semkey' = [p_semkey EXCEPT ![p] = key]
insertBlocked(prio, key, p) ==
  /\ procQ' = [procQ EXCEPT ![key] = insertProcQ(@, prio, p)]
  /\ p_semkey' = [p_semkey EXCEPT ![p] = key]

\* The process removed is headBlocked(key); its p_semkey keeps the address.
removeBlocked(key) ==
  /\ procQ' = [procQ EXCEPT ![key] = removeProcQ(@)]
  /\ UNCHANGED p_semkey

\* Looks for p only in the queue its p_semkey names; nothing happens when it is not there.
outBlocked(p) ==
  /\ procQ' = [k \in Key |-> IF k = p_semkey[p] THEN outProcQ(procQ[k], p) ELSE procQ[k]]
  /\ UNCHANGED p_semkey

\* allocPcb: the pcb forgets where it was blocked in its former life.
resetSemkey(p) ==
  /\ p_semkey' = [p_semkey EXCEPT ![p] = NoKey]
  /\ UNCHANGED procQ

-----------------------------------------------------------------------------
(***************************************************************************)
(* The calls the kernel makes.  Only a process that is in no queue is ever *)
(* blocked or allocated; any process may be looked for by outBlocked.      *)
(***************************************************************************)
BQNext(prio) ==
  \/ \E key \in Key, p \in Pcb \ Blocked : insertBlocked(prio, key, p)
  \/ \E key \in Key : headBlocked(key) /= NULL /\ removeBlocked(key)
  \/ \E p \in Pcb : outBlocked(p)
  \/ \E p \in Pcb \ Blocked : resetSemkey(p)
=============================================================================
