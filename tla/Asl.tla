-------------------------------- MODULE Asl --------------------------------
(***************************************************************************)
(* asl.c: the active semaphore list.  A fixed table of descriptors, each   *)
(* either on the free list or on the active list with the address of a     *)
(* semaphore and the queue of the processes blocked there.                 *)
(***************************************************************************)
EXTENDS ProcQ

CONSTANTS
  Key, NoKey,               \* semaphore addresses and the NULL address
  Priorities,               \* the priorities of processes
  SEMDS                     \* the length of semd_table; asl.c:4 has MAXPROC

ASSUME AslAssumption ==
  /\ NoKey \notin Key
  /\ SEMDS \in Nat \ {0}
  /\ Priorities \subseteq Int

VARIABLES
  semd_h, semdFree_h,       \* the active and the free list
  s_key, s_procQ,           \* the fields of the descriptors
  p_semkey, prio            \* the fields of the pcbs that asl.c uses

aslVars == <<semd_h, semdFree_h, s_key, s_procQ, p_semkey, prio>>

Semd == 1..SEMDS            \* semd_table; NULL is no descriptor

\* Processes that are in the queue of an active descriptor.
InQueue == UNION {Elems(s_procQ[s]) : s \in Elems(semd_h)}

\* initASL: every descriptor is added at the tail of the free list.
initASL ==
  /\ semd_h = <<>>
  /\ semdFree_h = [i \in 1..SEMDS |-> i]
  /\ s_key = [s \in Semd |-> NoKey]
  /\ s_procQ = [s \in Semd |-> <<>>]
  /\ p_semkey = [p \in Pcb |-> NoKey]
  /\ prio \in [Pcb -> Priorities]

\* list_del of an element of a list.
list_del(l, e) == outProcQ(l, e)

\* The first active descriptor with this key.
getSemd(key) ==
  IF \E s \in Elems(semd_h) : s_key[s] = key
  THEN semd_h[CHOOSE i \in 1..Len(semd_h) :
                /\ s_key[semd_h[i]] = key
                /\ \A j \in 1..i - 1 : s_key[semd_h[j]] /= key]
  ELSE NULL

\* A descriptor whose queue has become empty goes back to the free list.
releaseLeaks(s, q) ==
  /\ s_procQ' = [s_procQ EXCEPT ![s] = q]
  /\ semd_h' = IF emptyProcQ(q) THEN list_del(semd_h, s) ELSE semd_h
  /\ UNCHANGED semdFree_h
releaseOnlyFrees(s, q) ==
  /\ s_procQ' = [s_procQ EXCEPT ![s] = q]
  /\ semdFree_h' = IF emptyProcQ(q) THEN Append(semdFree_h, s) ELSE semdFree_h
  /\ UNCHANGED semd_h
setQueue(s, q) ==
  /\ s_procQ' = [s_procQ EXCEPT ![s] = q]
  /\ IF emptyProcQ(q)
     THEN /\ semd_h' = list_del(semd_h, s)
          /\ semdFree_h' = Append(semdFree_h, s)
     ELSE UNCHANGED <<semd_h, semdFree_h>>

(***************************************************************************)
(* insertBlocked: on an active descriptor of this key, or on the first     *)
(* free one, which goes to the head of the active list.  With no           *)
(* descriptor left it returns TRUE and changes nothing.                    *)
(***************************************************************************)
insertBlockedTakesNew(key, p) ==
  LET new == Head(semdFree_h)
  IN  /\ semdFree_h /= <<>>
      /\ semdFree_h' = Tail(semdFree_h)
      /\ semd_h' = <<new>> \o semd_h
      /\ s_key' = [s_key EXCEPT ![new] = key]
      /\ s_procQ' = [s_procQ EXCEPT ![new] = insertProcQ(<<>>, prio, p)]
      /\ p_semkey' = [p_semkey EXCEPT ![p] = key]
      /\ UNCHANGED prio
insertBlocked(key, p) ==
  LET s == getSemd(key)
      new == Head(semdFree_h)
  IN  /\ s /= NULL \/ semdFree_h /= <<>>
      /\ IF s = NULL
         THEN /\ semdFree_h' = Tail(semdFree_h)
              /\ semd_h' = <<new>> \o semd_h
              /\ s_key' = [s_key EXCEPT ![new] = key]
              /\ s_procQ' = [s_procQ EXCEPT ![new] = insertProcQ(<<>>, prio, p)]
         ELSE /\ s_procQ' = [s_procQ EXCEPT ![s] = insertProcQ(@, prio, p)]
              /\ UNCHANGED <<semd_h, semdFree_h, s_key>>
      /\ p_semkey' = [p_semkey EXCEPT ![p] = key]
      /\ UNCHANGED prio

\* removeBlocked: the head of the queue of this key, NULL when no descriptor has it.
removeBlocked(key) ==
  LET s == getSemd(key)
  IN  /\ s /= NULL
      /\ setQueue(s, removeProcQ(s_procQ[s]))
      /\ UNCHANGED <<s_key, p_semkey, prio>>

\* outBlocked: p, if it is in the queue its p_semkey names.
outBlocked(p) ==
  LET s == getSemd(p_semkey[p])
  IN  /\ s /= NULL
      /\ p \in Elems(s_procQ[s])
      /\ setQueue(s, outProcQ(s_procQ[s], p))
      /\ UNCHANGED <<s_key, p_semkey, prio>>

\* allocPcb and create_process on a pcb that is in no queue.
allocPcb(p, r) ==
  /\ p_semkey' = [p_semkey EXCEPT ![p] = NoKey]
  /\ prio' = [prio EXCEPT ![p] = r]
  /\ UNCHANGED <<semd_h, semdFree_h, s_key, s_procQ>>

AslNext ==
  \/ \E key \in Key, p \in Pcb \ InQueue : insertBlocked(key, p)
  \/ \E key \in Key : removeBlocked(key)
  \/ \E p \in Pcb : outBlocked(p)
  \/ \E p \in Pcb \ InQueue, r \in Priorities : allocPcb(p, r)

AslSpec == initASL /\ [][AslNext]_aslVars

-----------------------------------------------------------------------------
\* The lists hold descriptors, the queues hold pcbs.
AslTypeOK ==
  /\ semd_h \in Seq(Semd) /\ semdFree_h \in Seq(Semd)
  /\ s_key \in [Semd -> Key \cup {NoKey}]
  /\ s_procQ \in [Semd -> Seq(Pcb)]
  /\ p_semkey \in [Pcb -> Key \cup {NoKey}]
  /\ prio \in [Pcb -> Priorities]

\* Every descriptor is on exactly one of the two lists, once: getSemd, list_del and
\* list_add of asl.c never meet a descriptor that is linked elsewhere.
DescriptorsPartition ==
  /\ NoDup(semd_h) /\ NoDup(semdFree_h)
  /\ Elems(semd_h) \cap Elems(semdFree_h) = {}
  /\ Elems(semd_h) \cup Elems(semdFree_h) = Semd

\* An active descriptor has a key of its own and at least one process in its queue.
OneDescriptorPerKey ==
  /\ \A s \in Elems(semd_h) : s_key[s] \in Key /\ s_procQ[s] /= <<>>
  /\ \A s, t \in Elems(semd_h) : s_key[s] = s_key[t] => s = t

\* A process is in one queue at most, once, and its p_semkey is the key of that queue, so
\* outBlocked finds every blocked process.
BlockedOnce ==
  /\ \A s \in Elems(semd_h) : NoDup(s_procQ[s]) /\ Sorted(s_procQ[s], prio)
  /\ \A s \in Elems(semd_h) : \A p \in Elems(s_procQ[s]) : p_semkey[p] = s_key[s]

AslInv == AslTypeOK /\ DescriptorsPartition /\ OneDescriptorPerKey /\ BlockedOnce

(***************************************************************************)
(* A process that is about to block always finds a descriptor: passeren    *)
(* may ignore what insertBlocked returns (syscall.c:225).                  *)
(***************************************************************************)
AlwaysRoom ==
  \A p \in Pcb \ InQueue, key \in Key : getSemd(key) /= NULL \/ semdFree_h /= <<>>

(***************************************************************************)
(* The descriptors implement one queue per semaphore address.              *)
(***************************************************************************)
QueueOf(key) == IF getSemd(key) = NULL THEN <<>> ELSE s_procQ[getSemd(key)]
BQ == INSTANCE BlockedQueues WITH procQ <- [key \in Key |-> QueueOf(key)]
BlockedQueuesSpec == BQ!initASL /\ [][BQ!BQNext(prio)]_BQ!bqVars
=============================================================================
