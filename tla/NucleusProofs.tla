--------------------------- MODULE NucleusProofs ---------------------------
(***************************************************************************)
(* The safety of the kernel for every number of pcbs, semaphores and       *)
(* devices: no pcb is lost or in two lists, every semaphore counts its     *)
(* blocked processes, nobody waits at a terminal that has nothing to       *)
(* answer, and the kernel implements the scheduler and the queues of       *)
(* blocked processes.                                                      *)
(***************************************************************************)
EXTENDS Nucleus, SchedulerProofs

-----------------------------------------------------------------------------
(***************************************************************************)
(* The inductive invariant.                                                *)
(***************************************************************************)
\* terminate_process: "stack" is a path of living processes down the tree; it is empty
\* outside.
StackOK ==
  /\ phase = "terminate" => stack /= <<>> /\ current /= NULL
  /\ phase /= "terminate" => stack = <<>>
  /\ NoDup(stack)
  /\ \A i \in 1..Len(stack) : stack[i] \notin Elems(pcbFree_h)
  /\ \A i \in 1..Len(stack) - 1 : p_parent[stack[i + 1]] = stack[i]

\* The tree has no cycle, because fathers can be numbered below their children; the first
\* process on the stack is the oldest there.
Acyclic ==
  \E rank \in [Pcb -> Nat] :
    /\ \A p \in Pcb : p_parent[p] /= NULL => rank[p_parent[p]] < rank[p]
    /\ \A i \in 1..Len(stack) : rank[stack[1]] <= rank[stack[i]]

\* Until a pcb is in two lists, which is the last state, every list is what it should be.
Sound == OnePlace /\ CountsBlocked /\ TerminalWaits

IInv ==
  /\ SchedInv /\ NucleusInv
  /\ TreeLinks /\ StackOK /\ Acyclic
  /\ ~ Corrupt => Sound

-----------------------------------------------------------------------------
(***************************************************************************)
(* Facts about lists.                                                      *)
(***************************************************************************)
\* The empty list has no elements, and only it.
LEMMA EmptyElems == \A S : \A q \in Seq(S) : (q = <<>> <=> Elems(q) = {}) /\ (q = <<>> <=> Len(q) = 0)
<1> SUFFICES ASSUME NEW S, NEW q \in Seq(S)
             PROVE  (q = <<>> <=> Elems(q) = {}) /\ (q = <<>> <=> Len(q) = 0)
  OBVIOUS
<1>1. CASE q = <<>>
  BY <1>1, EmptySeq DEF Elems
<1>2. CASE q /= <<>>
  <2>1. Len(q) \in Nat \ {0}
    BY <1>2, EmptySeq
  <2>2. 1 \in 1..Len(q)
    BY <2>1
  <2> QED
    BY <1>2, <2>1, <2>2 DEF Elems
<1> QED
  BY <1>1, <1>2

\* The elements of a list of pcbs are pcbs, its head is one of them.
LEMMA PcbElems ==
  \A q \in Seq(Pcb) :
    /\ Elems(q) \subseteq Pcb /\ NULL \notin Elems(q)
    /\ headProcQ(q) = NULL <=> q = <<>>
    /\ headProcQ(q) /= NULL => headProcQ(q) \in Elems(q)
<1> SUFFICES ASSUME NEW q \in Seq(Pcb)
             PROVE  /\ Elems(q) \subseteq Pcb /\ NULL \notin Elems(q)
                    /\ headProcQ(q) = NULL <=> q = <<>>
                    /\ headProcQ(q) /= NULL => headProcQ(q) \in Elems(q)
  OBVIOUS
<1>1. Elems(q) \subseteq Pcb /\ NULL \notin Elems(q)
  BY ElementOfSeq, NullNotPcb DEF Elems
<1>2. CASE q = <<>>
  BY <1>1, <1>2 DEF headProcQ, emptyProcQ
<1>3. CASE q /= <<>>
  <2>1. Len(q) \in Nat \ {0}
    BY <1>3, EmptySeq
  <2>2. headProcQ(q) = q[1] /\ q[1] \in Elems(q)
    BY <1>3, <2>1 DEF headProcQ, emptyProcQ, Elems
  <2> QED
    BY <1>1, <1>3, <2>2
<1> QED
  BY <1>2, <1>3, <1>1

\* scheduler() moves processes between the processor and the ready queue only, and ages
\* nobody else.
LEMMA SchedulerMoves ==
  ASSUME SchedTypeOK, NEW cur \in Pcb \cup {NULL}, NEW q, QueueOK(q, priority),
         cur \notin Elems(q),
         scheduler(cur, q)
  PROVE  /\ current' \in Pcb \cup {NULL} /\ ready' \in Seq(Pcb) /\ NoDup(ready')
         /\ priority' \in [Pcb -> Int]
         /\ current' \notin Elems(ready')
         /\ (Elems(ready') \cup {current'}) \ {NULL} = (Elems(q) \cup {cur}) \ {NULL}
         /\ \A p \in Pcb \ (Elems(q) \cup {cur}) : priority'[p] = priority[p]
<1> DEFINE rq == IF cur = NULL THEN q ELSE insertProcQ(q, priority, cur)
<1>1. priority \in [Pcb -> Int] /\ original_priority \in [Pcb -> Int]
  BY DEF SchedTypeOK
<1>2. q \in Seq(Pcb) /\ NoDup(q) /\ Sorted(q, priority)
  BY DEF QueueOK
<1>3. /\ rq \in Seq(Pcb) /\ NoDup(rq) /\ Sorted(rq, priority)
      /\ Elems(rq) = (Elems(q) \cup {cur}) \ {NULL}
  <2>1. NULL \notin Elems(q)
    BY <1>2, PcbElems
  <2>2. CASE cur = NULL
    BY <1>2, <2>1, <2>2
  <2>3. CASE cur /= NULL
    <3>1. cur \in Pcb /\ rq = insertProcQ(q, priority, cur)
      BY <2>3
    <3>2. /\ insertProcQ(q, priority, cur) \in Seq(Pcb)
          /\ NoDup(insertProcQ(q, priority, cur)) /\ Sorted(insertProcQ(q, priority, cur), priority)
          /\ Elems(insertProcQ(q, priority, cur)) = Elems(q) \cup {cur}
      BY <1>1, <1>2, <3>1, InsertShape, InsertElems, InsertNoDup, InsertSorted
    <3> QED
      BY <2>1, <2>3, <3>1, <3>2
  <2> QED
    BY <2>2, <2>3
<1>4. IF rq = <<>>
      THEN current' = NULL /\ ready' = rq /\ priority' = priority
      ELSE /\ current' = headProcQ(rq)
           /\ ready' = removeProcQ(rq)
           /\ priority' = aging(removeProcQ(rq), resetPriority(headProcQ(rq)))
  BY DEF scheduler, emptyProcQ
<1> HIDE DEF rq
<1>5. CASE rq = <<>>
  <2>1. Elems(rq) = {}
    BY <1>3, <1>5, EmptyElems
  <2> QED
    BY <1>1, <1>3, <1>4, <1>5, <2>1
<1>6. CASE rq /= <<>>
  <2> DEFINE h == rq[1]
             r == removeProcQ(rq)
  <2>1. /\ r \in Seq(Pcb) /\ NoDup(r) /\ headProcQ(rq) = h /\ h \in Pcb
        /\ Elems(r) = Elems(rq) \ {h}
    BY <1>1, <1>3, <1>6, RemoveProp
  <2>2. h \in Elems(rq) /\ NULL \notin Elems(rq)
    BY <1>3, <1>6, <2>1, PcbElems
  <2> HIDE DEF r, h
  <2>3. current' = h /\ ready' = r /\ priority' = aging(r, resetPriority(h))
    BY <1>4, <1>6, <2>1 DEF r
  <2>4. priority' \in [Pcb -> Int]
    BY <1>1, <2>1, <2>3 DEF aging, resetPriority
  <2>5. \A p \in Pcb : p \notin Elems(rq) => priority'[p] = priority[p]
    BY <1>1, <2>1, <2>2, <2>3 DEF aging, resetPriority
  <2>6. \A p \in Pcb \ (Elems(q) \cup {cur}) : p \notin Elems(rq)
    BY <1>3
  <2> QED
    BY <1>3, <2>1, <2>2, <2>3, <2>4, <2>5, <2>6
<1> QED
  BY <1>5, <1>6

-----------------------------------------------------------------------------
(***************************************************************************)
(* The queues of blocked processes.                                        *)
(***************************************************************************)
\* What the invariant says of the fields, in the words the lemmas need.
LEMMA Typed ==
  ASSUME NucleusInv
  PROVE  /\ current \in Pcb \cup {NULL} /\ ready \in Seq(Pcb)
         /\ priority \in [Pcb -> Int] /\ original_priority \in [Pcb -> Int]
         /\ procQ \in [Key -> Seq(Pcb)] /\ p_semkey \in [Pcb -> Key \cup {NoKey}]
         /\ pcbFree_h \in Seq(Pcb) /\ p_parent \in [Pcb -> Pcb \cup {NULL}]
         /\ p_child \in [Pcb -> Seq(Pcb)] /\ sem \in [Key -> Int]
         /\ dev_status \in [Dev -> {"ready", "busy", "done"}]
         /\ phase \in {"main", "user", "poll", "terminate"}
         /\ poll \subseteq Dev /\ stack \in Seq(Pcb)
BY DEF NucleusInv, NucleusTypeOK, SchedTypeOK

\* The queue of one semaphore.
LEMMA QueueFacts ==
  ASSUME IInv, ~ Corrupt
  PROVE  \A k \in Key :
           /\ procQ[k] \in Seq(Pcb) /\ NoDup(procQ[k]) /\ Sorted(procQ[k], priority)
           /\ Elems(procQ[k]) \subseteq Pcb /\ Elems(procQ[k]) \subseteq Blocked
           /\ \A p \in Elems(procQ[k]) : p_semkey[p] = k /\ priority[p] = original_priority[p]
           /\ Len(procQ[k]) \in Nat
           /\ k \notin Raw => Len(procQ[k]) = IF sem[k] < 0 THEN -sem[k] ELSE 0
<1> TAKE k \in Key
<1>1. procQ[k] \in Seq(Pcb)
  BY Typed DEF IInv
<1>2. NoDup(procQ[k]) /\ (k \notin Raw => Len(procQ[k]) = IF sem[k] < 0 THEN -sem[k] ELSE 0)
  BY DEF IInv, Sound, OnePlace, CountsBlocked
<1>3. /\ Sorted(procQ[k], priority)
      /\ \A p \in Elems(procQ[k]) : p_semkey[p] = k /\ priority[p] = original_priority[p]
  BY DEF IInv, NucleusInv, BlockedQueuesOK
<1> QED
  BY <1>1, <1>2, <1>3, PcbElems, LenProperties DEF Blocked

\* A step that changes one queue of blocked processes, and the fields of none that stay
\* blocked elsewhere.
LEMMA OneQueueChanges ==
  ASSUME IInv, ~ Corrupt, NEW k \in Key, NEW q \in Seq(Pcb),
         procQ' = [procQ EXCEPT ![k] = q], p_semkey' \in [Pcb -> Key \cup {NoKey}],
         NoDup(q), Sorted(q, priority'),
         \A p \in Elems(q) : p_semkey'[p] = k /\ priority'[p] = original_priority'[p],
         \A p \in Elems(q) : p \in Elems(procQ[k]) \/ p \notin Blocked,
         \A p \in Blocked \ Elems(procQ[k]) :
           /\ p_semkey'[p] = p_semkey[p] /\ priority'[p] = priority[p]
           /\ original_priority'[p] = original_priority[p]
  PROVE  /\ procQ' \in [Key -> Seq(Pcb)]
         /\ BlockedQueuesOK'
         /\ Blocked' = (Blocked \ Elems(procQ[k])) \cup Elems(q)
         /\ \A j \in Key : NoDup(procQ'[j])
         /\ \A i, j \in Key : i /= j => Elems(procQ'[i]) \cap Elems(procQ'[j]) = {}
         /\ \A j \in Key \ {k} : procQ'[j] = procQ[j]
         /\ procQ'[k] = q
<1>1. /\ procQ \in [Key -> Seq(Pcb)] /\ procQ' \in [Key -> Seq(Pcb)]
      /\ procQ'[k] = q /\ \A j \in Key \ {k} : procQ'[j] = procQ[j]
  BY Typed DEF IInv
<1>2. \A i, j \in Key : i /= j => Elems(procQ[i]) \cap Elems(procQ[j]) = {}
  BY DEF IInv, Sound, OnePlace
<1>3. \A j \in Key \ {k} : /\ Elems(procQ[j]) \subseteq Blocked
                           /\ Elems(procQ[j]) \cap Elems(procQ[k]) = {}
  BY <1>2, QueueFacts
<1>4. BlockedQueuesOK'
  <2> SUFFICES ASSUME NEW j \in Key
               PROVE  /\ Sorted(procQ'[j], priority')
                      /\ \A p \in Elems(procQ'[j]) :
                           p_semkey'[p] = j /\ priority'[p] = original_priority'[p]
    BY DEF BlockedQueuesOK
  <2>1. CASE j = k
    BY <1>1, <2>1
  <2>2. CASE j /= k
    <3>1. /\ procQ'[j] = procQ[j] /\ Sorted(procQ[j], priority)
          /\ \A p \in Elems(procQ[j]) : p_semkey[p] = j /\ priority[p] = original_priority[p]
      BY <1>1, <2>2, QueueFacts
    <3>2. \A p \in Elems(procQ[j]) : /\ p_semkey'[p] = p_semkey[p] /\ priority'[p] = priority[p]
                                     /\ original_priority'[p] = original_priority[p]
      BY <1>3, <2>2
    <3>3. \A i \in 1..Len(procQ[j]) : priority'[procQ[j][i]] = priority[procQ[j][i]]
      BY <3>2 DEF Elems
    <3>4. Sorted(procQ[j], priority')
      BY <3>1, <3>3 DEF Sorted
    <3> QED
      BY <3>1, <3>2, <3>4
  <2> QED
    BY <2>1, <2>2
<1>5. Blocked' = (Blocked \ Elems(procQ[k])) \cup Elems(q)
  <2>1. \A x \in Blocked' : x \in (Blocked \ Elems(procQ[k])) \cup Elems(q)
    <3> SUFFICES ASSUME NEW j \in Key, NEW x \in Elems(procQ'[j])
                 PROVE  x \in (Blocked \ Elems(procQ[k])) \cup Elems(q)
      BY DEF Blocked
    <3> QED
      BY <1>1, <1>3
  <2>2. \A x \in (Blocked \ Elems(procQ[k])) \cup Elems(q) : \E j \in Key : x \in Elems(procQ'[j])
    BY <1>1 DEF Blocked
  <2> QED
    BY <2>1, <2>2 DEF Blocked
<1>6. \A j \in Key : NoDup(procQ'[j])
  BY <1>1, QueueFacts
<1>7. \A i \in Key \ {k} : Elems(procQ'[i]) \cap Elems(q) = {}
  BY <1>1, <1>3
<1>8. \A i, j \in Key : i /= j => Elems(procQ'[i]) \cap Elems(procQ'[j]) = {}
  BY <1>1, <1>2, <1>7
<1> QED
  BY <1>1, <1>4, <1>5, <1>6, <1>8

\* The same fields in a step that leaves the queues and the fields of the blocked alone.
LEMMA NoQueueChanges ==
  ASSUME IInv, ~ Corrupt, procQ' = procQ,
         \A p \in Blocked :
           /\ p_semkey'[p] = p_semkey[p] /\ priority'[p] = priority[p]
           /\ original_priority'[p] = original_priority[p]
  PROVE  /\ BlockedQueuesOK' /\ Blocked' = Blocked
         /\ \A j \in Key : NoDup(procQ'[j])
         /\ \A i, j \in Key : i /= j => Elems(procQ'[i]) \cap Elems(procQ'[j]) = {}
<1>1. BlockedQueuesOK'
  <2> SUFFICES ASSUME NEW j \in Key
               PROVE  /\ Sorted(procQ[j], priority')
                      /\ \A p \in Elems(procQ[j]) :
                           p_semkey'[p] = j /\ priority'[p] = original_priority'[p]
    BY DEF BlockedQueuesOK
  <2>1. \A p \in Elems(procQ[j]) : /\ p_semkey'[p] = p_semkey[p] /\ priority'[p] = priority[p]
                                   /\ original_priority'[p] = original_priority[p]
    BY QueueFacts
  <2>2. /\ Sorted(procQ[j], priority)
        /\ \A p \in Elems(procQ[j]) : p_semkey[p] = j /\ priority[p] = original_priority[p]
    BY QueueFacts
  <2>3. \A i \in 1..Len(procQ[j]) : priority'[procQ[j][i]] = priority[procQ[j][i]]
    BY <2>1 DEF Elems
  <2>4. Sorted(procQ[j], priority')
    BY <2>2, <2>3 DEF Sorted
  <2> QED
    BY <2>1, <2>2, <2>4
<1>2. \A i, j \in Key : i /= j => Elems(procQ[i]) \cap Elems(procQ[j]) = {}
  BY DEF IInv, Sound, OnePlace
<1> QED
  BY <1>1, <1>2, QueueFacts DEF Blocked

-----------------------------------------------------------------------------
(***************************************************************************)
(* verhogen and passeren, whoever calls them.                              *)
(***************************************************************************)
\* What a step that moves processes between the ready queue, the processor and the queues
\* of semaphores has to establish.
Moved ==
  /\ [SchedNext]_schedVars /\ [BQNext(priority)]_bqVars
  /\ SchedInv' /\ BlockedQueuesOK'
  /\ procQ' \in [Key -> Seq(Pcb)] /\ p_semkey' \in [Pcb -> Key \cup {NoKey}]
  /\ sem' \in [Key -> Int]
  /\ OnePlace' /\ CountsBlocked'

\* verhogen wakes the first process blocked at the semaphore, if any, and counts it off.
LEMMA VerhogenMoves ==
  ASSUME IInv, ~ Corrupt, NEW k \in Key, verhogen(k), pcbFree_h' = pcbFree_h
  PROVE  /\ Moved
         /\ sem'[k] = sem[k] + 1 /\ \A j \in Key \ {k} : sem'[j] = sem[j]
         /\ current' = current
<1> DEFINE h == headBlocked(k)
<1>1. /\ procQ \in [Key -> Seq(Pcb)] /\ sem \in [Key -> Int] /\ ready \in Seq(Pcb)
      /\ priority \in [Pcb -> Int] /\ p_semkey \in [Pcb -> Key \cup {NoKey}]
      /\ current \in Pcb \cup {NULL}
  BY Typed DEF IInv
<1>2. /\ procQ[k] \in Seq(Pcb) /\ NoDup(procQ[k]) /\ Sorted(procQ[k], priority)
      /\ \A p \in Elems(procQ[k]) : p_semkey[p] = k /\ priority[p] = original_priority[p]
      /\ Elems(procQ[k]) \subseteq Blocked
      /\ Len(procQ[k]) \in Nat
      /\ k \notin Raw => Len(procQ[k]) = IF sem[k] < 0 THEN -sem[k] ELSE 0
  BY QueueFacts
<1>3. OnePlace /\ CountsBlocked
  BY DEF IInv, Sound
<1>4. /\ sem' = [sem EXCEPT ![k] = sem[k] + 1]
      /\ current' = current /\ priority' = priority /\ original_priority' = original_priority
  BY DEF verhogen
<1>5. /\ sem' \in [Key -> Int] /\ sem'[k] = sem[k] + 1
      /\ \A j \in Key \ {k} : sem'[j] = sem[j]
  BY <1>1, <1>4
<1>6. CASE sem'[k] <= 0 /\ h /= NULL
  <2>1. /\ procQ' = [procQ EXCEPT ![k] = removeProcQ(procQ[k])] /\ p_semkey' = p_semkey
        /\ ready' = insertProcQ(ready, priority, h)
        /\ removeBlocked(k)
    BY <1>6 DEF verhogen, removeBlocked
  <2>2. procQ[k] /= <<>> /\ h \in Elems(procQ[k]) /\ h = headProcQ(procQ[k])
    BY <1>2, <1>6, PcbElems DEF headBlocked
  <2> DEFINE r == removeProcQ(procQ[k])
  <2>3. /\ r \in Seq(Pcb) /\ Len(r) = Len(procQ[k]) - 1
        /\ Elems(r) = Elems(procQ[k]) \ {h} /\ NoDup(r) /\ Sorted(r, priority)
    BY <1>1, <1>2, <2>2, RemoveProp
  <2> HIDE DEF r, h
  <2>4. h \in Pcb /\ h \in Blocked /\ h /= current /\ h \notin Elems(ready)
        /\ h \notin Elems(pcbFree_h)
    BY <1>2, <1>3, <2>2, PcbElems DEF OnePlace
  <2>5. Wake(h)
    BY <1>2, <1>4, <2>1, <2>2, <2>4 DEF Wake
  <2>6. SchedNext /\ SchedInv'
    <3>1. SchedNext
      BY <2>4, <2>5 DEF SchedNext
    <3> QED
      BY <3>1, SchedStepInv DEF IInv
  <2>7. BQNext(priority)
    BY <1>6, <2>1 DEF BQNext, h
  <2>8. procQ' = [procQ EXCEPT ![k] = r] /\ priority' = priority
    BY <1>4, <2>1 DEF r
  <2>9. /\ procQ' \in [Key -> Seq(Pcb)] /\ BlockedQueuesOK'
        /\ Blocked' = (Blocked \ Elems(procQ[k])) \cup Elems(r)
        /\ \A j \in Key : NoDup(procQ'[j])
        /\ \A i, j \in Key : i /= j => Elems(procQ'[i]) \cap Elems(procQ'[j]) = {}
        /\ \A j \in Key \ {k} : procQ'[j] = procQ[j]
        /\ procQ'[k] = r
    <3>1. /\ Sorted(r, priority') /\ p_semkey' \in [Pcb -> Key \cup {NoKey}]
          /\ \A p \in Elems(r) : p \in Elems(procQ[k]) \/ p \notin Blocked
          /\ \A p \in Elems(r) : p_semkey'[p] = k /\ priority'[p] = original_priority'[p]
      BY <1>1, <1>2, <1>4, <2>1, <2>3
    <3>2. \A p \in Blocked \ Elems(procQ[k]) :
            /\ p_semkey'[p] = p_semkey[p] /\ priority'[p] = priority[p]
            /\ original_priority'[p] = original_priority[p]
      BY <1>4, <2>1
    <3> QED
      BY <2>3, <2>8, <3>1, <3>2, OneQueueChanges
  <2>10. Blocked' = Blocked \ {h}
    <3>1. Elems(procQ[k]) \subseteq Blocked /\ h \in Elems(procQ[k])
      BY <1>2, <2>2
    <3> QED
      BY <2>3, <2>9, <3>1
  <2>11. Elems(ready') = Elems(ready) \cup {h} /\ NoDup(ready')
    <3>1. NoDup(ready)
      BY <1>3 DEF OnePlace
    <3> QED
      BY <1>1, <2>1, <2>4, <3>1, InsertElems, InsertNoDup
  <2>12. OnePlace'
    BY <1>3, <1>4, <2>4, <2>9, <2>10, <2>11 DEF OnePlace
  <2>13. CountsBlocked'
    <3>1. k \notin Raw => sem[k] < 0 /\ Len(r) = -sem[k] - 1
      BY <1>1, <1>2, <1>5, <1>6, <2>2, <2>3, EmptyElems
    <3>2. k \notin Raw => Len(procQ'[k]) = IF sem'[k] < 0 THEN -sem'[k] ELSE 0
      BY <1>1, <1>5, <2>9, <3>1
    <3> QED
      BY <1>3, <1>5, <2>9, <3>2 DEF CountsBlocked
  <2> QED
    BY <1>1, <1>4, <1>5, <2>1, <2>6, <2>7, <2>9, <2>12, <2>13 DEF Moved
<1>7. CASE ~ (sem'[k] <= 0 /\ h /= NULL)
  <2>1. procQ' = procQ /\ p_semkey' = p_semkey /\ ready' = ready
    BY <1>7 DEF verhogen, bqVars
  <2>2. UNCHANGED schedVars /\ UNCHANGED bqVars
    BY <1>4, <2>1 DEF schedVars, bqVars
  <2>3. SchedInv'
    BY <2>2, SchedStepInv DEF IInv
  <2>4. /\ BlockedQueuesOK' /\ Blocked' = Blocked
    BY <1>4, <2>1, NoQueueChanges
  <2>5. OnePlace'
    BY <1>3, <1>4, <2>1, <2>4 DEF OnePlace
  <2>6. CountsBlocked'
    <3>1. h = NULL => Len(procQ[k]) = 0
      BY <1>2, PcbElems, EmptyElems DEF headBlocked
    <3>2. k \notin Raw => sem[k] >= 0
      BY <1>1, <1>2, <1>5, <1>7, <3>1
    <3>3. k \notin Raw => Len(procQ'[k]) = IF sem'[k] < 0 THEN -sem'[k] ELSE 0
      BY <1>1, <1>2, <1>5, <2>1, <3>2
    <3> QED
      BY <1>3, <1>5, <2>1, <3>3 DEF CountsBlocked
  <2> QED
    BY <1>1, <1>4, <1>5, <2>1, <2>2, <2>3, <2>4, <2>5, <2>6 DEF Moved
<1> QED
  BY <1>6, <1>7

\* passeren blocks the running process when the semaphore falls below zero, and calls
\* scheduler().
LEMMA PasserenMoves ==
  ASSUME IInv, ~ Corrupt, current /= NULL, NEW k \in Key, passeren(k),
         pcbFree_h' = pcbFree_h
  PROVE  /\ Moved
         /\ sem'[k] = sem[k] - 1 /\ \A j \in Key \ {k} : sem'[j] = sem[j]
<1>1. /\ procQ \in [Key -> Seq(Pcb)] /\ sem \in [Key -> Int] /\ ready \in Seq(Pcb)
      /\ priority \in [Pcb -> Int] /\ p_semkey \in [Pcb -> Key \cup {NoKey}]
      /\ current \in Pcb
  BY Typed DEF IInv
<1>2. /\ procQ[k] \in Seq(Pcb) /\ NoDup(procQ[k]) /\ Sorted(procQ[k], priority)
      /\ \A p \in Elems(procQ[k]) : p_semkey[p] = k /\ priority[p] = original_priority[p]
      /\ Elems(procQ[k]) \subseteq Blocked
      /\ Len(procQ[k]) \in Nat
      /\ k \notin Raw => Len(procQ[k]) = IF sem[k] < 0 THEN -sem[k] ELSE 0
  BY QueueFacts
<1>3. OnePlace /\ CountsBlocked
  BY DEF IInv, Sound
<1>4. /\ sem' = [sem EXCEPT ![k] = sem[k] - 1]
      /\ original_priority' = original_priority
  BY DEF passeren
<1>5. /\ sem' \in [Key -> Int] /\ sem'[k] = sem[k] - 1
      /\ \A j \in Key \ {k} : sem'[j] = sem[j]
  BY <1>1, <1>4
<1>6. CASE sem'[k] < 0
  <2> DEFINE r == insertProcQ(procQ[k], priority, current)
  <2>1. /\ procQ' = [procQ EXCEPT ![k] = r]
        /\ p_semkey' = [p_semkey EXCEPT ![current] = k]
        /\ insertBlocked(priority, k, current)
        /\ scheduler(NULL, ready)
    BY <1>6 DEF passeren, insertBlocked
  <2>2. /\ current \notin Blocked /\ current \notin Elems(ready)
        /\ current \notin Elems(pcbFree_h)
        /\ Elems(ready) \cap Blocked = {}
    BY <1>3 DEF OnePlace
  <2>3. current \notin Elems(procQ[k])
    BY <1>2, <2>2
  <2>4. /\ r \in Seq(Pcb) /\ Len(r) = Len(procQ[k]) + 1
        /\ Elems(r) = Elems(procQ[k]) \cup {current} /\ NoDup(r) /\ Sorted(r, priority)
    BY <1>1, <1>2, <2>3, InsertShape, InsertElems, InsertNoDup, InsertSorted
  <2> HIDE DEF r
  <2>5. Stop
    BY <1>4, <2>1 DEF Stop
  <2>6. SchedNext /\ SchedInv'
    <3>1. SchedNext
      BY <2>5 DEF SchedNext
    <3> QED
      BY <3>1, SchedStepInv DEF IInv
  <2>7. BQNext(priority)
    BY <1>1, <2>1, <2>2 DEF BQNext
  <2>8. /\ SchedTypeOK /\ QueueOK(ready, priority) /\ NULL \notin Elems(ready)
        /\ priority[current] = original_priority[current]
    BY <1>1, SchedInvQueue, PcbElems DEF IInv
  <2>9. /\ current' \in Pcb \cup {NULL} /\ ready' \in Seq(Pcb) /\ NoDup(ready')
        /\ priority' \in [Pcb -> Int] /\ current' \notin Elems(ready')
        /\ (Elems(ready') \cup {current'}) \ {NULL} = Elems(ready)
        /\ \A p \in Pcb \ Elems(ready) : priority'[p] = priority[p]
    <3>1. /\ current' \in Pcb \cup {NULL} /\ ready' \in Seq(Pcb) /\ NoDup(ready')
          /\ priority' \in [Pcb -> Int] /\ current' \notin Elems(ready')
          /\ (Elems(ready') \cup {current'}) \ {NULL} = (Elems(ready) \cup {NULL}) \ {NULL}
          /\ \A p \in Pcb \ (Elems(ready) \cup {NULL}) : priority'[p] = priority[p]
      BY <2>1, <2>8, SchedulerMoves
    <3> QED
      BY <2>8, <3>1, NullNotPcb
  <2>10. Blocked \subseteq Pcb /\ \A p \in Blocked \cup {current} : priority'[p] = priority[p]
    BY <1>1, <2>2, <2>9, QueueFacts DEF Blocked
  <2>11. Sorted(r, priority')
    <3>1. \A p \in Elems(r) : priority'[p] = priority[p]
      BY <1>2, <2>4, <2>10
    <3>2. \A i \in 1..Len(r) : priority'[r[i]] = priority[r[i]]
      BY <3>1 DEF Elems
    <3> QED
      BY <2>4, <3>2 DEF Sorted
  <2>12. /\ p_semkey' \in [Pcb -> Key \cup {NoKey}] /\ p_semkey'[current] = k
         /\ \A p \in Pcb \ {current} : p_semkey'[p] = p_semkey[p]
    BY <1>1, <2>1
  <2>13. \A p \in Elems(r) : p_semkey'[p] = k /\ priority'[p] = original_priority'[p]
    BY <1>2, <1>4, <2>2, <2>4, <2>8, <2>10, <2>12
  <2>14. /\ procQ' \in [Key -> Seq(Pcb)] /\ BlockedQueuesOK'
         /\ Blocked' = (Blocked \ Elems(procQ[k])) \cup Elems(r)
         /\ \A j \in Key : NoDup(procQ'[j])
         /\ \A i, j \in Key : i /= j => Elems(procQ'[i]) \cap Elems(procQ'[j]) = {}
         /\ \A j \in Key \ {k} : procQ'[j] = procQ[j]
         /\ procQ'[k] = r
    <3>1. \A p \in Elems(r) : p \in Elems(procQ[k]) \/ p \notin Blocked
      BY <2>2, <2>4
    <3>2. \A p \in Blocked \ Elems(procQ[k]) :
            /\ p_semkey'[p] = p_semkey[p] /\ priority'[p] = priority[p]
            /\ original_priority'[p] = original_priority[p]
      BY <1>4, <2>2, <2>10, <2>12
    <3> QED
      BY <2>1, <2>4, <2>11, <2>12, <2>13, <3>1, <3>2, OneQueueChanges
  <2>15. Blocked' = Blocked \cup {current}
    BY <1>2, <2>4, <2>14
  <2>16. OnePlace'
    <3>1. current' \notin Elems(ready') \cup Elems(pcbFree_h) \cup Blocked'
      <4>1. current' = NULL \/ current' \in Elems(ready)
        BY <2>9
      <4>2. NULL \notin Elems(pcbFree_h) /\ NULL \notin Blocked'
        BY <1>1, <2>10, <2>15, PcbElems, Typed, NullNotPcb DEF IInv
      <4> QED
        BY <1>3, <2>2, <2>9, <2>15, <4>1, <4>2 DEF OnePlace
    <3>2. Elems(ready') \subseteq Elems(ready)
      BY <2>9, PcbElems
    <3>3. Pcb = (Elems(ready') \cup Elems(pcbFree_h) \cup Blocked' \cup {current'}) \ {NULL}
      BY <1>1, <1>3, <2>9, <2>15, NullNotPcb DEF OnePlace
    <3> QED
      BY <1>3, <2>2, <2>9, <2>14, <2>15, <3>1, <3>2, <3>3 DEF OnePlace
  <2>17. CountsBlocked'
    <3>1. ASSUME k \notin Raw
          PROVE  Len(procQ'[k]) = IF sem'[k] < 0 THEN -sem'[k] ELSE 0
      <4>1. Len(procQ'[k]) = Len(procQ[k]) + 1
        BY <2>4, <2>14
      <4>2. sem[k] \in Int /\ sem[k] <= 0 /\ sem'[k] = sem[k] - 1
        BY <1>1, <1>5, <1>6
      <4>3. Len(procQ[k]) = -sem[k]
        BY <1>2, <3>1, <4>2
      <4> QED
        BY <1>6, <4>1, <4>2, <4>3
    <3> QED
      BY <1>3, <1>5, <2>14, <3>1 DEF CountsBlocked
  <2> QED
    BY <1>5, <2>6, <2>7, <2>12, <2>14, <2>16, <2>17 DEF Moved
<1>7. CASE ~ (sem'[k] < 0)
  <2>1. /\ procQ' = procQ /\ p_semkey' = p_semkey /\ ready' = ready
        /\ current' = current /\ priority' = priority
    BY <1>7 DEF passeren, bqVars
  <2>2. UNCHANGED schedVars /\ UNCHANGED bqVars
    BY <1>4, <2>1 DEF schedVars, bqVars
  <2>3. SchedInv'
    BY <2>2, SchedStepInv DEF IInv
  <2>4. /\ BlockedQueuesOK' /\ Blocked' = Blocked
    BY <1>4, <2>1, NoQueueChanges
  <2>5. OnePlace'
    BY <1>3, <2>1, <2>4 DEF OnePlace
  <2>6. CountsBlocked'
    <3>1. k \notin Raw => Len(procQ'[k]) = IF sem'[k] < 0 THEN -sem'[k] ELSE 0
      BY <1>1, <1>2, <1>5, <1>7, <2>1
    <3> QED
      BY <1>3, <1>5, <2>1, <3>1 DEF CountsBlocked
  <2> QED
    BY <1>1, <1>5, <2>1, <2>2, <2>3, <2>4, <2>5, <2>6 DEF Moved
<1> QED
  BY <1>6, <1>7

\* A dispatch with nobody blocked or freed.
LEMMA DispatchMoves ==
  ASSUME IInv, ~ Corrupt, scheduler(current, ready),
         UNCHANGED <<original_priority, bqVars, pcbFree_h, sem>>
  PROVE  Moved
<1>1. /\ current \in Pcb \cup {NULL} /\ procQ' = procQ /\ p_semkey' = p_semkey
      /\ pcbFree_h' = pcbFree_h /\ sem' = sem /\ original_priority' = original_priority
      /\ pcbFree_h \in Seq(Pcb)
      /\ procQ \in [Key -> Seq(Pcb)] /\ sem \in [Key -> Int]
      /\ p_semkey \in [Pcb -> Key \cup {NoKey}]
  BY Typed DEF IInv, bqVars
<1>2. OnePlace /\ CountsBlocked
  BY DEF IInv, Sound
<1>3. /\ SchedTypeOK /\ QueueOK(ready, priority) /\ current \notin Elems(ready)
      /\ ready \in Seq(Pcb)
  BY SchedInvQueue, Typed DEF IInv
<1>4. /\ current' \in Pcb \cup {NULL} /\ ready' \in Seq(Pcb) /\ NoDup(ready')
      /\ current' \notin Elems(ready')
      /\ (Elems(ready') \cup {current'}) \ {NULL} = (Elems(ready) \cup {current}) \ {NULL}
      /\ \A p \in Pcb \ (Elems(ready) \cup {current}) : priority'[p] = priority[p]
  BY <1>1, <1>3, SchedulerMoves
<1>5. TimeSlice
  BY <1>1 DEF TimeSlice
<1>6. SchedNext
  BY <1>5 DEF SchedNext
<1>7. SchedInv'
  BY <1>6, SchedStepInv DEF IInv
<1>8. /\ Blocked \subseteq Pcb /\ current \notin Blocked /\ Elems(ready) \cap Blocked = {}
      /\ NULL \notin Blocked
  <2>1. Blocked \subseteq Pcb
    BY QueueFacts DEF Blocked
  <2> QED
    BY <1>2, <2>1, NullNotPcb DEF OnePlace
<1>9. \A p \in Blocked : /\ p_semkey'[p] = p_semkey[p] /\ priority'[p] = priority[p]
                         /\ original_priority'[p] = original_priority[p]
  BY <1>1, <1>4, <1>8
<1>10. BlockedQueuesOK' /\ Blocked' = Blocked
  BY <1>1, <1>9, NoQueueChanges
<1>11. OnePlace'
  <2>1. NULL \notin Elems(ready) /\ NULL \notin Elems(ready') /\ NULL \notin Elems(pcbFree_h)
    BY <1>1, <1>3, <1>4, PcbElems
  <2>2. current' = NULL \/ current' \in Elems(ready) \cup {current}
    BY <1>4
  <2>3. Elems(ready') \subseteq (Elems(ready) \cup {current}) \ {NULL}
    BY <1>4, <2>1
  <2>4. Pcb = (Elems(ready') \cup Elems(pcbFree_h) \cup Blocked \cup {current'}) \ {NULL}
    BY <1>2, <1>4 DEF OnePlace
  <2>5. current' \notin Elems(ready') \cup Elems(pcbFree_h) \cup Blocked
    BY <1>2, <1>4, <1>8, <2>1, <2>2 DEF OnePlace
  <2>6. Elems(ready') \cap Blocked = {} /\ Elems(pcbFree_h) \cap (Elems(ready') \cup Blocked) = {}
    BY <1>2, <1>8, <2>3 DEF OnePlace
  <2> QED
    BY <1>1, <1>2, <1>4, <1>10, <2>4, <2>5, <2>6 DEF OnePlace
<1>12. CountsBlocked'
  BY <1>1, <1>2 DEF CountsBlocked
<1>13. UNCHANGED bqVars
  BY <1>1 DEF bqVars
<1> QED
  BY <1>1, <1>6, <1>7, <1>10, <1>11, <1>12, <1>13 DEF Moved

-----------------------------------------------------------------------------
(***************************************************************************)
(* The terminals, and what most steps leave alone.                         *)
(***************************************************************************)
\* A terminal nobody waits at has a semaphore of 0, another has -1 and is not ready.
LEMMA TerminalFacts ==
  ASSUME IInv, ~ Corrupt
  PROVE  \A d \in Terminal :
           /\ d \in Key /\ d \notin Sem /\ d \notin Raw /\ d \notin Disk /\ d \in Dev
           /\ sem[d] \in {0, -1}
           /\ sem[d] = 0 <=> procQ[d] = <<>>
           /\ sem[d] = -1 => dev_status[d] /= "ready"
<1> TAKE d \in Terminal
<1>1. d \in Key /\ d \notin Sem /\ d \notin Raw /\ d \notin Disk /\ d \in Dev
  BY NucleusAssumption DEF Dev
<1>2. sem[d] \in {0, -1} /\ (procQ[d] /= <<>> => dev_status[d] /= "ready")
  BY DEF IInv, Sound, TerminalWaits
<1>3. sem[d] = 0 <=> procQ[d] = <<>>
  BY <1>1, <1>2, QueueFacts, EmptyElems
<1> QED
  BY <1>1, <1>2, <1>3

\* It is enough that the semaphore of a terminal says so after a step.
LEMMA TerminalKeeps ==
  ASSUME CountsBlocked', procQ' \in [Key -> Seq(Pcb)],
         \A d \in Terminal : /\ sem'[d] \in {0, -1}
                             /\ sem'[d] = -1 => dev_status'[d] /= "ready"
  PROVE  TerminalWaits'
<1> SUFFICES ASSUME NEW d \in Terminal
             PROVE  /\ Len(procQ'[d]) <= 1
                    /\ procQ'[d] /= <<>> => dev_status'[d] /= "ready"
                    /\ sem'[d] \in {0, -1}
  BY DEF TerminalWaits
<1>1. d \in Key \ Raw
  BY NucleusAssumption DEF Dev
<1>2. Len(procQ'[d]) = IF sem'[d] < 0 THEN -sem'[d] ELSE 0
  BY <1>1 DEF CountsBlocked
<1>3. procQ'[d] \in Seq(Pcb)
  BY <1>1
<1>4. CASE sem'[d] = 0
  <2>1. Len(procQ'[d]) = 0
    BY <1>2, <1>4
  <2>2. procQ'[d] = <<>>
    BY <1>3, <2>1, EmptyElems
  <2> QED
    BY <1>4, <2>1, <2>2
<1>5. CASE sem'[d] = -1
  <2>1. \A n \in Int : n < 0 /\ n > -2 => (IF n < 0 THEN -n ELSE 0) = 1
    OBVIOUS
  <2>2. sem'[d] \in Int /\ sem'[d] < 0 /\ sem'[d] > -2
    BY <1>5
  <2>3. (IF sem'[d] < 0 THEN -sem'[d] ELSE 0) = 1
    BY <2>1, <2>2
  <2> HIDE <1>5
  <2>4. Len(procQ'[d]) = 1
    BY <1>2, <2>3
  <2> QED
    BY <1>5, <2>4
<1> QED
  BY <1>4, <1>5

\* The tree in a step that does not touch it.
LEMMA TreeSame ==
  ASSUME IInv, UNCHANGED <<treeVars, stack>>
  PROVE  TreeLinks' /\ Acyclic'
BY DEF IInv, TreeLinks, Acyclic, treeVars

\* Outside terminate_process the stack is empty.
LEMMA NoStack ==
  ASSUME stack' = <<>>, phase' /= "terminate"
  PROVE  StackOK'
<1>1. PICK e \in Seq(Pcb) : e = <<>> /\ Len(e) = 0
  BY EmptySeq
<1>2. Len(stack') = 0
  BY <1>1
<1> QED
  BY <1>2 DEF StackOK, NoDup

\* What every step does: keep the invariant, and be a step of the two specifications.
Step == IInv' /\ [SchedNext]_schedVars /\ [BQNext(priority)]_bqVars

\* The parts of Step put together, for steps that leave the tree alone.
LEMMA StepFrom ==
  ASSUME IInv, ~ Corrupt, Moved, TerminalWaits', StackOK', UNCHANGED <<treeVars, stack>>,
         dev_status' \in [Dev -> {"ready", "busy", "done"}],
         phase' \in {"main", "user", "poll", "terminate"}, poll' \subseteq Dev
  PROVE  Step
<1>1. TreeLinks' /\ Acyclic'
  BY TreeSame
<1>2. NucleusTypeOK'
  BY Typed DEF IInv, Moved, SchedInv, NucleusTypeOK, treeVars
<1> QED
  BY <1>1, <1>2 DEF Step, IInv, NucleusInv, Moved, Sound

-----------------------------------------------------------------------------
(***************************************************************************)
(* The steps.                                                              *)
(***************************************************************************)
\* Start, TimerInterrupt.
LEMMA DispatchStep ==
  ASSUME IInv, ~ Corrupt, Start \/ TimerInterrupt
  PROVE  Step
<1>1. /\ scheduler(current, ready)
      /\ UNCHANGED <<original_priority, bqVars, treeVars, poll, stack, sem, dev_status>>
      /\ phase /= "terminate" /\ phase' = "user"
  BY DEF Start, TimerInterrupt, controlVars
<1>2. Moved
  BY <1>1, DispatchMoves DEF treeVars
<1>3. stack' = <<>>
  BY <1>1 DEF IInv, StackOK
<1>4. StackOK'
  BY <1>1, <1>3, NoStack
<1>5. TerminalWaits'
  BY <1>1, <1>2, TerminalFacts, TerminalKeeps DEF Moved
<1> QED
  BY <1>1, <1>2, <1>4, <1>5, StepFrom, Typed DEF IInv

\* The end of int_handler.
LEMMA ReturnStep ==
  ASSUME IInv, ~ Corrupt, InterruptReturn
  PROVE  Step
<1>1. /\ UNCHANGED <<original_priority, bqVars, treeVars, poll, stack, sem, dev_status>>
      /\ phase = "poll" /\ phase' = "user"
  BY DEF InterruptReturn, schedVars
<1>2. Moved
  <2>1. CASE current = NULL
    <3>1. scheduler(current, ready)
      BY <2>1 DEF InterruptReturn
    <3> QED
      BY <1>1, <3>1, DispatchMoves DEF treeVars
  <2>2. CASE current /= NULL
    <3>1. /\ UNCHANGED schedVars /\ UNCHANGED bqVars
          /\ pcbFree_h' = pcbFree_h /\ procQ' = procQ /\ sem' = sem /\ p_semkey' = p_semkey
          /\ priority' = priority /\ original_priority' = original_priority
          /\ ready' = ready /\ current' = current
      BY <1>1, <2>2 DEF InterruptReturn, treeVars, schedVars, bqVars
    <3>2. SchedInv'
      BY <3>1, SchedStepInv DEF IInv
    <3>3. BlockedQueuesOK' /\ Blocked' = Blocked
      BY <3>1, NoQueueChanges
    <3>4. OnePlace' /\ CountsBlocked'
      BY <3>1, <3>3 DEF IInv, Sound, OnePlace, CountsBlocked
    <3> QED
      BY <3>1, <3>2, <3>3, <3>4, Typed DEF Moved, IInv
  <2> QED
    BY <2>1, <2>2
<1>3. stack' = <<>>
  BY <1>1 DEF IInv, StackOK
<1>4. StackOK'
  BY <1>1, <1>3, NoStack
<1>5. TerminalWaits'
  BY <1>1, <1>2, TerminalFacts, TerminalKeeps DEF Moved
<1> QED
  BY <1>1, <1>2, <1>4, <1>5, StepFrom, Typed DEF IInv

\* VERHOGEN.
LEMMA VerhogenStep ==
  ASSUME IInv, ~ Corrupt, NEW k \in Sem, Verhogen(k)
  PROVE  Step
<1>1. /\ verhogen(k) /\ phase = "user" /\ k \in Key
      /\ UNCHANGED <<treeVars, controlVars, dev_status>>
  BY NucleusAssumption DEF Verhogen, Running
<1>2. /\ pcbFree_h' = pcbFree_h /\ UNCHANGED <<treeVars, stack>> /\ phase' = phase
      /\ stack' = stack /\ poll' = poll /\ dev_status' = dev_status
  BY <1>1 DEF treeVars, controlVars
<1>3. Moved /\ \A j \in Key \ {k} : sem'[j] = sem[j]
  BY <1>1, <1>2, VerhogenMoves
<1>4. StackOK'
  BY <1>1, <1>2, NoStack DEF IInv, StackOK
<1>5. TerminalWaits'
  BY <1>2, <1>3, TerminalFacts, TerminalKeeps DEF Moved
<1> QED
  BY <1>1, <1>2, <1>3, <1>4, <1>5, StepFrom, Typed DEF IInv

\* PASSEREN.
LEMMA PasserenStep ==
  ASSUME IInv, ~ Corrupt, NEW k \in Sem, Passeren(k)
  PROVE  Step
<1>1. /\ passeren(k) /\ phase = "user" /\ current /= NULL /\ k \in Key
      /\ UNCHANGED <<treeVars, controlVars, dev_status>>
  BY NucleusAssumption DEF Passeren, Running
<1>2. /\ pcbFree_h' = pcbFree_h /\ UNCHANGED <<treeVars, stack>> /\ phase' = phase
      /\ stack' = stack /\ poll' = poll /\ dev_status' = dev_status
  BY <1>1 DEF treeVars, controlVars
<1>3. Moved /\ \A j \in Key \ {k} : sem'[j] = sem[j]
  BY <1>1, <1>2, PasserenMoves
<1>4. StackOK'
  BY <1>1, <1>2, NoStack DEF IInv, StackOK
<1>5. TerminalWaits'
  BY <1>2, <1>3, TerminalFacts, TerminalKeeps DEF Moved
<1> QED
  BY <1>1, <1>2, <1>3, <1>4, <1>5, StepFrom, Typed DEF IInv

\* A process assigns to a semaphore: nobody moves.
LEMMA AssignStep ==
  ASSUME IInv, ~ Corrupt, NEW k \in Raw, NEW v \in InitVals \cup {0}, Assign(k, v)
  PROVE  Step
<1>1. /\ phase = "user" /\ sem' = [sem EXCEPT ![k] = v] /\ k \in Key
      /\ UNCHANGED <<schedVars, bqVars, treeVars, controlVars, dev_status>>
  BY NucleusAssumption DEF Assign, Running
<1>2. /\ UNCHANGED schedVars /\ UNCHANGED bqVars /\ UNCHANGED <<treeVars, stack>>
      /\ current' = current /\ ready' = ready /\ priority' = priority
      /\ original_priority' = original_priority
      /\ procQ' = procQ /\ p_semkey' = p_semkey /\ pcbFree_h' = pcbFree_h
      /\ dev_status' = dev_status /\ phase' = phase /\ poll' = poll /\ stack' = stack
  BY <1>1 DEF schedVars, bqVars, treeVars, controlVars
<1>3. /\ sem' \in [Key -> Int] /\ \A j \in Key \ Raw : sem'[j] = sem[j]
  <2>1. v \in Int /\ sem \in [Key -> Int]
    BY NucleusAssumption, Typed DEF IInv
  <2> QED
    BY <1>1, <2>1
<1>4. SchedInv'
  BY <1>2, SchedStepInv DEF IInv
<1>5. BlockedQueuesOK' /\ Blocked' = Blocked
  BY <1>2, NoQueueChanges
<1>6. OnePlace'
  BY <1>2, <1>5 DEF IInv, Sound, OnePlace
<1>7. CountsBlocked'
  BY <1>2, <1>3 DEF IInv, Sound, CountsBlocked
<1>8. Moved
  BY <1>2, <1>3, <1>4, <1>5, <1>6, <1>7, Typed DEF Moved, IInv
<1>9. StackOK'
  BY <1>1, <1>2, NoStack DEF IInv, StackOK
<1>10. TerminalWaits'
  BY <1>2, <1>3, <1>8, TerminalFacts, TerminalKeeps DEF Moved
<1> QED
  BY <1>1, <1>2, <1>8, <1>9, <1>10, StepFrom, Typed DEF IInv

\* WAITIO.  A terminal that is ready has nobody waiting, and is busy afterwards.
LEMMA DoIOStep ==
  ASSUME IInv, ~ Corrupt, NEW d \in Dev, DoIO(d)
  PROVE  Step
<1>1. /\ passeren(d) /\ phase = "user" /\ current /= NULL /\ d \in Key /\ StatusReady(d)
      /\ UNCHANGED <<treeVars, controlVars>>
      /\ dev_status' = [dev_status EXCEPT ![d] = "busy"]
  BY NucleusAssumption DEF DoIO, Running
<1>2. /\ pcbFree_h' = pcbFree_h /\ UNCHANGED <<treeVars, stack>> /\ phase' = phase
      /\ stack' = stack /\ poll' = poll
  BY <1>1 DEF treeVars, controlVars
<1>3. Moved /\ sem'[d] = sem[d] - 1 /\ \A j \in Key \ {d} : sem'[j] = sem[j]
  BY <1>1, <1>2, PasserenMoves
<1>4. StackOK'
  BY <1>1, <1>2, NoStack DEF IInv, StackOK
<1>5. /\ dev_status' \in [Dev -> {"ready", "busy", "done"}]
      /\ dev_status'[d] = "busy" /\ \A e \in Dev \ {d} : dev_status'[e] = dev_status[e]
  BY <1>1, Typed DEF IInv
<1>6. d \in Terminal => sem[d] = 0
  <2> SUFFICES ASSUME d \in Terminal PROVE sem[d] = 0
    OBVIOUS
  <2>1. dev_status[d] = "ready"
    BY <1>1, TerminalFacts DEF StatusReady
  <2> QED
    BY <2>1, TerminalFacts
<1>7. \A e \in Terminal : /\ sem'[e] \in {0, -1}
                          /\ sem'[e] = -1 => dev_status'[e] /= "ready"
  <2> TAKE e \in Terminal
  <2>1. CASE e = d
    <3>1. sem'[d] = -1
      BY <1>3, <1>6, <2>1
    <3> QED
      BY <1>5, <2>1, <3>1
  <2>2. CASE e /= d
    BY <1>3, <1>5, <2>2, TerminalFacts
  <2> QED
    BY <2>1, <2>2
<1>8. TerminalWaits'
  BY <1>3, <1>7, TerminalKeeps DEF Moved
<1> QED
  BY <1>1, <1>2, <1>3, <1>4, <1>5, <1>8, StepFrom, Typed DEF IInv

\* A step that only the devices and int_handler notice.
LEMMA QuietMoves ==
  ASSUME IInv, ~ Corrupt, UNCHANGED <<schedVars, bqVars, treeVars, sem>>
  PROVE  Moved
<1>1. /\ current' = current /\ ready' = ready /\ priority' = priority
      /\ original_priority' = original_priority
      /\ procQ' = procQ /\ p_semkey' = p_semkey /\ pcbFree_h' = pcbFree_h /\ sem' = sem
  BY DEF schedVars, bqVars, treeVars
<1>2. SchedInv'
  BY SchedStepInv DEF IInv
<1>3. BlockedQueuesOK' /\ Blocked' = Blocked
  BY <1>1, NoQueueChanges
<1>4. OnePlace' /\ CountsBlocked'
  BY <1>1, <1>3 DEF IInv, Sound, OnePlace, CountsBlocked
<1> QED
  BY <1>1, <1>2, <1>3, <1>4, Typed DEF Moved, IInv

\* The beginning of int_handler.
LEMMA DeviceInterruptStep ==
  ASSUME IInv, ~ Corrupt, DeviceInterrupt
  PROVE  Step
<1>1. /\ phase = "user" /\ phase' = "poll" /\ poll' \subseteq Dev
      /\ UNCHANGED <<schedVars, bqVars, treeVars, stack, sem, dev_status>>
  BY DEF DeviceInterrupt, Dev, Terminal
<1>2. Moved
  BY <1>1, QuietMoves
<1>3. StackOK'
  BY <1>1, NoStack DEF IInv, StackOK
<1>4. TerminalWaits'
  BY <1>1, <1>2, TerminalFacts, TerminalKeeps DEF Moved
<1> QED
  BY <1>1, <1>2, <1>3, <1>4, StepFrom, Typed DEF IInv

\* The hardware.
LEMMA CompletesStep ==
  ASSUME IInv, ~ Corrupt, NEW d \in Dev, DeviceCompletes(d)
  PROVE  Step
<1>1. /\ dev_status' = [dev_status EXCEPT ![d] = "done"]
      /\ UNCHANGED <<schedVars, bqVars, treeVars, controlVars, sem>>
  BY DEF DeviceCompletes
<1>2. /\ UNCHANGED <<treeVars, stack>> /\ phase' = phase /\ poll' = poll /\ sem' = sem
      /\ stack' = stack /\ current' = current /\ pcbFree_h' = pcbFree_h
      /\ p_parent' = p_parent
  BY <1>1 DEF controlVars, schedVars, treeVars
<1>3. Moved
  BY <1>1, QuietMoves
<1>4. StackOK'
  BY <1>2 DEF IInv, StackOK
<1>5. /\ dev_status' \in [Dev -> {"ready", "busy", "done"}]
      /\ \A e \in Dev : dev_status'[e] = "done" \/ dev_status'[e] = dev_status[e]
  BY <1>1, Typed DEF IInv
<1>6. TerminalWaits'
  BY <1>2, <1>3, <1>5, TerminalFacts, TerminalKeeps DEF Moved
<1> QED
  BY <1>2, <1>3, <1>4, <1>5, <1>6, StepFrom, Typed DEF IInv

\* intDisk and intTerm: whoever is blocked is woken before the acknowledge.
LEMMA PollStep ==
  ASSUME IInv, ~ Corrupt, PollDevice
  PROVE  Step
<1> DEFINE d == NextPolled
<1>1. d \in poll
  <2>1. \E e \in poll : \/ e \in Disk
                        \/ e \in TermRecv /\ poll \cap Disk = {}
                        \/ poll \subseteq TermTransm
    <3>1. poll /= {} /\ poll \subseteq Disk \cup TermRecv \cup TermTransm
      BY Typed DEF PollDevice, IInv, Dev, Terminal
    <3>2. CASE poll \cap Disk /= {}
      BY <3>2
    <3>3. CASE poll \cap Disk = {} /\ poll \cap TermRecv /= {}
      BY <3>3
    <3>4. CASE poll \cap Disk = {} /\ poll \cap TermRecv = {}
      BY <3>1, <3>4
    <3> QED
      BY <3>2, <3>3, <3>4
  <2> QED
    BY <2>1 DEF NextPolled
<1>2. d \in Dev /\ d \in Key
  BY <1>1, Typed, NucleusAssumption DEF IInv
<1>3. /\ phase = "poll" /\ phase' = phase /\ poll' = poll \ {d} /\ stack' = stack
      /\ UNCHANGED <<treeVars, stack>> /\ pcbFree_h' = pcbFree_h
      /\ dev_status[d] = "ready" => UNCHANGED <<schedVars, bqVars, sem, dev_status>>
      /\ dev_status[d] /= "ready" =>
           /\ IF headBlocked(d) /= NULL THEN verhogen(d) ELSE UNCHANGED <<schedVars, bqVars, sem>>
           /\ ack(d)
  BY DEF PollDevice, treeVars
<1> HIDE DEF d
<1>4. StackOK'
  BY <1>3, NoStack DEF IInv, StackOK
<1>5. dev_status \in [Dev -> {"ready", "busy", "done"}]
  BY Typed DEF IInv
<1>6. CASE dev_status[d] = "ready"
  <2>1. UNCHANGED <<schedVars, bqVars, treeVars, sem>> /\ dev_status' = dev_status /\ sem' = sem
    BY <1>3, <1>6
  <2>2. Moved
    BY <2>1, QuietMoves
  <2>3. TerminalWaits'
    BY <2>1, <2>2, TerminalFacts, TerminalKeeps DEF Moved
  <2> QED
    BY <1>3, <1>4, <1>5, <2>1, <2>2, <2>3, StepFrom, Typed DEF IInv
<1>7. CASE dev_status[d] /= "ready"
  <2>1. /\ dev_status' \in [Dev -> {"ready", "busy", "done"}]
        /\ \A e \in Dev \ {d} : dev_status'[e] = dev_status[e]
    BY <1>2, <1>3, <1>5, <1>7 DEF ack
  <2>2. /\ Moved
        /\ \A j \in Key \ {d} : sem'[j] = sem[j]
        /\ d \in Terminal => sem'[d] = 0
    <3>1. CASE headBlocked(d) /= NULL
      <4>1. verhogen(d)
        BY <1>3, <1>7, <3>1
      <4>2. Moved /\ sem'[d] = sem[d] + 1 /\ \A j \in Key \ {d} : sem'[j] = sem[j]
        BY <1>2, <1>3, <4>1, VerhogenMoves
      <4>3. d \in Terminal => sem[d] = -1
        <5>1. procQ[d] /= <<>>
          BY <1>2, <3>1, QueueFacts, PcbElems DEF headBlocked
        <5> QED
          BY <5>1, TerminalFacts
      <4> QED
        BY <4>2, <4>3
    <3>2. CASE headBlocked(d) = NULL
      <4>1. UNCHANGED <<schedVars, bqVars, treeVars, sem>> /\ sem' = sem
        BY <1>3, <1>7, <3>2
      <4>2. Moved
        BY <4>1, QuietMoves
      <4>3. procQ[d] = <<>>
        BY <1>2, <3>2, QueueFacts, PcbElems DEF headBlocked
      <4> QED
        BY <4>1, <4>2, <4>3, TerminalFacts
    <3> QED
      BY <3>1, <3>2
  <2>3. TerminalWaits'
    <3>1. \A e \in Terminal : /\ sem'[e] \in {0, -1}
                              /\ sem'[e] = -1 => dev_status'[e] /= "ready"
      <4> TAKE e \in Terminal
      <4>1. CASE e = d
        BY <2>2, <4>1
      <4>2. CASE e /= d
        BY <2>1, <2>2, <4>2, TerminalFacts
      <4> QED
        BY <4>1, <4>2
    <3> QED
      BY <2>2, <3>1, TerminalKeeps DEF Moved
  <2> QED
    BY <1>3, <1>4, <2>1, <2>2, <2>3, StepFrom, Typed DEF IInv
<1> QED
  BY <1>6, <1>7

-----------------------------------------------------------------------------
(***************************************************************************)
(* create_process.                                                         *)
(***************************************************************************)
\* What the links say of one pcb: nobody is its own father, a free pcb is nobody's father.
LEMMA LinkFacts ==
  ASSUME IInv
  PROVE  /\ \A p, c \in Pcb : c \in Elems(p_child[p]) <=> p_parent[c] = p
         /\ \A p \in Pcb : /\ p_child[p] \in Seq(Pcb) /\ NoDup(p_child[p])
                           /\ p_parent[p] /= p /\ p_parent[p] \in Pcb \cup {NULL}
         /\ \A p \in Elems(pcbFree_h) : p_parent[p] = NULL /\ p_child[p] = <<>>
         /\ \A c \in Pcb : p_parent[c] \notin Elems(pcbFree_h)
         /\ Elems(pcbFree_h) \subseteq Pcb
<1>1. /\ \A p, c \in Pcb : c \in Elems(p_child[p]) <=> p_parent[c] = p
      /\ \A p \in Pcb : NoDup(p_child[p])
      /\ \A p \in Elems(pcbFree_h) : p_parent[p] = NULL /\ p_child[p] = <<>>
  BY DEF IInv, TreeLinks
<1>2. /\ \A p \in Pcb : p_child[p] \in Seq(Pcb) /\ p_parent[p] \in Pcb \cup {NULL}
      /\ Elems(pcbFree_h) \subseteq Pcb
  BY Typed, PcbElems DEF IInv
<1>3. \A p \in Pcb : p_parent[p] /= p
  <2>1. PICK rank \in [Pcb -> Nat] :
          \A p \in Pcb : p_parent[p] /= NULL => rank[p_parent[p]] < rank[p]
    BY DEF IInv, Acyclic
  <2> SUFFICES ASSUME NEW p \in Pcb, p_parent[p] = p
               PROVE  FALSE
    OBVIOUS
  <2>2. rank[p] < rank[p] /\ rank[p] \in Nat
    BY <2>1, NullNotPcb
  <2> QED
    BY <2>2
<1>4. \A c \in Pcb : p_parent[c] \notin Elems(pcbFree_h)
  <2> SUFFICES ASSUME NEW c \in Pcb, p_parent[c] \in Elems(pcbFree_h)
               PROVE  FALSE
    OBVIOUS
  <2>1. c \in Elems(p_child[p_parent[c]]) /\ p_child[p_parent[c]] = <<>>
    BY <1>1, <1>2
  <2> QED
    BY <2>1, EmptyElems, <1>2
<1> QED
  BY <1>1, <1>2, <1>3, <1>4

\* A pcb from the free list becomes the last child of the running process.
LEMMA InsertChildLinks ==
  ASSUME IInv, NEW p \in Elems(pcbFree_h), NEW father \in Pcb \ Elems(pcbFree_h),
         insertChild(father, p), Elems(pcbFree_h') = Elems(pcbFree_h) \ {p},
         stack = <<>>, stack' = <<>>
  PROVE  /\ TreeLinks' /\ Acyclic'
         /\ p_parent' \in [Pcb -> Pcb \cup {NULL}] /\ p_child' \in [Pcb -> Seq(Pcb)]
<1>1. /\ p \in Pcb /\ p /= father /\ p_parent[p] = NULL /\ p_child[p] = <<>>
      /\ p \notin Elems(p_child[father])
  BY LinkFacts, NullNotPcb
<1>2. /\ p_parent \in [Pcb -> Pcb \cup {NULL}] /\ p_child \in [Pcb -> Seq(Pcb)]
  BY Typed DEF IInv
<1>3. /\ p_parent' = [p_parent EXCEPT ![p] = father]
      /\ p_child' = [p_child EXCEPT ![p] = <<>>, ![father] = Append(p_child[father], p)]
  BY <1>1, <1>2 DEF insertChild
<1>4. PICK e \in Seq(Pcb) : e = <<>> /\ Len(e) = 0 /\ Elems(e) = {}
  BY EmptySeq, EmptyElems
<1> DEFINE r == Append(p_child[father], p)
<1>5. r \in Seq(Pcb) /\ Elems(r) = Elems(p_child[father]) \cup {p} /\ NoDup(r)
  BY <1>1, LinkFacts, AddTailProp
<1> HIDE DEF r
<1>6. /\ p_child'[father] = r /\ p_child'[p] = e
      /\ \A q \in Pcb \ {p, father} : p_child'[q] = p_child[q]
      /\ p_child' \in [Pcb -> Seq(Pcb)]
  <2>1. p_child' = [p_child EXCEPT ![p] = e, ![father] = r]
    BY <1>3, <1>4 DEF r
  <2> QED
    BY <1>1, <1>2, <1>5, <2>1
<1>7. /\ p_parent' \in [Pcb -> Pcb \cup {NULL}] /\ p_parent'[p] = father
      /\ \A q \in Pcb \ {p} : p_parent'[q] = p_parent[q]
  BY <1>1, <1>2, <1>3
<1>8. TreeLinks'
  <2>1. ASSUME NEW q \in Pcb, NEW c \in Pcb
        PROVE  c \in Elems(p_child'[q]) <=> p_parent'[c] = q
    <3> DEFINE same == c \in Elems(p_child[q]) <=> p_parent[c] = q
    <3>1. same /\ p_parent[c] /= p
      BY LinkFacts
    <3>2. CASE q = father
      <4>1. c \in Elems(p_child'[q]) <=> c \in Elems(p_child[q]) \/ c = p
        BY <1>5, <1>6, <3>2
      <4> QED
        BY <1>1, <1>7, <3>1, <3>2, <4>1
    <3>3. CASE q = p
      <4>1. c \notin Elems(p_child'[q])
        BY <1>4, <1>6, <3>3
      <4> QED
        BY <1>1, <1>7, <3>1, <3>3, <4>1
    <3>4. CASE q /= father /\ q /= p
      <4>1. p_child'[q] = p_child[q]
        BY <1>6, <3>4
      <4> QED
        BY <1>1, <1>7, <3>1, <3>4, <4>1, NullNotPcb
    <3> QED
      BY <3>2, <3>3, <3>4
  <2>2. NoDup(e)
    BY <1>4 DEF NoDup
  <2>3. \A q \in Pcb : NoDup(p_child'[q])
    BY <1>5, <1>6, <2>2, LinkFacts
  <2>4. \A q \in Elems(pcbFree_h') : p_parent'[q] = NULL /\ p_child'[q] = <<>>
    <3> SUFFICES ASSUME NEW q \in Elems(pcbFree_h')
                 PROVE  p_parent'[q] = NULL /\ p_child'[q] = <<>>
      OBVIOUS
    <3>1. q \in Elems(pcbFree_h) /\ q \in Pcb \ {p, father}
      BY LinkFacts
    <3>2. p_parent[q] = NULL /\ p_child[q] = <<>>
      BY <3>1, LinkFacts
    <3> QED
      BY <1>6, <1>7, <3>1, <3>2
  <2> QED
    BY <2>1, <2>3, <2>4 DEF TreeLinks
<1>9. Acyclic'
  <2>1. PICK rank \in [Pcb -> Nat] :
          \A q \in Pcb : p_parent[q] /= NULL => rank[p_parent[q]] < rank[q]
    BY DEF IInv, Acyclic
  <2> DEFINE rank1 == [q \in Pcb |-> IF q = p THEN rank[father] + 1 ELSE rank[q]]
  <2>2. rank1 \in [Pcb -> Nat]
    BY <2>1
  <2>3. \A q \in Pcb : p_parent'[q] /= NULL => rank1[p_parent'[q]] < rank1[q]
    <3> SUFFICES ASSUME NEW q \in Pcb, p_parent'[q] /= NULL
                 PROVE  rank1[p_parent'[q]] < rank1[q]
      OBVIOUS
    <3>1. CASE q = p
      <4>1. rank1[father] = rank[father] /\ rank1[p] = rank[father] + 1 /\ rank[father] \in Nat
        BY <1>1, <2>1
      <4> QED
        BY <1>7, <3>1, <4>1
    <3>2. CASE q /= p
      <4>1. p_parent'[q] = p_parent[q] /\ p_parent[q] \in Pcb
        BY <1>2, <1>7, <3>2
      <4>2. p_parent[q] /= p
        BY LinkFacts
      <4> QED
        BY <2>1, <3>2, <4>1, <4>2
    <3> QED
      BY <3>1, <3>2
  <2> HIDE DEF rank1
  <2>4. Len(stack') = 0
    BY <1>4
  <2>5. \A i \in 1..Len(stack') : rank1[stack'[1]] <= rank1[stack'[i]]
    BY <2>4
  <2> QED
    BY <2>2, <2>3, <2>5 DEF Acyclic
<1> QED
  BY <1>6, <1>7, <1>8, <1>9

\* CREATEPROCESS.
LEMMA CreateStep ==
  ASSUME IInv, ~ Corrupt, NEW prio \in Priorities, CreateProcess(prio)
  PROVE  Step
<1> DEFINE p == Head(pcbFree_h)
<1>1. /\ phase = "user" /\ current /= NULL /\ pcbFree_h /= <<>>
      /\ pcbFree_h' = Tail(pcbFree_h)
      /\ setPriority(p, prio) /\ resetSemkey(p) /\ insertChild(current, p)
      /\ ready' = insertProcQ(ready, priority', p)
      /\ current' = current /\ sem' = sem /\ dev_status' = dev_status
      /\ phase' = phase /\ poll' = poll /\ stack' = stack
  BY DEF CreateProcess, Running, controlVars
<1>2. /\ current \in Pcb /\ ready \in Seq(Pcb) /\ pcbFree_h \in Seq(Pcb)
      /\ priority \in [Pcb -> Int] /\ original_priority \in [Pcb -> Int]
      /\ procQ \in [Key -> Seq(Pcb)] /\ p_semkey \in [Pcb -> Key \cup {NoKey}]
      /\ sem \in [Key -> Int]
  BY <1>1, Typed DEF IInv
<1>3. OnePlace /\ CountsBlocked
  BY DEF IInv, Sound
<1>4. /\ p \in Elems(pcbFree_h) /\ pcbFree_h' \in Seq(Pcb) /\ NoDup(pcbFree_h')
      /\ Elems(pcbFree_h') = Elems(pcbFree_h) \ {p}
  <2>1. NoDup(pcbFree_h)
    BY <1>3 DEF OnePlace
  <2> QED
    BY <1>1, <1>2, <2>1, TakeHeadProp
<1> HIDE DEF p
<1>5. /\ p \in Pcb /\ p \notin Elems(ready) /\ p \notin Blocked /\ p /= current
      /\ current \notin Elems(pcbFree_h)
  BY <1>2, <1>3, <1>4, PcbElems DEF OnePlace
<1>6. /\ priority' = [priority EXCEPT ![p] = prio]
      /\ original_priority' = [original_priority EXCEPT ![p] = prio]
      /\ procQ' = procQ /\ p_semkey' = [p_semkey EXCEPT ![p] = NoKey]
  BY <1>1 DEF setPriority, resetSemkey
<1>7. /\ \A x \in Pcb \ {p} : /\ priority'[x] = priority[x] /\ p_semkey'[x] = p_semkey[x]
                              /\ original_priority'[x] = original_priority[x]
      /\ p_semkey' \in [Pcb -> Key \cup {NoKey}] /\ priority' \in [Pcb -> Int]
  BY <1>2, <1>5, <1>6, PrioritiesAssumption
<1>8. SchedNext /\ SchedInv'
  <2>1. Create(p, prio)
    BY <1>1, <1>5 DEF Create
  <2>2. SchedNext
    BY <1>5, <2>1 DEF SchedNext
  <2> QED
    BY <2>2, SchedStepInv DEF IInv
<1>9. BQNext(priority)
  BY <1>1, <1>5 DEF BQNext
<1>10. /\ BlockedQueuesOK' /\ Blocked' = Blocked
       /\ \A j \in Key : NoDup(procQ'[j])
       /\ \A i, j \in Key : i /= j => Elems(procQ'[i]) \cap Elems(procQ'[j]) = {}
  <2>1. \A x \in Blocked : /\ p_semkey'[x] = p_semkey[x] /\ priority'[x] = priority[x]
                           /\ original_priority'[x] = original_priority[x]
    BY <1>5, <1>7, QueueFacts DEF Blocked
  <2> QED
    BY <1>6, <2>1, NoQueueChanges
<1>11. Elems(ready') = Elems(ready) \cup {p} /\ NoDup(ready') /\ ready' \in Seq(Pcb)
  <2>1. NoDup(ready)
    BY <1>3 DEF OnePlace
  <2> QED
    BY <1>1, <1>2, <1>5, <1>7, <2>1, InsertElems, InsertNoDup, InsertShape
<1>12. OnePlace'
  <2>1. current' = current
    BY <1>1
  <2>2. /\ current \notin Elems(ready') \cup Elems(pcbFree_h') \cup Blocked'
        /\ Elems(pcbFree_h') \cap (Elems(ready') \cup Blocked') = {}
        /\ Elems(ready') \cap Blocked' = {}
        /\ Pcb = (Elems(ready') \cup Elems(pcbFree_h') \cup Blocked' \cup {current}) \ {NULL}
    BY <1>3, <1>4, <1>5, <1>10, <1>11, NullNotPcb DEF OnePlace
  <2> QED
    BY <1>4, <1>10, <1>11, <2>1, <2>2 DEF OnePlace
<1>13. CountsBlocked'
  BY <1>1, <1>3, <1>6 DEF CountsBlocked
<1>14. TerminalWaits'
  BY <1>1, <1>2, <1>6, <1>13, TerminalFacts, TerminalKeeps
<1>15. stack = <<>> /\ stack' = <<>>
  BY <1>1 DEF IInv, StackOK
<1>16. /\ TreeLinks' /\ Acyclic'
       /\ p_parent' \in [Pcb -> Pcb \cup {NULL}] /\ p_child' \in [Pcb -> Seq(Pcb)]
  BY <1>1, <1>2, <1>4, <1>5, <1>15, InsertChildLinks
<1>17. StackOK'
  BY <1>1, <1>15, NoStack
<1>18. NucleusTypeOK'
  BY <1>1, <1>2, <1>4, <1>6, <1>7, <1>8, <1>16, Typed DEF IInv, SchedInv, NucleusTypeOK
<1> QED
  BY <1>8, <1>9, <1>10, <1>12, <1>13, <1>14, <1>16, <1>17, <1>18
  DEF Step, IInv, NucleusInv, Sound

-----------------------------------------------------------------------------
(***************************************************************************)
(* isChildOf: the recursive function that climbs the tree exists.          *)
(***************************************************************************)
\* What isChildOf climbs, for any p_parent: the father of s first, NULL past the root.
Climbs(par, s, n, f) ==
  /\ f \in [1..n -> Pcb \cup {NULL}]
  /\ \A i \in 1..n :
       f[i] = IF i = 1 THEN par[s] ELSE IF f[i - 1] = NULL THEN NULL ELSE par[f[i - 1]]
Up(par, s) ==
  CHOOSE up : up = [n \in 1..MAXPROC |->
                      IF n = 1 THEN par[s] ELSE IF up[n - 1] = NULL THEN NULL ELSE par[up[n - 1]]]

\* isChildOf looks for the parent among the pcbs it climbs over.
LEMMA ChildIsUp ==
  \A a, s : isChildOf(a, s) <=> \E n \in 1..MAXPROC : Up(p_parent, s)[n] = a
BY DEF isChildOf, Up

\* One can climb any number of steps.
LEMMA ClimbExists ==
  ASSUME NEW par \in [Pcb -> Pcb \cup {NULL}], NEW s \in Pcb
  PROVE  \A n \in Nat : \E f : Climbs(par, s, n, f)
<1> DEFINE T == {n \in Nat : ~ \E f : Climbs(par, s, n, f)}
<1> SUFFICES ASSUME T /= {} PROVE FALSE
  OBVIOUS
<1>1. PICK n \in T : \A m \in T : n <= m
  <2>1. T \subseteq Nat
    OBVIOUS
  <2> HIDE DEF T
  <2> QED
    BY <2>1, LeastNat
<1>2. n \in Nat /\ \A f : ~ Climbs(par, s, n, f)
  BY <1>1
<1>3. CASE n = 0
  <2>1. Climbs(par, s, 0, [i \in 1..0 |-> NULL])
    BY DEF Climbs
  <2> QED
    BY <1>2, <1>3, <2>1
<1>4. CASE n > 0
  <2>1. n - 1 \in Nat /\ n - 1 \notin T
    BY <1>1, <1>2, <1>4
  <2>2. PICK f : Climbs(par, s, n - 1, f)
    BY <2>1
  <2> DEFINE top == IF n = 1 THEN par[s] ELSE IF f[n - 1] = NULL THEN NULL ELSE par[f[n - 1]]
             g == [i \in 1..n |-> IF i = n THEN top ELSE f[i]]
  <2>3. f \in [1..n - 1 -> Pcb \cup {NULL}]
    BY <2>2 DEF Climbs
  <2>4. top \in Pcb \cup {NULL}
    <3>1. CASE n = 1
      BY <3>1
    <3>2. CASE n /= 1
      <4>1. f[n - 1] \in Pcb \cup {NULL}
        BY <1>2, <1>4, <2>3, <3>2
      <4> QED
        BY <3>2, <4>1
    <3> QED
      BY <3>1, <3>2
  <2> HIDE DEF top
  <2>5. g \in [1..n -> Pcb \cup {NULL}]
    BY <1>2, <2>3, <2>4
  <2>6. ASSUME NEW i \in 1..n
        PROVE  g[i] = IF i = 1 THEN par[s] ELSE IF g[i - 1] = NULL THEN NULL ELSE par[g[i - 1]]
    <3>1. CASE i = n
      BY <1>2, <1>4, <3>1 DEF top
    <3>2. CASE i /= n
      <4>1. i \in 1..n - 1 /\ g[i] = f[i] /\ (i /= 1 => g[i - 1] = f[i - 1])
        BY <1>2, <3>2
      <4> QED
        BY <2>2, <4>1 DEF Climbs
    <3> QED
      BY <3>1, <3>2
  <2> HIDE DEF g
  <2>7. Climbs(par, s, n, g)
    BY <2>5, <2>6 DEF Climbs
  <2> QED
    BY <1>2, <2>7
<1> QED
  BY <1>2, <1>3, <1>4

\* What isChildOf climbs over is a climb of MAXPROC steps.
LEMMA UpClimbs ==
  ASSUME NEW par \in [Pcb -> Pcb \cup {NULL}], NEW s \in Pcb
  PROVE  Climbs(par, s, MAXPROC, Up(par, s))
<1>1. PICK f : Climbs(par, s, MAXPROC, f)
  BY ClimbExists, MAXPROCAssumption
<1> DEFINE Eq(up) == up = [n \in 1..MAXPROC |->
                             IF n = 1 THEN par[s]
                             ELSE IF up[n - 1] = NULL THEN NULL ELSE par[up[n - 1]]]
<1>2. Eq(f)
  BY <1>1 DEF Climbs
<1>3. Up(par, s) = CHOOSE up : Eq(up)
  BY DEF Up
<1>4. Eq(Up(par, s))
  <2> HIDE DEF Eq
  <2> QED
    BY <1>2, <1>3
<1> DEFINE u == Up(par, s)
<1>5. DOMAIN u = 1..MAXPROC /\
      \A n \in 1..MAXPROC :
        u[n] = IF n = 1 THEN par[s] ELSE IF u[n - 1] = NULL THEN NULL ELSE par[u[n - 1]]
  <2> HIDE DEF u
  <2>1. Eq(u)
    BY <1>4 DEF u
  <2> QED
    BY <2>1
<1>6. u = [n \in 1..MAXPROC |-> u[n]]
  <2>1. Eq(u)
    BY <1>4
  <2> HIDE DEF u
  <2> QED
    BY <2>1
<1> HIDE DEF u, Eq
<1>7. \A n \in 1..MAXPROC : u[n] \in Pcb \cup {NULL}
  <2> DEFINE T == {n \in 1..MAXPROC : u[n] \notin Pcb \cup {NULL}}
  <2> SUFFICES ASSUME T /= {} PROVE FALSE
    OBVIOUS
  <2>1. PICK n \in T : \A m \in T : n <= m
    <3>1. T \subseteq Nat
      BY MAXPROCAssumption
    <3> HIDE DEF T
    <3> QED
      BY <3>1, LeastNat
  <2>2. n \in 1..MAXPROC /\ u[n] \notin Pcb \cup {NULL}
    BY <2>1
  <2>3. n /= 1
    BY <1>5, <2>2
  <2>4. n - 1 \in 1..MAXPROC /\ u[n - 1] \in Pcb \cup {NULL}
    BY <2>1, <2>2, <2>3, MAXPROCAssumption
  <2> QED
    BY <1>5, <2>2, <2>3, <2>4
<1> QED
  BY <1>5, <1>6, <1>7 DEF Climbs, u

\* Who descends from a pcb has a father.
LEMMA ChildHasFather ==
  ASSUME IInv, NEW a \in Pcb, NEW s \in Pcb, isChildOf(a, s)
  PROVE  p_parent[s] /= NULL
<1> SUFFICES ASSUME p_parent[s] = NULL PROVE FALSE
  OBVIOUS
<1>1. p_parent \in [Pcb -> Pcb \cup {NULL}]
  BY Typed DEF IInv
<1> DEFINE u == Up(p_parent, s)
<1>2. Climbs(p_parent, s, MAXPROC, u)
  BY <1>1, UpClimbs
<1> DEFINE T == {n \in 1..MAXPROC : u[n] /= NULL}
<1>3. T /= {}
  BY ChildIsUp, NullNotPcb
<1> HIDE DEF u
<1>4. PICK n \in T : \A m \in T : n <= m
  <2>1. T \subseteq Nat
    BY MAXPROCAssumption
  <2> HIDE DEF T
  <2> QED
    BY <1>3, <2>1, LeastNat
<1>5. n \in 1..MAXPROC /\ u[n] /= NULL
  BY <1>4
<1>6. n /= 1
  BY <1>2, <1>5 DEF Climbs
<1>7. n - 1 \in 1..MAXPROC /\ u[n - 1] = NULL
  BY <1>4, <1>5, <1>6, MAXPROCAssumption
<1> QED
  BY <1>2, <1>5, <1>6, <1>7 DEF Climbs

-----------------------------------------------------------------------------
(***************************************************************************)
(* terminate_process.                                                      *)
(***************************************************************************)
\* A step that pushes an activation and touches nothing else.
LEMMA StackStep ==
  ASSUME IInv, ~ Corrupt, UNCHANGED <<schedVars, bqVars, treeVars, poll, sem, dev_status>>,
         phase' \in {"main", "user", "poll", "terminate"}, stack' \in Seq(Pcb),
         StackOK', Acyclic'
  PROVE  Step
<1>1. Moved
  BY QuietMoves
<1>2. TerminalWaits'
  BY <1>1, TerminalFacts, TerminalKeeps DEF Moved
<1>3. TreeLinks'
  BY DEF IInv, TreeLinks, treeVars
<1>4. NucleusTypeOK'
  BY <1>1, Typed DEF IInv, Moved, SchedInv, NucleusTypeOK, treeVars
<1> QED
  BY <1>1, <1>2, <1>3, <1>4 DEF Step, IInv, NucleusInv, Moved, Sound

\* The call: its first activation.
LEMMA TerminateProcessStep ==
  ASSUME IInv, ~ Corrupt, NEW pid \in Pcb, TerminateProcess(pid)
  PROVE  Step
<1>1. /\ current /= NULL /\ phase' = "terminate" /\ stack' = <<pid>>
      /\ pid = current \/ isChildOf(current, pid)
      /\ UNCHANGED <<schedVars, bqVars, treeVars, poll, sem, dev_status>>
  BY DEF TerminateProcess, Running
<1>2. /\ current' = current /\ pcbFree_h' = pcbFree_h /\ p_parent' = p_parent
  BY <1>1 DEF schedVars, treeVars
<1>3. stack' \in Seq(Pcb) /\ Len(stack') = 1 /\ stack'[1] = pid /\ stack' /= <<>>
  BY <1>1
<1>4. pid \notin Elems(pcbFree_h)
  <2>1. CASE pid = current
    BY <2>1 DEF IInv, Sound, OnePlace
  <2>2. CASE isChildOf(current, pid)
    <3>1. p_parent[pid] /= NULL
      BY <1>1, <2>2, Typed, ChildHasFather DEF IInv
    <3> QED
      BY <3>1, LinkFacts
  <2> QED
    BY <1>1, <2>1, <2>2
<1>5. StackOK'
  BY <1>1, <1>2, <1>3, <1>4 DEF StackOK, NoDup
<1>6. Acyclic'
  <2>1. PICK rank \in [Pcb -> Nat] :
          \A p \in Pcb : p_parent[p] /= NULL => rank[p_parent[p]] < rank[p]
    BY DEF IInv, Acyclic
  <2>2. \A i \in 1..Len(stack') : rank[stack'[1]] <= rank[stack'[i]]
    BY <1>3, <2>1
  <2> QED
    BY <1>2, <2>1, <2>2 DEF Acyclic
<1> QED
  BY <1>1, <1>3, <1>5, <1>6, StackStep

\* The pcbs of the activations.
LEMMA StackFacts ==
  ASSUME IInv, phase = "terminate"
  PROVE  /\ stack \in Seq(Pcb) /\ Len(stack) \in Nat \ {0} /\ NoDup(stack) /\ current \in Pcb
         /\ Top \in Pcb /\ Top \notin Elems(pcbFree_h) /\ Top = stack[Len(stack)]
         /\ \A i \in 1..Len(stack) : stack[i] \in Pcb /\ stack[i] \notin Elems(pcbFree_h)
         /\ \A i \in 1..Len(stack) - 1 : p_parent[stack[i + 1]] = stack[i]
<1>1. /\ stack \in Seq(Pcb) /\ NoDup(stack) /\ stack /= <<>> /\ current \in Pcb
      /\ \A i \in 1..Len(stack) : stack[i] \notin Elems(pcbFree_h)
      /\ \A i \in 1..Len(stack) - 1 : p_parent[stack[i + 1]] = stack[i]
  BY Typed DEF IInv, StackOK
<1>2. Len(stack) \in Nat \ {0}
  BY <1>1, EmptySeq
<1>3. \A i \in 1..Len(stack) : stack[i] \in Pcb
  BY <1>1, ElementOfSeq
<1> QED
  BY <1>1, <1>2, <1>3 DEF Top

\* The recursive call.
LEMMA TerminateChildStep ==
  ASSUME IInv, ~ Corrupt, TerminateChild
  PROVE  Step
<1> DEFINE c == returnChild(Top)
           n == Len(stack)
<1>1. /\ phase = "terminate" /\ phase' = phase /\ c /= NULL /\ stack' = Append(stack, c)
      /\ UNCHANGED <<schedVars, bqVars, treeVars, poll, sem, dev_status>>
  BY DEF TerminateChild
<1>2. /\ current' = current /\ pcbFree_h' = pcbFree_h /\ p_parent' = p_parent
  BY <1>1 DEF schedVars, treeVars
<1>3. /\ stack \in Seq(Pcb) /\ n \in Nat \ {0} /\ NoDup(stack) /\ current \in Pcb
      /\ Top \in Pcb /\ Top = stack[n]
      /\ \A i \in 1..n : stack[i] \in Pcb /\ stack[i] \notin Elems(pcbFree_h)
      /\ \A i \in 1..n - 1 : p_parent[stack[i + 1]] = stack[i]
  BY <1>1, StackFacts
<1>4. c \in Pcb /\ p_parent[c] = Top /\ c \notin Elems(pcbFree_h)
  <2>1. p_child[Top] \in Seq(Pcb)
    BY <1>3, LinkFacts
  <2>2. c \in Elems(p_child[Top]) /\ c \in Pcb
    BY <1>1, <2>1, PcbElems DEF returnChild
  <2>3. p_parent[c] = Top
    BY <1>3, <2>2, LinkFacts
  <2> QED
    BY <1>3, <2>2, <2>3, LinkFacts, NullNotPcb
<1>5. PICK rank \in [Pcb -> Nat] :
        /\ \A p \in Pcb : p_parent[p] /= NULL => rank[p_parent[p]] < rank[p]
        /\ \A i \in 1..n : rank[stack[1]] <= rank[stack[i]]
  BY DEF IInv, Acyclic
<1>6. rank[Top] < rank[c] /\ rank[stack[1]] <= rank[Top] /\ rank[stack[1]] < rank[c]
  <2>1. rank[Top] < rank[c] /\ rank[stack[1]] <= rank[Top]
    BY <1>3, <1>4, <1>5, NullNotPcb
  <2>2. rank[Top] \in Nat /\ rank[c] \in Nat /\ rank[stack[1]] \in Nat
    BY <1>3, <1>4, <1>5
  <2> QED
    BY <2>1, <2>2
<1>7. \A i \in 1..n : stack[i] /= c
  <2> SUFFICES ASSUME NEW i \in 1..n, stack[i] = c PROVE FALSE
    OBVIOUS
  <2>1. CASE i = 1
    <3>1. rank[c] \in Nat
      BY <1>4, <1>5
    <3> QED
      BY <1>6, <2>1, <3>1
  <2>2. CASE i /= 1
    <3>1. i - 1 \in 1..n - 1 /\ (i - 1) + 1 = i
      BY <1>3, <2>2
    <3>2. p_parent[stack[(i - 1) + 1]] = stack[i - 1]
      BY <1>3, <3>1
    <3>3. stack[i - 1] = stack[n] /\ i - 1 \in 1..n /\ n \in 1..n
      BY <1>3, <1>4, <3>1, <3>2
    <3>4. i - 1 = n
      BY <1>3, <3>3 DEF NoDup
    <3> QED
      BY <1>3, <3>1, <3>4
  <2> QED
    BY <2>1, <2>2
<1> HIDE DEF c
<1>8. /\ stack' \in Seq(Pcb) /\ Len(stack') = n + 1 /\ stack' /= <<>>
      /\ \A i \in 1..n : stack'[i] = stack[i]
      /\ stack'[n + 1] = c
  BY <1>1, <1>3, <1>4
<1> HIDE DEF n
<1>9. NoDup(stack')
  <2> SUFFICES ASSUME NEW i \in 1..n + 1, NEW j \in 1..n + 1, stack'[i] = stack'[j]
               PROVE  i = j
    BY <1>8 DEF NoDup
  <2>1. CASE i \in 1..n /\ j \in 1..n
    BY <1>3, <1>8, <2>1 DEF NoDup, n
  <2>2. CASE i = n + 1 /\ j \in 1..n
    <3>1. stack'[i] = c /\ stack'[j] = stack[j] /\ stack[j] /= c
      BY <1>7, <1>8, <2>2
    <3> QED
      BY <3>1
  <2>3. CASE i \in 1..n /\ j = n + 1
    <3>1. stack'[j] = c /\ stack'[i] = stack[i] /\ stack[i] /= c
      BY <1>7, <1>8, <2>3
    <3> QED
      BY <3>1
  <2> QED
    BY <1>3, <2>1, <2>2, <2>3
<1>10. \A i \in 1..n + 1 : stack'[i] \notin Elems(pcbFree_h) /\ rank[stack'[1]] <= rank[stack'[i]]
  <2> TAKE i \in 1..n + 1
  <2>1. stack'[1] = stack[1]
    BY <1>3, <1>8
  <2>2. CASE i \in 1..n
    BY <1>3, <1>5, <1>8, <2>1, <2>2 DEF n
  <2>3. CASE i = n + 1
    <3>1. rank[stack[1]] \in Nat /\ rank[c] \in Nat
      BY <1>3, <1>4, <1>5
    <3> QED
      BY <1>4, <1>6, <1>8, <2>1, <2>3, <3>1
  <2> QED
    BY <1>3, <2>2, <2>3
<1>11. \A i \in 1..n : p_parent[stack'[i + 1]] = stack'[i]
  <2> TAKE i \in 1..n
  <2>1. CASE i = n
    BY <1>3, <1>4, <1>8, <2>1
  <2>2. CASE i /= n
    <3>1. i \in 1..n - 1 /\ i + 1 \in 1..n
      BY <1>3, <2>2
    <3>2. p_parent[stack[i + 1]] = stack[i]
      BY <1>3, <3>1
    <3> QED
      BY <1>8, <3>1, <3>2
  <2> QED
    BY <2>1, <2>2
<1>12. StackOK'
  <2>1. (n + 1) - 1 = n
    BY <1>3
  <2> QED
    BY <1>1, <1>2, <1>3, <1>8, <1>9, <1>10, <1>11, <2>1, NullNotPcb DEF StackOK
<1>13. Acyclic'
  BY <1>2, <1>5, <1>8, <1>10 DEF Acyclic
<1> QED
  BY <1>1, <1>8, <1>12, <1>13, StackStep

\* outChild and freePcb of a pcb without children: the links of the others stay.
LEMMA OutChildLinks ==
  ASSUME IInv, NEW p \in Pcb \ Elems(pcbFree_h), returnChild(p) = NULL,
         outChild(p), freePcb(p), NoDup(pcbFree_h)
  PROVE  /\ TreeLinks'
         /\ p_parent' \in [Pcb -> Pcb \cup {NULL}] /\ p_child' \in [Pcb -> Seq(Pcb)]
         /\ pcbFree_h' \in Seq(Pcb) /\ Elems(pcbFree_h') = Elems(pcbFree_h) \cup {p}
         /\ NoDup(pcbFree_h')
         /\ p_parent'[p] = NULL /\ \A q \in Pcb \ {p} : p_parent'[q] = p_parent[q]
         /\ \A q \in Pcb : p_parent[q] /= p
<1>1. /\ p_parent \in [Pcb -> Pcb \cup {NULL}] /\ p_child \in [Pcb -> Seq(Pcb)]
      /\ pcbFree_h \in Seq(Pcb)
  BY Typed DEF IInv
<1>2. p_child[p] = <<>>
  BY <1>1, PcbElems DEF returnChild
<1>3. \A q \in Pcb : p_parent[q] /= p
  BY <1>1, <1>2, LinkFacts, EmptyElems
<1>4. /\ p_parent' = [p_parent EXCEPT ![p] = NULL]
      /\ p_child' = [q \in Pcb |-> IF q = p_parent[p] THEN outProcQ(p_child[q], p) ELSE p_child[q]]
      /\ pcbFree_h' = <<p>> \o pcbFree_h
  BY DEF outChild, freePcb
<1>5. /\ p_parent' \in [Pcb -> Pcb \cup {NULL}] /\ p_parent'[p] = NULL
      /\ \A q \in Pcb \ {p} : p_parent'[q] = p_parent[q]
  BY <1>1, <1>4
<1>6. ASSUME NEW q \in Pcb
      PROVE  /\ p_child'[q] \in Seq(Pcb) /\ Elems(p_child'[q]) = Elems(p_child[q]) \ {p}
             /\ NoDup(p_child'[q])
             /\ q /= p_parent[p] => p_child'[q] = p_child[q]
  <2>1. CASE q = p_parent[p]
    <3>1. p \in Elems(p_child[q]) /\ p_child[q] \in Seq(Pcb) /\ NoDup(p_child[q])
      BY <2>1, LinkFacts
    <3>2. p_child'[q] = outProcQ(p_child[q], p)
      BY <1>4, <2>1
    <3> QED
      BY <2>1, <3>1, <3>2, DelProp
  <2>2. CASE q /= p_parent[p]
    <3>1. p \notin Elems(p_child[q]) /\ p_child'[q] = p_child[q]
      BY <1>4, <2>2, LinkFacts
    <3> QED
      BY <3>1, LinkFacts
  <2> QED
    BY <2>1, <2>2
<1>7. p_child' \in [Pcb -> Seq(Pcb)]
  <2>1. p_child' = [q \in Pcb |-> p_child'[q]]
    BY <1>4
  <2> QED
    BY <1>6, <2>1
<1>8. /\ pcbFree_h' \in Seq(Pcb) /\ Elems(pcbFree_h') = Elems(pcbFree_h) \cup {p}
      /\ NoDup(pcbFree_h')
  BY <1>1, <1>4, AddHeadProp
<1>9. TreeLinks'
  <2>1. ASSUME NEW q \in Pcb, NEW c \in Pcb
        PROVE  c \in Elems(p_child'[q]) <=> p_parent'[c] = q
    <3>1. c \in Elems(p_child[q]) <=> p_parent[c] = q
      BY LinkFacts
    <3>2. CASE c = p
      BY <1>5, <1>6, <3>2, NullNotPcb
    <3>3. CASE c /= p
      BY <1>5, <1>6, <3>1, <3>3
    <3> QED
      BY <3>2, <3>3
  <2>2. \A q \in Pcb : NoDup(p_child'[q])
    BY <1>6
  <2>3. ASSUME NEW q \in Elems(pcbFree_h')
        PROVE  p_parent'[q] = NULL /\ p_child'[q] = <<>>
    <3>1. q /= p_parent[p] /\ q \in Pcb /\ (q = p \/ q \in Elems(pcbFree_h))
      BY <1>3, <1>8, LinkFacts
    <3>2. p_child'[q] = p_child[q]
      BY <1>6, <3>1
    <3>3. CASE q = p
      BY <1>2, <1>5, <3>2, <3>3
    <3>4. CASE q /= p
      BY <1>5, <3>1, <3>2, <3>4, LinkFacts
    <3> QED
      BY <3>3, <3>4
  <2> QED
    BY <2>1, <2>2, <2>3 DEF TreeLinks
<1> QED
  BY <1>3, <1>5, <1>7, <1>8, <1>9

\* The fathers of the pcbs that stay are numbered as before.
LEMMA OutChildAcyclic ==
  ASSUME IInv, NEW p \in Pcb,
         p_parent'[p] = NULL, \A q \in Pcb \ {p} : p_parent'[q] = p_parent[q],
         Len(stack') <= Len(stack), Len(stack') \in Nat, Len(stack) \in Nat,
         \A i \in 1..Len(stack') : stack'[i] = stack[i]
  PROVE  Acyclic'
<1>1. PICK rank \in [Pcb -> Nat] :
        /\ \A q \in Pcb : p_parent[q] /= NULL => rank[p_parent[q]] < rank[q]
        /\ \A i \in 1..Len(stack) : rank[stack[1]] <= rank[stack[i]]
  BY DEF IInv, Acyclic
<1>2. \A q \in Pcb : p_parent'[q] /= NULL => rank[p_parent'[q]] < rank[q]
  BY <1>1
<1>3. ASSUME NEW i \in 1..Len(stack') PROVE rank[stack'[1]] <= rank[stack'[i]]
  <2>1. 1 \in 1..Len(stack') /\ i \in 1..Len(stack)
    OBVIOUS
  <2> QED
    BY <1>1, <2>1
<1> QED
  BY <1>1, <1>2, <1>3 DEF Acyclic

\* The death of the running process, the last of its subtree: the next process runs.
LEMMA TerminateSelfStep ==
  ASSUME IInv, ~ Corrupt, TerminateSelf
  PROVE  Step
<1>1. /\ phase = "terminate" /\ phase' = "user" /\ stack' = <<>>
      /\ returnChild(Top) = NULL /\ Top = current /\ outChild(Top) /\ freePcb(Top)
      /\ scheduler(NULL, ready)
      /\ original_priority' = original_priority /\ procQ' = procQ /\ p_semkey' = p_semkey
      /\ UNCHANGED bqVars /\ poll' = poll /\ sem' = sem /\ dev_status' = dev_status
  BY DEF TerminateSelf, bqVars
<1>2. current \in Pcb \ Elems(pcbFree_h) /\ stack \in Seq(Pcb) /\ Len(stack) \in Nat \ {0}
  BY <1>1, StackFacts
<1>3. OnePlace /\ CountsBlocked
  BY DEF IInv, Sound
<1>4. /\ TreeLinks'
      /\ p_parent' \in [Pcb -> Pcb \cup {NULL}] /\ p_child' \in [Pcb -> Seq(Pcb)]
      /\ pcbFree_h' \in Seq(Pcb) /\ Elems(pcbFree_h') = Elems(pcbFree_h) \cup {current}
      /\ NoDup(pcbFree_h')
      /\ p_parent'[current] = NULL
      /\ \A q \in Pcb \ {current} : p_parent'[q] = p_parent[q]
  <2>1. NoDup(pcbFree_h)
    BY <1>3 DEF OnePlace
  <2> QED
    BY <1>1, <1>2, <2>1, OutChildLinks
<1>5. PICK e \in Seq(Pcb) : e = <<>> /\ Len(e) = 0
  BY EmptySeq
<1>6. Acyclic'
  <2>1. Len(stack') = 0
    BY <1>1, <1>5
  <2>2. Len(stack') <= Len(stack) /\ Len(stack') \in Nat /\ Len(stack) \in Nat
    BY <1>2, <2>1
  <2>3. \A i \in 1..Len(stack') : stack'[i] = stack[i]
    BY <2>1
  <2> QED
    BY <1>2, <1>4, <2>2, <2>3, OutChildAcyclic
<1>7. StackOK'
  BY <1>1, NoStack
<1>8. SchedNext /\ SchedInv'
  <2>1. Stop
    BY <1>1, <1>2, NullNotPcb DEF Stop
  <2>2. SchedNext
    BY <2>1 DEF SchedNext
  <2> QED
    BY <2>2, SchedStepInv DEF IInv
<1>9. /\ SchedTypeOK /\ QueueOK(ready, priority) /\ NULL \notin Elems(ready)
      /\ ready \in Seq(Pcb)
  BY SchedInvQueue, PcbElems, Typed DEF IInv
<1>10. /\ current' \in Pcb \cup {NULL} /\ ready' \in Seq(Pcb) /\ NoDup(ready')
       /\ current' \notin Elems(ready')
       /\ (Elems(ready') \cup {current'}) \ {NULL} = Elems(ready)
       /\ \A p \in Pcb \ Elems(ready) : priority'[p] = priority[p]
  <2>1. /\ current' \in Pcb \cup {NULL} /\ ready' \in Seq(Pcb) /\ NoDup(ready')
        /\ current' \notin Elems(ready')
        /\ (Elems(ready') \cup {current'}) \ {NULL} = (Elems(ready) \cup {NULL}) \ {NULL}
        /\ \A p \in Pcb \ (Elems(ready) \cup {NULL}) : priority'[p] = priority[p]
    BY <1>1, <1>9, SchedulerMoves
  <2> QED
    BY <1>9, <2>1, NullNotPcb
<1>11. Blocked \subseteq Pcb /\ Elems(ready) \cap Blocked = {} /\ NULL \notin Blocked
  <2>1. Blocked \subseteq Pcb
    BY QueueFacts DEF Blocked
  <2> QED
    BY <1>3, <2>1, NullNotPcb DEF OnePlace
<1>12. BlockedQueuesOK' /\ Blocked' = Blocked
  <2>1. \A p \in Blocked : /\ p_semkey'[p] = p_semkey[p] /\ priority'[p] = priority[p]
                           /\ original_priority'[p] = original_priority[p]
    BY <1>1, <1>10, <1>11
  <2> QED
    BY <1>1, <2>1, NoQueueChanges
<1>13. OnePlace'
  <2>1. NULL \notin Elems(ready') /\ NULL \notin Elems(pcbFree_h')
    BY <1>4, <1>10, PcbElems
  <2>2. Elems(ready') \subseteq Elems(ready) /\ (current' = NULL \/ current' \in Elems(ready))
    BY <1>10, <2>1
  <2>3. /\ current \notin Elems(ready) \cup Elems(pcbFree_h) \cup Blocked
        /\ Elems(pcbFree_h) \cap (Elems(ready) \cup Blocked) = {}
        /\ Pcb = (Elems(ready) \cup Elems(pcbFree_h) \cup Blocked \cup {current}) \ {NULL}
    BY <1>3 DEF OnePlace
  <2>4. current' \notin Elems(ready') \cup Elems(pcbFree_h') \cup Blocked'
    BY <1>4, <1>10, <1>11, <1>12, <2>1, <2>2, <2>3
  <2>5. Pcb = (Elems(ready') \cup Elems(pcbFree_h') \cup Blocked' \cup {current'}) \ {NULL}
    BY <1>2, <1>4, <1>10, <1>12, <2>3, NullNotPcb
  <2>6. /\ Elems(pcbFree_h') \cap (Elems(ready') \cup Blocked') = {}
        /\ Elems(ready') \cap Blocked' = {}
    BY <1>4, <1>11, <1>12, <2>2, <2>3
  <2> QED
    BY <1>1, <1>3, <1>4, <1>10, <2>4, <2>5, <2>6 DEF OnePlace
<1>14. CountsBlocked'
  BY <1>1, <1>3 DEF CountsBlocked
<1>15. TerminalWaits'
  BY <1>1, <1>14, Typed, TerminalFacts, TerminalKeeps DEF IInv
<1>16. NucleusTypeOK'
  <2>1. stack' \in Seq(Pcb)
    BY <1>1, <1>5
  <2> QED
    BY <1>1, <1>4, <1>8, <2>1, Typed DEF IInv, SchedInv, NucleusTypeOK
<1> QED
  BY <1>1, <1>4, <1>6, <1>7, <1>8, <1>12, <1>13, <1>14, <1>15, <1>16
  DEF Step, IInv, NucleusInv, Sound

\* Where the activations stand when the innermost one returns.
LEMMA PopStack ==
  ASSUME IInv, phase = "terminate",
         stack' = SubSeq(stack, 1, Len(stack) - 1),
         phase' = IF Len(stack) = 1 THEN "user" ELSE "terminate", current' = current,
         Elems(pcbFree_h') = Elems(pcbFree_h) \cup {Top},
         \A q \in Pcb \ {Top} : p_parent'[q] = p_parent[q]
  PROVE  /\ StackOK' /\ stack' \in Seq(Pcb) /\ Len(stack') = Len(stack) - 1
         /\ \A i \in 1..Len(stack') : stack'[i] = stack[i]
<1> DEFINE n == Len(stack)
<1>1. /\ stack \in Seq(Pcb) /\ n \in Nat \ {0} /\ NoDup(stack) /\ current \in Pcb
      /\ Top = stack[n]
      /\ \A i \in 1..n : stack[i] \in Pcb /\ stack[i] \notin Elems(pcbFree_h)
      /\ \A i \in 1..n - 1 : p_parent[stack[i + 1]] = stack[i]
  BY StackFacts
<1>2. /\ stack' \in Seq(Pcb) /\ Len(stack') = n - 1
      /\ \A i \in 1..n - 1 : stack'[i] = stack[i]
  <2> HIDE DEF n
  <2>1. 1 \in 1..n + 1 /\ n - 1 \in 0..n /\ 1 <= n - 1 + 1
    BY <1>1
  <2>2. stack' = SubSeq(stack, 1, n - 1) /\ n = Len(stack)
    BY DEF n
  <2> QED
    BY <1>1, <2>1, <2>2, SubSeqProperties
<1>3. (n = 1 => stack' = <<>>) /\ (n /= 1 => stack' /= <<>>)
  <2>1. stack' = <<>> <=> Len(stack') = 0
    BY <1>2, EmptyElems
  <2>2. n - 1 = 0 <=> n = 1
    BY <1>1
  <2> HIDE DEF n
  <2> QED
    BY <1>2, <2>1, <2>2
<1>4. phase' \in {"user", "terminate"} /\ (phase' = "terminate" <=> n /= 1)
  OBVIOUS
<1>5. \A i \in 1..n - 1 : stack[i] /= Top
  <2> TAKE i \in 1..n - 1
  <2>1. i \in 1..n /\ n \in 1..n /\ i /= n
    BY <1>1
  <2> QED
    BY <1>1, <2>1 DEF NoDup
<1>6. \A i \in 1..n - 1 : stack'[i] \notin Elems(pcbFree_h')
  <2> TAKE i \in 1..n - 1
  <2>1. i \in 1..n /\ stack'[i] = stack[i]
    BY <1>1, <1>2
  <2> QED
    BY <1>1, <1>5, <2>1
<1>7. NoDup(stack')
  <2> SUFFICES ASSUME NEW i \in 1..n - 1, NEW j \in 1..n - 1, stack'[i] = stack'[j]
               PROVE  i = j
    BY <1>2 DEF NoDup
  <2>1. i \in 1..n /\ j \in 1..n /\ stack[i] = stack[j]
    BY <1>1, <1>2
  <2> QED
    BY <1>1, <2>1 DEF NoDup
<1>8. \A i \in 1..(n - 1) - 1 : p_parent'[stack'[i + 1]] = stack'[i]
  <2> TAKE i \in 1..(n - 1) - 1
  <2>1. i \in 1..n - 1 /\ i + 1 \in 1..n - 1 /\ i + 1 \in 1..n
    BY <1>1
  <2>2. p_parent[stack[i + 1]] = stack[i] /\ stack[i + 1] \in Pcb \ {Top}
    BY <1>1, <1>5, <2>1
  <2> QED
    BY <1>2, <2>1, <2>2
<1>9. StackOK'
  BY <1>1, <1>2, <1>3, <1>4, <1>6, <1>7, <1>8, NullNotPcb DEF StackOK
<1> QED
  BY <1>2, <1>9

\* terminate_process of a process blocked where its p_semkey says: it is counted off.
LEMMA UnlinkBlocked ==
  ASSUME IInv, ~ Corrupt, NEW p \in Pcb, p \notin Elems(pcbFree_h), p /= current,
         p_semkey[p] \in Key, p \in Elems(procQ[p_semkey[p]]),
         unlink(p), UNCHANGED <<current, priority, original_priority>>,
         Elems(pcbFree_h') = Elems(pcbFree_h) \cup {p}, NoDup(pcbFree_h')
  PROVE  /\ Moved
         /\ \A j \in Key : sem'[j] = IF j = p_semkey[p] THEN sem[j] + 1 ELSE sem[j]
         /\ p_semkey[p] \notin Raw => sem[p_semkey[p]] < 0
<1> DEFINE k == p_semkey[p]
           r == outProcQ(procQ[k], p)
<1>1. /\ procQ \in [Key -> Seq(Pcb)] /\ sem \in [Key -> Int] /\ ready \in Seq(Pcb)
      /\ priority \in [Pcb -> Int] /\ p_semkey \in [Pcb -> Key \cup {NoKey}]
      /\ current \in Pcb \cup {NULL} /\ k \in Key /\ k /= NoKey
  BY Typed, NoKeyAssumption DEF IInv
<1>2. /\ procQ[k] \in Seq(Pcb) /\ NoDup(procQ[k]) /\ Sorted(procQ[k], priority)
      /\ \A x \in Elems(procQ[k]) : p_semkey[x] = k /\ priority[x] = original_priority[x]
      /\ Elems(procQ[k]) \subseteq Blocked
      /\ Len(procQ[k]) \in Nat
      /\ k \notin Raw => Len(procQ[k]) = IF sem[k] < 0 THEN -sem[k] ELSE 0
  BY <1>1, QueueFacts
<1>3. OnePlace /\ CountsBlocked
  BY DEF IInv, Sound
<1>4. /\ outBlocked(p) /\ p_semkey' = p_semkey /\ ready' = ready
      /\ procQ' = [j \in Key |-> IF j = k THEN r ELSE procQ[j]]
      /\ sem' = [sem EXCEPT ![k] = sem[k] + 1]
      /\ current' = current /\ priority' = priority /\ original_priority' = original_priority
  BY <1>1 DEF unlink, outBlocked
<1>5. /\ r \in Seq(Pcb) /\ Len(r) = Len(procQ[k]) - 1
      /\ Elems(r) = Elems(procQ[k]) \ {p} /\ NoDup(r) /\ Sorted(r, priority)
  <2> DEFINE q == procQ[k]
  <2>1. q \in Seq(Pcb) /\ NoDup(q) /\ Sorted(q, priority) /\ p \in Elems(q)
    BY <1>2
  <2>2. priority \in [Pcb -> Int]
    BY <1>1
  <2> HIDE DEF q
  <2>3. LET o == outProcQ(q, p)
        IN  /\ o \in Seq(Pcb) /\ Len(o) = Len(q) - 1
            /\ Elems(o) = Elems(q) \ {p} /\ NoDup(o) /\ Sorted(o, priority)
    BY <2>1, <2>2, OutProp
  <2> QED
    BY <2>3 DEF q
<1> HIDE DEF r
<1>6. procQ' = [procQ EXCEPT ![k] = r]
  BY <1>1, <1>4, <1>5
<1>7. /\ sem' \in [Key -> Int] /\ sem'[k] = sem[k] + 1
      /\ \A j \in Key \ {k} : sem'[j] = sem[j]
  BY <1>1, <1>4
<1> HIDE DEF k
<1>8. k \notin Raw => sem[k] < 0 /\ Len(procQ[k]) = -sem[k]
  <2>1. Len(procQ[k]) /= 0
    BY <1>2, EmptyElems DEF k
  <2> QED
    BY <1>2, <2>1
<1>9. /\ procQ' \in [Key -> Seq(Pcb)] /\ BlockedQueuesOK'
      /\ Blocked' = (Blocked \ Elems(procQ[k])) \cup Elems(r)
      /\ \A j \in Key : NoDup(procQ'[j])
      /\ \A i, j \in Key : i /= j => Elems(procQ'[i]) \cap Elems(procQ'[j]) = {}
      /\ \A j \in Key \ {k} : procQ'[j] = procQ[j]
      /\ procQ'[k] = r
  <2>1. /\ Sorted(r, priority') /\ p_semkey' \in [Pcb -> Key \cup {NoKey}]
        /\ \A x \in Elems(r) : x \in Elems(procQ[k]) \/ x \notin Blocked
        /\ \A x \in Elems(r) : p_semkey'[x] = k /\ priority'[x] = original_priority'[x]
    BY <1>1, <1>2, <1>4, <1>5
  <2>2. \A x \in Blocked \ Elems(procQ[k]) :
          /\ p_semkey'[x] = p_semkey[x] /\ priority'[x] = priority[x]
          /\ original_priority'[x] = original_priority[x]
    BY <1>4
  <2> QED
    BY <1>1, <1>5, <1>6, <2>1, <2>2, OneQueueChanges
<1>10. Blocked' = Blocked \ {p} /\ p \in Blocked
  <2>1. Elems(procQ[k]) \subseteq Blocked /\ p \in Elems(procQ[k])
    BY <1>2 DEF k
  <2> QED
    BY <1>5, <1>9, <2>1
<1>11. UNCHANGED schedVars /\ BQNext(priority)
  BY <1>4 DEF schedVars, BQNext
<1>12. SchedInv'
  BY <1>11, SchedStepInv DEF IInv
<1>13. OnePlace'
  <2>1. /\ current \notin Elems(ready) \cup Elems(pcbFree_h') \cup Blocked'
        /\ Elems(pcbFree_h') \cap (Elems(ready) \cup Blocked') = {}
        /\ Elems(ready) \cap Blocked' = {}
        /\ Pcb = (Elems(ready) \cup Elems(pcbFree_h') \cup Blocked' \cup {current}) \ {NULL}
    BY <1>3, <1>10, NullNotPcb DEF OnePlace
  <2> QED
    BY <1>3, <1>4, <1>9, <2>1 DEF OnePlace
<1>14. CountsBlocked'
  <2>1. sem[k] \in Int
    BY <1>1
  <2>2. k \notin Raw => Len(r) = -sem[k] - 1
    BY <1>5, <1>8
  <2>3. k \notin Raw => Len(procQ'[k]) = IF sem'[k] < 0 THEN -sem'[k] ELSE 0
    BY <1>7, <1>8, <1>9, <2>1, <2>2
  <2>4. ASSUME NEW j \in Key \ Raw, j /= k
        PROVE  Len(procQ'[j]) = IF sem'[j] < 0 THEN -sem'[j] ELSE 0
    <3>1. procQ'[j] = procQ[j] /\ sem'[j] = sem[j]
      BY <1>7, <1>9, <2>4
    <3> QED
      BY <1>3, <3>1 DEF CountsBlocked
  <2>5. \A j \in Key \ Raw : Len(procQ'[j]) = IF sem'[j] < 0 THEN -sem'[j] ELSE 0
    BY <2>3, <2>4
  <2> QED
    BY <2>5 DEF CountsBlocked
<1> QED
  BY <1>1, <1>4, <1>7, <1>8, <1>9, <1>11, <1>12, <1>13, <1>14 DEF Moved, k

\* terminate_process of a ready process that has never been blocked.
LEMMA UnlinkReady ==
  ASSUME IInv, ~ Corrupt, NEW p \in Pcb, p \notin Elems(pcbFree_h), p /= current,
         p_semkey[p] = NoKey,
         unlink(p), UNCHANGED <<current, priority, original_priority>>,
         Elems(pcbFree_h') = Elems(pcbFree_h) \cup {p}, NoDup(pcbFree_h')
  PROVE  Moved /\ sem' = sem
<1>1. /\ ready \in Seq(Pcb) /\ priority \in [Pcb -> Int]
      /\ procQ \in [Key -> Seq(Pcb)] /\ sem \in [Key -> Int]
      /\ p_semkey \in [Pcb -> Key \cup {NoKey}]
  BY Typed DEF IInv
<1>2. OnePlace /\ CountsBlocked /\ NoDup(ready) /\ Sorted(ready, priority)
  BY DEF IInv, Sound, OnePlace, SchedInv, ReadySorted
<1>3. /\ ready' = outProcQ(ready, p) /\ UNCHANGED bqVars
      /\ procQ' = procQ /\ p_semkey' = p_semkey /\ sem' = sem
      /\ current' = current /\ priority' = priority /\ original_priority' = original_priority
  BY DEF unlink, bqVars
<1>4. p \notin Blocked
  <2> SUFFICES ASSUME NEW j \in Key, p \in Elems(procQ[j]) PROVE FALSE
    BY DEF Blocked
  <2> QED
    BY QueueFacts, NoKeyAssumption
<1>5. p \in Elems(ready)
  BY <1>2, <1>4, NullNotPcb DEF OnePlace
<1>6. /\ ready' \in Seq(Pcb) /\ Elems(ready') = Elems(ready) \ {p} /\ NoDup(ready')
  BY <1>1, <1>2, <1>3, <1>5, OutProp
<1>7. SchedNext /\ SchedInv'
  <2>1. Kill(p)
    BY <1>3, <1>5 DEF Kill
  <2>2. SchedNext
    BY <2>1 DEF SchedNext
  <2> QED
    BY <2>2, SchedStepInv DEF IInv
<1>8. BlockedQueuesOK' /\ Blocked' = Blocked
  BY <1>3, NoQueueChanges
<1>9. OnePlace'
  <2>1. /\ current \notin Elems(ready') \cup Elems(pcbFree_h') \cup Blocked
        /\ Elems(pcbFree_h') \cap (Elems(ready') \cup Blocked) = {}
        /\ Elems(ready') \cap Blocked = {}
        /\ Pcb = (Elems(ready') \cup Elems(pcbFree_h') \cup Blocked \cup {current}) \ {NULL}
    BY <1>2, <1>4, <1>5, <1>6, NullNotPcb DEF OnePlace
  <2> QED
    BY <1>2, <1>3, <1>6, <1>8, <2>1 DEF OnePlace
<1>10. CountsBlocked'
  BY <1>2, <1>3 DEF CountsBlocked
<1> QED
  BY <1>1, <1>3, <1>7, <1>8, <1>9, <1>10 DEF Moved

\* terminate_process of a ready process that was blocked once: the step that corrupts.
LEMMA UnlinkStale ==
  ASSUME IInv, ~ Corrupt, NEW p \in Pcb, p \notin Elems(pcbFree_h), p /= current,
         p_semkey[p] \in Key, p \notin Elems(procQ[p_semkey[p]]),
         unlink(p), UNCHANGED <<current, priority, original_priority>>,
         p \in Elems(pcbFree_h')
  PROVE  /\ Corrupt'
         /\ UNCHANGED schedVars /\ BQNext(priority)
         /\ SchedInv' /\ BlockedQueuesOK'
         /\ procQ' \in [Key -> Seq(Pcb)] /\ p_semkey' \in [Pcb -> Key \cup {NoKey}]
         /\ sem' \in [Key -> Int]
<1>1. /\ procQ \in [Key -> Seq(Pcb)] /\ sem \in [Key -> Int]
      /\ p_semkey \in [Pcb -> Key \cup {NoKey}] /\ p_semkey[p] /= NoKey
  BY Typed, NoKeyAssumption DEF IInv
<1>2. /\ outBlocked(p) /\ p_semkey' = p_semkey /\ ready' = ready
      /\ procQ' = [j \in Key |-> IF j = p_semkey[p] THEN outProcQ(procQ[j], p) ELSE procQ[j]]
      /\ sem' = [sem EXCEPT ![p_semkey[p]] = @ + 1]
      /\ current' = current /\ priority' = priority /\ original_priority' = original_priority
  BY <1>1 DEF unlink, outBlocked
<1>3. procQ' = procQ
  BY <1>1, <1>2 DEF outProcQ
<1>4. p \notin Blocked
  <2> SUFFICES ASSUME NEW j \in Key, p \in Elems(procQ[j]) PROVE FALSE
    BY DEF Blocked
  <2> QED
    BY QueueFacts
<1>5. p \in Elems(ready)
  BY <1>4, NullNotPcb DEF IInv, Sound, OnePlace
<1>6. Corrupt'
  BY <1>2, <1>5 DEF Corrupt
<1>7. UNCHANGED schedVars /\ BQNext(priority) /\ SchedInv'
  <2>1. UNCHANGED schedVars
    BY <1>2 DEF schedVars
  <2>2. BQNext(priority)
    BY <1>2 DEF BQNext
  <2> QED
    BY <2>1, <2>2, SchedStepInv DEF IInv
<1>8. BlockedQueuesOK'
  BY <1>2, <1>3, NoQueueChanges
<1> QED
  BY <1>1, <1>2, <1>3, <1>6, <1>7, <1>8

\* The end of an activation for a process that is not running.
LEMMA TerminateOtherStep ==
  ASSUME IInv, ~ Corrupt, TerminateOther
  PROVE  Step
<1> DEFINE p == Top
<1>1. /\ phase = "terminate" /\ returnChild(p) = NULL /\ p /= current
      /\ outChild(p) /\ unlink(p) /\ freePcb(p)
      /\ stack' = SubSeq(stack, 1, Len(stack) - 1)
      /\ phase' = IF Len(stack) = 1 THEN "user" ELSE "terminate"
      /\ UNCHANGED <<current, priority, original_priority>>
      /\ current' = current /\ poll' = poll /\ dev_status' = dev_status
  BY DEF TerminateOther
<1>2. p \in Pcb \ Elems(pcbFree_h) /\ stack \in Seq(Pcb) /\ Len(stack) \in Nat \ {0}
  BY <1>1, StackFacts
<1>3. /\ TreeLinks'
      /\ p_parent' \in [Pcb -> Pcb \cup {NULL}] /\ p_child' \in [Pcb -> Seq(Pcb)]
      /\ pcbFree_h' \in Seq(Pcb) /\ Elems(pcbFree_h') = Elems(pcbFree_h) \cup {p}
      /\ NoDup(pcbFree_h')
      /\ p_parent'[p] = NULL
      /\ \A q \in Pcb \ {p} : p_parent'[q] = p_parent[q]
  <2>1. NoDup(pcbFree_h)
    BY DEF IInv, Sound, OnePlace
  <2> QED
    BY <1>1, <1>2, <2>1, OutChildLinks
<1>4. /\ StackOK' /\ stack' \in Seq(Pcb) /\ Len(stack') = Len(stack) - 1
      /\ \A i \in 1..Len(stack') : stack'[i] = stack[i]
  BY <1>1, <1>3, PopStack
<1> HIDE DEF p
<1>5. Acyclic'
  <2>1. Len(stack') <= Len(stack) /\ Len(stack') \in Nat /\ Len(stack) \in Nat
    BY <1>2, <1>4
  <2> QED
    BY <1>2, <1>3, <1>4, <2>1, OutChildAcyclic
<1>6. phase' \in {"main", "user", "poll", "terminate"}
  BY <1>1
<1>7. ASSUME SchedInv', BlockedQueuesOK', [SchedNext]_schedVars, [BQNext(priority)]_bqVars,
             procQ' \in [Key -> Seq(Pcb)], p_semkey' \in [Pcb -> Key \cup {NoKey}],
             sem' \in [Key -> Int], Corrupt' \/ Sound'
      PROVE  Step
  <2>1. NucleusTypeOK'
    BY <1>1, <1>3, <1>4, <1>6, <1>7, Typed DEF IInv, SchedInv, NucleusTypeOK
  <2> QED
    BY <1>3, <1>4, <1>5, <1>7, <2>1 DEF Step, IInv, NucleusInv
<1>8. CASE p_semkey[p] = NoKey
  <2>1. Moved /\ sem' = sem
    BY <1>1, <1>2, <1>3, <1>8, UnlinkReady
  <2>2. TerminalWaits'
    BY <1>1, <2>1, TerminalFacts, TerminalKeeps DEF Moved
  <2> QED
    BY <1>7, <2>1, <2>2 DEF Moved, Sound
<1>9. CASE p_semkey[p] \in Key /\ p \in Elems(procQ[p_semkey[p]])
  <2>1. /\ Moved
        /\ \A j \in Key : sem'[j] = IF j = p_semkey[p] THEN sem[j] + 1 ELSE sem[j]
        /\ p_semkey[p] \notin Raw => sem[p_semkey[p]] < 0
    BY <1>1, <1>2, <1>3, <1>9, UnlinkBlocked
  <2>2. \A d \in Terminal : /\ sem'[d] \in {0, -1}
                            /\ sem'[d] = -1 => dev_status'[d] /= "ready"
    <3> TAKE d \in Terminal
    <3>1. /\ d \in Key /\ d \notin Raw /\ sem[d] \in {0, -1}
          /\ sem[d] = -1 => dev_status[d] /= "ready"
      BY TerminalFacts
    <3>2. CASE d = p_semkey[p]
      <4>1. sem[d] = -1 /\ sem'[d] = sem[d] + 1
        BY <2>1, <3>1, <3>2
      <4>2. sem'[d] = 0
        BY <4>1
      <4> QED
        BY <4>2
    <3>3. CASE d /= p_semkey[p]
      BY <1>1, <2>1, <3>1, <3>3
    <3> QED
      BY <3>2, <3>3
  <2>3. TerminalWaits'
    BY <2>1, <2>2, TerminalKeeps DEF Moved
  <2> QED
    BY <1>7, <2>1, <2>3 DEF Moved, Sound
<1>10. CASE p_semkey[p] \in Key /\ p \notin Elems(procQ[p_semkey[p]])
  <2>1. /\ Corrupt'
        /\ UNCHANGED schedVars /\ BQNext(priority)
        /\ SchedInv' /\ BlockedQueuesOK'
        /\ procQ' \in [Key -> Seq(Pcb)] /\ p_semkey' \in [Pcb -> Key \cup {NoKey}]
        /\ sem' \in [Key -> Int]
    BY <1>1, <1>2, <1>3, <1>10, UnlinkStale
  <2> QED
    BY <1>7, <2>1
<1> QED
  BY <1>2, <1>8, <1>9, <1>10, Typed DEF IInv

-----------------------------------------------------------------------------
(***************************************************************************)
(* The theorems.                                                           *)
(***************************************************************************)
\* main leaves one process in the ready queue and every other pcb free.
LEMMA InitInv == Init => IInv /\ ~ Corrupt /\ SchedInit /\ initASL
<1> SUFFICES ASSUME Init
             PROVE  IInv /\ ~ Corrupt /\ SchedInit /\ initASL
  OBVIOUS
<1>1. /\ initProcess(root) /\ initASL
      /\ pcbFree_h = [i \in 1..MAXPROC - 1 |-> MAXPROC - i]
      /\ p_parent = [p \in Pcb |-> NULL] /\ p_child = [p \in Pcb |-> <<>>]
      /\ sem \in [Key -> InitVals \cup {0}] /\ \A d \in Dev : sem[d] = 0
      /\ dev_status = [d \in Dev |-> "ready"]
      /\ phase = "main" /\ poll = {} /\ stack = <<>>
  BY DEF Init
<1>2. root \in Pcb /\ MAXPROC \in Nat \ {0}
  BY MAXPROCAssumption DEF root, Pcb
<1>3. SchedInit /\ SchedInv
  <2>1. SchedInit
    BY <1>1, <1>2 DEF SchedInit
  <2> QED
    BY <2>1, SchedInitInv
<1>4. PICK e \in Seq(Pcb) : e = <<>> /\ Len(e) = 0 /\ Elems(e) = {}
  BY EmptySeq, EmptyElems
<1>5. NoDup(e)
  BY <1>4 DEF NoDup
<1>6. /\ pcbFree_h \in Seq(Pcb) /\ Len(pcbFree_h) = MAXPROC - 1
      /\ \A i \in 1..MAXPROC - 1 : pcbFree_h[i] = MAXPROC - i
  <2>1. pcbFree_h \in [1..MAXPROC - 1 -> Pcb]
    BY <1>1, <1>2 DEF Pcb
  <2>2. MAXPROC - 1 \in Nat
    BY <1>2
  <2> QED
    BY <1>1, <2>1, <2>2, FunIsSeq
<1>7. Elems(pcbFree_h) = Pcb \ {root} /\ NoDup(pcbFree_h)
  <2>1. \A x \in Elems(pcbFree_h) : x \in Pcb \ {root}
    <3> SUFFICES ASSUME NEW i \in 1..MAXPROC - 1
                 PROVE  pcbFree_h[i] \in Pcb \ {root}
      BY <1>6 DEF Elems
    <3>1. pcbFree_h[i] = MAXPROC - i
      BY <1>6
    <3>2. MAXPROC - i \in 1..MAXPROC /\ MAXPROC - i /= MAXPROC
      BY <1>2
    <3> QED
      BY <3>1, <3>2 DEF Pcb, root
  <2>2. \A x \in Pcb \ {root} : x \in Elems(pcbFree_h)
    <3> SUFFICES ASSUME NEW x \in Pcb \ {root} PROVE x \in Elems(pcbFree_h)
      OBVIOUS
    <3>1. MAXPROC - x \in 1..MAXPROC - 1 /\ MAXPROC - (MAXPROC - x) = x
      BY <1>2 DEF Pcb, root
    <3>2. pcbFree_h[MAXPROC - x] = x
      BY <1>6, <3>1
    <3> QED
      BY <1>6, <3>1, <3>2 DEF Elems
  <2>3. NoDup(pcbFree_h)
    <3> SUFFICES ASSUME NEW i \in 1..MAXPROC - 1, NEW j \in 1..MAXPROC - 1,
                        pcbFree_h[i] = pcbFree_h[j]
                 PROVE  i = j
      BY <1>6 DEF NoDup
    <3>1. MAXPROC - i = MAXPROC - j
      BY <1>6
    <3>2. i \in Int /\ j \in Int /\ MAXPROC \in Int
      BY <1>2
    <3> QED
      BY <3>1, <3>2
  <2> QED
    BY <2>1, <2>2, <2>3
<1>8. current = NULL /\ ready = <<root>>
  BY <1>1 DEF initProcess
<1>9. Elems(ready) = {root} /\ NoDup(ready)
  BY <1>2, <1>8 DEF Elems, NoDup
<1>10. /\ procQ = [k \in Key |-> e] /\ p_semkey = [p \in Pcb |-> NoKey]
       /\ procQ \in [Key -> Seq(Pcb)] /\ p_semkey \in [Pcb -> Key \cup {NoKey}]
       /\ \A k \in Key : procQ[k] = e
  BY <1>1, <1>4 DEF initASL
<1>11. Blocked = {}
  BY <1>4, <1>10 DEF Blocked
<1>12. ~ Corrupt
  BY <1>7, <1>9 DEF Corrupt
<1>13. BlockedQueuesOK
  <2>1. Sorted(e, priority)
    BY <1>4 DEF Sorted
  <2> QED
    BY <1>4, <1>10, <2>1 DEF BlockedQueuesOK
<1>14. /\ p_parent \in [Pcb -> Pcb \cup {NULL}] /\ p_child \in [Pcb -> Seq(Pcb)]
       /\ \A p \in Pcb : p_parent[p] = NULL /\ p_child[p] = <<>> /\ p_child[p] = e
  BY <1>1, <1>4
<1>15. NucleusTypeOK
  <2>1. sem \in [Key -> Int]
    <3>1. InitVals \cup {0} \subseteq Int
      BY NucleusAssumption
    <3> QED
      BY <1>1, <3>1
  <2>2. stack \in Seq(Pcb)
    BY <1>1, <1>4
  <2> QED
    BY <1>1, <1>3, <1>6, <1>10, <1>14, <2>1, <2>2 DEF NucleusTypeOK, SchedInv
<1>16. TreeLinks
  <2>1. \A p, c \in Pcb : c \in Elems(p_child[p]) <=> p_parent[c] = p
    BY <1>4, <1>14, NullNotPcb
  <2> QED
    BY <1>5, <1>7, <1>14, <2>1 DEF TreeLinks
<1>17. Len(stack) = 0
  BY <1>1, <1>4
<1>18. StackOK
  BY <1>1, <1>17 DEF StackOK, NoDup
<1>19. Acyclic
  <2> DEFINE rank == [p \in Pcb |-> 0]
  <2>1. rank \in [Pcb -> Nat]
    OBVIOUS
  <2>2. \A p \in Pcb : p_parent[p] /= NULL => rank[p_parent[p]] < rank[p]
    BY <1>14
  <2>3. \A i \in 1..Len(stack) : rank[stack[1]] <= rank[stack[i]]
    BY <1>17
  <2> QED
    BY <2>1, <2>2, <2>3 DEF Acyclic
<1>20. OnePlace
  <2>1. /\ Pcb = (Elems(ready) \cup Elems(pcbFree_h) \cup Blocked \cup {current}) \ {NULL}
        /\ current \notin Elems(ready) \cup Elems(pcbFree_h) \cup Blocked
        /\ Elems(pcbFree_h) \cap (Elems(ready) \cup Blocked) = {}
    BY <1>2, <1>7, <1>8, <1>9, <1>11, NullNotPcb
  <2> QED
    BY <1>4, <1>5, <1>7, <1>9, <1>10, <1>11, <2>1 DEF OnePlace
<1>21. CountsBlocked
  <2>1. InitVals \cup {0} \subseteq Nat
    BY NucleusAssumption
  <2>2. \A k \in Key : sem[k] \in Nat
    BY <1>1, <2>1
  <2> QED
    BY <1>4, <1>10, <2>2 DEF CountsBlocked
<1>22. TerminalWaits
  <2> SUFFICES ASSUME NEW d \in Terminal
               PROVE  Len(procQ[d]) <= 1 /\ procQ[d] = <<>> /\ sem[d] = 0
    BY DEF TerminalWaits
  <2>1. d \in Key /\ d \in Dev
    BY NucleusAssumption DEF Dev
  <2> QED
    BY <1>1, <1>4, <1>10, <2>1
<1> QED
  BY <1>1, <1>3, <1>12, <1>13, <1>15, <1>16, <1>18, <1>19, <1>20, <1>21, <1>22
  DEF IInv, NucleusInv, Sound

\* Every step keeps the invariant, and is a step of the scheduler and one of the queues.
LEMMA NextStep == IInv /\ [Next]_vars => Step
<1> SUFFICES ASSUME IInv, [Next]_vars
             PROVE  Step
  OBVIOUS
<1>1. CASE UNCHANGED vars
  <2>1. /\ UNCHANGED schedVars /\ UNCHANGED bqVars
        /\ current' = current /\ ready' = ready /\ priority' = priority
        /\ original_priority' = original_priority
        /\ procQ' = procQ /\ p_semkey' = p_semkey /\ pcbFree_h' = pcbFree_h
        /\ p_parent' = p_parent /\ p_child' = p_child /\ sem' = sem
        /\ dev_status' = dev_status /\ phase' = phase /\ poll' = poll /\ stack' = stack
    BY <1>1 DEF vars, schedVars, bqVars, treeVars, controlVars
  <2>2. SchedInv'
    BY <2>1, SchedStepInv DEF IInv
  <2>3. NucleusInv'
    BY <2>1, <2>2 DEF IInv, NucleusInv, NucleusTypeOK, BlockedQueuesOK, SchedInv
  <2>4. TreeLinks' /\ StackOK'
    BY <2>1 DEF IInv, TreeLinks, StackOK
  <2>5. Acyclic'
    BY <2>1 DEF IInv, Acyclic
  <2>6. ~ Corrupt' => Sound'
    <3>1. (Corrupt' <=> Corrupt) /\ Blocked' = Blocked
      BY <2>1 DEF Corrupt, Blocked
    <3>2. OnePlace => OnePlace'
      BY <2>1, <3>1 DEF OnePlace
    <3>3. CountsBlocked => CountsBlocked'
      BY <2>1 DEF CountsBlocked
    <3>4. TerminalWaits => TerminalWaits'
      BY <2>1 DEF TerminalWaits
    <3> QED
      BY <3>1, <3>2, <3>3, <3>4 DEF IInv, Sound
  <2> QED
    BY <2>1, <2>2, <2>3, <2>4, <2>5, <2>6 DEF Step, IInv
<1>2. CASE ~ Corrupt /\ KernelStep
  <2>1. CASE Start
    BY <1>2, <2>1, DispatchStep
  <2>2. CASE TerminateChild
    BY <1>2, <2>2, TerminateChildStep
  <2>3. CASE TerminateSelf
    BY <1>2, <2>3, TerminateSelfStep
  <2>4. CASE TerminateOther
    BY <1>2, <2>4, TerminateOtherStep
  <2>5. CASE PollDevice
    BY <1>2, <2>5, PollStep
  <2>6. CASE InterruptReturn
    BY <1>2, <2>6, ReturnStep
  <2> QED
    BY <1>2, <2>1, <2>2, <2>3, <2>4, <2>5, <2>6 DEF KernelStep
<1>3. CASE ~ Corrupt /\ TimerInterrupt
  BY <1>3, DispatchStep
<1>4. CASE ~ Corrupt /\ DeviceInterrupt
  BY <1>4, DeviceInterruptStep
<1>5. CASE ~ Corrupt /\ \E prio \in Priorities : CreateProcess(prio)
  BY <1>5, CreateStep
<1>6. CASE ~ Corrupt /\ \E k \in Sem : Verhogen(k)
  BY <1>6, VerhogenStep
<1>7. CASE ~ Corrupt /\ \E k \in Sem : Passeren(k)
  BY <1>7, PasserenStep
<1>8. CASE ~ Corrupt /\ \E d \in Dev : DoIO(d)
  BY <1>8, DoIOStep
<1>9. CASE ~ Corrupt /\ \E pid \in Pcb : TerminateProcess(pid)
  BY <1>9, TerminateProcessStep
<1>10. CASE ~ Corrupt /\ \E d \in Dev : DeviceCompletes(d)
  BY <1>10, CompletesStep
<1>11. CASE ~ Corrupt /\ \E k \in Raw, v \in InitVals \cup {0} : Assign(k, v)
  BY <1>11, AssignStep
<1> QED
  BY <1>1, <1>2, <1>3, <1>4, <1>5, <1>6, <1>7, <1>8, <1>9, <1>10, <1>11 DEF Next

\* The inductive invariant, for the theorems below.
LEMMA KernelInv == Spec => []IInv
<1>1. Init => IInv
  BY InitInv
<1>2. IInv /\ [Next]_vars => IInv'
  BY NextStep DEF Step
<1> QED
  BY <1>1, <1>2, PTL DEF Spec

(***************************************************************************)
(* The fields hold what the C types and lists can hold, and every queue of *)
(* blocked processes is ordered by priority and found by outBlocked, even  *)
(* where two lists share a pcb.                                            *)
(***************************************************************************)
THEOREM NucleusTyped == Spec => []NucleusInv
<1>1. IInv => NucleusInv
  BY DEF IInv
<1> QED
  BY <1>1, KernelInv, PTL

(***************************************************************************)
(* No pcb is lost or linked twice by any sequence of system calls and      *)
(* interrupts, nor between the steps of terminate_process: each is         *)
(* running, ready, free or blocked at one semaphore (pcb.c, asl.c and      *)
(* scheduler.c as their callers use them), until a process that is ready   *)
(* is freed.                                                               *)
(***************************************************************************)
THEOREM NoPcbLost == Spec => []EveryPcbInOnePlace
<1>1. IInv => EveryPcbInOnePlace
  BY DEF IInv, Sound, EveryPcbInOnePlace
<1> QED
  BY <1>1, KernelInv, PTL

(***************************************************************************)
(* A semaphore below zero has as many processes blocked as it is below,    *)
(* any other has none: verhogen, passeren, do_io, int_handler and the      *)
(* death of blocked processes agree on it.  A semaphore that processes     *)
(* assign to is left out, and does no harm to the count of the others.     *)
(***************************************************************************)
THEOREM SemaphoresCount == Spec => []SemaphoreCountsBlocked
<1>1. IInv => SemaphoreCountsBlocked
  BY DEF IInv, Sound, SemaphoreCountsBlocked
<1> QED
  BY <1>1, KernelInv, PTL

(***************************************************************************)
(* Nobody waits at a half of a terminal that has no answer to give, and    *)
(* who waits there waits alone, so that setIOresult in intTerm hands a     *)
(* status to the process that asked for it.                                *)
(***************************************************************************)
THEOREM TerminalsAnswer == Spec => []BlockedAtTerminalWaits
<1>1. IInv => BlockedAtTerminalWaits
  BY DEF IInv, Sound, BlockedAtTerminalWaits
<1> QED
  BY <1>1, KernelInv, PTL

(***************************************************************************)
(* Every step of the kernel is a step of the scheduler or leaves it alone: *)
(* what is proved of the ready queue and of aging holds in the kernel.     *)
(***************************************************************************)
THEOREM KernelSchedules == Spec => SchedulerSpec
<1>1. Init => SchedInit
  BY InitInv
<1>2. IInv /\ [Next]_vars => [SchedNext]_schedVars
  BY NextStep DEF Step
<1> QED
  BY <1>1, <1>2, KernelInv, PTL DEF Spec, SchedulerSpec, SchedSpec

(***************************************************************************)
(* The kernel calls the queues of blocked processes only as they promise   *)
(* to serve: it blocks and allocates no pcb that is still in a queue.      *)
(* asl.c keeps that promise (AslRefines), so that a kernel step always     *)
(* finds a free semaphore descriptor.                                      *)
(***************************************************************************)
THEOREM KernelUsesQueues == Spec => QueuesSpec
<1>1. Init => initASL
  BY InitInv
<1>2. IInv /\ [Next]_vars => [BQNext(priority)]_bqVars
  BY NextStep DEF Step
<1> QED
  BY <1>1, <1>2, KernelInv, PTL DEF Spec, QueuesSpec

(***************************************************************************)
(* In the kernel too the ready queue's priorities are bounded, equals take *)
(* turns, and every dispatch brings the turn of every ready process        *)
(* closer, whatever calls and interrupts come (scheduler.c:22-82).         *)
(***************************************************************************)
THEOREM KernelIsFair == Spec => []PriorityBound /\ RoundRobin /\ WaitShrinks
BY KernelSchedules, PriorityBounded, RoundRobinHolds, WaitIsBounded, PTL DEF SchedulerSpec

\* scheduler() lets the processor wait only when it leaves nobody in the ready queue.
LEMMA WaitsIfEmpty ==
  ASSUME NEW cur \in Pcb \cup {NULL}, ready \in Seq(Pcb), scheduler(cur, ready),
         SchedTypeOK
  PROVE  current' = NULL => ready' = <<>>
<1> DEFINE rq == IF cur = NULL THEN ready ELSE insertProcQ(ready, priority, cur)
<1>1. rq \in Seq(Pcb)
  BY InsertShape DEF SchedTypeOK
<1>2. IF rq = <<>>
      THEN current' = NULL /\ ready' = rq
      ELSE current' = headProcQ(rq)
  BY DEF scheduler, emptyProcQ
<1> HIDE DEF rq
<1>3. rq /= <<>> => headProcQ(rq) \in Pcb
  BY <1>1, PcbElems DEF headProcQ, emptyProcQ
<1> QED
  BY <1>2, <1>3, NullNotPcb

(***************************************************************************)
(* Whoever is ready runs as soon as the processor would have to wait, also *)
(* after an interrupt in the wait state (handler.c:80, scheduler.c:29).    *)
(***************************************************************************)
THEOREM NeverWaitsForNothing == Spec => []WaitsForWork
<1>1. Init => WaitsForWork
  BY DEF Init, WaitsForWork
<1>2. ASSUME IInv, WaitsForWork, [Next]_vars
      PROVE  WaitsForWork'
  <2> USE IInv, WaitsForWork
  <2>1. /\ SchedTypeOK /\ ready \in Seq(Pcb) /\ current \in Pcb \cup {NULL}
        /\ (phase = "terminate" => current /= NULL)
    BY DEF IInv, SchedInv, StackOK, SchedTypeOK
  <2>2. ASSUME scheduler(current, ready) \/ scheduler(NULL, ready)
        PROVE  WaitsForWork'
    BY <2>1, <2>2, WaitsIfEmpty DEF WaitsForWork
  <2>3. ASSUME UNCHANGED <<current, ready, phase>> PROVE WaitsForWork'
    BY <2>3 DEF WaitsForWork
  <2>4. ASSUME Running \/ phase = "terminate", current' = current PROVE WaitsForWork'
    BY <2>1, <2>4 DEF WaitsForWork, Running
  <2>5. ASSUME NEW k \in Key, Running, passeren(k) PROVE WaitsForWork'
    BY <2>2, <2>4, <2>5 DEF passeren
  <2>6. ASSUME phase' /= "user" PROVE WaitsForWork'
    BY <2>6 DEF WaitsForWork
  <2>7. CASE Start \/ TerminateSelf \/ TimerInterrupt
    BY <2>2, <2>7 DEF Start, TerminateSelf, TimerInterrupt
  <2>8. CASE InterruptReturn
    BY <2>2, <2>8 DEF InterruptReturn, schedVars, WaitsForWork
  <2>9. CASE PollDevice \/ DeviceInterrupt
    BY <2>6, <2>9 DEF PollDevice, DeviceInterrupt
  <2>10. CASE TerminateChild \/ TerminateOther
    BY <2>4, <2>10 DEF TerminateChild, TerminateOther, schedVars
  <2>11. ASSUME NEW prio \in Priorities, CreateProcess(prio) PROVE WaitsForWork'
    BY <2>4, <2>11 DEF CreateProcess
  <2>12. ASSUME NEW k \in Sem, Verhogen(k) PROVE WaitsForWork'
    BY <2>4, <2>12 DEF Verhogen, verhogen
  <2>13. ASSUME NEW k \in Sem, Passeren(k) PROVE WaitsForWork'
    BY <2>5, <2>13, NucleusAssumption DEF Passeren
  <2>14. ASSUME NEW k \in Raw, NEW v \in InitVals \cup {0}, Assign(k, v) PROVE WaitsForWork'
    BY <2>4, <2>14 DEF Assign, schedVars
  <2>15. ASSUME NEW d \in Dev, DoIO(d) PROVE WaitsForWork'
    BY <2>5, <2>15, NucleusAssumption DEF DoIO
  <2>16. ASSUME NEW pid \in Pcb, TerminateProcess(pid) PROVE WaitsForWork'
    BY <2>6, <2>16 DEF TerminateProcess
  <2>17. ASSUME NEW d \in Dev, DeviceCompletes(d) PROVE WaitsForWork'
    BY <2>3, <2>17 DEF DeviceCompletes, schedVars, controlVars
  <2>18. CASE UNCHANGED vars
    BY <2>3, <2>18 DEF vars, schedVars, controlVars
  <2> QED
    BY <1>2, <2>7, <2>8, <2>9, <2>10, <2>11, <2>12, <2>13, <2>14, <2>15, <2>16, <2>17, <2>18
       DEF Next, KernelStep
<1> QED
  BY <1>1, <1>2, KernelInv, PTL DEF Spec

-----------------------------------------------------------------------------
(***************************************************************************)
(* Who is woken from a device's queue.                                     *)
(***************************************************************************)
\* Of the devices in S, int_handler looks only at those whose operation has completed.
PollsDone(S) == phase = "poll" => \A d \in poll \cap S : dev_status[d] = "done"

\* So is the one it looks at next.
PolledIsDone ==
  phase = "poll" /\ poll /= {} =>
    dev_status[NextPolled] = "ready" \/ dev_status[NextPolled] = "done"

\* The device looked at next is one of those still to look at.
LEMMA NextIsPolled ==
  ASSUME poll \subseteq Dev, poll /= {}
  PROVE  NextPolled \in poll
<1>1. \E d \in poll : \/ d \in Disk
                      \/ d \in TermRecv /\ poll \cap Disk = {}
                      \/ poll \subseteq TermTransm
  BY DEF Dev, Terminal
<1> QED
  BY <1>1 DEF NextPolled

\* A step that puts nobody new into the ready queue or on the processor wakes nobody.
LEMMA NobodyWoken ==
  ASSUME IInv, ~ Corrupt,
         (Elems(ready') \cup {current'}) \ {NULL} \subseteq Elems(ready) \cup {current} \cup Elems(pcbFree_h)
  PROVE  WokenWhenDone
<1> SUFFICES ASSUME NEW d \in Dev, NEW p \in Elems(procQ[d]), p \in Elems(ready') \cup {current'}
             PROVE  FALSE
  BY DEF WokenWhenDone
<1>1. d \in Key
  BY NucleusAssumption
<1>2. p \in Blocked /\ p \in Pcb
  BY <1>1, QueueFacts
<1>3. p /= NULL
  BY <1>2, NullNotPcb
<1> QED
  BY <1>2, <1>3 DEF IInv, Sound, OnePlace

\* verhogen wakes a process of the queue it is called for.
LEMMA OnlyThatQueueWoken ==
  ASSUME IInv, ~ Corrupt, NEW k \in Key, verhogen(k), k \in Dev => dev_status[k] = "done"
  PROVE  WokenWhenDone
<1> SUFFICES ASSUME NEW d \in Dev, NEW p \in Elems(procQ[d]), p \in Elems(ready') \cup {current'}
             PROVE  d = k
  BY DEF WokenWhenDone
<1>1. d \in Key /\ OnePlace
  BY NucleusAssumption DEF IInv, Sound
<1>2. p \in Blocked /\ p \in Pcb
  BY <1>1, QueueFacts
<1>3. p \notin Elems(ready) /\ p /= current
  BY <1>1, <1>2 DEF OnePlace
<1>4. current' = current
  BY DEF verhogen
<1>5. CASE sem'[k] <= 0 /\ headBlocked(k) /= NULL
  <2>1. ready' = insertProcQ(ready, priority, headBlocked(k))
    BY <1>5 DEF verhogen
  <2>2. headBlocked(k) \in Elems(procQ[k]) /\ headBlocked(k) \in Pcb
    BY <1>5, QueueFacts, PcbElems DEF headBlocked
  <2>3. Elems(ready') = Elems(ready) \cup {headBlocked(k)}
    BY <2>1, <2>2, Typed, InsertElems DEF IInv
  <2>4. p = headBlocked(k)
    BY <1>3, <1>4, <2>3
  <2> QED
    BY <1>1, <2>2, <2>4 DEF OnePlace
<1>6. CASE ~ (sem'[k] <= 0 /\ headBlocked(k) /= NULL)
  BY <1>3, <1>4, <1>6 DEF verhogen
<1> QED
  BY <1>5, <1>6

\* A handler acknowledges the device it is at, and no other step withdraws an interrupt
\* while it polls.  The halves of a terminal are polled together: S has a half only if it
\* is the only one.
LEMMA PollsStep ==
  ASSUME NEW S \in SUBSET Dev, \A d \in S \cap Terminal, e \in Terminal : d = e,
         IInv, PollsDone(S), [Next]_vars
  PROVE  PollsDone(S)'
<1>1. poll \subseteq Dev /\ dev_status \in [Dev -> {"ready", "busy", "done"}]
  BY Typed DEF IInv
<1>2. CASE UNCHANGED vars
  BY <1>2 DEF vars, controlVars, PollsDone
<1>3. CASE Start \/ TimerInterrupt \/ TerminateSelf \/ InterruptReturn \/ TerminateChild
             \/ TerminateOther \/ \E pid \in Pcb : TerminateProcess(pid)
  <2>1. phase' /= "poll"
    BY <1>3 DEF Start, TimerInterrupt, TerminateSelf, InterruptReturn, TerminateChild,
                TerminateOther, TerminateProcess, controlVars
  <2> QED
    BY <2>1 DEF PollsDone
<1>4. CASE \/ \E prio \in Priorities : CreateProcess(prio)
           \/ \E k \in Sem : Verhogen(k) \/ Passeren(k)
           \/ \E k \in Raw, v \in InitVals \cup {0} : Assign(k, v)
           \/ \E d \in Dev : DoIO(d)
  <2>1. phase' = "user"
    BY <1>4 DEF CreateProcess, Verhogen, Passeren, Assign, DoIO, Running, controlVars
  <2> QED
    BY <2>1 DEF PollsDone
<1>5. CASE DeviceInterrupt
  <2>1. /\ dev_status' = dev_status
        /\ poll' = {d \in Disk : dev_status[d] = "done"}
                     \cup (IF \E d \in Terminal : dev_status[d] = "done" THEN Terminal ELSE {})
    BY <1>5 DEF DeviceInterrupt
  <2>2. \A d \in poll' \cap S : dev_status[d] = "done"
    BY <2>1
  <2> QED
    BY <2>1, <2>2 DEF PollsDone
<1>6. CASE PollDevice
  <2> DEFINE d == NextPolled
  <2>1. /\ phase = "poll" /\ phase' = phase /\ poll /= {} /\ poll' = poll \ {d}
        /\ dev_status' = dev_status \/ ack(d)
    BY <1>6 DEF PollDevice
  <2>2. d \in Dev
    BY <1>1, <2>1, NextIsPolled
  <2> HIDE DEF d
  <2>3. \A e \in Dev \ {d} : dev_status'[e] = dev_status[e]
    BY <1>1, <2>1, <2>2 DEF ack
  <2> QED
    BY <1>1, <2>1, <2>3 DEF PollsDone
<1>7. CASE \E d \in Dev : DeviceCompletes(d)
  <2>1. PICK d \in Dev : DeviceCompletes(d)
    BY <1>7
  <2>2. /\ phase' = phase /\ poll' = poll
        /\ dev_status' = [dev_status EXCEPT ![d] = "done"]
    BY <2>1 DEF DeviceCompletes, controlVars
  <2> QED
    BY <1>1, <2>2 DEF PollsDone
<1> QED
  BY <1>2, <1>3, <1>4, <1>5, <1>6, <1>7 DEF Next, KernelStep

\* Every step.
LEMMA WokenStep ==
  ASSUME IInv, PolledIsDone, [Next]_vars
  PROVE  [WokenWhenDone]_vars
<1>1. poll \subseteq Dev /\ dev_status \in [Dev -> {"ready", "busy", "done"}]
  BY Typed DEF IInv
<1>2. CASE UNCHANGED vars
  BY <1>2
<1>3. ASSUME ~ Corrupt, NEW cur \in Pcb \cup {NULL}, scheduler(cur, ready),
             cur = current \/ cur = NULL
      PROVE  WokenWhenDone
  <2>1. cur \notin Elems(ready) /\ QueueOK(ready, priority) /\ SchedTypeOK
    <3>1. NULL \notin Elems(ready)
      BY Typed, PcbElems DEF IInv
    <3> QED
      BY <1>3, <3>1, SchedInvQueue DEF IInv
  <2>2. (Elems(ready') \cup {current'}) \ {NULL} = (Elems(ready) \cup {cur}) \ {NULL}
    BY <1>3, <2>1, SchedulerMoves
  <2> QED
    BY <1>3, <2>2, NobodyWoken
<1>4. ASSUME ~ Corrupt, UNCHANGED <<current, ready>> PROVE WokenWhenDone
  BY <1>4, NobodyWoken
<1>5. current \in Pcb \cup {NULL} /\ NULL \in Pcb \cup {NULL}
  BY Typed DEF IInv
<1>6. CASE ~ Corrupt /\ (Start \/ TimerInterrupt \/ TerminateSelf \/ InterruptReturn)
  <2>1. scheduler(current, ready) \/ scheduler(NULL, ready) \/ UNCHANGED <<current, ready>>
    BY <1>6 DEF Start, TimerInterrupt, TerminateSelf, InterruptReturn, schedVars
  <2> QED
    BY <1>3, <1>4, <1>5, <1>6, <2>1
<1>7. CASE ~ Corrupt /\ (TerminateChild \/ \E pid \in Pcb : TerminateProcess(pid))
  <2>1. UNCHANGED <<current, ready>>
    BY <1>7 DEF TerminateChild, TerminateProcess, schedVars
  <2> QED
    BY <1>4, <1>7, <2>1
<1>8. CASE ~ Corrupt /\ TerminateOther
  <2>1. current' = current /\ ready' \in {ready, outProcQ(ready, Top)}
    BY <1>8 DEF TerminateOther, unlink
  <2>2. /\ ready \in Seq(Pcb) /\ NoDup(ready) /\ Sorted(ready, priority)
        /\ priority \in [Pcb -> Int]
    BY <1>8, Typed DEF IInv, SchedInv, ReadyOnce, ReadySorted
  <2>3. Elems(ready') \subseteq Elems(ready)
    <3>1. CASE Top \in Elems(ready)
      BY <2>1, <2>2, <3>1, OutProp
    <3>2. CASE Top \notin Elems(ready)
      BY <2>1, <3>2 DEF outProcQ
    <3> QED
      BY <3>1, <3>2
  <2> QED
    BY <1>8, <2>1, <2>3, NobodyWoken
<1>9. CASE ~ Corrupt /\ PollDevice
  <2> DEFINE d == NextPolled
  <2>1. /\ phase = "poll" /\ phase' = phase /\ poll /= {} /\ poll' = poll \ {d}
        /\ IF dev_status[d] = "ready"
           THEN UNCHANGED <<schedVars, bqVars, sem, dev_status>>
           ELSE /\ IF headBlocked(d) /= NULL THEN verhogen(d)
                   ELSE UNCHANGED <<schedVars, bqVars, sem>>
                /\ ack(d)
    BY <1>9 DEF PollDevice
  <2>2. d \in Dev /\ d \in Key /\ (dev_status[d] = "ready" \/ dev_status[d] = "done")
    BY <1>1, <2>1, NextIsPolled, NucleusAssumption DEF PolledIsDone
  <2> HIDE DEF d
  <2>3. CASE dev_status[d] = "done" /\ verhogen(d)
    BY <1>9, <2>2, <2>3, OnlyThatQueueWoken
  <2>4. CASE UNCHANGED <<current, ready>>
    BY <1>4, <1>9, <2>4
  <2> QED
    BY <2>1, <2>2, <2>3, <2>4 DEF schedVars
<1>10. CASE ~ Corrupt /\ (DeviceInterrupt \/ \E d \in Dev : DeviceCompletes(d))
  BY <1>4, <1>10 DEF DeviceInterrupt, DeviceCompletes, schedVars
<1>11. CASE ~ Corrupt /\ \E prio \in Priorities : CreateProcess(prio)
  <2>1. PICK prio \in Priorities : CreateProcess(prio)
    BY <1>11
  <2>2. /\ pcbFree_h /= <<>> /\ current' = current
        /\ priority' = [priority EXCEPT ![Head(pcbFree_h)] = prio]
        /\ ready' = insertProcQ(ready, priority', Head(pcbFree_h))
    BY <2>1 DEF CreateProcess, setPriority
  <2>3. /\ pcbFree_h \in Seq(Pcb) /\ ready \in Seq(Pcb) /\ priority \in [Pcb -> Int]
        /\ NoDup(pcbFree_h)
    BY <1>11, Typed DEF IInv, Sound, OnePlace
  <2>4. Head(pcbFree_h) \in Elems(pcbFree_h) /\ Head(pcbFree_h) \in Pcb
    BY <2>2, <2>3, TakeHeadProp, PcbElems
  <2>5. priority' \in [Pcb -> Int]
    BY <2>2, <2>3, PrioritiesAssumption
  <2> DEFINE pr == priority'
  <2>6. pr \in [Pcb -> Int] /\ ready' = insertProcQ(ready, pr, Head(pcbFree_h))
    BY <2>2, <2>5
  <2> HIDE DEF pr
  <2>7. Elems(ready') = Elems(ready) \cup {Head(pcbFree_h)}
    BY <2>3, <2>4, <2>6, InsertElems
  <2> QED
    BY <1>11, <2>2, <2>4, <2>7, NobodyWoken
<1>12. CASE ~ Corrupt /\ \E k \in Sem : Verhogen(k)
  <2>1. PICK k \in Sem : Verhogen(k)
    BY <1>12
  <2>2. k \in Key /\ k \notin Dev /\ verhogen(k)
    BY <2>1, NucleusAssumption DEF Verhogen
  <2> QED
    BY <1>12, <2>2, OnlyThatQueueWoken
<1>13. CASE ~ Corrupt /\ ((\E k \in Sem : Passeren(k)) \/ (\E d \in Dev : DoIO(d)))
  <2>1. scheduler(NULL, ready) \/ UNCHANGED <<current, ready>>
    BY <1>13 DEF Passeren, DoIO, passeren
  <2> QED
    BY <1>3, <1>4, <1>5, <1>13, <2>1
<1>14. CASE ~ Corrupt /\ \E k \in Raw, v \in InitVals \cup {0} : Assign(k, v)
  BY <1>4, <1>14 DEF Assign, schedVars
<1> QED
  BY <1>2, <1>6, <1>7, <1>8, <1>9, <1>10, <1>11, <1>12, <1>13, <1>14 DEF Next, KernelStep

(***************************************************************************)
(* With one half of the terminal in use, every process that leaves a       *)
(* device's queue alive leaves it because its operation has completed      *)
(* (interrupt.c:81, 174).  With both in use it does not hold: intTerm      *)
(* takes a half that is busy for completed.                                *)
(***************************************************************************)
THEOREM WokenByCompletion ==
  ASSUME \A d, e \in Terminal : d = e
  PROVE  Spec => WokenOnCompletion
<1>1. Init => PollsDone(Dev)
  BY DEF Init, PollsDone
<1>2. IInv /\ PollsDone(Dev) /\ [Next]_vars => PollsDone(Dev)'
  BY PollsStep
<1>3. IInv /\ PollsDone(Dev) /\ [Next]_vars => [WokenWhenDone]_vars
  <2>1. IInv /\ PollsDone(Dev) => PolledIsDone
    <3>1. IInv => poll \subseteq Dev
      BY Typed DEF IInv
    <3> QED
      BY <3>1, NextIsPolled DEF PollsDone, PolledIsDone
  <2> QED
    BY <2>1, WokenStep
<1> QED
  BY <1>1, <1>2, <1>3, KernelInv, PTL DEF Spec, WokenOnCompletion

-----------------------------------------------------------------------------
(***************************************************************************)
(* Disks, when no process asks for one that another waits for.             *)
(***************************************************************************)
OneAtADisk == \A d \in Disk : DoIO(d) => procQ[d] = <<>>

DiskInv ==
  /\ BlockedAtDiskWaits
  /\ ~ Corrupt => \A d \in Disk : sem[d] \in {0, -1}

\* P and V of another semaphore leave a semaphore and its queue alone.
LEMMA OtherQueue ==
  ASSUME IInv, NEW k \in Key, NEW m \in Key, k /= m, verhogen(k) \/ passeren(k)
  PROVE  procQ'[m] = procQ[m] /\ sem'[m] = sem[m]
<1>1. procQ \in [Key -> Seq(Pcb)] /\ sem \in [Key -> Int]
  BY Typed DEF IInv
<1>2. CASE verhogen(k)
  BY <1>1, <1>2 DEF verhogen, removeBlocked, bqVars
<1>3. CASE passeren(k)
  BY <1>1, <1>3 DEF passeren, insertBlocked, bqVars
<1> QED
  BY <1>2, <1>3

\* A disk nobody waits at has a semaphore of 0, another has -1.
LEMMA DiskFacts ==
  ASSUME IInv, ~ Corrupt, DiskInv
  PROVE  \A d \in Disk :
           /\ d \in Key /\ d \in Dev /\ d \notin Sem /\ d \notin Raw /\ d \notin Terminal
           /\ procQ[d] \in Seq(Pcb) /\ sem[d] \in {0, -1}
           /\ sem[d] = 0 <=> procQ[d] = <<>>
<1> TAKE d \in Disk
<1>1. d \in Key /\ d \in Dev /\ d \notin Sem /\ d \notin Raw /\ d \notin Terminal
  BY NucleusAssumption DEF Dev
<1>2. sem[d] \in {0, -1} /\ procQ[d] \in Seq(Pcb)
  BY <1>1, QueueFacts DEF DiskInv
<1>3. sem[d] = 0 <=> procQ[d] = <<>>
  BY <1>1, <1>2, QueueFacts, EmptyElems
<1> QED
  BY <1>1, <1>2, <1>3

\* do_io blocks the first process, with the disk busy for it.
LEMMA DoIODisk ==
  ASSUME IInv, ~ Corrupt, DiskInv, OneAtADisk, NEW e \in Dev, DoIO(e)
  PROVE  DiskInv'
<1>1. /\ passeren(e) /\ e \in Key
      /\ dev_status' = [dev_status EXCEPT ![e] = "busy"]
      /\ sem' = [sem EXCEPT ![e] = sem[e] - 1]
      /\ dev_status \in [Dev -> {"ready", "busy", "done"}] /\ sem \in [Key -> Int]
  BY Typed, NucleusAssumption DEF DoIO, passeren, IInv
<1> SUFFICES ASSUME NEW d \in Disk
             PROVE  /\ procQ'[d] /= <<>> => dev_status'[d] /= "ready"
                    /\ sem'[d] \in {0, -1}
  BY DEF DiskInv, BlockedAtDiskWaits
<1>2. d \in Key /\ d \in Dev /\ sem[d] \in {0, -1} /\ (sem[d] = 0 <=> procQ[d] = <<>>)
  BY DiskFacts
<1>3. CASE d = e
  <2>1. sem[d] = 0
    BY <1>2, <1>3 DEF OneAtADisk
  <2>2. dev_status'[d] = "busy" /\ sem'[d] = -1
    BY <1>1, <1>2, <1>3, <2>1
  <2> QED
    BY <2>2
<1>4. CASE d /= e
  <2>1. procQ'[d] = procQ[d] /\ sem'[d] = sem[d] /\ dev_status'[d] = dev_status[d]
    BY <1>1, <1>2, <1>4, OtherQueue
  <2> QED
    BY <1>2, <2>1 DEF DiskInv, BlockedAtDiskWaits
<1> QED
  BY <1>3, <1>4

\* intDisk wakes the one process that waits.
LEMMA PollDisk ==
  ASSUME IInv, ~ Corrupt, DiskInv, PollDevice
  PROVE  DiskInv'
<1> DEFINE e == NextPolled
<1>1. /\ poll /= {} /\ pcbFree_h' = pcbFree_h
      /\ \/ UNCHANGED <<bqVars, sem, dev_status>>
         \/ /\ IF headBlocked(e) /= NULL THEN verhogen(e) ELSE UNCHANGED <<bqVars, sem>>
            /\ ack(e)
  BY DEF PollDevice, treeVars
<1>2. e \in Dev /\ e \in Key /\ dev_status \in [Dev -> {"ready", "busy", "done"}]
  BY <1>1, NextIsPolled, Typed, NucleusAssumption DEF IInv
<1> HIDE DEF e
<1> SUFFICES ASSUME NEW d \in Disk
             PROVE  /\ procQ'[d] /= <<>> => dev_status'[d] /= "ready"
                    /\ sem'[d] \in {0, -1}
  BY DEF DiskInv, BlockedAtDiskWaits
<1>3. d \in Key /\ d \in Dev /\ sem[d] \in {0, -1} /\ (sem[d] = 0 <=> procQ[d] = <<>>)
      /\ d \notin Raw /\ (procQ[d] /= <<>> => dev_status[d] /= "ready")
  BY DiskFacts DEF DiskInv, BlockedAtDiskWaits
<1>4. CASE UNCHANGED <<bqVars, sem, dev_status>>
  BY <1>3, <1>4 DEF bqVars
<1>5. CASE d /= e /\ ack(e) /\ (verhogen(e) \/ UNCHANGED <<bqVars, sem>>)
  <2>1. dev_status'[d] = dev_status[d]
    BY <1>2, <1>3, <1>5 DEF ack
  <2>2. procQ'[d] = procQ[d] /\ sem'[d] = sem[d]
    BY <1>2, <1>3, <1>5, OtherQueue DEF bqVars
  <2> QED
    BY <1>3, <2>1, <2>2
<1>6. CASE d = e /\ headBlocked(e) /= NULL /\ verhogen(e)
  <2>1. procQ[d] /= <<>>
    BY <1>3, <1>6, QueueFacts, PcbElems DEF headBlocked
  <2>2. sem'[d] = sem[d] + 1 /\ Moved
    BY <1>1, <1>2, <1>6, VerhogenMoves
  <2>3. sem'[d] = 0
    BY <1>3, <2>1, <2>2
  <2>4. Len(procQ'[d]) = 0 /\ procQ'[d] \in Seq(Pcb)
    BY <1>3, <2>2, <2>3 DEF Moved, CountsBlocked
  <2> QED
    BY <2>3, <2>4, EmptyElems
<1>7. CASE d = e /\ headBlocked(e) = NULL /\ UNCHANGED <<bqVars, sem>>
  <2>1. procQ[d] = <<>>
    BY <1>3, <1>7, QueueFacts, PcbElems DEF headBlocked
  <2> QED
    BY <1>3, <1>7, <2>1 DEF bqVars
<1> QED
  BY <1>1, <1>4, <1>5, <1>6, <1>7

\* A death leaves the queue of a disk empty or the disk as it is.
LEMMA OtherDisk ==
  ASSUME IInv, ~ Corrupt, DiskInv, TerminateOther
  PROVE  DiskInv'
<1> DEFINE p == Top
<1>1. /\ p /= current /\ outChild(p) /\ unlink(p) /\ freePcb(p)
      /\ UNCHANGED <<current, priority, original_priority>> /\ dev_status' = dev_status
  BY DEF TerminateOther
<1>2. p \in Pcb /\ p \notin Elems(pcbFree_h)
  BY StackFacts DEF TerminateOther
<1>3. NoDup(pcbFree_h') /\ Elems(pcbFree_h') = Elems(pcbFree_h) \cup {p}
  <2>1. pcbFree_h \in Seq(Pcb) /\ NoDup(pcbFree_h) /\ pcbFree_h' = <<p>> \o pcbFree_h
    BY <1>1, Typed DEF IInv, Sound, OnePlace, freePcb
  <2> HIDE DEF p
  <2> QED
    BY <1>2, <2>1, AddHeadProp
<1>4. procQ \in [Key -> Seq(Pcb)] /\ p_semkey \in [Pcb -> Key \cup {NoKey}]
  BY Typed DEF IInv
<1> HIDE DEF p
<1>5. BlockedAtDiskWaits'
  <2> SUFFICES ASSUME NEW d \in Disk, procQ'[d] /= <<>>
               PROVE  dev_status[d] /= "ready"
    BY <1>1 DEF BlockedAtDiskWaits
  <2>1. d \in Key
    BY DiskFacts
  <2>2. procQ'[d] = procQ[d] \/ procQ'[d] = outProcQ(procQ[d], p)
    BY <1>1, <1>4, <2>1 DEF unlink, outBlocked, bqVars
  <2>3. outProcQ(<<>>, p) = <<>>
    BY EmptyElems DEF outProcQ
  <2> QED
    BY <2>2, <2>3 DEF DiskInv, BlockedAtDiskWaits
<1>6. ASSUME ~ Corrupt', NEW d \in Disk PROVE sem'[d] \in {0, -1}
  <2>1. d \in Key /\ sem[d] \in {0, -1} /\ d \notin Raw
    BY DiskFacts
  <2>2. CASE p_semkey[p] = NoKey
    BY <1>1, <1>2, <1>3, <2>1, <2>2, UnlinkReady
  <2>3. CASE p_semkey[p] \in Key /\ p \in Elems(procQ[p_semkey[p]])
    <3>1. /\ sem'[d] = IF d = p_semkey[p] THEN sem[d] + 1 ELSE sem[d]
          /\ p_semkey[p] \notin Raw => sem[p_semkey[p]] < 0
      BY <1>1, <1>2, <1>3, <2>1, <2>3, UnlinkBlocked
    <3> QED
      BY <2>1, <3>1
  <2>4. CASE p_semkey[p] \in Key /\ p \notin Elems(procQ[p_semkey[p]])
    BY <1>1, <1>2, <1>3, <1>6, <2>4, UnlinkStale
  <2> QED
    BY <1>2, <1>4, <2>2, <2>3, <2>4
<1> QED
  BY <1>5, <1>6 DEF DiskInv

\* Every step.
LEMMA DiskStep ==
  ASSUME IInv, DiskInv, [Next]_vars, OneAtADisk
  PROVE  DiskInv'
<1>1. CASE UNCHANGED vars
  BY <1>1 DEF vars, schedVars, bqVars, treeVars, DiskInv, BlockedAtDiskWaits, Corrupt
<1>2. ASSUME ~ Corrupt,
             \A d \in Disk : procQ'[d] = procQ[d] /\ sem'[d] = sem[d] /\ dev_status'[d] = dev_status[d]
      PROVE  DiskInv'
  BY <1>2 DEF DiskInv, BlockedAtDiskWaits
<1>3. CASE ~ Corrupt /\ \/ Start \/ TimerInterrupt \/ TerminateSelf \/ InterruptReturn
                        \/ TerminateChild \/ DeviceInterrupt
                        \/ \E pid \in Pcb : TerminateProcess(pid)
                        \/ \E prio \in Priorities : CreateProcess(prio)
  <2>1. procQ' = procQ /\ sem' = sem /\ dev_status' = dev_status
    BY <1>3 DEF Start, TimerInterrupt, TerminateSelf, InterruptReturn, TerminateChild,
                DeviceInterrupt, TerminateProcess, CreateProcess, resetSemkey, bqVars
  <2> QED
    BY <1>2, <1>3, <2>1
<1>4. CASE ~ Corrupt /\ ((\E k \in Sem : Verhogen(k)) \/ (\E k \in Sem : Passeren(k)))
  <2>1. PICK k \in Sem : Verhogen(k) \/ Passeren(k)
    BY <1>4
  <2>2. k \in Key /\ (verhogen(k) \/ passeren(k)) /\ dev_status' = dev_status
    BY <2>1, NucleusAssumption DEF Verhogen, Passeren
  <2>3. \A d \in Disk : d \in Key /\ d /= k
    BY <1>4, DiskFacts
  <2> QED
    BY <1>2, <1>4, <2>2, <2>3, OtherQueue
<1>5. CASE ~ Corrupt /\ \E k \in Raw, v \in InitVals \cup {0} : Assign(k, v)
  <2>1. PICK k \in Raw, v \in InitVals \cup {0} : Assign(k, v)
    BY <1>5
  <2>2. procQ' = procQ /\ dev_status' = dev_status /\ sem' = [sem EXCEPT ![k] = v]
        /\ sem \in [Key -> Int]
    BY <2>1, Typed DEF Assign, bqVars, IInv
  <2>3. \A d \in Disk : d \in Key /\ d /= k
    BY <1>5, DiskFacts
  <2> QED
    BY <1>2, <1>5, <2>2, <2>3
<1>6. CASE ~ Corrupt /\ \E d \in Dev : DoIO(d)
  BY <1>6, DoIODisk
<1>7. CASE ~ Corrupt /\ PollDevice
  BY <1>7, PollDisk
<1>8. CASE ~ Corrupt /\ TerminateOther
  BY <1>8, OtherDisk
<1>9. CASE ~ Corrupt /\ \E d \in Dev : DeviceCompletes(d)
  <2>1. PICK d \in Dev : DeviceCompletes(d)
    BY <1>9
  <2>2. procQ' = procQ /\ sem' = sem /\ dev_status' = [dev_status EXCEPT ![d] = "done"]
        /\ dev_status \in [Dev -> {"ready", "busy", "done"}]
    BY <2>1, Typed DEF DeviceCompletes, bqVars, IInv
  <2> QED
    BY <1>9, <2>2, DiskFacts DEF DiskInv, BlockedAtDiskWaits
<1> QED
  BY <1>1, <1>3, <1>4, <1>5, <1>6, <1>7, <1>8, <1>9 DEF Next, KernelStep

(***************************************************************************)
(* Nobody waits for ever at a disk of which only one process at a time     *)
(* asks something: as long as no command is given to a disk where          *)
(* somebody is blocked, whoever is blocked there has an answer coming      *)
(* (syscall.c:274, interrupt.c:105).  Without that it does not hold:       *)
(* do_io takes a disk that has completed for one that is idle.             *)
(***************************************************************************)
THEOREM LoneCommandsAnswered ==
  Spec /\ [][OneAtADisk]_vars => []BlockedAtDiskWaits
<1>1. Init => DiskInv
  <2> SUFFICES ASSUME Init PROVE DiskInv
    OBVIOUS
  <2>1. \A d \in Disk : d \in Key /\ d \in Dev
    BY NucleusAssumption DEF Dev
  <2>2. \A d \in Disk : procQ[d] = <<>> /\ sem[d] = 0
    BY <2>1 DEF Init, initASL
  <2> QED
    BY <2>2 DEF DiskInv, BlockedAtDiskWaits
<1>2. IInv /\ DiskInv /\ [Next]_vars /\ [OneAtADisk]_vars => DiskInv'
  <2>1. UNCHANGED vars /\ DiskInv => DiskInv'
    BY DEF vars, schedVars, bqVars, treeVars, DiskInv, BlockedAtDiskWaits, Corrupt
  <2> QED
    BY <2>1, DiskStep
<1>3. DiskInv => BlockedAtDiskWaits
  BY DEF DiskInv
<1> QED
  BY <1>1, <1>2, <1>3, KernelInv, PTL DEF Spec

-----------------------------------------------------------------------------
(***************************************************************************)
(* The kernel's semaphores.                                                *)
(***************************************************************************)
SemaStep == [Sema!SemNext]_Sema!semVars

\* A step that changes one value, or none of those that count.
LEMMA ValueMoves ==
  ASSUME NEW k \in Key, \A j \in Key \ {k} : sem'[j] = sem[j]
  PROVE  /\ k \in Counted => SemValue' = [SemValue EXCEPT ![k] = sem'[k]]
         /\ k \notin Counted => SemValue' = SemValue
BY DEF SemValue, Counted

\* The same of the queues.
LEMMA WaitingMoves ==
  ASSUME NEW k \in Key, \A j \in Key \ {k} : procQ'[j] = procQ[j]
  PROVE  /\ k \in Counted => SemWaiting' = [SemWaiting EXCEPT ![k] = Elems(procQ'[k])]
         /\ k \notin Counted => SemWaiting' = SemWaiting
BY DEF SemWaiting, Counted

\* A step of which no semaphore that counts notices anything.
LEMMA SemaStutter ==
  ASSUME ~ Corrupt, SemValue' = SemValue, SemWaiting' = SemWaiting, Living' = Living,
         original_priority' = original_priority
  PROVE  SemaStep
<1>1. Corrupt \in BOOLEAN /\ Corrupt' \in BOOLEAN
  BY DEF Corrupt
<1>2. CASE Corrupt'
  BY <1>2 DEF SemaStep, Sema!SemNext
<1>3. CASE ~ Corrupt'
  <2>1. Corrupt' = Corrupt
    BY <1>1, <1>3
  <2> QED
    BY <2>1 DEF SemaStep, Sema!semVars
<1> QED
  BY <1>2, <1>3

LEMMA SemaQuiet ==
  ASSUME ~ Corrupt, procQ' = procQ, sem' = sem, UNCHANGED <<original_priority, pcbFree_h>>
  PROVE  SemaStep
<1>1. SemValue' = SemValue /\ SemWaiting' = SemWaiting /\ Living' = Living
  BY DEF SemValue, SemWaiting, Living
<1> QED
  BY <1>1, SemaStutter

\* passeren.
LEMMA SemaP ==
  ASSUME IInv, ~ Corrupt, current /= NULL, NEW k \in Key, passeren(k),
         UNCHANGED pcbFree_h
  PROVE  SemaStep
<1> DEFINE q == procQ[k]
<1>1. /\ procQ \in [Key -> Seq(Pcb)] /\ sem \in [Key -> Int] /\ priority \in [Pcb -> Int]
      /\ current \in Pcb /\ p_semkey \in [Pcb -> Key \cup {NoKey}]
  BY Typed DEF IInv
<1>2. sem' = [sem EXCEPT ![k] = sem[k] - 1] /\ original_priority' = original_priority
  BY DEF passeren
<1>3. \A j \in Key \ {k} : procQ'[j] = procQ[j] /\ sem'[j] = sem[j]
  BY OtherQueue
<1>4. Elems(procQ'[k]) = IF sem[k] > 0 THEN Elems(q) ELSE Elems(q) \cup {current}
  <2>1. CASE sem[k] > 0
    BY <1>1, <1>2, <2>1 DEF passeren, bqVars
  <2>2. CASE ~ (sem[k] > 0)
    <3>1. procQ'[k] = insertProcQ(q, priority, current)
      BY <1>1, <1>2, <2>2 DEF passeren, insertBlocked
    <3>2. q \in Seq(Pcb)
      BY <1>1
    <3> HIDE DEF q
    <3>3. Elems(insertProcQ(q, priority, current)) = Elems(q) \cup {current}
      BY <1>1, <3>2, InsertElems
    <3> QED
      BY <2>2, <3>1, <3>3
  <2> QED
    BY <2>1, <2>2
<1>5. Living' = Living
  BY DEF Living
<1>6. CASE k \in Counted
  <2>1. SemValue' = [SemValue EXCEPT ![k] = SemValue[k] - 1]
    BY <1>1, <1>2, <1>3, <1>6, ValueMoves DEF SemValue
  <2>2. SemWaiting' = IF SemValue[k] > 0 THEN SemWaiting
                      ELSE [SemWaiting EXCEPT ![k] = SemWaiting[k] \cup {current}]
    <3>1. SemWaiting' = [SemWaiting EXCEPT ![k] = Elems(procQ'[k])]
      BY <1>3, <1>6, WaitingMoves
    <3>2. SemWaiting = [SemWaiting EXCEPT ![k] = SemWaiting[k]]
          /\ SemWaiting[k] = Elems(procQ[k]) /\ SemValue[k] = sem[k]
      BY <1>6 DEF SemWaiting, SemValue
    <3> QED
      BY <1>4, <3>1, <3>2
  <2>3. Sema!P(k)
    BY <1>2, <1>5, <2>1, <2>2 DEF Sema!P
  <2> QED
    BY <1>6, <2>3 DEF SemaStep, Sema!SemNext
<1>7. CASE k \notin Counted
  <2>1. SemValue' = SemValue /\ SemWaiting' = SemWaiting
    BY <1>3, <1>7, ValueMoves, WaitingMoves
  <2> QED
    BY <1>2, <1>5, <2>1, SemaStutter
<1> QED
  BY <1>6, <1>7

\* verhogen.
LEMMA SemaV ==
  ASSUME IInv, ~ Corrupt, NEW k \in Key, verhogen(k), UNCHANGED pcbFree_h
  PROVE  SemaStep
<1> DEFINE q == procQ[k]
           h == headProcQ(q)
<1>1. /\ procQ \in [Key -> Seq(Pcb)] /\ sem \in [Key -> Int] /\ priority \in [Pcb -> Int]
  BY Typed DEF IInv
<1>2. sem' = [sem EXCEPT ![k] = sem[k] + 1] /\ original_priority' = original_priority
  BY DEF verhogen
<1>3. \A j \in Key \ {k} : procQ'[j] = procQ[j] /\ sem'[j] = sem[j]
  BY OtherQueue
<1>4. Living' = Living
  BY DEF Living
<1>5. CASE k \notin Counted
  <2>1. SemValue' = SemValue /\ SemWaiting' = SemWaiting
    BY <1>3, <1>5, ValueMoves, WaitingMoves
  <2> QED
    BY <1>2, <1>4, <2>1, SemaStutter
<1>6. CASE k \in Counted
  <2>1. /\ q \in Seq(Pcb) /\ NoDup(q) /\ Sorted(q, priority)
        /\ \A p \in Elems(q) : priority[p] = original_priority[p]
        /\ Len(q) = IF sem[k] < 0 THEN -sem[k] ELSE 0
    BY <1>6, QueueFacts DEF Counted
  <2>2. SemValue' = [SemValue EXCEPT ![k] = SemValue[k] + 1]
    BY <1>1, <1>2, <1>3, <1>6, ValueMoves DEF SemValue
  <2>3. SemWaiting' = [SemWaiting EXCEPT ![k] = Elems(procQ'[k])]
        /\ SemWaiting = [SemWaiting EXCEPT ![k] = SemWaiting[k]]
        /\ SemWaiting[k] = Elems(q)
    BY <1>3, <1>6, WaitingMoves DEF SemWaiting
  <2>4. CASE q = <<>>
    <3>1. procQ'[k] = q
      BY <1>1, <2>4 DEF verhogen, headBlocked, headProcQ, emptyProcQ, bqVars
    <3>2. SemWaiting[k] = {} /\ SemWaiting' = SemWaiting
      BY <2>1, <2>3, <2>4, <3>1, EmptyElems
    <3> QED
      BY <1>2, <1>4, <1>6, <2>2, <3>2 DEF SemaStep, Sema!SemNext, Sema!V
  <2>5. CASE q /= <<>>
    <3>1. sem[k] + 1 <= 0 /\ h /= NULL
      <4>1. Len(q) /= 0
        BY <2>1, <2>5, EmptyElems
      <4>2. sem[k] \in Int /\ sem[k] < 0
        BY <1>1, <2>1, <4>1
      <4>3. h /= NULL
        BY <2>1, <2>5, PcbElems
      <4> QED
        BY <4>2, <4>3
    <3>2. procQ'[k] = removeProcQ(q)
      <4>1. sem'[k] <= 0 /\ headBlocked(k) /= NULL
        BY <1>1, <1>2, <3>1 DEF headBlocked
      <4> QED
        BY <1>1, <4>1 DEF verhogen, removeBlocked
    <3> HIDE DEF q
    <3>3. h = q[1] /\ Elems(procQ'[k]) = Elems(q) \ {h} /\ 1 \in 1..Len(q)
      <4>1. Len(q) \in Nat /\ Len(q) /= 0
        BY <2>1, <2>5, EmptyElems, LenProperties
      <4> QED
        BY <1>1, <2>1, <2>5, <3>2, <4>1, RemoveProp
    <3>4. h \in Elems(q)
      BY <3>3 DEF Elems
    <3>5. \A p \in Elems(q) : original_priority[p] <= original_priority[h]
      <4> SUFFICES ASSUME NEW p \in Elems(q)
                   PROVE  priority[p] <= priority[h]
        BY <2>1, <3>4
      <4>1. PICK i \in 1..Len(q) : p = q[i]
        BY DEF Elems
      <4>2. p \in Pcb /\ h \in Pcb /\ Len(q) \in Nat
        BY <2>1, <3>4, PcbElems, LenProperties
      <4>3. i /= 1 => priority[h] >= priority[p]
        BY <2>1, <3>3, <4>1, <4>2 DEF Sorted
      <4>4. priority[p] \in Int /\ priority[h] \in Int
        BY <1>1, <4>2
      <4> QED
        BY <3>3, <4>1, <4>3, <4>4
    <3> HIDE DEF h
    <3>6. SemWaiting' = [SemWaiting EXCEPT ![k] = SemWaiting[k] \ {h}]
      BY <2>3, <3>3
    <3>7. Sema!V(k)
      BY <1>2, <1>4, <2>2, <2>3, <3>4, <3>5, <3>6 DEF Sema!V
    <3> QED
      BY <1>6, <3>7 DEF SemaStep, Sema!SemNext
  <2> QED
    BY <2>4, <2>5
<1> QED
  BY <1>5, <1>6

\* terminate_process, of a process that is blocked, ready or running.
LEMMA SemaDie ==
  ASSUME IInv, ~ Corrupt, TerminateOther \/ TerminateSelf
  PROVE  SemaStep
<1> DEFINE p == Top
<1>1. p \in Pcb /\ p \notin Elems(pcbFree_h) /\ freePcb(p)
  BY StackFacts DEF TerminateOther, TerminateSelf
<1>2. original_priority' = original_priority
  BY DEF TerminateOther, TerminateSelf
<1>3. NoDup(pcbFree_h') /\ Elems(pcbFree_h') = Elems(pcbFree_h) \cup {p}
  <2>1. pcbFree_h \in Seq(Pcb) /\ NoDup(pcbFree_h) /\ pcbFree_h' = <<p>> \o pcbFree_h
    BY <1>1, Typed DEF IInv, Sound, OnePlace, freePcb
  <2> HIDE DEF p
  <2> QED
    BY <1>1, <2>1, AddHeadProp
<1>4. Living' = Living \ {p} /\ p \in Living
  BY <1>1, <1>3 DEF Living
<1>5. procQ \in [Key -> Seq(Pcb)] /\ p_semkey \in [Pcb -> Key \cup {NoKey}]
      /\ sem \in [Key -> Int] /\ priority \in [Pcb -> Int]
  BY Typed DEF IInv
<1>6. ASSUME \A k \in Key : Elems(procQ'[k]) = Elems(procQ[k]) \ {p},
             \A k \in Key : sem'[k] = IF p \in Elems(procQ[k]) THEN sem[k] + 1 ELSE sem[k]
      PROVE  SemaStep
  <2> HIDE DEF p
  <2>1. SemWaiting' = [k \in Counted |-> SemWaiting[k] \ {p}]
    BY <1>6 DEF SemWaiting, Counted
  <2>2. SemValue' = [k \in Counted |-> IF p \in SemWaiting[k] THEN SemValue[k] + 1 ELSE SemValue[k]]
    BY <1>6 DEF SemValue, SemWaiting, Counted
  <2>3. Sema!Die(p)
    BY <1>2, <1>4, <2>1, <2>2 DEF Sema!Die
  <2> QED
    BY <1>1, <2>3 DEF SemaStep, Sema!SemNext
<1>7. CASE TerminateSelf
  <2>1. p = current /\ procQ' = procQ /\ sem' = sem
    BY <1>7 DEF TerminateSelf, bqVars
  <2>2. \A k \in Key : p \notin Elems(procQ[k])
    <3>1. current \notin Blocked
      BY DEF IInv, Sound, OnePlace
    <3> QED
      BY <2>1, <3>1 DEF Blocked
  <2> QED
    BY <1>6, <2>1, <2>2
<1>8. CASE TerminateOther
  <2>1. p /= current /\ unlink(p) /\ UNCHANGED <<current, priority, original_priority>>
    BY <1>8 DEF TerminateOther
  <2> HIDE DEF p
  <2>2. \A k \in Key : p \in Elems(procQ[k]) => p_semkey[p] = k
    BY QueueFacts
  <2>3. CASE p_semkey[p] = NoKey
    <3>1. procQ' = procQ /\ sem' = sem
      BY <2>1, <2>3 DEF unlink, bqVars
    <3>2. \A k \in Key : p \notin Elems(procQ[k])
      BY <2>2, <2>3, NoKeyAssumption
    <3> QED
      BY <1>6, <3>1, <3>2
  <2>4. CASE p_semkey[p] \in Key /\ p \in Elems(procQ[p_semkey[p]])
    <3>1. \A k \in Key : sem'[k] = IF k = p_semkey[p] THEN sem[k] + 1 ELSE sem[k]
      BY <1>1, <1>3, <2>1, <2>4, UnlinkBlocked
    <3>2. procQ' = [k \in Key |-> IF k = p_semkey[p] THEN outProcQ(procQ[k], p) ELSE procQ[k]]
      BY <2>1, <2>4, NoKeyAssumption DEF unlink, outBlocked
    <3>3. ASSUME NEW k \in Key PROVE Elems(procQ'[k]) = Elems(procQ[k]) \ {p}
      <4> DEFINE q == procQ[k]
      <4>1. q \in Seq(Pcb) /\ NoDup(q) /\ Sorted(q, priority)
        BY QueueFacts
      <4>2. procQ'[k] = IF k = p_semkey[p] THEN outProcQ(q, p) ELSE q
        BY <3>2
      <4>3. (p \in Elems(q)) <=> (k = p_semkey[p])
        BY <2>2, <2>4
      <4> HIDE DEF q
      <4>4. p \in Elems(q) => Elems(outProcQ(q, p)) = Elems(q) \ {p}
        BY <1>5, <4>1, OutProp
      <4>5. Elems(procQ'[k]) = Elems(q) \ {p}
        BY <4>2, <4>3, <4>4
      <4> QED
        BY <4>5 DEF q
    <3> QED
      BY <1>6, <2>2, <2>4, <3>1, <3>3
  <2>5. CASE p_semkey[p] \in Key /\ p \notin Elems(procQ[p_semkey[p]])
    <3>1. Corrupt'
      BY <1>1, <1>3, <2>1, <2>5, UnlinkStale
    <3> QED
      BY <3>1 DEF SemaStep, Sema!SemNext
  <2> QED
    BY <1>1, <1>5, <2>3, <2>4, <2>5
<1> QED
  BY <1>7, <1>8

\* create_process.
LEMMA SemaBorn ==
  ASSUME IInv, ~ Corrupt, NEW prio \in Priorities, CreateProcess(prio)
  PROVE  SemaStep
<1> DEFINE p == Head(pcbFree_h)
<1>1. /\ pcbFree_h /= <<>> /\ pcbFree_h' = Tail(pcbFree_h)
      /\ original_priority' = [original_priority EXCEPT ![p] = prio]
      /\ procQ' = procQ /\ sem' = sem
  BY DEF CreateProcess, setPriority, resetSemkey
<1>2. pcbFree_h \in Seq(Pcb) /\ NoDup(pcbFree_h) /\ original_priority \in [Pcb -> Int]
  BY Typed DEF IInv, Sound, OnePlace
<1>3. p \in Elems(pcbFree_h) /\ p \in Pcb /\ Elems(pcbFree_h') = Elems(pcbFree_h) \ {p}
  BY <1>1, <1>2, TakeHeadProp, PcbElems
<1> HIDE DEF p
<1>4. Living' = Living \cup {p} /\ p \notin Living
  BY <1>3 DEF Living
<1>5. SemValue' = SemValue /\ SemWaiting' = SemWaiting
  BY <1>1 DEF SemValue, SemWaiting
<1>6. \A q \in Pcb \ {p} : original_priority'[q] = original_priority[q]
  BY <1>1, <1>2
<1>7. Sema!Born(p)
  BY <1>4, <1>5, <1>6 DEF Sema!Born
<1> QED
  BY <1>3, <1>7 DEF SemaStep, Sema!SemNext

\* Every step.
LEMMA SemaNext ==
  ASSUME IInv, [Next]_vars
  PROVE  SemaStep
<1>1. CASE UNCHANGED vars
  <2>1. /\ procQ' = procQ /\ sem' = sem /\ ready' = ready /\ pcbFree_h' = pcbFree_h
        /\ original_priority' = original_priority
    BY <1>1 DEF vars, schedVars, bqVars, treeVars
  <2>2. SemValue' = SemValue /\ SemWaiting' = SemWaiting /\ Living' = Living
        /\ Corrupt' = Corrupt
    BY <2>1 DEF SemValue, SemWaiting, Living, Corrupt
  <2> QED
    BY <2>1, <2>2 DEF SemaStep, Sema!semVars
<1>2. CASE ~ Corrupt /\ (TerminateOther \/ TerminateSelf)
  BY <1>2, SemaDie
<1>3. CASE ~ Corrupt /\ \/ Start \/ TimerInterrupt \/ InterruptReturn \/ TerminateChild
                        \/ DeviceInterrupt
                        \/ \E pid \in Pcb : TerminateProcess(pid)
                        \/ \E d \in Dev : DeviceCompletes(d)
  <2>1. procQ' = procQ /\ sem' = sem /\ UNCHANGED <<original_priority, pcbFree_h>>
    BY <1>3 DEF Start, TimerInterrupt, InterruptReturn, TerminateChild, DeviceInterrupt,
                TerminateProcess, DeviceCompletes, schedVars, bqVars, treeVars
  <2> QED
    BY <1>3, <2>1, SemaQuiet
<1>4. CASE ~ Corrupt /\ PollDevice
  <2> DEFINE d == NextPolled
  <2>1. /\ poll /= {} /\ pcbFree_h' = pcbFree_h
        /\ verhogen(d) \/ UNCHANGED <<schedVars, bqVars, sem>>
    BY <1>4 DEF PollDevice, treeVars
  <2>2. d \in Key
    BY <2>1, NextIsPolled, Typed, NucleusAssumption DEF IInv
  <2> HIDE DEF d
  <2>3. CASE verhogen(d)
    BY <1>4, <2>1, <2>2, <2>3, SemaV
  <2>4. CASE UNCHANGED <<schedVars, bqVars, sem>>
    BY <1>4, <2>1, <2>4, SemaQuiet DEF schedVars, bqVars
  <2> QED
    BY <2>1, <2>3, <2>4
<1>5. CASE ~ Corrupt /\ \E prio \in Priorities : CreateProcess(prio)
  BY <1>5, SemaBorn
<1>6. CASE ~ Corrupt /\ \E k \in Sem : Verhogen(k)
  BY <1>6, SemaV, NucleusAssumption DEF Verhogen, treeVars
<1>7. CASE ~ Corrupt /\ ((\E k \in Sem : Passeren(k)) \/ (\E d \in Dev : DoIO(d)))
  BY <1>7, SemaP, NucleusAssumption DEF Passeren, DoIO, Running, treeVars
<1>8. CASE ~ Corrupt /\ \E k \in Raw, v \in InitVals \cup {0} : Assign(k, v)
  <2>1. PICK k \in Raw, v \in InitVals \cup {0} : Assign(k, v)
    BY <1>8
  <2>2. /\ k \in Key /\ k \notin Counted /\ procQ' = procQ
        /\ \A j \in Key \ {k} : sem'[j] = sem[j]
        /\ UNCHANGED <<original_priority, pcbFree_h, ready>>
    BY <2>1, Typed, NucleusAssumption
       DEF Assign, bqVars, schedVars, treeVars, IInv, Counted
  <2>3. SemValue' = SemValue /\ SemWaiting' = SemWaiting /\ Living' = Living
        /\ Corrupt' = Corrupt
    BY <2>2, ValueMoves DEF SemWaiting, Living, Corrupt
  <2> QED
    BY <2>2, <2>3 DEF SemaStep, Sema!semVars
<1> QED
  BY <1>1, <1>2, <1>3, <1>4, <1>5, <1>6, <1>7, <1>8 DEF Next, KernelStep

(***************************************************************************)
(* The kernel keeps what it promises of semaphores (Semaphores): the value *)
(* of one, those blocked there and who lives change together in every      *)
(* step, whichever of verhogen, passeren, do_io, int_handler and           *)
(* terminate_process it is of, and V wakes one of highest priority.        *)
(***************************************************************************)
THEOREM KernelKeepsSemaphores == Spec => SemaphoresSpec
<1>1. Init => Sema!SemInit
  <2> SUFFICES ASSUME Init PROVE Sema!SemInit
    OBVIOUS
  <2>1. procQ = [k \in Key |-> <<>>] /\ sem \in [Key -> Nat]
    <3>1. InitVals \cup {0} \subseteq Nat
      BY NucleusAssumption
    <3> QED
      BY <3>1 DEF Init, initASL
  <2>2. SemWaiting = [k \in Counted |-> {}]
    <3>1. <<>> \in Seq(Pcb)
      OBVIOUS
    <3>2. Elems(<<>>) = {}
      BY <3>1, EmptyElems
    <3> QED
      BY <2>1, <3>2 DEF SemWaiting, Counted
  <2>3. SemValue \in [Counted -> Nat]
    BY <2>1 DEF SemValue, Counted
  <2>4. ~ Corrupt
    BY InitInv
  <2> QED
    BY <2>2, <2>3, <2>4 DEF Sema!SemInit
<1>2. IInv /\ [Next]_vars => [Sema!SemNext]_Sema!semVars
  BY SemaNext DEF SemaStep
<1> QED
  BY <1>1, <1>2, KernelInv, PTL DEF Spec, SemaphoresSpec, Sema!SemSpec
=============================================================================
