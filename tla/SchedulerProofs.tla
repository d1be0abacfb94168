-------------------------- MODULE SchedulerProofs --------------------------
(***************************************************************************)
(* SchedInv is an invariant of the scheduler for every MAXPROC and every   *)
(* set of priorities; PriorityBound, which TLC checks on three pcbs,       *)
(* follows.                                                                *)
(***************************************************************************)
EXTENDS Scheduler, ProcQProofs

\* The queue-and-priorities part of SchedInv, for any queue.
QueueOK(q, prio) ==
  /\ q \in Seq(Pcb) /\ NoDup(q) /\ Sorted(q, prio) /\ Bounded(q, prio)
  /\ \A p \in Elems(q) : prio[p] >= original_priority[p]

\* NULL is no pcb.
LEMMA NullNotPcb == NULL \notin Pcb
BY MAXPROCAssumption DEF NULL, Pcb

\* Linking one more process whose priority is at most MaxPrio keeps the bound: all it
\* pushes back have a lower priority than it.
LEMMA InsertBounded ==
  ASSUME NEW q \in Seq(Pcb), NEW prio \in [Pcb -> Int], NEW p \in Pcb,
         NoDup(q), Sorted(q, prio), Bounded(q, prio), p \notin Elems(q),
         prio[p] <= MaxPrio
  PROVE  Bounded(insertProcQ(q, prio, p), prio)
<1> DEFINE i == InsertPos(q, prio, p)
           r == insertProcQ(q, prio, p)
<1>1. /\ i \in 1..Len(q) + 1
      /\ i <= Len(q) => prio[p] > prio[q[i]]
  BY InsertPosProp
<1>2. /\ r \in Seq(Pcb) /\ Len(r) = Len(q) + 1
      /\ \A j \in 1..Len(q) + 1 :
           r[j] = IF j < i THEN q[j] ELSE IF j = i THEN p ELSE q[j - 1]
  BY InsertShape
<1>3. Len(q) \in Nat /\ Len(q) + 1 <= MAXPROC /\ MAXPROC \in Nat
  BY <1>2, InsertNoDup, LenBound, LenProperties, MAXPROCAssumption
<1>4. MaxPrio \in Int /\ \A k \in 1..Len(q) : prio[q[k]] \in Int
  BY ElementOfSeq, PrioritiesAssumption
<1>5. prio[p] \in Int
  OBVIOUS
<1> HIDE DEF i, r
<1>6. ASSUME NEW j \in 1..Len(r)
      PROVE  prio[r[j]] <= MaxPrio + MAXPROC - j
  <2>1. CASE j < i
    <3>1. r[j] = q[j] /\ j \in 1..Len(q)
      BY <1>1, <1>2, <1>3, <2>1
    <3> QED
      BY <3>1 DEF Bounded
  <2>2. CASE j = i
    <3>1. prio[r[j]] <= MaxPrio /\ j <= MAXPROC
      BY <1>1, <1>2, <1>3, <2>2
    <3> QED
      BY <3>1, <1>2, <1>3, <1>4, <1>5, <2>2
  <2>3. CASE j > i
    <3>1. r[j] = q[j - 1] /\ j - 1 \in 1..Len(q) /\ i \in 1..Len(q) /\ i <= j - 1
      BY <1>1, <1>2, <1>3, <2>3
    <3>2. prio[q[i]] >= prio[q[j - 1]]
      <4>1. CASE i = j - 1
        BY <4>1, <3>1, <1>4
      <4>2. CASE i < j - 1
        BY <4>2, <3>1 DEF Sorted
      <4> QED
        BY <3>1, <4>1, <4>2
    <3>3. prio[q[j - 1]] < MaxPrio
      BY <3>1, <3>2, <1>1, <1>4, <1>5
    <3>4. j <= MAXPROC
      BY <1>2, <1>3
    <3> QED
      BY <3>1, <3>3, <3>4, <1>3, <1>4
  <2> QED
    BY <1>1, <1>2, <1>3, <2>1, <2>2, <2>3
<1> QED
  BY <1>6 DEF Bounded, r

\* Inserting an unlinked process that has its original priority keeps QueueOK.
LEMMA InsertQueueOK ==
  ASSUME NEW q, NEW prio \in [Pcb -> Int], NEW p \in Pcb,
         QueueOK(q, prio), p \notin Elems(q),
         prio[p] <= MaxPrio, prio[p] >= original_priority[p]
  PROVE  /\ QueueOK(insertProcQ(q, prio, p), prio)
         /\ Elems(insertProcQ(q, prio, p)) = Elems(q) \cup {p}
         /\ insertProcQ(q, prio, p) /= <<>>
<1>1. q \in Seq(Pcb) /\ NoDup(q) /\ Sorted(q, prio) /\ Bounded(q, prio)
  BY DEF QueueOK
<1>2. Elems(insertProcQ(q, prio, p)) = Elems(q) \cup {p}
  BY <1>1, InsertElems
<1>3. /\ insertProcQ(q, prio, p) \in Seq(Pcb)
      /\ Len(insertProcQ(q, prio, p)) = Len(q) + 1
      /\ Len(q) \in Nat
  BY <1>1, InsertShape, LenProperties
<1>4. insertProcQ(q, prio, p) /= <<>>
  BY <1>3, EmptySeq
<1>5. /\ NoDup(insertProcQ(q, prio, p))
      /\ Sorted(insertProcQ(q, prio, p), prio)
      /\ Bounded(insertProcQ(q, prio, p), prio)
  BY <1>1, InsertNoDup, InsertSorted, InsertBounded
<1>6. \A x \in Elems(insertProcQ(q, prio, p)) : prio[x] >= original_priority[x]
  BY <1>2 DEF QueueOK
<1> QED
  BY <1>2, <1>3, <1>4, <1>5, <1>6 DEF QueueOK

\* SchedInv, as the fact about one queue that the lemmas speak of.
LEMMA SchedInvQueue ==
  SchedInv <=> /\ SchedTypeOK /\ OriginalBound
               /\ QueueOK(ready, priority) /\ current \notin Elems(ready)
               /\ current /= NULL => priority[current] = original_priority[current]
BY DEF SchedInv, SchedTypeOK, ReadyOnce, ReadySorted, AgedUp, PriorityBound, QueueOK

\* scheduler(), called with or without a current process, establishes SchedInv again:
\* the head of the queue gets its own priority back, the others move up one place and
\* gain one.
LEMMA SchedulerPreserves ==
  ASSUME SchedTypeOK, OriginalBound, UNCHANGED original_priority,
         NEW cur \in Pcb \cup {NULL}, NEW q, QueueOK(q, priority),
         cur /= NULL => cur \notin Elems(q) /\ priority[cur] = original_priority[cur],
         scheduler(cur, q)
  PROVE  SchedInv'
<1> DEFINE rq == IF cur = NULL THEN q ELSE insertProcQ(q, priority, cur)
<1>1. /\ priority \in [Pcb -> Int] /\ original_priority \in [Pcb -> Int]
      /\ \A p \in Pcb : original_priority[p] <= MaxPrio
  BY DEF SchedTypeOK, OriginalBound
<1>2. MaxPrio \in Int /\ MAXPROC \in Nat
  BY PrioritiesAssumption, MAXPROCAssumption
<1>3. QueueOK(rq, priority)
  <2>1. CASE cur = NULL
    BY <2>1
  <2>2. CASE cur /= NULL
    <3>1. cur \in Pcb /\ priority[cur] <= MaxPrio /\ priority[cur] >= original_priority[cur]
      BY <1>1, <2>2
    <3> QED
      BY <3>1, <1>1, <2>2, InsertQueueOK
  <2> QED
    BY <2>1, <2>2
<1>4. IF rq = <<>>
      THEN current' = NULL /\ ready' = rq /\ priority' = priority
      ELSE /\ current' = headProcQ(rq)
           /\ ready' = removeProcQ(rq)
           /\ priority' = aging(removeProcQ(rq), resetPriority(headProcQ(rq)))
  BY DEF scheduler, emptyProcQ
<1> HIDE DEF rq
<1>5. CASE rq = <<>>
  <2>1. Elems(rq) = {}
    BY <1>5 DEF Elems
  <2>2. /\ ready' = rq /\ current' = NULL /\ priority' = priority
        /\ rq \in Seq(Pcb)
    BY <1>3, <1>4, <1>5 DEF QueueOK
  <2>3. SchedTypeOK' /\ OriginalBound'
    BY <1>1, <2>2 DEF SchedTypeOK, OriginalBound
  <2>4. /\ QueueOK(ready, priority)' /\ (current \notin Elems(ready))'
        /\ (current /= NULL => priority[current] = original_priority[current])'
    BY <1>3, <2>1, <2>2 DEF QueueOK
  <2> QED
    BY <2>3, <2>4, SchedInvQueue, PTL
<1>6. CASE rq /= <<>>
  <2> DEFINE h == rq[1]
             r == removeProcQ(rq)
  <2>1. /\ rq \in Seq(Pcb) /\ NoDup(rq) /\ Sorted(rq, priority) /\ Bounded(rq, priority)
        /\ \A p \in Elems(rq) : priority[p] >= original_priority[p]
    BY <1>3 DEF QueueOK
  <2>2. /\ r \in Seq(Pcb) /\ Len(r) = Len(rq) - 1 /\ Len(r) \in Nat
        /\ \A i \in 1..Len(r) : r[i] = rq[i + 1]
        /\ headProcQ(rq) = h /\ h \in Pcb
        /\ Elems(r) = Elems(rq) \ {h}
        /\ NoDup(r) /\ Sorted(r, priority)
    BY <1>1, <1>6, <2>1, RemoveProp, LenProperties
  <2>3. /\ current' = h /\ ready' = r /\ original_priority' = original_priority
        /\ priority' = aging(r, resetPriority(h))
    BY <1>4, <1>6, <2>2
  <2> HIDE DEF r, h
  <2>4. /\ h \notin Elems(r)
        /\ \A i \in 1..Len(r) : r[i] \in Pcb /\ r[i] \in Elems(r)
    <3>1. \A i \in 1..Len(r) : r[i] \in Elems(r)
      BY DEF Elems
    <3> QED
      BY <2>2, <3>1, ElementOfSeq
  <2>5. /\ priority' \in [Pcb -> Int]
        /\ priority'[h] = original_priority[h]
        /\ \A p \in Pcb : p \in Elems(r) => priority'[p] = priority[p] + 1
    BY <1>1, <2>2, <2>3, <2>4 DEF aging, resetPriority
  <2>6. SchedTypeOK' /\ OriginalBound'
    BY <1>1, <2>2, <2>3, <2>5 DEF SchedTypeOK, OriginalBound
  <2>7. Sorted(r, priority')
    <3> SUFFICES ASSUME NEW i \in 1..Len(r), NEW j \in 1..Len(r), i < j
                 PROVE  priority'[r[i]] >= priority'[r[j]]
      BY DEF Sorted
    <3>1. priority[r[i]] >= priority[r[j]]
      BY <2>2 DEF Sorted
    <3>2. priority'[r[i]] = priority[r[i]] + 1 /\ priority'[r[j]] = priority[r[j]] + 1
      BY <2>4, <2>5
    <3>3. priority[r[i]] \in Int /\ priority[r[j]] \in Int
      BY <1>1, <2>4
    <3> QED
      BY <3>1, <3>2, <3>3
  <2>8. Bounded(r, priority')
    <3> SUFFICES ASSUME NEW i \in 1..Len(r)
                 PROVE  priority'[r[i]] <= MaxPrio + MAXPROC - i
      BY DEF Bounded
    <3>1. priority'[r[i]] = priority[rq[i + 1]] + 1 /\ priority[rq[i + 1]] \in Int
      BY <1>1, <2>2, <2>4, <2>5
    <3>2. i + 1 \in 1..Len(rq)
      BY <2>1, <2>2, LenProperties
    <3>3. priority[rq[i + 1]] <= MaxPrio + MAXPROC - (i + 1)
      BY <2>1, <3>2 DEF Bounded
    <3> QED
      BY <1>2, <3>1, <3>3
  <2>9. \A p \in Elems(r) : priority'[p] >= original_priority[p]
    <3> SUFFICES ASSUME NEW p \in Elems(r)
                 PROVE  priority'[p] >= original_priority[p]
      OBVIOUS
    <3>1. p \in Pcb /\ priority[p] >= original_priority[p]
      BY <2>1, <2>2, <2>4 DEF Elems
    <3>2. priority'[p] = priority[p] + 1 /\ priority[p] \in Int /\ original_priority[p] \in Int
      BY <1>1, <2>5, <3>1
    <3> QED
      BY <3>1, <3>2
  <2>10. /\ QueueOK(ready, priority)'
         /\ (current \notin Elems(ready))'
         /\ (current /= NULL => priority[current] = original_priority[current])'
    BY <2>2, <2>3, <2>4, <2>5, <2>7, <2>8, <2>9 DEF QueueOK
  <2> QED
    BY <2>6, <2>10, SchedInvQueue, PTL
<1> QED
  BY <1>5, <1>6

-----------------------------------------------------------------------------
\* main leaves the queue with one process, which has the default priority.
LEMMA SchedInitInv == SchedInit => SchedInv
<1> SUFFICES ASSUME NEW root \in Pcb, initProcess(root)
             PROVE  SchedInv
  BY DEF SchedInit
<1>1. /\ MaxPrio \in Int /\ MAXPROC \in Nat \ {0}
      /\ DEFAULT_PRIORITY \in Int /\ DEFAULT_PRIORITY <= MaxPrio /\ 0 <= MaxPrio
  BY PrioritiesAssumption, MAXPROCAssumption
<1>2. /\ current = NULL /\ ready = <<root>> /\ priority = original_priority
      /\ original_priority = [p \in Pcb |-> IF p = root THEN DEFAULT_PRIORITY ELSE 0]
  BY DEF initProcess
<1>3. /\ ready \in Seq(Pcb) /\ Len(ready) = 1 /\ ready[1] = root
  BY <1>2
<1>4. Elems(ready) = {root}
  BY <1>3 DEF Elems
<1>5. original_priority \in [Pcb -> Int] /\ OriginalBound
  BY <1>1, <1>2 DEF OriginalBound
<1>6. SchedTypeOK
  BY <1>2, <1>3, <1>5 DEF SchedTypeOK
<1>7. ReadyOnce
  BY <1>2, <1>3, <1>4, NullNotPcb DEF ReadyOnce, NoDup
<1>8. ReadySorted
  BY <1>3 DEF ReadySorted, Sorted
<1>9. AgedUp
  BY <1>2, <1>4, <1>5 DEF AgedUp
<1>10. PriorityBound
  BY <1>1, <1>2, <1>3, <1>5 DEF PriorityBound, Bounded
<1> QED
  BY <1>5, <1>6, <1>7, <1>8, <1>9, <1>10 DEF SchedInv

\* Every step of the scheduler, or of the kernel on its variables, keeps SchedInv.
LEMMA SchedStepInv == SchedInv /\ [SchedNext]_schedVars => SchedInv'
<1> SUFFICES ASSUME SchedInv, [SchedNext]_schedVars
             PROVE  SchedInv'
  OBVIOUS
<1>1. /\ SchedTypeOK /\ OriginalBound
      /\ QueueOK(ready, priority) /\ current \notin Elems(ready)
      /\ current /= NULL => priority[current] = original_priority[current]
  BY SchedInvQueue
<1>2. /\ current \in Pcb \cup {NULL} /\ ready \in Seq(Pcb)
      /\ priority \in [Pcb -> Int] /\ original_priority \in [Pcb -> Int]
      /\ \A p \in Pcb : original_priority[p] <= MaxPrio
  BY <1>1 DEF SchedTypeOK, OriginalBound
<1>3. CASE TimeSlice
  BY <1>1, <1>2, <1>3, SchedulerPreserves DEF TimeSlice
<1>4. CASE Stop
  BY <1>1, <1>2, <1>4, SchedulerPreserves DEF Stop
<1>5. ASSUME NEW p \in Pcb, Wake(p)
      PROVE  SchedInv'
  <2>1. /\ p /= current /\ p \notin Elems(ready)
        /\ priority[p] = original_priority[p]
        /\ ready' = insertProcQ(ready, priority, p)
        /\ current' = current /\ priority' = priority
        /\ original_priority' = original_priority
    BY <1>5 DEF Wake
  <2>2. priority[p] <= MaxPrio /\ priority[p] >= original_priority[p]
    BY <1>2, <2>1
  <2>3. QueueOK(ready', priority) /\ Elems(ready') = Elems(ready) \cup {p}
    BY <1>1, <1>2, <2>1, <2>2, InsertQueueOK
  <2>4. /\ QueueOK(ready, priority)' /\ (current \notin Elems(ready))'
        /\ (current /= NULL => priority[current] = original_priority[current])'
    BY <1>1, <2>1, <2>3 DEF QueueOK
  <2>5. SchedTypeOK' /\ OriginalBound'
    BY <1>2, <2>1, <2>3 DEF SchedTypeOK, OriginalBound, QueueOK
  <2> QED
    BY <2>4, <2>5, SchedInvQueue, PTL
<1>6. ASSUME NEW p \in Pcb, NEW prio \in Priorities, Create(p, prio)
      PROVE  SchedInv'
  <2>1. /\ p /= current /\ p \notin Elems(ready) /\ current' = current
        /\ original_priority' = [original_priority EXCEPT ![p] = prio]
        /\ priority' = [priority EXCEPT ![p] = prio]
        /\ ready' = insertProcQ(ready, priority', p)
    BY <1>6 DEF Create, setPriority
  <2>2. prio \in Int /\ prio <= MaxPrio
    BY PrioritiesAssumption
  <2>3. /\ priority' \in [Pcb -> Int] /\ original_priority' \in [Pcb -> Int]
        /\ priority'[p] = prio /\ original_priority'[p] = prio
        /\ \A x \in Pcb : x /= p => /\ priority'[x] = priority[x]
                                    /\ original_priority'[x] = original_priority[x]
    BY <1>2, <2>1, <2>2
  <2>4. \A i \in 1..Len(ready) : ready[i] \in Pcb /\ ready[i] /= p
    BY <1>2, <2>1, ElementOfSeq DEF Elems
  <2>5. /\ NoDup(ready) /\ Sorted(ready, priority') /\ Bounded(ready, priority')
        /\ \A x \in Elems(ready) : priority'[x] >= original_priority'[x]
    <3>1. Sorted(ready, priority')
      BY <1>1, <2>3, <2>4 DEF QueueOK, Sorted
    <3>2. Bounded(ready, priority')
      BY <1>1, <2>3, <2>4 DEF QueueOK, Bounded
    <3>3. \A x \in Elems(ready) : x \in Pcb /\ x /= p
      BY <2>4 DEF Elems
    <3>4. NoDup(ready) /\ \A x \in Elems(ready) : priority[x] >= original_priority[x]
      BY <1>1 DEF QueueOK
    <3> QED
      BY <2>3, <3>1, <3>2, <3>3, <3>4
  <2>6. /\ Elems(ready') = Elems(ready) \cup {p} /\ ready' \in Seq(Pcb)
        /\ NoDup(ready') /\ Sorted(ready', priority') /\ Bounded(ready', priority')
    <3>1. priority'[p] <= MaxPrio
      BY <2>2, <2>3
    <3> QED
      BY <1>2, <2>1, <2>3, <2>5, <3>1, InsertElems, InsertShape, InsertNoDup, InsertSorted,
         InsertBounded
  <2>7. \A x \in Elems(ready') : priority'[x] >= original_priority'[x]
    BY <2>2, <2>3, <2>5, <2>6
  <2>8. /\ QueueOK(ready, priority)' /\ (current \notin Elems(ready))'
        /\ (current /= NULL => priority[current] = original_priority[current])'
    BY <1>1, <1>2, <2>1, <2>3, <2>6, <2>7 DEF QueueOK
  <2>9. SchedTypeOK' /\ OriginalBound'
    BY <1>2, <2>1, <2>2, <2>3, <2>6 DEF SchedTypeOK, OriginalBound
  <2> QED
    BY <2>8, <2>9, SchedInvQueue, PTL
<1>7. ASSUME NEW p \in Pcb, Kill(p)
      PROVE  SchedInv'
  <2>1. /\ p \in Elems(ready) /\ ready' = outProcQ(ready, p)
        /\ current' = current /\ priority' = priority
        /\ original_priority' = original_priority
    BY <1>7 DEF Kill
  <2>2. /\ ready' \in Seq(Pcb) /\ Len(ready') = Len(ready) - 1
        /\ \A i \in 1..Len(ready') : ready'[i] \in {ready[i], ready[i + 1]}
        /\ Elems(ready') = Elems(ready) \ {p}
        /\ NoDup(ready') /\ Sorted(ready', priority)
    BY <1>1, <1>2, <2>1, OutProp DEF QueueOK
  <2>3. Bounded(ready', priority)
    <3> SUFFICES ASSUME NEW i \in 1..Len(ready')
                 PROVE  priority[ready'[i]] <= MaxPrio + MAXPROC - i
      BY DEF Bounded
    <3>1. Len(ready) \in Nat /\ i \in 1..Len(ready) /\ i + 1 \in 1..Len(ready)
      <4>1. Len(ready) \in Nat
        BY <1>2, LenProperties
      <4>2. i \in 1..Len(ready) - 1
        BY <2>2
      <4> QED
        BY <4>1, <4>2
    <3>2. /\ priority[ready[i]] <= MaxPrio + MAXPROC - i
          /\ priority[ready[i + 1]] <= MaxPrio + MAXPROC - (i + 1)
      BY <1>1, <3>1 DEF QueueOK, Bounded
    <3>3. /\ MaxPrio \in Int /\ MAXPROC \in Nat
          /\ priority[ready[i]] \in Int /\ priority[ready[i + 1]] \in Int
      BY <1>2, <3>1, ElementOfSeq, PrioritiesAssumption, MAXPROCAssumption
    <3> QED
      BY <2>2, <3>2, <3>3
  <2>4. /\ QueueOK(ready, priority)' /\ (current \notin Elems(ready))'
        /\ (current /= NULL => priority[current] = original_priority[current])'
    BY <1>1, <2>1, <2>2, <2>3 DEF QueueOK
  <2>5. SchedTypeOK' /\ OriginalBound'
    BY <1>2, <2>1, <2>2 DEF SchedTypeOK, OriginalBound
  <2> QED
    BY <2>4, <2>5, SchedInvQueue, PTL
<1>8. CASE UNCHANGED schedVars
  BY <1>8 DEF schedVars, SchedInv, SchedTypeOK, ReadyOnce, ReadySorted, AgedUp, OriginalBound,
              PriorityBound, Bounded, NoDup, Sorted, Elems
<1> QED
  BY <1>3, <1>4, <1>5, <1>6, <1>7, <1>8 DEF SchedNext

(***************************************************************************)
(* The scheduler's queue is well formed and its priorities stay bounded,   *)
(* whatever the rest of the kernel does: head_rd is ordered, holds no      *)
(* process twice and never the running one (scheduler.c, verhogen,         *)
(* create_process, terminate_process).                                     *)
(***************************************************************************)
THEOREM SchedInvariant == SchedSpec => []SchedInv
<1>1. SchedInit => SchedInv
  BY SchedInitInv
<1>2. SchedInv /\ [SchedNext]_schedVars => SchedInv'
  BY SchedStepInv
<1> QED
  BY <1>1, <1>2, PTL DEF SchedSpec

(***************************************************************************)
(* Aging is bounded: no process is passed over more than                   *)
(* MaxPrio + MAXPROC - 1 minus its own priority times, and the int field   *)
(* of the pcb overflows only if MaxPrio + MAXPROC - 1 does.                *)
(***************************************************************************)
THEOREM PriorityBounded == SchedSpec => []PriorityBound
<1>1. SchedInv => PriorityBound
  BY DEF SchedInv
<1> QED
  BY <1>1, SchedInvariant, PTL

-----------------------------------------------------------------------------
\* A process that insertProcQ links lies behind all of at least its own priority, and its
\* place is the only one that holds it.
LEMMA InsertBehindEquals ==
  ASSUME NEW q \in Seq(Pcb), NEW prio \in [Pcb -> Int], NEW p \in Pcb,
         Sorted(q, prio), p \notin Elems(q),
         NEW x \in Elems(q), prio[x] >= prio[p],
         NEW j \in 1..Len(q) + 1, insertProcQ(q, prio, p)[j] = p
  PROVE  \E k \in 1..j - 1 : insertProcQ(q, prio, p)[k] = x
<1> DEFINE i == InsertPos(q, prio, p)
           r == insertProcQ(q, prio, p)
<1>1. /\ i \in 1..Len(q) + 1 /\ Len(q) \in Nat
      /\ i <= Len(q) => prio[p] > prio[q[i]]
  BY InsertPosProp, LenProperties
<1>2. \A k \in 1..Len(q) + 1 :
        r[k] = IF k < i THEN q[k] ELSE IF k = i THEN p ELSE q[k - 1]
  BY InsertShape
<1>3. r[j] = p
  OBVIOUS
<1> HIDE DEF i, r
<1>4. PICK k \in 1..Len(q) : q[k] = x
  BY DEF Elems
<1>5. \A m \in 1..Len(q) : q[m] /= p /\ prio[q[m]] \in Int
  BY ElementOfSeq DEF Elems
<1>6. j = i
  <2>1. CASE j < i
    BY <2>1, <1>1, <1>2, <1>3, <1>5
  <2>2. CASE j > i
    <3>1. r[j] = q[j - 1] /\ j - 1 \in 1..Len(q)
      BY <2>2, <1>1, <1>2
    <3> QED
      BY <3>1, <1>3, <1>5
  <2> QED
    BY <2>1, <2>2, <1>1
<1>7. k < i
  <2> SUFFICES ASSUME i <= k
               PROVE  FALSE
    BY <1>1
  <2>1. i \in 1..Len(q) /\ prio[p] > prio[q[i]]
    BY <1>1
  <2>2. prio[q[i]] >= prio[q[k]]
    BY <2>1, <1>5 DEF Sorted
  <2> QED
    BY <2>1, <2>2, <1>4, <1>5
<1>8. k \in 1..j - 1 /\ r[k] = x
  BY <1>1, <1>2, <1>4, <1>6, <1>7
<1> QED
  BY <1>8 DEF r

\* Every step keeps the turn of those that have been waiting.  A step that leaves the
\* running process out of the ready queue has nothing to show.
LEMMA RoundRobinStep == SchedInv /\ [SchedNext]_schedVars => [BehindEquals]_schedVars
<1> SUFFICES ASSUME SchedInv, SchedNext
             PROVE  BehindEquals
  OBVIOUS
<1>1. /\ current \in Pcb \cup {NULL} /\ ready \in Seq(Pcb) /\ priority \in [Pcb -> Int]
      /\ NoDup(ready) /\ Sorted(ready, priority) /\ current \notin Elems(ready)
  BY DEF SchedInv, SchedTypeOK, ReadyOnce, ReadySorted
<1>2. ASSUME current \notin Elems(ready')
      PROVE  BehindEquals
  BY <1>2 DEF BehindEquals, Elems
<1>3. CASE TimeSlice /\ current /= NULL
  <2> DEFINE rq == insertProcQ(ready, priority, current)
  <2>1. current \in Pcb
    BY <1>1, <1>3
  <2>2. rq \in Seq(Pcb) /\ Len(rq) = Len(ready) + 1 /\ Len(ready) \in Nat
    BY <1>1, <2>1, InsertShape, LenProperties
  <2>3. rq /= <<>> /\ NoDup(rq) /\ Sorted(rq, priority)
    BY <1>1, <2>1, <2>2, InsertNoDup, InsertSorted, EmptySeq
  <2>4. current' = headProcQ(rq) /\ ready' = removeProcQ(rq)
    BY <1>3, <2>3 DEF TimeSlice, scheduler, emptyProcQ
  <2>5. /\ Len(ready') = Len(ready) /\ current' = rq[1]
        /\ \A k \in 1..Len(ready) : ready'[k] = rq[k + 1]
    <3>1. LET t == removeProcQ(rq)
          IN  /\ Len(t) = Len(rq) - 1
              /\ \A k \in 1..Len(t) : t[k] = rq[k + 1]
              /\ headProcQ(rq) = rq[1]
      BY <1>1, <2>2, <2>3, RemoveProp
    <3> QED
      BY <3>1, <2>2, <2>4
  <2>6. SUFFICES ASSUME NEW j \in 1..Len(ready'), ready'[j] = current,
                        NEW p \in Elems(ready) \ {current'}, priority[p] >= priority[current]
                 PROVE  \E i \in 1..j - 1 : ready'[i] = p
    BY DEF BehindEquals
  <2>7. j + 1 \in 1..Len(ready) + 1 /\ rq[j + 1] = current
    BY <2>2, <2>5, <2>6
  <2>8. PICK k \in 1..(j + 1) - 1 : rq[k] = p
    BY <1>1, <2>1, <2>6, <2>7, InsertBehindEquals
  <2>9. k /= 1
    BY <2>5, <2>6, <2>8
  <2>10. k - 1 \in 1..j - 1 /\ ready'[k - 1] = p
    BY <2>2, <2>5, <2>6, <2>8, <2>9
  <2> QED
    BY <2>10
<1>4. CASE TimeSlice /\ current = NULL
  BY <1>4 DEF BehindEquals
<1>5. CASE Stop
  <2>1. ready = <<>> => ready' = ready
    BY <1>5 DEF Stop, scheduler, emptyProcQ
  <2>2. ready /= <<>> => Elems(ready') \subseteq Elems(ready)
    <3> SUFFICES ASSUME ready /= <<>>
                 PROVE  Elems(ready') \subseteq Elems(ready)
      OBVIOUS
    <3>1. ready' = removeProcQ(ready)
      BY <1>5 DEF Stop, scheduler, emptyProcQ
    <3>2. Elems(removeProcQ(ready)) = Elems(ready) \ {ready[1]}
      BY <1>1, RemoveProp
    <3> QED
      BY <3>1, <3>2
  <2> QED
    BY <1>1, <1>2, <2>1, <2>2
<1>6. ASSUME NEW p \in Pcb, Wake(p)
      PROVE  BehindEquals
  <2>1. p /= current /\ Elems(ready') = Elems(ready) \cup {p}
    BY <1>1, <1>6, InsertElems DEF Wake
  <2> QED
    BY <1>1, <1>2, <2>1
<1>7. ASSUME NEW p \in Pcb, NEW prio \in Priorities, Create(p, prio)
      PROVE  BehindEquals
  <2>1. priority' \in [Pcb -> Int]
    BY <1>1, <1>7, PrioritiesAssumption DEF Create, setPriority
  <2>2. p /= current /\ Elems(ready') = Elems(ready) \cup {p}
    BY <1>1, <1>7, <2>1, InsertElems DEF Create
  <2> QED
    BY <1>1, <1>2, <2>2
<1>8. ASSUME NEW p \in Pcb, Kill(p)
      PROVE  BehindEquals
  <2>1. Elems(ready') = Elems(ready) \ {p}
    BY <1>1, <1>8, OutProp DEF Kill
  <2> QED
    BY <1>1, <1>2, <2>1
<1> QED
  BY <1>3, <1>4, <1>5, <1>6, <1>7, <1>8 DEF SchedNext

(***************************************************************************)
(* The time slice is a round robin among equals for any number of          *)
(* processes: scheduler() never puts the process it preempts before one    *)
(* of at least its priority (scheduler.c:26, pcb.c:134).                   *)
(***************************************************************************)
THEOREM RoundRobinHolds == SchedSpec => RoundRobin
<1>1. SchedInv /\ [SchedNext]_schedVars => [BehindEquals]_schedVars
  BY RoundRobinStep
<1> QED
  BY <1>1, SchedInvariant, PTL DEF SchedSpec, RoundRobin
-----------------------------------------------------------------------------
(***************************************************************************)
(* Aging: the turn of every process in the ready queue comes closer.       *)
(***************************************************************************)
\* A queue without duplicates holds each of its processes at one place.
LEMMA PlaceProp ==
  ASSUME NEW q \in Seq(Pcb), NoDup(q), NEW p \in Elems(q)
  PROVE  /\ Place(q, p) \in 1..Len(q) /\ q[Place(q, p)] = p
         /\ \A i \in 1..Len(q) : q[i] = p => Place(q, p) = i
<1>1. \E i \in 1..Len(q) : q[i] = p
  BY DEF Elems
<1>2. Place(q, p) \in 1..Len(q) /\ q[Place(q, p)] = p
  BY <1>1 DEF Place
<1> QED
  BY <1>2 DEF NoDup

\* Turns left are counted from MAXPROC + 1 upwards as long as aging has to bring the
\* process up, and with its place, at most MAXPROC, from then on.
LEMMA TurnsLeftProp ==
  ASSUME NEW q \in Seq(Pcb), NoDup(q), NEW prio \in [Pcb -> Int], NEW p \in Elems(q)
  PROVE  /\ prio[p] \in Int /\ MaxPrio \in Int /\ MAXPROC \in Nat
         /\ Place(q, p) \in 1..MAXPROC
         /\ prio[p] < MaxPrio => TurnsLeft(q, prio, p) = MAXPROC + MaxPrio - prio[p]
         /\ prio[p] >= MaxPrio => TurnsLeft(q, prio, p) = Place(q, p)
         /\ TurnsLeft(q, prio, p) \in Nat \ {0}
<1>1. p \in Pcb
  BY ElementOfSeq DEF Elems
<1>2. prio[p] \in Int /\ MaxPrio \in Int /\ MAXPROC \in Nat
  BY <1>1, PrioritiesAssumption, MAXPROCAssumption
<1>3. Place(q, p) \in 1..MAXPROC
  BY <1>2, PlaceProp, LenBound
<1> QED
  BY <1>2, <1>3 DEF TurnsLeft

\* Nobody is linked before a process of at least its priority: its place stays.
LEMMA InsertKeepsPlace ==
  ASSUME NEW q \in Seq(Pcb), NEW prio \in [Pcb -> Int], NEW p \in Pcb,
         NoDup(q), Sorted(q, prio), p \notin Elems(q),
         NEW x \in Elems(q), prio[x] >= prio[p]
  PROVE  Place(insertProcQ(q, prio, p), x) = Place(q, x)
<1> DEFINE i == InsertPos(q, prio, p)
           r == insertProcQ(q, prio, p)
           k == Place(q, x)
<1>1. /\ i \in 1..Len(q) + 1 /\ Len(q) \in Nat
      /\ i <= Len(q) => prio[p] > prio[q[i]]
  BY InsertPosProp, LenProperties
<1>2. /\ r \in Seq(Pcb) /\ Len(r) = Len(q) + 1
      /\ \A j \in 1..Len(q) + 1 :
           r[j] = IF j < i THEN q[j] ELSE IF j = i THEN p ELSE q[j - 1]
  BY InsertShape
<1>3. k \in 1..Len(q) /\ q[k] = x
  BY PlaceProp
<1>4. NoDup(r) /\ x \in Elems(r)
  BY InsertNoDup, InsertElems
<1> HIDE DEF i, r, k
<1>5. k < i
  <2> SUFFICES ASSUME i <= k
               PROVE  FALSE
    BY <1>1, <1>3
  <2>1. i \in 1..Len(q) /\ prio[p] > prio[q[i]]
    BY <1>1, <1>3
  <2>2. prio[q[i]] \in Int /\ prio[q[k]] \in Int /\ prio[p] \in Int
    BY <1>3, <2>1, ElementOfSeq
  <2>3. prio[q[i]] >= prio[q[k]]
    BY <1>3, <2>1, <2>2 DEF Sorted
  <2> QED
    BY <2>1, <2>2, <2>3, <1>3
<1>6. k \in 1..Len(r) /\ r[k] = x
  BY <1>1, <1>2, <1>3, <1>5
<1>7. Place(r, x) = k
  BY <1>2, <1>4, <1>6, PlaceProp
<1> QED
  BY <1>7 DEF r, k

\* scheduler() itself: whoever it leaves in the queue is one dispatch closer to its turn.
LEMMA DispatchShrinks ==
  ASSUME SchedInv, scheduler(current, ready) \/ scheduler(NULL, ready),
         NEW p \in Elems(ready), p \in Elems(ready')
  PROVE  /\ 0 < TurnsLeft(ready', priority', p)
         /\ TurnsLeft(ready', priority', p) < TurnsLeft(ready, priority, p)
<1> DEFINE cur == IF scheduler(NULL, ready) THEN NULL ELSE current
           rq == IF cur = NULL THEN ready ELSE insertProcQ(ready, priority, cur)
           r == removeProcQ(rq)
<1>1. /\ current \in Pcb \cup {NULL} /\ ready \in Seq(Pcb) /\ priority \in [Pcb -> Int]
      /\ NoDup(ready) /\ Sorted(ready, priority) /\ current \notin Elems(ready)
      /\ current /= NULL => priority[current] <= MaxPrio
  <2>1. current \in Pcb => priority[current] <= MaxPrio
    BY NullNotPcb DEF SchedInv, AgedUp, OriginalBound
  <2> QED
    BY <2>1 DEF SchedInv, SchedTypeOK, ReadyOnce, ReadySorted
<1>2. /\ cur \in Pcb \cup {NULL} /\ cur \notin Elems(ready)
      /\ cur /= NULL => priority[cur] <= MaxPrio
      /\ scheduler(cur, ready)
  <2>1. NULL \notin Elems(ready)
    BY <1>1, NullNotPcb, ElementOfSeq DEF Elems
  <2> QED
    BY <1>1, <2>1
<1>3. ready /= <<>> /\ p \in Pcb
  <2>1. \A i \in 1..Len(ready) : ready[i] \in Pcb
    BY <1>1, ElementOfSeq
  <2> QED
    BY <1>1, <2>1, EmptySeq DEF Elems
<1> HIDE DEF cur
<1>4. /\ rq \in Seq(Pcb) /\ NoDup(rq) /\ Sorted(rq, priority) /\ rq /= <<>>
      /\ p \in Elems(rq)
  <2>1. CASE cur = NULL
    BY <2>1, <1>1, <1>3
  <2>2. CASE cur /= NULL
    <3>1. cur \in Pcb
      BY <1>2, <2>2
    <3>2. /\ rq = insertProcQ(ready, priority, cur) /\ rq \in Seq(Pcb)
          /\ Len(rq) = Len(ready) + 1 /\ Len(ready) \in Nat
      BY <1>1, <2>2, <3>1, InsertShape, LenProperties
    <3>3. NoDup(rq) /\ Sorted(rq, priority) /\ Elems(rq) = Elems(ready) \cup {cur}
      BY <1>1, <1>2, <3>1, <3>2, InsertNoDup, InsertSorted, InsertElems
    <3> QED
      BY <3>2, <3>3, EmptySeq
  <2> QED
    BY <2>1, <2>2
<1>5. priority[p] >= MaxPrio => Place(rq, p) = Place(ready, p)
  <2>1. CASE cur = NULL
    BY <2>1
  <2>2. ASSUME cur /= NULL, priority[p] >= MaxPrio
        PROVE  Place(rq, p) = Place(ready, p)
    <3>1. cur \in Pcb /\ priority[p] >= priority[cur]
      BY <1>1, <1>2, <1>3, <2>2, PrioritiesAssumption
    <3> QED
      BY <1>1, <1>2, <2>2, <3>1, InsertKeepsPlace
  <2> QED
    BY <2>1, <2>2
<1>6. /\ current' = headProcQ(rq) /\ ready' = r
      /\ priority' = aging(r, resetPriority(headProcQ(rq)))
  BY <1>2, <1>4 DEF scheduler, emptyProcQ
<1> HIDE DEF rq
<1>7. /\ r \in Seq(Pcb) /\ Len(r) = Len(rq) - 1 /\ Len(r) \in Nat
      /\ \A i \in 1..Len(r) : r[i] = rq[i + 1]
      /\ headProcQ(rq) = rq[1] /\ Elems(r) = Elems(rq) \ {rq[1]} /\ NoDup(r)
  BY <1>1, <1>4, RemoveProp, LenProperties
<1> HIDE DEF r
<1>8. p \in Elems(r) /\ p /= rq[1]
  BY <1>6, <1>7
<1>9. priority'[p] = priority[p] + 1 /\ priority' \in [Pcb -> Int]
  <2>1. original_priority \in [Pcb -> Int] /\ rq[1] \in Pcb
    BY <1>1, <1>4, RemoveProp DEF SchedInv, SchedTypeOK
  <2> QED
    BY <1>1, <1>3, <1>6, <1>7, <1>8, <2>1 DEF aging, resetPriority
<1>10. Place(r, p) = Place(rq, p) - 1
  <2>1. Place(r, p) \in 1..Len(r) /\ r[Place(r, p)] = p
    BY <1>7, <1>8, PlaceProp
  <2>2. Place(r, p) + 1 \in 1..Len(rq) /\ rq[Place(r, p) + 1] = p
    BY <1>7, <2>1
  <2>3. Place(rq, p) = Place(r, p) + 1
    BY <1>4, <2>2, PlaceProp
  <2> QED
    BY <2>1, <2>3
<1>11. /\ priority[p] \in Int /\ MaxPrio \in Int /\ MAXPROC \in Nat
       /\ Place(ready, p) \in 1..MAXPROC
       /\ priority[p] < MaxPrio => TurnsLeft(ready, priority, p) = MAXPROC + MaxPrio - priority[p]
       /\ priority[p] >= MaxPrio => TurnsLeft(ready, priority, p) = Place(ready, p)
  BY <1>1, TurnsLeftProp
<1>12. /\ Place(r, p) \in 1..MAXPROC
       /\ priority'[p] < MaxPrio => TurnsLeft(r, priority', p) = MAXPROC + MaxPrio - priority'[p]
       /\ priority'[p] >= MaxPrio => TurnsLeft(r, priority', p) = Place(r, p)
       /\ TurnsLeft(r, priority', p) \in Nat \ {0}
  BY <1>7, <1>8, <1>9, TurnsLeftProp
<1>13. TurnsLeft(r, priority', p) < TurnsLeft(ready, priority, p)
  <2>1. CASE priority[p] < MaxPrio /\ priority'[p] < MaxPrio
    BY <2>1, <1>9, <1>11, <1>12
  <2>2. CASE priority[p] < MaxPrio /\ priority'[p] >= MaxPrio
    BY <2>2, <1>9, <1>11, <1>12
  <2>3. CASE priority[p] >= MaxPrio
    BY <2>3, <1>5, <1>9, <1>10, <1>11, <1>12
  <2> QED
    BY <2>1, <2>2, <2>3, <1>9, <1>11
<1> QED
  BY <1>6, <1>12, <1>13

\* The steps in between: who is linked has at most MaxPrio, so nobody from MaxPrio up is
\* pushed back, and whoever is unlinked lets those behind it move up.
LEMMA TurnComesStep == SchedInv /\ [SchedNext]_schedVars => [TurnComes]_schedVars
<1> SUFFICES ASSUME SchedInv, SchedNext
             PROVE  TurnComes
  OBVIOUS
<1> SUFFICES ASSUME NEW p \in Elems(ready), p \in Elems(ready')
             PROVE  /\ 0 < TurnsLeft(ready', priority', p)
                    /\ TurnsLeft(ready', priority', p) <= TurnsLeft(ready, priority, p)
                    /\ TimeSlice \/ Stop =>
                         TurnsLeft(ready', priority', p) < TurnsLeft(ready, priority, p)
  BY DEF TurnComes
<1>1. /\ current \in Pcb \cup {NULL} /\ ready \in Seq(Pcb) /\ priority \in [Pcb -> Int]
      /\ NoDup(ready) /\ Sorted(ready, priority)
      /\ \A x \in Pcb : original_priority[x] <= MaxPrio
  BY DEF SchedInv, SchedTypeOK, ReadyOnce, ReadySorted, OriginalBound
<1>2. SchedInv'
  BY SchedStepInv
<1>3. ready' \in Seq(Pcb) /\ NoDup(ready') /\ priority' \in [Pcb -> Int]
  BY <1>2 DEF SchedInv, SchedTypeOK, ReadyOnce
<1>4. /\ TurnsLeft(ready, priority, p) \in Nat \ {0}
      /\ TurnsLeft(ready', priority', p) \in Nat \ {0}
  BY <1>1, <1>3, TurnsLeftProp
<1>5. p \in Pcb /\ \A x \in Elems(ready) : x \in Pcb
  BY <1>1, ElementOfSeq DEF Elems
<1>6. CASE TimeSlice \/ Stop
  <2>1. scheduler(current, ready) \/ scheduler(NULL, ready)
    BY <1>6 DEF TimeSlice, Stop
  <2>2. TurnsLeft(ready', priority', p) < TurnsLeft(ready, priority, p)
    BY <2>1, DispatchShrinks
  <2> QED
    BY <1>4, <2>2
<1>7. ASSUME ~ (TimeSlice \/ Stop), priority'[p] = priority[p],
             priority[p] >= MaxPrio => Place(ready', p) <= Place(ready, p)
      PROVE  /\ 0 < TurnsLeft(ready', priority', p)
             /\ TurnsLeft(ready', priority', p) <= TurnsLeft(ready, priority, p)
             /\ TimeSlice \/ Stop =>
                  TurnsLeft(ready', priority', p) < TurnsLeft(ready, priority, p)
  <2>1. /\ priority[p] \in Int /\ MaxPrio \in Int
        /\ priority[p] < MaxPrio => TurnsLeft(ready, priority, p) = MAXPROC + MaxPrio - priority[p]
        /\ priority[p] >= MaxPrio => TurnsLeft(ready, priority, p) = Place(ready, p)
    BY <1>1, TurnsLeftProp
  <2>2. /\ priority'[p] < MaxPrio =>
             TurnsLeft(ready', priority', p) = MAXPROC + MaxPrio - priority'[p]
        /\ priority'[p] >= MaxPrio => TurnsLeft(ready', priority', p) = Place(ready', p)
    BY <1>3, TurnsLeftProp
  <2>3. TurnsLeft(ready', priority', p) <= TurnsLeft(ready, priority, p)
    BY <1>4, <1>7, <2>1, <2>2
  <2> QED
    BY <1>4, <1>7, <2>3
<1>8. ASSUME NEW x \in Pcb, Wake(x), ~ (TimeSlice \/ Stop)
      PROVE  priority'[p] = priority[p] /\ (priority[p] >= MaxPrio => Place(ready', p) <= Place(ready, p))
  <2>1. /\ x \notin Elems(ready) /\ ready' = insertProcQ(ready, priority, x)
        /\ priority' = priority /\ priority[x] <= MaxPrio
    BY <1>1, <1>8 DEF Wake
  <2>2. ASSUME priority[p] >= MaxPrio
        PROVE  Place(ready', p) = Place(ready, p)
    <3>1. priority[p] >= priority[x]
      BY <1>1, <1>5, <2>1, <2>2, PrioritiesAssumption
    <3> QED
      BY <1>1, <2>1, <3>1, InsertKeepsPlace
  <2>3. Place(ready, p) \in Int
    BY <1>1, PlaceProp
  <2> QED
    BY <2>1, <2>2, <2>3
<1>9. ASSUME NEW x \in Pcb, NEW prio \in Priorities, Create(x, prio), ~ (TimeSlice \/ Stop)
      PROVE  priority'[p] = priority[p] /\ (priority[p] >= MaxPrio => Place(ready', p) <= Place(ready, p))
  <2>1. /\ x \notin Elems(ready) /\ ready' = insertProcQ(ready, priority', x)
        /\ priority' = [priority EXCEPT ![x] = prio]
    BY <1>9 DEF Create, setPriority
  <2>2. prio \in Int /\ prio <= MaxPrio /\ MaxPrio \in Int
    BY PrioritiesAssumption
  <2>3. /\ priority'[x] = prio
        /\ \A y \in Elems(ready) : priority'[y] = priority[y]
    BY <1>1, <1>5, <2>1
  <2>4. Sorted(ready, priority')
    <3>1. \A i \in 1..Len(ready) : ready[i] \in Elems(ready)
      BY DEF Elems
    <3> QED
      BY <1>1, <2>3, <3>1 DEF Sorted
  <2>5. ASSUME priority[p] >= MaxPrio
        PROVE  Place(ready', p) = Place(ready, p)
    <3> DEFINE pr == priority'
    <3>1. pr[p] >= pr[x] /\ pr \in [Pcb -> Int] /\ Sorted(ready, pr)
      BY <1>1, <1>3, <1>5, <2>2, <2>3, <2>4, <2>5
    <3>2. ready' = insertProcQ(ready, pr, x)
      BY <2>1
    <3> HIDE DEF pr
    <3>3. Place(insertProcQ(ready, pr, x), p) = Place(ready, p)
      BY <1>1, <2>1, <3>1, InsertKeepsPlace
    <3> QED
      BY <3>2, <3>3
  <2>6. Place(ready, p) \in Int
    BY <1>1, PlaceProp
  <2> QED
    BY <2>3, <2>5, <2>6
<1>10. ASSUME NEW x \in Pcb, Kill(x), ~ (TimeSlice \/ Stop)
       PROVE  priority'[p] = priority[p] /\ (priority[p] >= MaxPrio => Place(ready', p) <= Place(ready, p))
  <2>1. /\ priority' = priority /\ Len(ready') = Len(ready) - 1
        /\ \A i \in 1..Len(ready') : ready'[i] \in {ready[i], ready[i + 1]}
    BY <1>1, <1>10, OutProp DEF Kill
  <2>2. /\ Place(ready', p) \in 1..Len(ready') /\ ready'[Place(ready', p)] = p
        /\ Len(ready) \in Nat /\ Len(ready') \in Nat
    BY <1>1, <1>3, PlaceProp, LenProperties
  <2>3. PICK i \in {Place(ready', p), Place(ready', p) + 1} : ready[i] = p
    BY <2>1, <2>2
  <2>4. i \in 1..Len(ready)
    BY <2>1, <2>2, <2>3
  <2>5. Place(ready, p) = i
    BY <1>1, <2>3, <2>4, PlaceProp
  <2> QED
    BY <2>1, <2>2, <2>3, <2>5
<1> QED
  BY <1>6, <1>7, <1>8, <1>9, <1>10 DEF SchedNext

(***************************************************************************)
(* Aging rules out starvation, whatever the number of processes and the    *)
(* mix of priorities: between two dispatches of a process its turns left   *)
(* never grow, and every dispatch of another one takes at least one away,  *)
(* so it waits for at most MAXPROC + MaxPrio - priority dispatches         *)
(* (scheduler.c:58, 75).                                                   *)
(***************************************************************************)
THEOREM WaitIsBounded == SchedSpec => WaitShrinks
<1>1. SchedInv /\ [SchedNext]_schedVars => [TurnComes]_schedVars
  BY TurnComesStep
<1> QED
  BY <1>1, SchedInvariant, PTL DEF SchedSpec, WaitShrinks
=============================================================================
