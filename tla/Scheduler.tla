----------------------------- MODULE Scheduler -----------------------------
(***************************************************************************)
(* scheduler.c: one current process, the ready queue ordered by priority,  *)
(* aging.  What the rest of the kernel does to these variables appears     *)
(* here as what it may do at most: Stop, Wake, Create and Kill.            *)
(***************************************************************************)
EXTENDS ProcQ

CONSTANTS
  Priorities,               \* the priorities processes are created with
  DEFAULT_PRIORITY,         \* const_bikaya.h:56; main creates the first process with it
  MaxPrio                   \* an upper bound of both

ASSUME PrioritiesAssumption ==
  /\ MaxPrio \in Int
  /\ Priorities \subseteq Int
  /\ \A r \in Priorities : r <= MaxPrio
  /\ DEFAULT_PRIORITY \in Nat /\ DEFAULT_PRIORITY <= MaxPrio

VARIABLES
  current,                  \* current_proc, NULL while the processor waits
  ready,                    \* the list head_rd
  priority,                 \* pcb_t.priority
  original_priority         \* pcb_t.original_priority

schedVars == <<current, ready, priority, original_priority>>

\* main: initProcess(1, test) on zero-initialised pcbs; the scheduler has not run yet.
initProcess(root) ==
  /\ current = NULL
  /\ ready = <<root>>
  /\ original_priority = [p \in Pcb |-> IF p = root THEN DEFAULT_PRIORITY ELSE 0]
  /\ priority = original_priority

SchedInit == \E root \in Pcb : initProcess(root)

-----------------------------------------------------------------------------
\* aging: every process left in the ready queue gains one.
NoAging(q, prio) == prio
aging(q, prio) ==
  [p \in Pcb |-> IF p \in Elems(q) THEN prio[p] + 1 ELSE prio[p]]

\* A process is dispatched with the priority it was created with.
KeepPriority(p) == priority
resetPriority(p) == [priority EXCEPT ![p] = original_priority[p]]

\* scheduler() called with "cur" in current_proc and "q" in the ready queue.
scheduler(cur, q) ==
  LET rq == IF cur = NULL THEN q ELSE insertProcQ(q, priority, cur)
  IN  IF emptyProcQ(rq)
      THEN current' = NULL /\ ready' = rq /\ UNCHANGED priority   \* WAIT
      ELSE /\ current' = headProcQ(rq)
           /\ ready' = removeProcQ(rq)
           /\ priority' = aging(removeProcQ(rq), resetPriority(headProcQ(rq)))

-----------------------------------------------------------------------------
(***************************************************************************)
(* The steps.                                                              *)
(***************************************************************************)
\* The interval timer, or the end of a wait: the running process goes back to the queue.
TimeSlice ==
  /\ scheduler(current, ready)
  /\ UNCHANGED original_priority

\* The running process blocked or died: setNULL(); scheduler().
Stop ==
  /\ current /= NULL
  /\ scheduler(NULL, ready)
  /\ UNCHANGED original_priority

\* verhogen puts p back: p blocked while it was running, with its original priority.
Wake(p) ==
  /\ p /= current
  /\ p \notin Elems(ready)
  /\ priority[p] = original_priority[p]
  /\ ready' = insertProcQ(ready, priority, p)
  /\ UNCHANGED <<current, priority, original_priority>>

\* create_process on a pcb taken from the free list.
setPriority(p, prio) ==
  /\ original_priority' = [original_priority EXCEPT ![p] = prio]
  /\ priority' = [priority EXCEPT ![p] = prio]

Create(p, prio) ==
  /\ p /= current
  /\ p \notin Elems(ready)
  /\ setPriority(p, prio)
  /\ ready' = insertProcQ(ready, priority', p)
  /\ UNCHANGED current

\* terminate_process of a ready process.
Kill(p) ==
  /\ p \in Elems(ready)
  /\ ready' = outProcQ(ready, p)
  /\ UNCHANGED <<current, priority, original_priority>>

SchedNext ==
  \/ TimeSlice
  \/ Stop
  \/ \E p \in Pcb : Wake(p)
  \/ \E p \in Pcb, prio \in Priorities : Create(p, prio)
  \/ \E p \in Pcb : Kill(p)

SchedSpec == SchedInit /\ [][SchedNext]_schedVars

(***************************************************************************)
(* Every dispatch sets the interval timer (scheduler.c:31, 60), so another *)
(* dispatch always follows: the timer's, or an earlier one because the     *)
(* process gave up the processor.                                          *)
(***************************************************************************)
SchedFairSpec == SchedSpec /\ WF_schedVars(TimeSlice \/ Stop)

-----------------------------------------------------------------------------
\* The variables hold what the C types and lists can hold.
SchedTypeOK ==
  /\ current \in Pcb \cup {NULL}
  /\ ready \in Seq(Pcb)
  /\ priority \in [Pcb -> Int]
  /\ original_priority \in [Pcb -> Int]

\* A process is linked at most once, and never while it runs: scheduler() and the
\* queues, the users of the p_next field, never hold the same pcb.
ReadyOnce == NoDup(ready) /\ current \notin Elems(ready)

\* head_rd is ordered: the head scheduler() takes has the greatest priority.
ReadySorted == Sorted(ready, priority)

(***************************************************************************)
(* The i-th process of the ready queue has a priority of at most           *)
(* MaxPrio + MAXPROC - i.  priority - original_priority counts the         *)
(* dispatches a process has been passed over, so aging bounds the wait of  *)
(* every process, and the int field cannot overflow, however processes are *)
(* created, woken, stopped and killed.                                     *)
(***************************************************************************)
Bounded(q, prio) == \A i \in 1..Len(q) : prio[q[i]] <= MaxPrio + MAXPROC - i
PriorityBound == Bounded(ready, priority)

\* A process runs with its own priority, and waits with no less than that.
AgedUp ==
  /\ current /= NULL => priority[current] = original_priority[current]
  /\ \A p \in Elems(ready) : priority[p] >= original_priority[p]

\* No process has been created with more than MaxPrio.
OriginalBound == \A p \in Pcb : original_priority[p] <= MaxPrio

\* The scheduler's inductive invariant: what scheduler(), verhogen, create_process and
\* terminate_process rely on whenever they touch head_rd.
SchedInv ==
  SchedTypeOK /\ ReadyOnce /\ ReadySorted /\ AgedUp /\ OriginalBound /\ PriorityBound

(***************************************************************************)
(* Round robin among equals: a process whose time slice ends is linked     *)
(* behind every process of at least its own priority that stays in the     *)
(* queue (insertProcQ as called from scheduler.c:26).                      *)
(***************************************************************************)
BehindEquals ==
  \A j \in 1..Len(ready') : current /= NULL /\ ready'[j] = current =>
    \A p \in Elems(ready) \ {current'} :
      priority[p] >= priority[current] => \E i \in 1..j - 1 : ready'[i] = p
RoundRobin == [][BehindEquals]_schedVars

(***************************************************************************)
(* How many dispatches a process of the ready queue may still be passed    *)
(* over.  Below MaxPrio aging brings it up one dispatch at a time; from    *)
(* MaxPrio on nobody can be linked before it any more, and its place in    *)
(* the queue is all that is left.                                          *)
(***************************************************************************)
Place(q, p) == CHOOSE i \in 1..Len(q) : q[i] = p
TurnsLeft(q, prio, p) ==
  IF prio[p] < MaxPrio THEN MAXPROC + MaxPrio - prio[p] ELSE Place(q, p)

\* Aging works (scheduler.c:58): every dispatch brings the turn of every process that
\* stays in the ready queue closer, and no Wake, Create or Kill takes it back.
TurnComes ==
  \A p \in Elems(ready) \cap Elems(ready') :
    LET before == TurnsLeft(ready, priority, p)
        after == TurnsLeft(ready', priority', p)
    IN  0 < after /\ after <= before /\ (TimeSlice \/ Stop => after < before)
WaitShrinks == [][TurnComes]_schedVars

\* "Per evitare starvation" (DOCUMENTAZIONE.txt:135): no process stays in the ready queue
\* for ever; it leaves it to run, or because it is killed.
NoStarvation == \A p \in Pcb : p \in Elems(ready) ~> p \notin Elems(ready)
=============================================================================
