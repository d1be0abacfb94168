------------------------------ MODULE Nucleus ------------------------------
(***************************************************************************)
(* The kernel: the scheduler, the process tree, the semaphores, the        *)
(* devices, and the handlers that tie them together (main.c, syscall.c,    *)
(* handler.c, interrupt.c, pcb.c).                                         *)
(*                                                                         *)
(* Handlers run with interrupts disabled, so a system call is one step,    *)
(* with two exceptions that are many steps: the recursion of               *)
(* terminate_process and the loop of int_handler over the devices.         *)
(* Between the steps of a handler only the devices move.                   *)
(***************************************************************************)
EXTENDS Scheduler, BlockedQueues

CONSTANTS
  Sem,                      \* addresses of the semaphores of processes
  Raw,                      \* those of them the processes also assign to
  Disk,                     \* the semaphore of disk 0, or none
  TermRecv, TermTransm,     \* the semaphores of the halves of terminal 0, or none
  InitVals,                 \* the values processes give their semaphores at first
  SemMax,                   \* bound of the model: processes stop raising a semaphore there
  RootMasked                \* uMPS: the first process runs with device interrupts masked

Terminal == TermRecv \cup TermTransm
Dev == Disk \cup Terminal

ASSUME NucleusAssumption ==
  /\ Key = Sem \cup Dev
  /\ Sem \cap Dev = {} /\ Disk \cap Terminal = {}
  /\ Raw \subseteq Sem
  /\ InitVals \subseteq Nat /\ SemMax \in Nat
  /\ RootMasked \in BOOLEAN

VARIABLES
  pcbFree_h,                \* the free pcbs
  p_parent, p_child,        \* the process tree; p_child is a queue of pcbs
  sem,                      \* the values of the semaphores
  dev_status,               \* "ready", "busy" or "done": completed, interrupt pending
  phase,                    \* who has the processor: "main", "user", "poll", "terminate"
  poll,                     \* int_handler: the devices still to look at
  stack                     \* terminate_process: the pcbs of its activations

treeVars == <<pcbFree_h, p_parent, p_child>>
controlVars == <<phase, poll, stack>>
vars == <<schedVars, bqVars, treeVars, controlVars, sem, dev_status>>

root == MAXPROC             \* initPcbs reverses the table, so the last pcb is taken first

(***************************************************************************)
(* A pcb that is freed while it is in the ready queue has its p_next in    *)
(* two lists.  What the list macros do from there on is not modelled: the  *)
(* system stops in the first such state.                                   *)
(***************************************************************************)
Corrupt == Elems(ready) \cap Elems(pcbFree_h) /= {}

(***************************************************************************)
(* main: initPcbs, initASL, init_interrupt, initScheduler, initProcess.    *)
(* The values of the semaphores of processes are those they are declared   *)
(* with.                                                                   *)
(***************************************************************************)
Init ==
  /\ initProcess(root)
  /\ pcbFree_h = [i \in 1..MAXPROC - 1 |-> MAXPROC - i]
  /\ p_parent = [p \in Pcb |-> NULL]
  /\ p_child = [p \in Pcb |-> <<>>]
  /\ initASL
  /\ sem \in {f \in [Key -> InitVals \cup {0}] : \A d \in Dev : f[d] = 0}
  /\ dev_status = [d \in Dev |-> "ready"]
  /\ phase = "main" /\ poll = {} /\ stack = <<>>

\* main calls scheduler().
Start ==
  /\ phase = "main"
  /\ scheduler(current, ready)
  /\ phase' = "user"
  /\ UNCHANGED <<original_priority, bqVars, treeVars, poll, stack, sem, dev_status>>

-----------------------------------------------------------------------------
(***************************************************************************)
(* System calls of the running process.                                    *)
(***************************************************************************)
Running == phase = "user" /\ current /= NULL

\* insertChild and outChild.
insertChild(prnt, p) ==
  /\ p_parent' = [p_parent EXCEPT ![p] = prnt]
  /\ p_child' = [p_child EXCEPT ![p] = <<>>, ![prnt] = Append(@, p)]
outChildStaysLinked(p) ==
  /\ p_parent' = [p_parent EXCEPT ![p] = NULL]
  /\ UNCHANGED p_child
outChild(p) ==
  /\ p_parent' = [p_parent EXCEPT ![p] = NULL]
  /\ p_child' = [q \in Pcb |-> IF q = p_parent[p] THEN outProcQ(p_child[q], p) ELSE p_child[q]]

\* create_process; with no free pcb it returns -1 and changes nothing.
CreateProcess(prio) ==
  LET p == Head(pcbFree_h)
  IN  /\ Running
      /\ pcbFree_h /= <<>>
      /\ pcbFree_h' = Tail(pcbFree_h)
      /\ setPriority(p, prio)
      /\ resetSemkey(p)
      /\ insertChild(current, p)
      /\ ready' = insertProcQ(ready, priority', p)
      /\ UNCHANGED <<current, controlVars, sem, dev_status>>

\* verhogen: raise the semaphore and move the first process blocked there, if any, to the
\* ready queue.
verhogenAtHead(k) ==
  /\ sem' = [sem EXCEPT ![k] = @ + 1]
  /\ IF sem'[k] <= 0 /\ headBlocked(k) /= NULL
     THEN removeBlocked(k) /\ ready' = <<headBlocked(k)>> \o ready
     ELSE UNCHANGED <<bqVars, ready>>
  /\ UNCHANGED <<current, priority, original_priority>>
verhogen(k) ==
  /\ sem' = [sem EXCEPT ![k] = @ + 1]
  /\ IF sem'[k] <= 0 /\ headBlocked(k) /= NULL
     THEN removeBlocked(k) /\ ready' = insertProcQ(ready, priority, headBlocked(k))
     ELSE UNCHANGED <<bqVars, ready>>
  /\ UNCHANGED <<current, priority, original_priority>>

Verhogen(k) ==
  /\ Running
  /\ sem[k] < SemMax
  /\ verhogen(k)
  /\ UNCHANGED <<treeVars, controlVars, dev_status>>

\* passeren: lower the semaphore; below zero the running process blocks there.
passerenKeepsRunning(k) ==
  /\ sem' = [sem EXCEPT ![k] = @ - 1]
  /\ IF sem'[k] < 0
     THEN insertBlocked(priority, k, current) /\ scheduler(current, ready)
     ELSE UNCHANGED <<bqVars, current, ready, priority>>
  /\ UNCHANGED original_priority
passeren(k) ==
  /\ sem' = [sem EXCEPT ![k] = @ - 1]
  /\ IF sem'[k] < 0
     THEN insertBlocked(priority, k, current) /\ scheduler(NULL, ready)
     ELSE UNCHANGED <<bqVars, current, ready, priority>>
  /\ UNCHANGED original_priority

PasserenOffByOne(k) ==
  /\ Running
  /\ IF sem[k] < 0
     THEN passeren(k)
     ELSE sem' = [sem EXCEPT ![k] = @ - 1] /\ UNCHANGED <<schedVars, bqVars>>
  /\ UNCHANGED <<treeVars, controlVars, dev_status>>
Passeren(k) ==
  /\ Running
  /\ passeren(k)
  /\ UNCHANGED <<treeVars, controlVars, dev_status>>

(***************************************************************************)
(* A semaphore is an int of the process, which may assign to it without    *)
(* the kernel (p2test_bikaya_v0.3.c:264): who is blocked there stays       *)
(* blocked.                                                                *)
(***************************************************************************)
Assign(k, v) ==
  /\ Running
  /\ sem' = [sem EXCEPT ![k] = v]
  /\ UNCHANGED <<schedVars, bqVars, treeVars, controlVars, dev_status>>

(***************************************************************************)
(* do_io: a device whose status is DEV_S_READY gets the command, which     *)
(* starts it and withdraws an interrupt still pending, and the process     *)
(* blocks at its semaphore; of any other the call returns the status and   *)
(* changes nothing.  READY is also what a disk reports when it has         *)
(* completed: only terminals have a status of their own for that           *)
(* (uarm/uARMconst.h:81-87).                                               *)
(***************************************************************************)
StatusReady(d) == dev_status[d] = "ready" \/ (d \in Disk /\ dev_status[d] = "done")
DoIOUnchecked(d) ==
  /\ Running
  /\ dev_status' = [dev_status EXCEPT ![d] = "busy"]
  /\ passeren(d)
  /\ UNCHANGED <<treeVars, controlVars>>
DoIO(d) ==
  /\ Running
  /\ StatusReady(d)
  /\ dev_status' = [dev_status EXCEPT ![d] = "busy"]
  /\ passeren(d)
  /\ UNCHANGED <<treeVars, controlVars>>

-----------------------------------------------------------------------------
(***************************************************************************)
(* terminate_process.  A process terminates itself, by the system call or  *)
(* by a trap it has no handler for, or one of its progeny; for any other   *)
(* pid the call returns -1 and changes nothing.  "stack" holds one pcb per *)
(* activation of the recursion.                                            *)
(***************************************************************************)
\* The first child, NULL when there is none.
returnChild(p) == headProcQ(p_child[p])

\* isChildOf climbs from "sib" towards the root.
isChildOf(parent, sib) ==
  LET up[n \in 1..MAXPROC] ==
        IF n = 1 THEN p_parent[sib]
        ELSE IF up[n - 1] = NULL THEN NULL ELSE p_parent[up[n - 1]]
  IN  \E n \in 1..MAXPROC : up[n] = parent

\* p_daTerminare of the innermost activation.
Top == stack[Len(stack)]

TerminateAnyone(pid) ==
  /\ Running
  /\ pid \notin Elems(pcbFree_h)
  /\ phase' = "terminate"
  /\ stack' = <<pid>>
  /\ UNCHANGED <<schedVars, bqVars, treeVars, poll, sem, dev_status>>
TerminateProcess(pid) ==
  /\ Running
  /\ pid = current \/ isChildOf(current, pid)
  /\ phase' = "terminate"
  /\ stack' = <<pid>>
  /\ UNCHANGED <<schedVars, bqVars, treeVars, poll, sem, dev_status>>

\* The first child goes first.
TerminateChild ==
  /\ phase = "terminate"
  /\ returnChild(Top) /= NULL
  /\ isChildOf(current, returnChild(Top))
  /\ stack' = Append(stack, returnChild(Top))
  /\ UNCHANGED <<schedVars, bqVars, treeVars, phase, poll, sem, dev_status>>

freePcbForgotten(p) == UNCHANGED pcbFree_h
freePcb(p) == pcbFree_h' = <<p>> \o pcbFree_h

\* The running process, once it has no children: free it and call scheduler().
TerminateSelf ==
  /\ phase = "terminate"
  /\ returnChild(Top) = NULL
  /\ Top = current
  /\ outChild(Top)
  /\ freePcb(Top)
  /\ scheduler(NULL, ready)
  /\ phase' = "user" /\ stack' = <<>>
  /\ UNCHANGED <<original_priority, bqVars, poll, sem, dev_status>>

\* A process with a p_semkey is taken for blocked there, any other for ready.
unlinkNoRaise(p) ==
  IF p_semkey[p] /= NoKey
  THEN /\ outBlocked(p)
       /\ UNCHANGED <<ready, sem>>
  ELSE /\ ready' = outProcQ(ready, p)
       /\ UNCHANGED <<bqVars, sem>>
unlinkAsReady(p) ==
  /\ ready' = outProcQ(ready, p)
  /\ UNCHANGED <<bqVars, sem>>
unlink(p) ==
  IF p_semkey[p] /= NoKey
  THEN /\ outBlocked(p)
       /\ sem' = [sem EXCEPT ![p_semkey[p]] = @ + 1]
       /\ UNCHANGED ready
  ELSE /\ ready' = outProcQ(ready, p)
       /\ UNCHANGED <<bqVars, sem>>

TerminateOther ==
  /\ phase = "terminate"
  /\ returnChild(Top) = NULL
  /\ Top /= current
  /\ outChild(Top)
  /\ unlink(Top)
  /\ freePcb(Top)
  /\ stack' = SubSeq(stack, 1, Len(stack) - 1)
  /\ phase' = IF Len(stack) = 1 THEN "user" ELSE "terminate"
  /\ UNCHANGED <<current, priority, original_priority, poll, dev_status>>

-----------------------------------------------------------------------------
(***************************************************************************)
(* Interrupts.  They are taken in user mode and while the processor waits. *)
(***************************************************************************)
\* int_handler with the timer pending: scheduler() and nothing else, so that a device
\* that is pending too stays so.
TimerInterrupt ==
  /\ phase = "user"
  /\ scheduler(current, ready)
  /\ UNCHANGED <<original_priority, bqVars, treeVars, controlVars, sem, dev_status>>

\* int_handler without it: the lines pending on entry are polled, and both halves of the
\* terminal if one of them is pending.
DeviceInterrupt ==
  /\ phase = "user"
  /\ \E d \in Dev : dev_status[d] = "done"
  /\ ~ (RootMasked /\ current = root)
  /\ phase' = "poll"
  /\ poll' = {d \in Disk : dev_status[d] = "done"}
               \cup (IF \E d \in Terminal : dev_status[d] = "done" THEN Terminal ELSE {})
  /\ UNCHANGED <<schedVars, bqVars, treeVars, stack, sem, dev_status>>

\* The order of the handler: disk, then the receiver, then the transmitter.
NextPolled ==
  CHOOSE d \in poll : \/ d \in Disk
                      \/ d \in TermRecv /\ poll \cap Disk = {}
                      \/ poll \subseteq TermTransm

(***************************************************************************)
(* intDisk, intTerm: if a process is blocked at the device it gets the     *)
(* status and is woken; then the device is acknowledged.  A half of the    *)
(* terminal is taken for completed when it is not ready; whether an        *)
(* acknowledge stops one that is busy is up to the device.                 *)
(***************************************************************************)
ack(d) ==
  IF dev_status[d] = "done"
  THEN dev_status' = [dev_status EXCEPT ![d] = "ready"]
  ELSE \E s \in {"busy", "ready"} : dev_status' = [dev_status EXCEPT ![d] = s]

PollOnlyAcks ==
  /\ phase = "poll"
  /\ poll /= {}
  /\ IF dev_status[NextPolled] = "ready" THEN UNCHANGED dev_status ELSE ack(NextPolled)
  /\ poll' = poll \ {NextPolled}
  /\ UNCHANGED <<schedVars, bqVars, treeVars, phase, stack, sem>>
PollDevice ==
  /\ phase = "poll"
  /\ poll /= {}
  /\ IF dev_status[NextPolled] = "ready"
     THEN UNCHANGED <<schedVars, bqVars, sem, dev_status>>
     ELSE /\ IF headBlocked(NextPolled) /= NULL
             THEN verhogen(NextPolled)
             ELSE UNCHANGED <<schedVars, bqVars, sem>>
          /\ ack(NextPolled)
  /\ poll' = poll \ {NextPolled}
  /\ UNCHANGED <<treeVars, phase, stack>>

\* Back to the interrupted process, or to scheduler() when the processor was waiting.
InterruptReturnWaits ==
  /\ phase = "poll"
  /\ poll = {}
  /\ phase' = "user"
  /\ UNCHANGED <<schedVars, bqVars, treeVars, poll, stack, sem, dev_status>>
InterruptReturn ==
  /\ phase = "poll"
  /\ poll = {}
  /\ IF current /= NULL
     THEN UNCHANGED schedVars
     ELSE scheduler(NULL, ready) /\ UNCHANGED original_priority
  /\ phase' = "user"
  /\ UNCHANGED <<bqVars, treeVars, poll, stack, sem, dev_status>>

\* The hardware: an operation completes, whatever the processor is doing.
DeviceCompletes(d) ==
  /\ dev_status[d] = "busy"
  /\ dev_status' = [dev_status EXCEPT ![d] = "done"]
  /\ UNCHANGED <<schedVars, bqVars, treeVars, controlVars, sem>>

-----------------------------------------------------------------------------
KernelStep ==
  Start \/ TerminateChild \/ TerminateSelf \/ TerminateOther \/ PollDevice \/ InterruptReturn

Next ==
  \/ ~ Corrupt /\ KernelStep
  \/ ~ Corrupt /\ TimerInterrupt
  \/ ~ Corrupt /\ DeviceInterrupt
  \/ ~ Corrupt /\ \E prio \in Priorities : CreateProcess(prio)
  \/ ~ Corrupt /\ \E k \in Sem : Verhogen(k)
  \/ ~ Corrupt /\ \E k \in Sem : Passeren(k)
  \/ ~ Corrupt /\ \E k \in Raw, v \in InitVals \cup {0} : Assign(k, v)
  \/ ~ Corrupt /\ \E d \in Dev : DoIO(d)
  \/ ~ Corrupt /\ \E pid \in Pcb : TerminateProcess(pid)
  \/ ~ Corrupt /\ \E d \in Dev : DeviceCompletes(d)
  \/ Corrupt /\ UNCHANGED vars

Spec == Init /\ [][Next]_vars

(***************************************************************************)
(* Fairness.  The kernel's own code runs to its end.  setIT_TIMER is       *)
(* called at every dispatch, so the next dispatch comes at the end of the  *)
(* time slice at the latest: infinitely many chances, one is taken.  A     *)
(* pending device interrupt is taken as soon as the processor is back in   *)
(* user mode with it unmasked.  Devices complete what they are asked to    *)
(* do.  Nothing is assumed of what processes do, except that they run with *)
(* the timer and the devices unmasked (but see RootMasked) and leave them  *)
(* so.                                                                     *)
(***************************************************************************)
Dispatch ==
  \/ TimerInterrupt
  \/ \E k \in Sem : Passeren(k) /\ sem'[k] < 0
  \/ \E d \in Dev : DoIO(d)

Fairness ==
  /\ WF_vars(~ Corrupt /\ KernelStep)
  /\ SF_vars(~ Corrupt /\ Dispatch)
  /\ SF_vars(~ Corrupt /\ DeviceInterrupt)
  /\ \A d \in Dev : WF_vars(~ Corrupt /\ DeviceCompletes(d))

FairSpec == Spec /\ Fairness

-----------------------------------------------------------------------------
\* The variables hold what the C types and lists can hold.
NucleusTypeOK ==
  /\ SchedTypeOK
  /\ procQ \in [Key -> Seq(Pcb)] /\ p_semkey \in [Pcb -> Key \cup {NoKey}]
  /\ pcbFree_h \in Seq(Pcb)
  /\ p_parent \in [Pcb -> Pcb \cup {NULL}] /\ p_child \in [Pcb -> Seq(Pcb)]
  /\ sem \in [Key -> Int]
  /\ dev_status \in [Dev -> {"ready", "busy", "done"}]
  /\ phase \in {"main", "user", "poll", "terminate"}
  /\ poll \subseteq Dev /\ stack \in Seq(Pcb)

\* Every queue is ordered by the priority its processes will be woken with, and p_semkey
\* leads outBlocked to each of them.
BlockedQueuesOK ==
  \A k \in Key :
    /\ Sorted(procQ[k], priority)
    /\ \A p \in Elems(procQ[k]) : p_semkey[p] = k /\ priority[p] = original_priority[p]

NucleusInv == NucleusTypeOK /\ BlockedQueuesOK

(***************************************************************************)
(* No pcb is lost and none is in two lists, whatever calls and interrupts  *)
(* come in whatever order, and in every state of the recursion of          *)
(* terminate_process: each is running, in the ready queue, in the free     *)
(* list or in the queue of one semaphore, linked once.                     *)
(***************************************************************************)
OnePlace ==
  /\ Pcb = (Elems(ready) \cup Elems(pcbFree_h) \cup Blocked \cup {current}) \ {NULL}
  /\ current \notin Elems(ready) \cup Elems(pcbFree_h) \cup Blocked
  /\ Elems(pcbFree_h) \cap (Elems(ready) \cup Blocked) = {} /\ Elems(ready) \cap Blocked = {}
  /\ \A j, k \in Key : j /= k => Elems(procQ[j]) \cap Elems(procQ[k]) = {}
  /\ NoDup(ready) /\ NoDup(pcbFree_h) /\ \A k \in Key : NoDup(procQ[k])
EveryPcbInOnePlace == ~ Corrupt => OnePlace

(***************************************************************************)
(* A semaphore below zero has as many processes blocked as it is below,    *)
(* any other none: wakeups are neither lost nor invented by verhogen,      *)
(* passeren, do_io, int_handler and the death of a blocked process.  Of a  *)
(* semaphore that processes assign to, the kernel can promise nothing.     *)
(***************************************************************************)
CountsBlocked == \A k \in Key \ Raw : Len(procQ[k]) = IF sem[k] < 0 THEN -sem[k] ELSE 0
SemaphoreCountsBlocked == ~ Corrupt => CountsBlocked

(***************************************************************************)
(* p_parent and p_child agree, a free pcb has no relatives, and every      *)
(* living process descends from the first one: terminate_process leaves    *)
(* no orphan, not even between two of its steps.                           *)
(***************************************************************************)
TreeLinks ==
  /\ \A p, c \in Pcb : c \in Elems(p_child[p]) <=> p_parent[c] = p
  /\ \A p \in Pcb : NoDup(p_child[p])
  /\ \A p \in Elems(pcbFree_h) : p_parent[p] = NULL /\ p_child[p] = <<>>
NoOrphans ==
  /\ TreeLinks
  /\ ~ Corrupt => \A p \in Pcb \ Elems(pcbFree_h) : p = root \/ isChildOf(root, p)

(***************************************************************************)
(* A process blocked at a half of a terminal waits for something: the half *)
(* is busy or its interrupt is pending.  It is alone there, so that the    *)
(* status setIOresult hands to the first process blocked is its own.       *)
(***************************************************************************)
TerminalWaits ==
  \A d \in Terminal : /\ Len(procQ[d]) <= 1
                      /\ procQ[d] /= <<>> => dev_status[d] /= "ready"
                      /\ sem[d] \in {0, -1}
BlockedAtTerminalWaits == ~ Corrupt => TerminalWaits

\* "Blocca il processo in attesa della risposta dal device" (include/syscall.h:40): a
\* process is blocked at the disk only while the disk has an answer to give.
BlockedAtDiskWaits ==
  \A d \in Disk : procQ[d] /= <<>> => dev_status[d] /= "ready"

(***************************************************************************)
(* Only a process that terminates itself or is terminated by an ancestor,  *)
(* directly or with another of its ancestors, ever becomes free.           *)
(***************************************************************************)
ProgenyDies ==
  \A p \in Elems(pcbFree_h') \ Elems(pcbFree_h) :
    /\ p = stack[1] \/ isChildOf(stack[1], p)
    /\ stack[1] = current \/ isChildOf(current, stack[1])
OnlyProgenyDies == [][ProgenyDies]_vars

(***************************************************************************)
(* The processor waits only as long as no process is ready, also when a    *)
(* device that interrupts the wait wakes one (handler.c:80), and when who  *)
(* blocks, dies or is preempted was the only one to run.                   *)
(***************************************************************************)
WaitsForWork == phase = "user" /\ current = NULL => ready = <<>>

(***************************************************************************)
(* The recursion of terminate_process never finds a child that it does not *)
(* take for one: syscall.c:142 checks every child with isChildOf, and what *)
(* it returns for one of another's progeny is -1 with the child still      *)
(* linked, which the loop would meet again and again.                      *)
(***************************************************************************)
NeverRefusesChild ==
  phase = "terminate" /\ returnChild(Top) /= NULL => isChildOf(current, returnChild(Top))

(***************************************************************************)
(* The recursion ends: every step of it takes one from the steps it may    *)
(* still need, two for a living process less one for an activation; there  *)
(* is always one left for every activation, so the stack of the C program  *)
(* is never deeper than MAXPROC.                                           *)
(***************************************************************************)
StepsLeft(free, st) == 2 * (MAXPROC - Len(free)) - Len(st)
RecursionShrinks ==
  phase = "terminate" =>
    \/ phase' /= "terminate"
    \/ dev_status' /= dev_status /\ UNCHANGED <<pcbFree_h, stack>>
    \/ Len(stack') <= StepsLeft(pcbFree_h', stack')
         /\ StepsLeft(pcbFree_h', stack') < StepsLeft(pcbFree_h, stack)
TerminateShrinks == [][RecursionShrinks]_vars

(***************************************************************************)
(* "Wait for I/O completion": a process that leaves the queue of a device  *)
(* alive leaves it when the operation has completed.                       *)
(***************************************************************************)
WokenWhenDone ==
  \A d \in Dev : \A p \in Elems(procQ[d]) :
    p \in Elems(ready') \cup {current'} => dev_status[d] = "done"
WokenOnCompletion == [][WokenWhenDone]_vars

\* "il processo da eliminare va tolto dalla ready_queue_h" (syscall.c:128).
FreedNotReady == Elems(ready) \cap Elems(pcbFree_h) = {}

\* The kernel implements the scheduler and the semaphore queues it is built from.
SchedulerSpec == SchedSpec
QueuesSpec == initASL /\ [][BQNext(priority)]_bqVars

(***************************************************************************)
(* And it implements semaphores, those of the devices and all but those    *)
(* processes assign to: the value, the queue and the process that is       *)
(* blocked, woken or dies change together in every call, interrupt and     *)
(* death, and V wakes by priority.                                         *)
(***************************************************************************)
Counted == Key \ Raw
SemValue == [k \in Counted |-> sem[k]]
SemWaiting == [k \in Counted |-> Elems(procQ[k])]
Living == Pcb \ Elems(pcbFree_h)
Sema == INSTANCE Semaphores WITH
          Semaphore <- Counted, Process <- Pcb,
          value <- SemValue, waiting <- SemWaiting, prio <- original_priority,
          living <- Living, running <- current, broken <- Corrupt
SemaphoresSpec == Sema!SemSpec

(***************************************************************************)
(* Liveness.  Up to the corruption of the ready queue, a ready process     *)
(* runs or dies, one that waits for a terminal is woken or dies, and       *)
(* terminating a subtree comes to an end.                                  *)
(***************************************************************************)
ReadyRuns == \A p \in Pcb : p \in Elems(ready) ~> (p \notin Elems(ready) \/ Corrupt)
DeviceWakes ==
  \A d \in Terminal : procQ[d] /= <<>> ~> (procQ[d] = <<>> \/ Corrupt)
TerminateEnds == phase = "terminate" ~> (phase = "user" \/ Corrupt)
=============================================================================
