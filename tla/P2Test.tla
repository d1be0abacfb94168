------------------------------- MODULE P2Test -------------------------------
(***************************************************************************)
(* The test program of the kernel (p2test_bikaya_v0.3.c) running on it:    *)
(* each process is the list of the things it asks of the kernel, Nucleus   *)
(* and PassUp are the kernel.  Where the program prints an error or calls  *)
(* PANIC(), a process goes to "error" and stays there.                     *)
(*                                                                         *)
(* The number of times the timer takes the processor away from a process   *)
(* is bounded by SLICES; when it does is not.                              *)
(***************************************************************************)
EXTENDS Nucleus, PassUp
SeqOps == INSTANCE SequencesExt

CONSTANTS
  SLICES,                   \* bound: how often the timer preempts a process
  MSGLEN, MAXSEM,           \* bounds: characters of a message, size of the array s[]
  ROUNDS, NOLEAVES          \* incarnations of p7, leaves of each (p2test:92, 262)

\* The program's semaphores, and those it sets to 0 itself.
semaphores ==
  {"term_mut", "s", "testsem", "startp2", "endp2", "blkp3", "synp3", "endp3", "endp4",
   "endp7", "endcreate", "blkleaves", "blkp7", "blkp7child"}
zeroed == {"blkp7child", "blkleaves"}

ASSUME P2TestAssumption ==
  /\ SLICES \in Nat /\ MSGLEN \in Nat \ {0} /\ MAXSEM \in Nat /\ ROUNDS \in Nat
  /\ NOLEAVES \in {2, 4}
  /\ semaphores \subseteq Sem /\ Raw = zeroed /\ 1 \in InitVals
  /\ TermTransm /= {} /\ DEFAULT_PRIORITY \in Priorities

VARIABLES
  glob,                     \* the program's global variables that are not semaphores
  slices                    \* preemptions left

testVars == <<cpu, p_s, mem, specVars, glob, slices>>
allVars == <<vars, testVars>>

term0 == CHOOSE d \in TermTransm : TRUE     \* the transmitter of terminal 0

-----------------------------------------------------------------------------
(***************************************************************************)
(* The programs, as sequences of instructions.                             *)
(***************************************************************************)
P(k) == <<[op |-> "P", sem |-> k]>>
V(k) == <<[op |-> "V", sem |-> k]>>
Zero(k) == <<[op |-> "zero", sem |-> k]>>
Set(g, v) == <<[op |-> "set", var |-> g, val |-> v]>>
New(prog, pid) == <<[op |-> "create", prog |-> prog, pid |-> pid]>>
Terminate(pid) == <<[op |-> "terminate", pid |-> pid]>>
WaitIO == <<[op |-> "io"]>>
Sys13 == <<[op |-> "sys13"]>>
Trap(t) == <<[op |-> "trap", type |-> t]>>
SpecPassUp(t, old, new) == <<[op |-> "spec", type |-> t, old |-> old, new |-> new]>>
Continue(area, prog) == <<[op |-> "ldst", area |-> area, prog |-> prog]>>
Check(what) == <<[op |-> "check", what |-> what]>>
Fail == Check("unreachable")

Repeat(code, n) == SeqOps!FlattenSeq([i \in 1..n |-> code])
\* What print() does between its P and its V.
needsLock(i) ==
  \/ i.op = "io"
  \/ i.op = "check" /\ i.what = "transmitted"
  \/ i.op = "V" /\ i.sem = "term_mut"
print ==
  P("term_mut") \o Repeat(WaitIO \o Check("transmitted"), MSGLEN) \o V("term_mut")

test ==
  V("testsem") \o Check("testsem is 1") \o print
  \o New("p2", "") \o print \o V("startp2") \o P("endp2") \o print
  \o Check("p2 ran")
  \o New("p3", "p3pid") \o P("endp3") \o print
  \o New("p4", "") \o P("endp4") \o print
  \o New("p5", "") \o New("p6", "") \o V("blkp7")
  \o Repeat(P("blkp7") \o Zero("blkp7child") \o Zero("blkleaves")
              \o New("p7root", "p7pid") \o Check("call succeeded")
              \o P("endp7") \o Terminate("p7pid")
              \o V("blkp7") \o V("blkp7child") \o V("blkp7child"), ROUNDS)
  \o print \o print \o Trap(PrgTrap) \o Fail

p2 ==
  P("startp2") \o print
  \o Repeat(V("s") \o P("s") \o Check("s is 0"), MAXSEM + 1)
  \o print \o print \o Set("p1p2synch", 1) \o V("endp2") \o Terminate("") \o Fail

p3 ==
  print \o Check("p3pid is right") \o Set("p3inc", 2)
  \o V("synp3") \o P("blkp3") \o P("synp3")
  \o print \o New("p3", "p32id") \o P("synp3")
  \o print \o Terminate("p32id") \o Check("call succeeded")
  \o print \o V("endp3") \o print \o Terminate("") \o Fail

p4prog == print \o Continue("pstat_o", "p4a")
p4mm == print \o print \o Continue("mstat_o", "p4b")
p4sys == print \o Continue("sstat_o", "")
p4 ==
  print \o SpecPassUp(PrgTrap, "pstat_o", "pstat_n") \o SpecPassUp(Tlb, "mstat_o", "mstat_n")
  \o SpecPassUp(SysBp, "sstat_o", "sstat_n") \o print \o Trap(PrgTrap) \o Fail
p4a == print \o Trap(Tlb) \o Fail
p4b ==
  print \o Sys13 \o V("endp4") \o print
  \o SpecPassUp(PrgTrap, "pstat_o", "pstat_n") \o Check("call failed")
  \o Terminate("") \o Fail

p5 == print \o Sys13 \o Fail
p6 == print \o Trap(PrgTrap) \o Fail

leafpid == <<"leaf1pid", "leaf2pid", "leaf3pid", "leaf4pid">>
terminateLeaves == SeqOps!FlattenSeq([i \in 1..NOLEAVES |-> Terminate(leafpid[i])])
p7root ==
  print \o New("child1", "") \o New("child2", "")
  \o Repeat(P("endcreate"), NOLEAVES) \o print
  \o terminateLeaves
  \o Repeat(V("blkleaves"), NOLEAVES) \o V("endp7") \o P("blkp7") \o Fail
createLeaves(from, to) ==
  SeqOps!FlattenSeq([i \in 1..to - from + 1 |-> New("p7leaf", leafpid[from + i - 1])])
child1 == print \o createLeaves(1, NOLEAVES \div 2) \o P("blkp7child") \o Fail
child2 == print \o createLeaves(NOLEAVES \div 2 + 1, NOLEAVES) \o P("blkp7child") \o Fail
p7leafTooEarly == V("endcreate") \o print \o P("blkleaves") \o Fail
p7leaf == print \o V("endcreate") \o P("blkleaves") \o Fail

Code ==
  [test |-> test, p2 |-> p2, p3 |-> p3, p4 |-> p4, p4a |-> p4a, p4b |-> p4b,
   p4prog |-> p4prog, p4mm |-> p4mm, p4sys |-> p4sys, p5 |-> p5, p6 |-> p6,
   p7root |-> p7root, child1 |-> child1, child2 |-> child2, p7leaf |-> p7leaf,
   error |-> <<[op |-> "panic"]>>]

\* The states of the processor: a place in a program and the register of results.
start(prog) == [prog |-> prog, pc |-> 1, v0 |-> 0]
waiting == [prog |-> "", pc |-> 0, v0 |-> 0]

-----------------------------------------------------------------------------
\* The areas of the three types of exceptions, and the variables that keep pids.
oldAreas == {"pstat_o", "mstat_o", "sstat_o"}
areas == oldAreas \cup {"pstat_n", "mstat_n", "sstat_n"}
pids ==
  {"p3pid", "p32id", "p7pid", "leaf1pid", "leaf2pid", "leaf3pid", "leaf4pid"}

initialSem ==
  [k \in Key |-> IF k \in {"term_mut", "blkp3"} THEN 1 ELSE 0]

TestInit ==
  /\ sem = initialSem
  /\ Init
  /\ initSpec("none")
  /\ cpu = waiting
  /\ p_s = [p \in Pcb |-> IF p = root THEN start("test") ELSE waiting]
  /\ mem = [a \in areas |-> CASE a = "pstat_n" -> start("p4prog")
                              [] a = "mstat_n" -> start("p4mm")
                              [] a = "sstat_n" -> start("p4sys")
                              [] OTHER -> waiting]
  /\ glob = [g \in {"p3inc", "p1p2synch"} \cup pids |->
               IF g = "p3inc" THEN 1 ELSE IF g = "p1p2synch" THEN 0 ELSE NULL]
  /\ slices = SLICES

\* What a process in state st does next.
at(st) ==
  IF st.prog \in DOMAIN Code /\ st.pc \in DOMAIN Code[st.prog]
  THEN Code[st.prog][st.pc]
  ELSE [op |-> "nothing"]
Instr == at(cpu)
Executes(op) == ~ Corrupt /\ Running /\ Instr.op = op

\* LDST at the end of every handler: the state of the running process is loaded.
Load ==
  cpu' = IF phase' /= "user" THEN cpu
         ELSE IF current' = NULL THEN waiting ELSE p_s'[current']

\* The state a system call saves, with the result it will return.
afterCall(result) == [cpu EXCEPT !.pc = @ + 1, !.v0 = result]
SaveAndReturn(result) == updateCurrentProc(current, afterCall(result)) /\ Load
UserStep == cpu' = [cpu EXCEPT !.pc = @ + 1]

memVars == <<mem, specVars>>

\* Calls that return no result leave an arbitrary one.
DoP ==
  /\ Executes("P")
  /\ Passeren(Instr.sem)
  /\ SaveAndReturn(0)
  /\ UNCHANGED <<memVars, glob, slices>>
DoV ==
  /\ Executes("V")
  /\ Verhogen(Instr.sem)
  /\ SaveAndReturn(0)
  /\ UNCHANGED <<memVars, glob, slices>>

\* A command to a terminal that is not ready returns the status and does nothing.
DoWaitIO ==
  /\ Executes("io")
  /\ IF StatusReady(term0)
     THEN DoIO(term0) /\ SaveAndReturn("ready")
     ELSE UNCHANGED vars /\ SaveAndReturn(dev_status[term0])
  /\ UNCHANGED <<memVars, glob, slices>>

\* create_process copies the state and stores the pid before it returns.
DoCreate ==
  /\ Executes("create")
  /\ IF pcbFree_h = <<>>
     THEN UNCHANGED <<vars, memVars, glob>> /\ SaveAndReturn(-1)
     ELSE /\ CreateProcess(DEFAULT_PRIORITY)
          /\ p_s' = [p_s EXCEPT ![current] = afterCall(0),
                                ![Head(pcbFree_h)] = start(Instr.prog)]
          /\ Load
          /\ clearSpec(Head(pcbFree_h)) /\ UNCHANGED mem
          /\ glob' = IF Instr.pid = "" THEN glob
                     ELSE [glob EXCEPT ![Instr.pid] = Head(pcbFree_h)]
  /\ UNCHANGED slices

DoTerminate ==
  LET named == IF Instr.pid = "" THEN NULL ELSE glob[Instr.pid]
      pid == IF named = NULL THEN current ELSE named
  IN  /\ Executes("terminate")
      /\ IF pid = current \/ isChildOf(current, pid)
         THEN TerminateProcess(pid) /\ SaveAndReturn(0)
         ELSE UNCHANGED vars /\ SaveAndReturn(-1)
      /\ UNCHANGED <<memVars, glob, slices>>

DoSpecPassUp ==
  /\ Executes("spec")
  /\ spec_passup(current, Instr.type, Instr.old, Instr.new)
  /\ UNCHANGED <<vars, mem, glob, slices>>
  /\ SaveAndReturn(specResult(current, Instr.type))

\* A system call the kernel does not have, or a trap: passed up or fatal.  A trap is
\* raised before its instruction has been executed.
PassUpOrDie(t, st) ==
  /\ IF t \in spec_assigned[current]
     THEN passUp(current, t, st) /\ UNCHANGED vars
     ELSE TerminateProcess(current) /\ UNCHANGED <<cpu, p_s, mem>>
  /\ UNCHANGED <<specVars, glob, slices>>
DoSys13 == Executes("sys13") /\ PassUpOrDie(SysBp, afterCall(0))
DoTrap == Executes("trap") /\ PassUpOrDie(Instr.type, cpu)

\* What processes do without the kernel.
DoAssign ==
  /\ \/ /\ Executes("zero")
        /\ sem' = [sem EXCEPT ![Instr.sem] = 0]
        /\ UNCHANGED glob
     \/ /\ Executes("set")
        /\ glob' = [glob EXCEPT ![Instr.var] = Instr.val]
        /\ UNCHANGED sem
  /\ UserStep
  /\ UNCHANGED <<schedVars, bqVars, treeVars, controlVars, dev_status, p_s, memVars, slices>>

\* LDST of an old area, which the handler of the program may have changed.
DoContinue ==
  /\ Executes("ldst")
  /\ cpu' = IF Instr.prog = "" THEN mem[Instr.area] ELSE start(Instr.prog)
  /\ UNCHANGED <<vars, p_s, memVars, glob, slices>>

\* The conditions the program checks.
Holds(what) ==
  CASE what = "transmitted" -> cpu.v0 = "done"
    [] what = "testsem is 1" -> sem["testsem"] = 1
    [] what = "s is 0" -> sem["s"] = 0
    [] what = "p2 ran" -> glob.p1p2synch = 1
    [] what = "p3pid is right" ->
         glob.p3pid = IF glob.p3inc = 1 THEN current ELSE p_parent[current]
    [] what = "call succeeded" -> cpu.v0 = 0
    [] what = "call failed" -> cpu.v0 = -1
    [] what = "unreachable" -> FALSE
DoCheck ==
  /\ Executes("check")
  /\ IF Holds(Instr.what) THEN UserStep ELSE cpu' = start("error")
  /\ UNCHANGED <<vars, p_s, memVars, glob, slices>>

-----------------------------------------------------------------------------
(***************************************************************************)
(* The kernel between the calls.                                           *)
(***************************************************************************)
Interrupted == IF current = NULL THEN UNCHANGED p_s ELSE updateCurrentProc(current, cpu)

Preempt ==
  /\ ~ Corrupt
  /\ IF current = NULL
     THEN UNCHANGED slices
     ELSE slices > 0 /\ slices' = slices - 1
  /\ TimerInterrupt
  /\ Interrupted
  /\ Load
  /\ UNCHANGED <<memVars, glob>>

EnterInterrupt ==
  /\ ~ Corrupt
  /\ DeviceInterrupt
  /\ Interrupted
  /\ Load
  /\ UNCHANGED <<memVars, glob, slices>>

\* setIOresult: the process about to be woken finds the status of its device.
DeliverStatusLate ==
  /\ ~ Corrupt
  /\ PollDevice
  /\ p_s' = IF dev_status[NextPolled] /= "ready" /\ headProcQ(procQ'[NextPolled]) /= NULL
            THEN [p_s EXCEPT ![headProcQ(procQ'[NextPolled])].v0 = dev_status[NextPolled]]
            ELSE p_s
  /\ UNCHANGED <<cpu, memVars, glob, slices>>
DeliverStatus ==
  /\ ~ Corrupt
  /\ PollDevice
  /\ p_s' = IF dev_status[NextPolled] /= "ready" /\ headBlocked(NextPolled) /= NULL
            THEN [p_s EXCEPT ![headBlocked(NextPolled)].v0 = dev_status[NextPolled]]
            ELSE p_s
  /\ UNCHANGED <<cpu, memVars, glob, slices>>

OtherKernelStep ==
  /\ ~ Corrupt
  /\ Start \/ TerminateChild \/ TerminateSelf \/ TerminateOther \/ InterruptReturn
  /\ UNCHANGED <<p_s, memVars, glob, slices>>
  /\ Load

Completes ==
  /\ ~ Corrupt
  /\ \E d \in Dev : DeviceCompletes(d)
  /\ UNCHANGED testVars

ProcessStep ==
  \/ DoP \/ DoV \/ DoWaitIO \/ DoCreate \/ DoTerminate
  \/ DoSpecPassUp \/ DoSys13 \/ DoTrap
  \/ DoAssign \/ DoContinue \/ DoCheck

TestNext ==
  \/ ProcessStep
  \/ Preempt \/ EnterInterrupt \/ DeliverStatus \/ OtherKernelStep \/ Completes
  \/ Corrupt /\ UNCHANGED allVars

TestSpec == TestInit /\ [][TestNext]_allVars

\* Processes run when they have the processor, and the kernel and the devices go on as in
\* Nucleus; nothing is assumed of the timer.
TestFairSpec ==
  /\ TestSpec
  /\ WF_allVars(ProcessStep)
  /\ WF_allVars(EnterInterrupt)
  /\ WF_allVars(DeliverStatus \/ OtherKernelStep)
  /\ WF_allVars(Completes)

-----------------------------------------------------------------------------
Finished == Elems(pcbFree_h) = Pcb

\* The program never reaches one of its error messages or PANIC(): what it checks of the
\* kernel holds in every order of completions and preemptions (p2test:156-646), p2's
\* comparison of times left out (343-357, which is CpuWithinWallclock of Handlers).
NoError == cpu.prog /= "error"

(***************************************************************************)
(* Terminating a process that has been blocked before and is ready now     *)
(* (syscall.c:173) takes a preemption in the right place: processes that   *)
(* run until they block never get the test program there.                  *)
(***************************************************************************)
CorruptOnlyWhenPreempted == Corrupt => slices < SLICES

(***************************************************************************)
(* print() under term_mut: at most one living process is between its P and *)
(* its V, and none when the semaphore is free, whoever is preempted, woken *)
(* or killed with its father meanwhile.                                    *)
(***************************************************************************)
stateOf(p) == IF p = current THEN cpu ELSE p_s[p]
Printing(p) ==
  /\ p \notin Elems(pcbFree_h) \cup Elems(procQ["term_mut"])
  /\ needsLock(at(stateOf(p)))
OnePrints ==
  /\ sem["term_mut"] <= 1
  /\ \A p, q \in Pcb : Printing(p) /\ Printing(q) => p = q
  /\ sem["term_mut"] = 1 => \A p \in Pcb : ~ Printing(p)
PrintExclusive == ~ Corrupt => OnePrints

(***************************************************************************)
(* print() never meets another status than "transmitted" (p2test:170-178). *)
(* A process past the WAITIO of a character finds the answer to its own    *)
(* command in its register: it was blocked while the device worked, woken  *)
(* by the interrupt of the completion, and given the status in its saved   *)
(* state (setIOresult), whoever else ran, printed or died meanwhile.       *)
(***************************************************************************)
readsStatus(i) == i.op = "check" /\ i.what = "transmitted"
PrintSucceeds ==
  ~ Corrupt =>
    \A p \in Pcb \ (Elems(pcbFree_h) \cup Elems(procQ[term0])) :
      readsStatus(at(stateOf(p))) => stateOf(p).v0 = "done"

(***************************************************************************)
(* Nobody is killed in the middle of print(): when the semaphore is taken, *)
(* some living process is there to release it (p2test:162, 182).  Only the *)
(* end of the first process, when everybody dies, may find one there.      *)
(***************************************************************************)
Ending == root \in Elems(pcbFree_h) \/ (phase = "terminate" /\ stack[1] = root)
LockNotLost ==
  ~ Corrupt /\ ~ Ending /\ sem["term_mut"] /= 1 => \E p \in Pcb : Printing(p)

\* "p1 finishes OK -- TTFN" (p2test:284): whatever the preemptions, the test comes to its
\* end with every process dead and every pcb free, unless the ready queue is corrupted.
TestEnds == <>(Finished \/ Corrupt)
=============================================================================
