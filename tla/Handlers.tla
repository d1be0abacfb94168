------------------------------ MODULE Handlers ------------------------------
(***************************************************************************)
(* Entry to and return from the handlers of handler.c: the processor state *)
(* they save and load, the CPU time they account, and the exceptions they  *)
(* pass up.  What a system call does to semaphores and queues is in        *)
(* Nucleus; here it only decides who may run next.                         *)
(*                                                                         *)
(* The clock is a word of 2 * HALF values, and the times are signed words: *)
(* the tests "> 0" of handler.c fail from HALF on.                         *)
(***************************************************************************)
EXTENDS PassUp, FiniteSets

CONSTANTS
  HALF,                     \* 2^31: from there on a word is negative
  TICKS,                    \* bound: the clock stops there, before it wraps
  LIVES,                    \* bound: how often a pcb is allocated
  Types,                    \* the types of exception processes raise or handle
  Registering,              \* bound: the pcbs whose processes register handlers
  MaxTypes,                 \* bound: for how many types one process registers them
  Reporting                 \* bound: the pcbs whose processes have their GETCPUTIME recorded

ASSUME HandlersAssumption ==
  /\ HALF \in Nat \ {0} /\ LIVES \in Nat \ {0}
  /\ TICKS \in 1..2 * HALF - 1
  /\ Types \subseteq ExcType
  /\ Registering \subseteq Pcb /\ MaxTypes \in Nat
  /\ Reporting \subseteq Pcb

VARIABLES
  current,                  \* current_proc
  status,                   \* of every pcb: "free", "ready", "running", "blocked"
  p_parent,
  phase,                    \* "user", or where in a handler: "timer" and "device" in
                            \* int_handler, "call" and "return" in syscall_handler, "tlb"
                            \* and "pgmtrap" in the handlers of these names
  now,                      \* TOD_LO
  user_time, user_timeNEW, kernel_time, kernel_timeNEW, wallclock_time,
  life,                     \* how often a pcb has been allocated
  used_user, used_kernel,   \* the ticks the processes in a pcb really used
  twice,                    \* the ticks get_cpu_time accounts ahead of the end of its call
  report                    \* history: what GETCPUTIME last told the present process of each
                            \* pcb, how much of it the call will count again, and when

timeVars == <<user_time, user_timeNEW, kernel_time, kernel_timeNEW, wallclock_time>>
realVars == <<used_user, used_kernel, twice, report>>
procVars == <<current, status, p_parent, life>>
handlerVars ==
  <<cpu, p_s, mem, specVars, procVars, phase, now, timeVars, realVars>>

root == MAXPROC
Word == 0..2 * HALF - 1
Positive(t) == 0 < t /\ t < HALF
Since(t) == (now - t) % (2 * HALF)
Plus(x, y) == (x + y) % (2 * HALF)

\* Where a process is: in its program or in its handler of exceptions of a type.  An area
\* that no state has been saved in is Unused.
Program == -1
Unused == -2
stateAt(p, l, at) == [owner |-> p, life |-> l, at |-> at]
\* The areas the processes in pcb p register for a type, one process after the other.
area(which, p, t) == <<which, p, t>>
Areas == {"new", "old"} \X Registering \X Types
zero == [p \in Pcb |-> 0]
\* Of a process that has not called GETCPUTIME; the clock is never 0.
noReport == [user |-> 0, kernel |-> 0, wall |-> 0, again |-> 0, at |-> 0]

\* The first process has just been dispatched; the machine has been on for a tick.
HandlersInit ==
  /\ initSpec(<<>>)
  /\ current = root
  /\ status = [p \in Pcb |-> IF p = root THEN "running" ELSE "free"]
  /\ p_parent = [p \in Pcb |-> NULL]
  /\ phase = "user"
  /\ now = 1
  /\ life = [p \in Pcb |-> IF p = root THEN 1 ELSE 0]
  /\ user_timeNEW = [p \in Pcb |-> IF p = root THEN 1 ELSE 0]
  /\ wallclock_time = user_timeNEW
  /\ user_time = zero /\ kernel_time = zero /\ kernel_timeNEW = zero
  /\ used_user = zero /\ used_kernel = zero /\ twice = zero
  /\ report = [p \in Pcb |-> noReport]
  /\ cpu = stateAt(root, 1, Program)
  /\ p_s = [p \in Pcb |-> stateAt(p, life[p], Program)]
  /\ mem = [a \in Areas |-> stateAt(a[2], 0, Unused)]

-----------------------------------------------------------------------------
(***************************************************************************)
(* The clock, and what the handlers account.                               *)
(***************************************************************************)
Tick ==
  /\ now < TICKS
  /\ now' = now + 1
  /\ used_user' = IF phase = "user" /\ current /= NULL
                  THEN [used_user EXCEPT ![current] = @ + 1] ELSE used_user
  /\ used_kernel' = IF phase \in {"call", "return", "tlb", "pgmtrap"}
                    THEN [used_kernel EXCEPT ![current] = @ + 1] ELSE used_kernel
  /\ UNCHANGED <<cpu, p_s, mem, specVars, procVars, phase, timeVars, twice, report>>

\* At the entry of every handler: the time since user mode began.
endUser(p) ==
  IF Positive(user_timeNEW[p])
  THEN /\ user_time' = [user_time EXCEPT ![p] = Plus(@, Since(user_timeNEW[p]))]
       /\ user_timeNEW' = [user_timeNEW EXCEPT ![p] = 0]
  ELSE UNCHANGED <<user_time, user_timeNEW>>

\* At the entry of system calls and traps, and at their end.
startKernel(p) == kernel_timeNEW' = [kernel_timeNEW EXCEPT ![p] = now]
endKernel(p) ==
  IF Positive(kernel_timeNEW[p])
  THEN /\ kernel_time' = [kernel_time EXCEPT ![p] = Plus(@, Since(kernel_timeNEW[p]))]
       /\ kernel_timeNEW' = [kernel_timeNEW EXCEPT ![p] = 0]
  ELSE UNCHANGED <<kernel_time, kernel_timeNEW>>

\* At every return to user mode.
startUser(p) == user_timeNEW' = [user_timeNEW EXCEPT ![p] = now]

-----------------------------------------------------------------------------
(***************************************************************************)
(* scheduler(), once the process that ran has got the status it has in st: *)
(* one of the ready processes is loaded, or the processor waits.  Which    *)
(* one is the matter of Scheduler.                                         *)
(***************************************************************************)
dispatchNoStart(st) ==
  \/ \E p \in Pcb :
       /\ st[p] = "ready"
       /\ current' = p
       /\ status' = [st EXCEPT ![p] = "running"]
       /\ wallclock_time' = [wallclock_time EXCEPT ![p] = IF @ = 0 THEN now ELSE @]
       /\ cpu' = p_s[p]
       /\ UNCHANGED user_timeNEW
  \/ /\ \A p \in Pcb : st[p] /= "ready"
     /\ current' = NULL
     /\ status' = st
     /\ cpu' = stateAt(NULL, 0, Program)
     /\ UNCHANGED <<wallclock_time, user_timeNEW>>
dispatchRestartsWallclock(st) ==
  \/ \E p \in Pcb :
       /\ st[p] = "ready"
       /\ current' = p
       /\ status' = [st EXCEPT ![p] = "running"]
       /\ wallclock_time' = [wallclock_time EXCEPT ![p] = now]
       /\ startUser(p)
       /\ cpu' = p_s[p]
  \/ /\ \A p \in Pcb : st[p] /= "ready"
     /\ current' = NULL
     /\ status' = st
     /\ cpu' = stateAt(NULL, 0, Program)
     /\ UNCHANGED <<wallclock_time, user_timeNEW>>
dispatch(st) ==
  \/ \E p \in Pcb :
       /\ st[p] = "ready"
       /\ current' = p
       /\ status' = [st EXCEPT ![p] = "running"]
       /\ wallclock_time' = [wallclock_time EXCEPT ![p] = IF @ = 0 THEN now ELSE @]
       /\ startUser(p)
       /\ cpu' = p_s[p]
  \/ /\ \A p \in Pcb : st[p] /= "ready"
     /\ current' = NULL
     /\ status' = st
     /\ cpu' = stateAt(NULL, 0, Program)
     /\ UNCHANGED <<wallclock_time, user_timeNEW>>

(***************************************************************************)
(* int_handler.  With the timer it calls scheduler() at once.  A device    *)
(* may wake a process, and the interrupted process goes on, or the         *)
(* processor stops waiting.                                                *)
(***************************************************************************)
\* The new areas of the handlers have interrupts disabled.
InterruptsEnabled == phase = "user"

EnterInterrupt ==
  /\ InterruptsEnabled
  /\ phase' \in {"timer", "device"}
  /\ IF current = NULL
     THEN UNCHANGED <<user_time, user_timeNEW, p_s>>
     ELSE endUser(current) /\ updateCurrentProc(current, cpu)
  /\ UNCHANGED <<cpu, mem, specVars, procVars, now, kernel_time, kernel_timeNEW,
                 wallclock_time, realVars>>

TimerInterrupt ==
  /\ phase = "timer"
  /\ dispatch(IF current = NULL THEN status ELSE [status EXCEPT ![current] = "ready"])
  /\ phase' = "user"
  /\ UNCHANGED <<p_s, mem, specVars, p_parent, life, now, user_time, kernel_time,
                 kernel_timeNEW, realVars>>

Blocked == {p \in Pcb : status[p] = "blocked"}

DeviceInterrupt ==
  /\ phase = "device"
  /\ \E st \in {status} \cup {[status EXCEPT ![p] = "ready"] : p \in Blocked} :
       IF current = NULL
       THEN dispatch(st)
       ELSE /\ startUser(current)
            /\ status' = st
            /\ UNCHANGED <<current, wallclock_time, cpu>>
  /\ phase' = "user"
  /\ UNCHANGED <<p_s, mem, specVars, p_parent, life, now, user_time, kernel_time,
                 kernel_timeNEW, realVars>>

-----------------------------------------------------------------------------
(***************************************************************************)
(* syscall_handler: the entry, the body of the call, and the return.       *)
(***************************************************************************)
Running == phase = "user" /\ current /= NULL
InCall == phase = "call"

EnterSyscall ==
  /\ Running
  /\ endUser(current)
  /\ startKernel(current)
  /\ updateCurrentProc(current, cpu)
  /\ phase' = "call"
  /\ UNCHANGED <<cpu, mem, specVars, procVars, now, kernel_time, wallclock_time, realVars>>

ReturnFromSyscall ==
  /\ phase = "return"
  /\ endKernel(current)
  /\ startUser(current)
  /\ cpu' = p_s[current]
  /\ phase' = "user"
  /\ UNCHANGED <<p_s, mem, specVars, procVars, now, user_time, wallclock_time, realVars>>

\* get_cpu_time adds the time since the entry, which the return will add again, and hands
\* over three times.
get_cpu_time ==
  /\ InCall
  /\ kernel_time' = [kernel_time EXCEPT ![current] = Plus(@, Since(kernel_timeNEW[current]))]
  /\ twice' = [twice EXCEPT ![current] = @ + Since(kernel_timeNEW[current])]
  /\ report' = IF current \notin Reporting THEN report
               ELSE [report EXCEPT ![current] =
                      [user |-> user_time[current], kernel |-> kernel_time'[current],
                       wall |-> Since(wallclock_time[current]),
                       again |-> Since(kernel_timeNEW[current]), at |-> now]]
  /\ phase' = "return"
  /\ UNCHANGED <<cpu, p_s, mem, specVars, procVars, now, user_time, user_timeNEW,
                 kernel_timeNEW, wallclock_time, used_user, used_kernel>>

\* create_process: allocPcb leaves the times of the last process in the pcb.
create_process ==
  /\ InCall
  /\ \E p \in Pcb :
       /\ status[p] = "free"
       /\ life[p] < LIVES
       /\ status' = [status EXCEPT ![p] = "ready"]
       /\ life' = [life EXCEPT ![p] = @ + 1]
       /\ p_parent' = [p_parent EXCEPT ![p] = current]
       /\ p_s' = [p_s EXCEPT ![p] = stateAt(p, life'[p], Program)]
       /\ report' = [report EXCEPT ![p] = noReport]
       /\ clearSpec(p)
  /\ phase' = "return"
  /\ UNCHANGED <<cpu, mem, current, now, timeVars, used_user, used_kernel, twice>>

\* A process first puts the start of its handler into the new area; a call for a type it
\* has registered already fails, with whatever areas.
SpecPassUp ==
  /\ InCall
  /\ current \in Registering
  /\ \E t \in Types :
       /\ t \in spec_assigned[current] \/ Cardinality(spec_assigned[current]) < MaxTypes
       /\ spec_passup(current, t, area("old", current, t), area("new", current, t))
       /\ mem' = IF t \in spec_assigned[current] THEN mem
                 ELSE [mem EXCEPT ![area("new", current, t)] = stateAt(current, life[current], t),
                                  ![area("old", current, t)] = stateAt(current, 0, Unused)]
  /\ phase' = "return"
  /\ UNCHANGED <<cpu, p_s, procVars, now, timeVars, realVars>>

\* verhogen, and passeren and do_io when they return; get_pid_ppid and the calls that
\* fail write nothing that is kept here.
OtherCall ==
  /\ InCall
  /\ status' \in {status} \cup {[status EXCEPT ![p] = "ready"] : p \in Blocked}
  /\ phase' = "return"
  /\ UNCHANGED <<cpu, p_s, mem, specVars, current, p_parent, life, now, timeVars, realVars>>

\* passeren and do_io when they block: they end the kernel time themselves.
BlockCallDropsTime ==
  /\ InCall
  /\ dispatch([status EXCEPT ![current] = "blocked"])
  /\ phase' = "user"
  /\ UNCHANGED <<p_s, mem, specVars, p_parent, life, now, user_time, kernel_time,
                 kernel_timeNEW, realVars>>
BlockCall ==
  /\ InCall
  /\ endKernel(current)
  /\ dispatch([status EXCEPT ![current] = "blocked"])
  /\ phase' = "user"
  /\ UNCHANGED <<p_s, mem, specVars, p_parent, life, now, user_time, realVars>>

(***************************************************************************)
(* terminate_process: a process and its progeny die.  When it is the       *)
(* running one, the call does not return and its time is accounted to      *)
(* nobody.                                                                 *)
(***************************************************************************)
\* The smallest set with p and the children of all its members.
Progeny(p) ==
  {q \in Pcb : \A S \in SUBSET Pcb :
     p \in S /\ (\A c \in Pcb : p_parent[c] \in S => c \in S) => q \in S}
without(dead) == [p \in Pcb |-> IF p \in dead THEN "free" ELSE status[p]]
unlink(dead) == p_parent' = [p \in Pcb |-> IF p \in dead THEN NULL ELSE p_parent[p]]

TerminateOther ==
  /\ InCall
  /\ \E pid \in Progeny(current) \ {current} :
       status' = without(Progeny(pid)) /\ unlink(Progeny(pid))
  /\ phase' = "return"
  /\ UNCHANGED <<cpu, p_s, mem, specVars, current, life, now, timeVars, realVars>>

die ==
  /\ dispatch(without(Progeny(current)))
  /\ unlink(Progeny(current))
  /\ phase' = "user"
  /\ UNCHANGED <<p_s, mem, specVars, life, now, user_time>>

TerminateCall ==
  /\ InCall
  /\ die
  /\ used_kernel' = [used_kernel EXCEPT ![current] = @ - Since(kernel_timeNEW[current])]
  /\ UNCHANGED <<kernel_time, kernel_timeNEW, used_user, twice, report>>

-----------------------------------------------------------------------------
(***************************************************************************)
(* tlb_handler and pgmtrap_handler; a system call that is none of the      *)
(* kernel's, or a breakpoint, has the same two ends.                       *)
(***************************************************************************)
TypeIn(handler) ==
  CASE handler = "tlb" -> Tlb [] handler = "pgmtrap" -> PrgTrap [] handler = "call" -> SysBp

EnterTrap ==
  /\ Running
  /\ endUser(current)
  /\ startKernel(current)
  /\ phase' \in {h \in {"tlb", "pgmtrap"} : TypeIn(h) \in Types}
  /\ UNCHANGED <<cpu, p_s, mem, specVars, procVars, now, kernel_time, wallclock_time, realVars>>

PassItUp ==
  /\ phase \in {"call", "tlb", "pgmtrap"}
  /\ TypeIn(phase) \in spec_assigned[current]
  /\ passUp(current, TypeIn(phase), cpu)
  /\ endKernel(current)
  /\ startUser(current)
  /\ phase' = "user"
  /\ UNCHANGED <<specVars, procVars, now, user_time, wallclock_time, realVars>>

DieUnhandled ==
  /\ phase \in {"call", "tlb", "pgmtrap"}
  /\ TypeIn(phase) \in Types \ spec_assigned[current]
  /\ endKernel(current)
  /\ die
  /\ UNCHANGED realVars

\* The handler of a process loads the state it was passed: no call of the kernel.
HandlerReturns ==
  /\ Running
  /\ cpu.at \in Types
  /\ cpu' = mem[spec_oarea[current][cpu.at]]
  /\ UNCHANGED <<p_s, mem, specVars, procVars, phase, now, timeVars, realVars>>

-----------------------------------------------------------------------------
HandlersNext ==
  \/ Tick
  \/ EnterInterrupt \/ TimerInterrupt \/ DeviceInterrupt
  \/ EnterSyscall \/ ReturnFromSyscall
  \/ get_cpu_time \/ create_process \/ SpecPassUp \/ OtherCall \/ BlockCall
  \/ TerminateOther \/ TerminateCall
  \/ EnterTrap \/ PassItUp \/ DieUnhandled
  \/ HandlerReturns

HandlersSpec == HandlersInit /\ [][HandlersNext]_handlerVars

-----------------------------------------------------------------------------
(***************************************************************************)
(* Properties.                                                             *)
(***************************************************************************)
openUser(p) == IF p = current /\ phase = "user" THEN Since(user_timeNEW[p]) ELSE 0
openKernel(p) ==
  IF p = current /\ phase \in {"call", "return", "tlb", "pgmtrap"} THEN Since(kernel_timeNEW[p]) ELSE 0

(***************************************************************************)
(* Whatever way user mode is left and entered again, user_time is the time *)
(* the processes in the pcb, the present one and those before it, have     *)
(* spent there, up to the stretch not yet over; once the clock reads as    *)
(* negative time is no longer accounted, but none is ever invented.        *)
(***************************************************************************)
UserTimeExact ==
  \A p \in Pcb : /\ user_time[p] <= used_user[p]
                 /\ now <= HALF => user_time[p] + openUser(p) = used_user[p]

(***************************************************************************)
(* kernel_time is the time spent in system calls and traps, the call that  *)
(* ended a process left out, plus what GETCPUTIME has added beforehand and *)
(* the end of its call adds once more (syscall.c:78-80).                   *)
(***************************************************************************)
KernelTimeExact ==
  \A p \in Pcb :
    /\ kernel_time[p] <= used_kernel[p] + twice[p]
    /\ now <= HALF => kernel_time[p] + openKernel(p) = used_kernel[p] + twice[p]

(***************************************************************************)
(* The checks of the test program on two GETCPUTIME of one process, one    *)
(* after the other (p2test_bikaya_v0.3.c:343-360): between them it is not  *)
(* told of "more cpu time than wallclock time", in user mode or            *)
(* altogether, what the first of them counts twice apart, nor of "more     *)
(* wallclock time than real time", whatever happens in between.            *)
(***************************************************************************)
CpuWithinWallclock ==
  [][\A p \in Pcb :
       LET r == report[p]
           s == report'[p]
       IN  r.at /= 0 /\ s.at /= 0 =>
             /\ s.user - r.user <= s.wall - r.wall
             /\ (s.user + s.kernel) - (r.user + r.kernel) <= (s.wall - r.wall) + r.again
             /\ s.wall - r.wall <= s.at - r.at
    ]_handlerVars

(***************************************************************************)
(* A process goes on with a state of its own: never with that of another   *)
(* process, of the process that had its pcb before it, or of a handler it  *)
(* has not registered itself.                                              *)
(***************************************************************************)
OwnState(p, st) ==
  /\ st.owner = p
  /\ st.life = life[p]
  /\ st.at = Program \/ st.at \in spec_assigned[p]
ResumesOwnState ==
  /\ current /= NULL => OwnState(current, cpu)
  /\ \A p \in Pcb : status[p] \in {"ready", "blocked"} => OwnState(p, p_s[p])
=============================================================================
