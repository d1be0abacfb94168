# Verification of the Bikaya nucleus

TLA+ models of the phase 2 kernel (`src/`): a single-processor nucleus for the
uMPS and uARM machines with a priority scheduler, a process tree, semaphores,
synchronous I/O on devices, and handlers for system calls, interrupts and traps.

## The system

| Part | State | Operations | Uses |
|---|---|---|---|
| pcbs and their queues, `pcb.c` | `pcbFree_table`, `pcbFree_h`, queues linked by `p_next` | `allocPcb`, `freePcb`, `insertProcQ`, `headProcQ`, `removeProcQ`, `outProcQ` | `listx.h` |
| process tree, `pcb.c` | `p_parent`, `p_child`, `p_sib` | `insertChild`, `outChild`, `returnChild`, `isChildOf` | |
| active semaphore list, `asl.c` | `semd_table`, `semd_h`, `semdFree_h`, `p_semkey` | `insertBlocked`, `removeBlocked`, `outBlocked`, `headBlocked` | the queues |
| scheduler, `scheduler.c` | `current_proc`, `head_rd`, the priorities | `scheduler`, `aging`, `setNULL`, `initProcess` | the queues |
| system calls, `syscall.c` | user semaphores, `sem_dev` | SYS 1 to 8 | all of the above |
| interrupts, `handler.c`, `interrupt.c` | `sem_dev`, device registers | `int_handler`, `intDisk` ... `intTerm`, `setIOresult` | scheduler, ASL, `verhogen` |
| traps, `handler.c`, `trap.c`, `tlb.c` | `spec_oarea`, `spec_narea`, `spec_assigned` | pass up or terminate | `terminate_process` |
| CPU time | `user_time`, `kernel_time`, `wallclock_time` | updated by every handler | the clock |
| device registers, `constumps.h`, `constuarm.h`, `arch.h` | the registers | `DEV_ADDR`, `DEV_REG_ADDR`, `fintTYPEandLINE` | |
| test program, `p2test_bikaya_v0.3.c` | its semaphores and counters | the processes p1 to p7 | all system calls |

The parts share state by calling one another; there is no message between them.
A pcb is linked through its one field `p_next` into exactly one of the ready
queue, the free list and the queue of a semaphore, or it is the running process.
Nothing enforces this: each handler has to move the pcb at the right moments.
The machine adds the concurrency: devices complete at any time, a timer ends
every time slice, and handlers run with interrupts disabled.

What is hard in this code, and what the properties are about:

* a handler moves a process, its semaphore and two queues, and may die of its
  own work (`terminate_process` frees the running process, then dispatches);
* `terminate_process` recurses over a tree that it takes apart;
* `int_handler` polls devices while they go on completing;
* a process waiting for a device must find its completion coming, whatever
  happened to other processes and to the device between;
* descriptors and pcbs are fixed tables that must neither leak nor be shared;
* priorities grow at every dispatch;
* a process may be preempted or interrupted in its handler of exceptions, and a
  pcb is used again for another process: what is loaded has to be its own state;
* CPU time is opened and closed at a dozen places, on a clock that wraps.

`PROJECT.json` lists the hazards at their lines, with the properties about each.

## Modules

`ProcQ` has the queues of `pcb.c` as operators on sequences of pcbs. A pcb is
its index in `pcbFree_table`, `NULL` is 0. `insertProcQ` inserts before the
first element of strictly lower priority.

`Scheduler` is `scheduler.c`. The operator `scheduler(cur, q)` is the C function
called with `cur` in `current_proc` and `q` in the ready queue. The rest of the
kernel appears as the steps it may take on these variables: `TimeSlice`, `Stop`
(the running process blocks or dies), `Wake`, `Create`, `Kill`.

`BlockedQueues` is what `asl.c` promises: a queue of processes for every
semaphore address, always with room, and `p_semkey` in every pcb, which
`removeBlocked` leaves as it was.

`Asl` is `asl.c` itself: the table of descriptors, the active list (new ones in
front), the free list (returned ones at the end), keys that stay in free
descriptors. `BlockedQueuesSpec` states that it implements `BlockedQueues`: the
queue of a key is that of its active descriptor, or empty.

`Semaphores` is what the kernel promises of a semaphore to processes that use it by
calls only: a value, those who wait, and who lives. A P takes one or waits, a V
lets one go on that no other one precedes by priority, whoever dies takes his P back, and a new
process waits nowhere. `SemaphoresSpec` in `Nucleus` states that the kernel implements it, for
all addresses but those of `Raw`. `passeren` and `do_io` are its P, `verhogen` and the
wake-ups of `int_handler` its V, `create_process` its `Born`, and `Die` is the last step of each
activation of `terminate_process`. It promises nothing once the kernel is `Corrupt`.

`Nucleus` composes `Scheduler` and `BlockedQueues` with the tree, the free list,
the semaphores and the devices. A system call is one step, because interrupts
are disabled in it. Two handlers take many steps, with device completions
between them:

* `terminate_process`: `TerminateProcess` checks the pid and begins, `stack`
  holds the pcbs of the activations of the recursion, `TerminateChild` descends
  into the first child, `TerminateOther` and `TerminateSelf` finish a pcb with
  no children left. A trap that no handler was registered for is
  `TerminateProcess` of the running process.
* `int_handler`: `DeviceInterrupt` enters with the pending lines in `poll`,
  `PollDevice` handles one device in the order of the code (wake the first
  blocked process, then acknowledge), `InterruptReturn` resumes the interrupted
  process, or calls `scheduler()` when the processor was waiting.
  `TimerInterrupt` is the branch of the timer, which never returns.

`Start` and `Init` are `main`. Processes are arbitrary: the running one may make
any call at any time. It may also assign to a semaphore without the kernel
(`Assign`), as the test program does before each p7 (`p2test_bikaya_v0.3.c:264-265`),
if it is one of `Raw`. Of the values of those the kernel can promise nothing, of the
processes blocked there everything else.

The devices are outside `src/`. A device is `"ready"`, `"busy"` or `"done"`
(completed, its interrupt pending). Three things are taken from how the kernel
uses them. A completed terminal has a status of its own, since `intTerm`
recognises it as not `DEV_S_READY`. A completed disk reads `DEV_S_READY`, since
that is the only status `do_io` knows and `uarm/uARMconst.h:81-87` gives no other;
a new command then withdraws the pending interrupt. Acknowledging a busy half of
a terminal may or may not stop it.

Two states of the model are bounds or limits and not code: `SemMax` stops
processes from raising a semaphore for ever, and `Corrupt`, the first state in
which a pcb is both in the ready queue and in the free list, is final. The code
can reach it (see the findings) and from there on the pointers of the two lists
are mixed; the properties speak of the states before.

`PassUp` has the processor states: that of the running process in the
processor, those saved in `p_s` and in the areas of SPECPASSUP, the registration of
a type of exception, and what passing one up copies and loads. A state is a place
in a program and not a set of registers. It is used by the next two modules.

`Handlers` has every way into and out of `handler.c`: entry to `int_handler`,
`syscall_handler`, `tlb_handler` and `pgmtrap_handler`, the calls that return and
those that block, deaths, exceptions passed up, dispatches. `Tick` moves the
clock between any two of these steps. Each step does what the code does to
`user_time`, `kernel_time`, `wallclock_time`, their `NEW` starts, and to the
saved states. Four history variables hold what the times should be: `used_user` and
`used_kernel` are counted by the clock, `twice` is what `get_cpu_time` adds before
the end of its call adds it again, and `report` is what GETCPUTIME last told the present
process of each pcb, and when. `Births` adds when that process was created. What semaphores and queues do is in `Nucleus`;
here a blocked process is simply woken by somebody. The words are signed
as in the code: from `HALF` on, which is 2^31 there, a start fails the test `> 0`.

`DevRegs` finds devices by their addresses as the code does, for all lines and
numbers. `DEV_ADDR` is a macro without parentheses that its users cast to a
pointer; what it adds counts in registers. `fintTYPEandLINE` has one operator for
a pass of its outer loop. `do_io`, `blockProcAtDev`, `intDtp` (which stands for
`intDisk`, `intTape`, `intNet` and `intPrint`, one text for four lines) and
`intTerm` use them. As in `Nucleus`, a completed device that is no terminal reads as ready
(`ReadsReady`) and takes another command. The history variable `asked` keeps the command of
each process until the device has completed it, whoever has woken the process before that.
`Halves` says which halves of terminals processes give commands to.

`P2Test` is the repository's test program on top of `Nucleus` and `PassUp`. A
process is the sequence of what it asks of the kernel: P, V, CREATEPROCESS,
TERMINATEPROCESS, WAITIO, SPECPASSUP, traps, LDST, and the checks it makes,
each a jump to `"error"` where the C program prints an error or panics. The
system calls take their parameters from it and leave their results in it, so that
this run also covers what `Nucleus` leaves out: return values, calls that
fail, the status `setIOresult` stores in the process it wakes.

`ProcQProofs`, `SchedulerProofs`, `AslProofs`, `NucleusProofs`, `NucleusTreeProofs`,
`HandlersProofs`, `DevRegsProofs` and `P2TestProofs` have the theorems.

### Variant definitions

`NoListDel`, `KeepPriority`, `verhogenAtHead` and the like, each placed before the
definition it is a variant of, have a plausible mistake in them. No
specification uses them; replacing the definition by its variant makes TLC find
the property that `PROJECT.json` pairs it with violated.

## Runs

| Run | Instance | Shows |
|---|---|---|
| `scheduler` | 3 pcbs, priorities 1 to 3 | order, bounds and freshness of the ready queue (`SchedInv`, `PriorityBound`), round robin among equals, no starvation, and how long a wait may be (`WaitShrinks`) |
| `asl` | 3 pcbs, 3 descriptors, 3 addresses, 2 priorities | no descriptor leaked, shared or missing when needed (`AslInv`, `AlwaysRoom`); `asl.c` implements `BlockedQueues` |
| `nucleus` | 3 pcbs, 2 priorities, a semaphore, both halves of a terminal | every pcb in one place, semaphores count their blocked processes, nobody is blocked at a terminal that has nothing to answer, the processor waits only when nobody is ready (`WaitsForWork`); the kernel implements `Scheduler`, `BlockedQueues` and `Semaphores` |
| `nucleus_tree` | 4 pcbs, a semaphore that is also assigned to | no orphans, only progeny dies, in the middle of the recursion too; the recursion refuses no child (`NeverRefusesChild`) and gets shorter with every step (`TerminateShrinks`) |
| `nucleus_live` | 3 pcbs, a disk, a half of a terminal | ready processes run, those waiting for a terminal are woken, termination ends |
| `p2test` | the test program, 20 pcbs, preempted at most twice | it reaches none of its error messages (`NoError`), prints one process at a time (`PrintExclusive`), which never dies meanwhile before the end of the test (`LockNotLost`) and finds the status of its own command (`PrintSucceeds`), and comes to its end (`TestEnds`); the fault of `stale_semkey` is only met after a preemption (`CorruptOnlyWhenPreempted`) |
| `handlers` | 2 pcbs, two lives each, a clock past the middle of its range | the times of a pcb are those used (`UserTimeExact`, `KernelTimeExact`), what two GETCPUTIME tell one process differs by no more than the time between them (`CpuWithinWallclock`), and a process goes on with its own state (`ResumesOwnState`) |
| `stale_semkey`, `cross_wake`, `lost_completion`, `dev_lines`, `stale_times` | 1 to 3 processes | violations, below |

Bounds. Three pcbs are the least with a running process, a queue of two, and an
order to get wrong; with three descriptors all may be in use at once, and
`AlwaysRoom` is exactly about the last one. Four pcbs give every shape of tree
with siblings and grandchildren together. A semaphore counts down to minus the
number of processes by itself, and up to `SemMax`. Priorities are only compared
and incremented; three values with three processes let aging overtake every
one. One address of each kind of semaphore is enough for a fault of one queue,
and `asl` has several for those between queues. The addresses in `asl` are
symmetric; nothing else is permuted, because tables are numbered. All state
spaces are explored to the end. Deadlock is checked in every run but `dev_lines`,
whose processes stop when they have nothing more to ask: a handler that
cannot go on would be one.

The disk of `Nucleus` is in `nucleus_live` and in the `lost_completion` run: with both halves
of a terminal in `nucleus` every interrupt has a line that is shared, which is the harder
case. What a device of a line of its own adds is in the proofs, for all numbers of devices.

In `handlers`, `Types` has program traps only, as types differ in their index; the breakpoint
is passed up in `p2test`. Pcb 1 may register a handler and pcb 2, the first
process, dies of the trap; GETCPUTIME is recorded for the processes in pcb 1 (`Reporting`);
`LIVES = 2` lets a pcb be used again; with `HALF = 3` and `TICKS = 4` the clock is negative for its last two
instants. The clock stops there: what is accounted after it has started again at
0, 2^32 ticks after the start, is not claimed.

`p2test` has the real numbers of processes, incarnations and leaves. Messages are
of one character (`MSGLEN`) instead of some thirty, as a character is one round of
the same WAITIO, and `s[]` has two semaphores (`MAXSEM = 1`) instead of 21, each
treated alike by one process. `SLICES = 2` preemptions may come anywhere.

`LockNotLost` has an exception, the end of the first process. It kills p6 wherever
that is, possibly inside `print()`, with the semaphore taken for ever. Two preemptions do
not let p6 survive until then, some seventy do; nobody is left to miss the semaphore. How
many preemptions there are does not matter to `PrintSucceeds` and `PrintExclusive`, which are
proved for all numbers.

### Fairness

Only `scheduler`, `nucleus_live` and `p2test` assume any.

* Kernel steps are weakly fair: handlers are code that runs to its end.
* `scheduler()` sets the interval timer at each dispatch and each wait
  (`scheduler.c:31,60`), so another dispatch comes at the end of the slice at
  the latest. In `Scheduler`: `WF(TimeSlice \/ Stop)`. In `Nucleus` system calls
  interrupt the time a process is in user mode, so the assumption is strong
  fairness of `Dispatch`, the timer or an earlier blocking. Processes run with the
  timer unmasked (`utilis.c:57,66`). The processes of `nucleus_live` have a higher
  priority than the first one, so that it would starve without aging.
* A device interrupt is level triggered: it is taken once the processor is in
  user mode with it unmasked. Because system calls leave that mode and come back,
  this is strong fairness too. It needs `RootMasked = FALSE`: on uMPS the first
  process has device interrupts masked and may keep them waiting for ever.
* Each device completes what it was asked to do.
* Of processes nothing is assumed but that they run with the timer and the devices
  unmasked, and leave them so: they run in kernel mode and could mask them, or start a child
  with a state that has them masked. In `p2test` they are a given program: the one that has the processor goes on. There, steps of the kernel, of
  the devices and device interrupts are weakly fair, and nothing is assumed of
  the timer, because the program has no loop that waits. It runs with
  `RootMasked = TRUE`, as on uMPS.

## Findings

1. `stale_semkey`. `removeBlocked` leaves `p_semkey` set and `terminate_process`
   takes the field for "is blocked". A ready process that was once blocked is
   freed without leaving the ready queue, and a semaphore is raised for nothing.
2. `cross_wake`. `intTerm` takes a busy half of a terminal for a completed one
   when the other half interrupts, and wakes its process early.
3. `lost_completion`. `do_io` looks at the status only; a disk that completed
   between the trap of the call and the reading of its status is given a second
   command, and one of the two processes stays blocked at an idle disk. So
   `DeviceWakes` and `BlockedAtTerminalWaits` are stated for terminals.

4. `dev_lines`. `fintTYPEandLINE` counts one type too far when it has found any
   device but the first of its line; `do_io` starts the device and does not block
   the process.
5. `stale_times`. `allocPcb` does not clear the times (`pcb.c:48`, where
   `DOCUMENTAZIONE.txt:32` says all fields are cleared): a process in a pcb used before starts
   with the user and kernel time and the `wallclock_time` of the one before it, so that
   GETCPUTIME tells it of a time from before its creation. `UserTimeExact` and
   `KernelTimeExact` are therefore about all processes of a pcb together;
   `CpuWithinWallclock` is about each process of its own, as it compares two of its calls.

Three more differences are exact statements of passing runs or theorems:

* `get_cpu_time` (`syscall.c:78-80`) adds the time since the entry of the call, and
  the end of the call adds it once more. `KernelTimeExact` says that this, `twice`,
  is the whole difference. `CpuWithinWallclock` allows it once, for the first of two calls.
* Past 2^31 ticks no time is accounted (`handler.c:10`): the second halves of
  `UserTimeExact` and `KernelTimeExact` need `now <= HALF`.
* The interrupt handlers acknowledge the device at `DEV_ADDR`, which is the wrong one
  for all but disk 0: theorem `AcknowledgeReaches` says which they hit.

## Proofs

All theorems hold for every value of the constants that their modules' named
assumptions allow: positive numbers of pcbs and of descriptors, priorities that are integers,
processes created with at most `MaxPrio`, semaphores distinct from devices, a
clock that stops before it wraps. `PROJECT.json` lists them; the proofs are
checked by TLAPS.

**Scheduler** (`SchedulerProofs`, on the lemmas of `ProcQProofs` about what each queue
operator returns). `SchedInvariant`, `PriorityBounded`, `RoundRobinHolds`.
`PriorityBound` says that the i-th process of the ready queue has at most
`MaxPrio + MAXPROC - i`. It is not inductive by itself. A dispatch removes the head, so
that every other process moves one place up and may gain one. An insertion must not
move a process beyond its bound: those behind the new one have less than its
priority, which is at most `MaxPrio` for a created, woken or preempted process;
hence they need the queue to be ordered (`ReadySorted`), and the running and
woken processes to have their original priority (`AgedUp`, `OriginalBound`). And
the last place has to be at most `MAXPROC`: the queue has no duplicates and is
without the running process (`ReadyOnce`, `LenBound`). `SchedInv` is the
conjunction of these and is inductive. `RoundRobinHolds` follows from it: only the
time slice links the running process again, and in an ordered queue the position
`insertProcQ` picks is behind all equals.

`WaitIsBounded` is the safety half of `NoStarvation`, for all instances. `TurnsLeft` is a
process's place in the queue from the priority `MaxPrio` on, where nobody can be linked
before it any more, and `MAXPROC` plus what it lacks to `MaxPrio` below. Each dispatch
takes one away and nothing gives one back, so a ready process is passed over at most
`MAXPROC + MaxPrio - priority` times. That there are dispatches is fairness,
and left to TLC.

**Semaphore list** (`AslProofs`). `AslInv` is inductive as it stands: the two lists
partition the table, active keys are distinct, active queues are not empty and no process is in
two. `AlwaysRoomHolds` is a pigeonhole: if no descriptor were free, each would have a
process of its own, and the one that is about to block makes one too many; it
needs `SEMDS >= MAXPROC`, which is how the table is declared. `AslRefines`
maps the queue of a key to that of its active descriptor, and has a lemma for what
each operation does to this mapping.

**Kernel** (`NucleusProofs`). The inductive invariant is

    IInv == SchedInv /\ NucleusInv /\ TreeLinks /\ StackOK /\ Acyclic
            /\ (~Corrupt => OnePlace /\ CountsBlocked /\ TerminalWaits)

`OnePlace` is needed by nearly every other conjunct, as every operation on a list
relies on the pcb not being elsewhere. `StackOK` says that the activations of
`terminate_process` are a path of living processes down the tree, `Acyclic` that
fathers can be numbered below their children, from which `isChildOf` ends and a
process is not its own progeny. Each action has a lemma that it preserves `IInv` and
is a step of `Scheduler` and of `BlockedQueues` as well (`Step`). The
last action of a death has three cases, as in the code: the pcb is blocked, it is
ready, or it is ready with a stale `p_semkey`; in the third the next state is
`Corrupt`, and what holds of lists is no longer claimed. `NucleusTyped`, `NoPcbLost`,
`SemaphoresCount` and `TerminalsAnswer` are parts of `IInv`; `KernelSchedules` and
`KernelUsesQueues` are the first two refinements, from which `KernelIsFair` has `PriorityBound`,
`RoundRobin` and `WaitShrinks` of the kernel, for every number of processes.
`CountsBlocked` leaves out the semaphores of `Raw`.

`KernelKeepsSemaphores` is the third refinement. `CountsBlocked` alone would allow a V that
wakes a process of another queue, or not the first by priority, or a death that gives back a
P its process had already been paid for. The lemmas say of each action which step of
`Semaphores` it is. They need the count (does a V find anybody?), the order of the queues (is
the head one that nobody precedes?), `OnePlace` (a process that dies waits at one semaphore
at most, a new one at none) and, for a death, that `p_semkey` names the queue
its process is in.

`NeverWaitsForNothing` needs little of this, that who is in a system call or terminates
others is still there when it ends, and what `scheduler()` does with an empty queue.

Two theorems are converses of findings: they assume that the situation of the finding does not
arise, and show that nothing else leads to it.

* `WokenByCompletion` assumes that at most one half of a terminal is in use, which excludes
  exactly what `cross_wake` shows. It needs that the devices still to be polled have
  completed (`PollsDone`): a handler only acknowledges the one it is at, and no other
  step withdraws an interrupt while it polls.
* `LoneCommandsAnswered` assumes that no process gives a command to a disk at which
  another one waits (`OneAtADisk`), as in `lost_completion`. Then whoever waits at a disk
  waits for one that is busy or has completed, and will be woken. Its invariant `DiskInv` adds
  that the semaphore of a disk is 0 or -1, so that a completion leaves nobody behind.

**Tree** (`NucleusTreeProofs`). `isChildOf` is a loop, in the model a recursive
function; `NucleusProofs` proves that it exists (`UpClimbs`) and this module that it finds exactly
the ends of paths (`PathIsAbove`, `AboveHasPath`). The invariant is that every living
process but the first has a father and that the oldest process on the stack is the caller or of
its progeny (`OwnProgeny`). `NobodyOrphaned`: the way up from a living process has
decreasing ranks, so it never meets a process twice and, with finitely many pcbs,
ends at the first process. `OnlyProgenyFreed`: what is freed is on the stack, and
the stack is a path. `ChildNeverRefused` comes from the same invariant: the child of a
process on the stack is of the caller's progeny, so that the check at `syscall.c:142` does
not leave a child linked that the loop would meet for ever. `RecursionIsBounded` has the
measure `StepsLeft`, two for each living process less one for each activation: every step
lowers it and it never drops below the depth of the recursion, which is at most `MAXPROC`.

**Handlers** (`HandlersProofs`). `OwnStatesOnly`:
`ResumesOwnState` is strengthened by what the areas hold. A living process's new
area has the start of its handler and its old area is unused or has a state
the process can go on with; the tree enters because those who die have to be exactly
those whose saved states are forgotten (the process that calls survives the death of
others). `UserTimeHolds`, `KernelTimeHolds`, `WallclockHolds`: `TimeInv` says
of each pcb that the accounted time plus the stretch that is open is the time used, that no
stretch starts in the future, and that a stretch is open exactly when it should be.
`CpuWithinWallclock` is about what one process is told in two of its calls. `ReportInv` says
what must hold in between: since the last report the accounted times, with the open stretch,
have grown by no more than the clock, whatever they were then, and `wallclock_time` has not
been set again.

**Registers** (`DevRegsProofs`). `FintFirst` and `FintOthers` say what `fintTYPEandLINE`
returns for every device, `OthersDoNotBlock` what follows for WAITIO, and
`AcknowledgeReaches` where the acknowledge of each device goes. `at` is injective,
so the passes of the loop can be followed one by one. `FirstDevicesBlock` is the converse of
the finding `dev_lines`: where no line has another device than its first, and all commands to
the terminal go to one of its halves, `BlockedUntilAnswer` holds. Both hypotheses are needed:
with the other half in use, its interrupt wakes who waits for a busy one, as in
`cross_wake`. Its invariant is that the semaphore of a device is minus the number of those
blocked, hence never above 0, that a half nobody gives commands to stays ready, and that
whoever has given a command not yet answered is in the queue of the registers he gave it to,
which are busy.

**Test program** (`P2TestProofs`). `TestIsKernel`: every step of the test program is a step
of the kernel, for any lengths of messages and numbers of semaphores, rounds and
preemptions. So all the theorems about the kernel hold while it runs. It rests on
`TestTypeOK`: no program, however it is put together from its loops, has an
instruction that names a semaphore, an area or a pid that is not its own.

`OnePrintsAtATime`: `PrintExclusive` is about the processes, but whether it holds depends on
the kernel as well, and its proof uses `IInv`. The inductive invariant is `LockInv`:

    LockInv == AreasOutside /\ SavedOK /\ PrintExclusive

`LockedCode` says of every program that it enters `print()` by its P only. What else
could put a process there is a saved state: `AreasOutside` says that none of those in the
areas is inside, and `SavedOK` that the saved state of the running process is its
present one when `int_handler` goes back to it, and outside while it kills. The V
wakes one process when some are blocked (`CountsBlocked` of `IInv`), and then exactly the
printing process is exchanged for another. A death while another process prints takes
nothing away; the fault of `stale_semkey` leads to `Corrupt`, of which nothing is claimed.

`PrintHearsItsDevice`: whoever reads the status of the terminal in `print()` finds the one of
its own command. `do_io` starts a command only if the transmitter is ready, and `setIOresult`
writes to the process that is woken, so the command of a process must not meet the one of another.
The invariant is

    IOInv == OthersIdle /\ PolledDone /\ PrintSucceeds /\ (~Corrupt => TerminalIdle)

`TerminalIdle` says that the transmitter has a command only while whoever prints waits for it:
it is ready when the next one begins. A death cannot spoil this, since a process that
dies at the terminal leaves the semaphore of `print()` taken, and nobody prints any more.
`PolledDone`, and `OthersIdle` of all other devices, make every interrupt a completion.
The proof reuses the lemmas of `LockInv`: they also say of each step that nobody living comes
to where it reads the status (`Still`), except by WAITIO and the interrupt.

`TestWokenByCompletion` follows from the same invariant: the test program has `WokenOnCompletion`
without the assumption of `WokenByCompletion`, since it uses one half of its terminal only.

Only model-checked: everything about liveness (`NoStarvation`, `ReadyRuns`,
`DeviceWakes`, `TerminateEnds`, `TestEnds`), which the prover does not reach; and
`CorruptOnlyWhenPreempted`, `LockNotLost` and, but for the status of the terminal, `NoError`. These
depend on how far each process of the test program has come when another one gets to a
certain line: their inductive invariant would have to repeat the whole course of the program.

## Not modelled

* Registers and bit masks of the processor: copies of data. What they mean for the
  rest, when interrupts may happen and whose state is loaded, is in `Nucleus`
  and `Handlers`.
* The timer that stays enabled in the trap handlers of uARM (`trap.c:26`): a timer
  interrupt in the middle of `terminate_process`. The handlers modelled are those of uMPS.
* The pointers of `listx.h`. Lists are sequences, which they are as long as no pcb is in
  two of them; `NoPcbLost` proves that up to `Corrupt`, where the models stop.
* `removeChild`, `outChildBlocked`: never called. GETPID changes no state the kernel reads.
* Of the test program: the comparison of times in p2 (343-357), which `CpuWithinWallclock` of
  `Handlers` makes, and
  the accesses to memory in p4 and p5, which here raise their traps or do not exist.
* `src/uarm`, and the support of the emulators: vendored.

## State of the plan

Done: `ProcQ`, `Scheduler`, `BlockedQueues`, `Semaphores`, `Asl`, `Nucleus`, `PassUp`,
`Handlers`, `Births`, `DevRegs`, `P2Test`; the proofs of their invariants, but for the three of `P2Test`
named above, of all four refinements, of the converses of three findings (`cross_wake`,
`lost_completion`, `dev_lines`), and of the test program being one of the kernel's.

Left: the two items above that have behaviour of their own, the pointers of
the lists after `Corrupt` and the nested timer of uARM. Both begin where the code
is already wrong or leaves the machine that the tests were written for.
