------------------------------ MODULE DevRegs ------------------------------
(***************************************************************************)
(* How WAITIO and the interrupt handlers find a device: by the address of  *)
(* its registers.  do_io turns an address into an interrupt line and a     *)
(* number (fintTYPEandLINE), the handlers of interrupt.c turn a line and a *)
(* number into an address (DEV_ADDR, and DEV_REG_ADDR for terminals).      *)
(*                                                                         *)
(* The devices are many here, and the processes only names: what happens   *)
(* to them besides is in Nucleus.                                          *)
(***************************************************************************)
EXTENDS Integers, Sequences

CONSTANTS
  Installed,                \* the devices of the machine: pairs of line and number
  Proc,                     \* the processes
  Halves                    \* the halves of terminals that processes give commands to

DEV_REGS_BASE == 64         \* constuarm.h:21; constumps.h:62 has another base
DEV_REGS_SIZE == 16         \* const.h:59
DEV_PER_INT == 8
DEV_USED_INTS == 5
Line == 3..7                \* disks, tapes, network, printers, terminals
Number == 0..DEV_PER_INT - 1
TERMINAL == 7

\* Where the machine has the registers of a device (DEV_REG_ADDR).
regAddr(line, dev) ==
  DEV_REGS_BASE + (line - 3) * DEV_PER_INT * DEV_REGS_SIZE + dev * DEV_REGS_SIZE

\* DEV_ADDR is used behind a cast to a pointer to registers, which binds to its first
\* operand only: what is added counts in registers, not in bytes.
DEV_ADDR(line, dev) ==
  DEV_REGS_BASE + DEV_REGS_SIZE * ((line - 3) * 128) + DEV_REGS_SIZE * (dev * 16)

(***************************************************************************)
(* fintTYPEandLINE.  The outer loop counts types, the inner one numbers of *)
(* one type; it starts where "line" was left.  The outer loop still counts *)
(* on when the inner one has found the address.                            *)
(***************************************************************************)
at(type, line) == regAddr(type + 3, line)
inner(type, line, preg) ==
  IF \E n \in line..DEV_PER_INT - 1 : at(type, n) = preg
  THEN CHOOSE n \in line..DEV_PER_INT - 1 : at(type, n) = preg
  ELSE 0
outer(s, preg) ==
  IF at(s.type, s.line) = preg
  THEN s
  ELSE [type |-> s.type + 1, line |-> inner(s.type, s.line, preg)]
\* At most DEV_USED_INTS times.
fintTYPEandLINE(preg) ==
  LET start == [type |-> 0, line |-> 0]
      found == outer(outer(outer(outer(outer(start, preg), preg), preg), preg), preg)
  IN  [ptype |-> found.type + 3, pline |-> found.line]

-----------------------------------------------------------------------------
VARIABLES
  status,                   \* of the pairs of status and command registers of each device:
                            \* "ready", "busy", or "done", with an interrupt pending
  sem_dev,                  \* the semaphores of the devices
  queue,                    \* the processes blocked at them
  asked                     \* history: the registers of the command of each process that
                            \* has not been answered

devVars == <<status, sem_dev, queue, asked>>

\* A terminal has two pairs of registers, the receiver's first; other devices have one.
Half(line) == IF line = TERMINAL THEN {"first", "second"} ELSE {"first"}
Regs == UNION {{<<d[1], d[2], h>> : h \in Half(d[1])} : d \in Installed}
\* The semaphores are named by the registers they are for.
none == <<>>

Waiting(p) == \E s \in Regs : \E i \in 1..Len(queue[s]) : queue[s][i] = p

DevInit ==
  /\ status = [r \in Regs |-> "ready"]
  /\ sem_dev = [s \in Regs |-> 0]
  /\ queue = [s \in Regs |-> <<>>]
  /\ asked = [p \in Proc |-> none]

\* Lowers the semaphore of a device and blocks p there; a type 8 has no semaphore.
blockProcAtDev(p, type, line, half) ==
  LET s == <<type, line, half>>
  IN  IF type \in Line
      THEN /\ sem_dev' = [sem_dev EXCEPT ![s] = @ - 1]
           /\ queue' = IF sem_dev'[s] < 0 THEN [queue EXCEPT ![s] = Append(@, p)] ELSE queue
      ELSE UNCHANGED <<sem_dev, queue>>

\* What do_io takes for ready.  All devices but terminals have the same status when they
\* have completed, and lose the interrupt still pending to the new command.
ReadsReady(r) == status[r] = "ready" \/ (r[1] /= TERMINAL /\ status[r] = "done")

\* do_io of p on device d, with "sub" the half if it is a terminal: when the device is
\* ready it gets the command.
do_io(p, d, sub) ==
  LET f == fintTYPEandLINE(regAddr(d[1], d[2]))
      half == IF f.ptype = TERMINAL THEN sub ELSE "first"
      r == <<d[1], d[2], half>>
  IN  /\ ~ Waiting(p)
      /\ ReadsReady(r)
      /\ status' = [status EXCEPT ![r] = "busy"]
      /\ asked' = [asked EXCEPT ![p] = r]
      /\ blockProcAtDev(p, f.ptype, f.pline, half)

\* A device other than a terminal: wake the first process blocked there, acknowledge
\* whatever is found at DEV_ADDR.
acknowledged(line, n) == {r \in Regs : r[3] = "first" /\ regAddr(r[1], r[2]) = DEV_ADDR(line, n)}
wakeFirst(s) ==
  IF queue[s] /= <<>>
  THEN /\ sem_dev' = [sem_dev EXCEPT ![s] = @ + 1]
       /\ queue' = [queue EXCEPT ![s] = Tail(@)]
  ELSE UNCHANGED <<sem_dev, queue>>
intDtp(r) ==
  /\ r[1] /= TERMINAL
  /\ status[r] = "done"
  /\ wakeFirst(r)
  /\ status' = [x \in Regs |-> IF x \in acknowledged(r[1], r[2]) THEN "ready" ELSE status[x]]
  /\ UNCHANGED asked

\* A half of a terminal that is not ready, when one of its halves interrupts; the
\* acknowledge may stop one that is busy.
intTerm(r) ==
  /\ r[1] = TERMINAL
  /\ \E h \in Half(TERMINAL) : status[<<r[1], r[2], h>>] = "done"
  /\ status[r] /= "ready"
  /\ wakeFirst(r)
  /\ \E st \in {"ready"} \cup ({status[r]} \ {"done"}) : status' = [status EXCEPT ![r] = st]
  /\ UNCHANGED asked

Complete(r) ==
  /\ status[r] = "busy"
  /\ status' = [status EXCEPT ![r] = "done"]
  /\ asked' = [p \in Proc |-> IF asked[p] = r THEN none ELSE asked[p]]
  /\ UNCHANGED <<sem_dev, queue>>

DevNext ==
  \/ \E p \in Proc, d \in Installed, sub \in Halves : do_io(p, d, sub)
  \/ \E r \in Regs : intDtp(r) \/ intTerm(r) \/ Complete(r)

DevSpec == DevInit /\ [][DevNext]_devVars

(***************************************************************************)
(* "Blocca il processo in attesa della risposta dal device"                *)
(* (include/syscall.h:40): whoever has given a device a command that has   *)
(* not been answered is blocked, also when a handler has woken him for     *)
(* another device or stopped the command with its acknowledge.             *)
(***************************************************************************)
BlockedUntilAnswer == \A p \in Proc : asked[p] /= none => Waiting(p)
=============================================================================
