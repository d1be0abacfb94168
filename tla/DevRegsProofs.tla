--------------------------- MODULE DevRegsProofs ---------------------------
(***************************************************************************)
(* For which devices fintTYPEandLINE and DEV_ADDR are right.               *)
(***************************************************************************)
EXTENDS DevRegs, TLAPS

\* Registers of different devices have different addresses, type 5 and number 8 being one
\* past the end.
LEMMA AddressesDiffer ==
  ASSUME NEW t \in 0..4, NEW n \in 0..7, NEW u \in 0..5, NEW m \in 0..7,
         at(t, n) = at(u, m)
  PROVE  t = u /\ n = m
<1>1. (t - u) * 128 = (m - n) * 16
  BY DEF at, regAddr, DEV_REGS_BASE, DEV_REGS_SIZE, DEV_PER_INT
<1> QED
  BY <1>1

\* The inner loop on another type finds nothing and leaves the number 0.
LEMMA InnerMisses ==
  ASSUME NEW t \in 0..4, NEW n \in 0..7, NEW u \in 0..4, NEW l \in 0..7, u /= t
  PROVE  inner(u, l, at(t, n)) = 0
<1>1. ~ \E m \in l..DEV_PER_INT - 1 : at(u, m) = at(t, n)
  BY AddressesDiffer DEF DEV_PER_INT
<1> QED
  BY <1>1 DEF inner

\* On the type of the device it finds its number, when it starts at 0.
LEMMA InnerFinds ==
  ASSUME NEW t \in 0..4, NEW n \in 0..7
  PROVE  inner(t, 0, at(t, n)) = n
<1>1. n \in 0..DEV_PER_INT - 1 /\ at(t, n) = at(t, n)
  BY DEF DEV_PER_INT
<1>2. \A m \in 0..DEV_PER_INT - 1 : at(t, m) = at(t, n) => m = n
  BY AddressesDiffer DEF DEV_PER_INT
<1>3. (CHOOSE m \in 0..DEV_PER_INT - 1 : at(t, m) = at(t, n)) = n
  BY <1>1, <1>2
<1> QED
  BY <1>1, <1>3 DEF inner

\* The outer loop: where the state is before the type of the device, at it, and after it.
S(u, l) == [type |-> u, line |-> l]

\* It counts on, with the number 0, at any other type.
LEMMA OuterElsewhere ==
  ASSUME NEW t \in 0..4, NEW n \in 0..7, NEW u \in 0..4, NEW l \in 0..7, u /= t
  PROVE  outer(S(u, l), at(t, n)) = S(u + 1, 0)
<1>1. at(u, l) /= at(t, n)
  BY AddressesDiffer
<1>2. inner(u, l, at(t, n)) = 0
  BY InnerMisses
<1> QED
  BY <1>1, <1>2 DEF outer, S

\* At the type of the device it stops when the number is right already.
LEMMA OuterStops ==
  ASSUME NEW t \in 0..4
  PROVE  outer(S(t, 0), at(t, 0)) = S(t, 0)
BY DEF outer, S

\* Otherwise it leaves the right number behind and counts on.
LEMMA OuterPasses ==
  ASSUME NEW t \in 0..4, NEW n \in 1..7
  PROVE  outer(S(t, 0), at(t, n)) = S(t + 1, n)
<1>1. at(t, 0) /= at(t, n)
  BY AddressesDiffer
<1>2. inner(t, 0, at(t, n)) = n
  BY InnerFinds
<1> QED
  BY <1>1, <1>2 DEF outer, S

\* The start of the loop and its end, in terms of the five steps.
LEMMA Unfold ==
  ASSUME NEW a
  PROVE  LET s == outer(outer(outer(outer(outer(S(0, 0), a), a), a), a), a)
         IN  fintTYPEandLINE(a) = [ptype |-> s.type + 3, pline |-> s.line]
BY DEF fintTYPEandLINE, S

(***************************************************************************)
(* fintTYPEandLINE is right for the first device of every line.            *)
(***************************************************************************)
THEOREM FintFirst ==
  ASSUME NEW line \in Line
  PROVE  fintTYPEandLINE(regAddr(line, 0)) = [ptype |-> line, pline |-> 0]
<1> DEFINE t == line - 3
           a == at(t, 0)
<1>1. t \in 0..4 /\ regAddr(line, 0) = a
  BY DEF Line, at
<1>2. \A u \in 0..4 : u /= t => outer(S(u, 0), a) = S(u + 1, 0)
  BY <1>1, OuterElsewhere
<1>3. outer(S(t, 0), a) = S(t, 0)
  BY <1>1, OuterStops
<1> HIDE DEF a
<1>4. outer(outer(outer(outer(outer(S(0, 0), a), a), a), a), a) = S(t, 0)
  <2>1. CASE t = 0
    BY <1>3, <2>1
  <2>2. CASE t = 1
    BY <1>2, <1>3, <2>2
  <2>3. CASE t = 2
    BY <1>2, <1>3, <2>3
  <2>4. CASE t = 3
    BY <1>2, <1>3, <2>4
  <2>5. CASE t = 4
    BY <1>2, <1>3, <2>5
  <2> QED
    BY <1>1, <2>1, <2>2, <2>3, <2>4, <2>5
<1>5. fintTYPEandLINE(a) = [ptype |-> S(t, 0).type + 3, pline |-> S(t, 0).line]
  BY <1>4, Unfold
<1> QED
  BY <1>1, <1>5 DEF S

(***************************************************************************)
(* For no other device is it right: it counts on to the type after the     *)
(* last, for which blockProcAtDev has no semaphore (syscall.c:311-338).    *)
(***************************************************************************)
THEOREM FintOthers ==
  ASSUME NEW line \in Line, NEW dev \in Number \ {0}
  PROVE  fintTYPEandLINE(regAddr(line, dev)).ptype \notin Line
<1> DEFINE t == line - 3
           a == at(t, dev)
<1>1. t \in 0..4 /\ dev \in 1..7 /\ regAddr(line, dev) = a
  BY DEF Line, Number, DEV_PER_INT, at
<1>2. \A u \in 0..4, l \in 0..7 : u /= t => outer(S(u, l), a) = S(u + 1, 0)
  BY <1>1, OuterElsewhere
<1>3. outer(S(t, 0), a) = S(t + 1, dev)
  BY <1>1, OuterPasses
<1> HIDE DEF a
<1> DEFINE s == outer(outer(outer(outer(outer(S(0, 0), a), a), a), a), a)
<1>4. \E l \in 0..7 : s = S(5, l)
  <2>1. CASE t = 0
    BY <1>1, <1>2, <1>3, <2>1
  <2>2. CASE t = 1
    BY <1>1, <1>2, <1>3, <2>2
  <2>3. CASE t = 2
    BY <1>1, <1>2, <1>3, <2>3
  <2>4. CASE t = 3
    BY <1>1, <1>2, <1>3, <2>4
  <2>5. CASE t = 4
    BY <1>1, <1>2, <1>3, <2>5
  <2> QED
    BY <1>1, <2>1, <2>2, <2>3, <2>4, <2>5
<1>5. s.type = 5
  BY <1>4 DEF S
<1>6. fintTYPEandLINE(a).ptype = s.type + 3
  BY Unfold
<1> QED
  BY <1>1, <1>5, <1>6 DEF Line

(***************************************************************************)
(* DEV_ADDR, as the handlers use it, is the address of disk 0, and of no   *)
(* other device its own; the acknowledge of disk 1 and disk 2 goes to the  *)
(* first device of lines 5 and 7, that of any other to no device at all.   *)
(***************************************************************************)
THEOREM AcknowledgeReaches ==
  ASSUME NEW line \in 3..6, NEW dev \in Number, NEW l \in Line, NEW n \in Number
  PROVE  DEV_ADDR(line, dev) = regAddr(l, n)
           <=> line = 3 /\ dev \in 0..2 /\ l = 3 + 2 * dev /\ n = 0
BY DEF DEV_ADDR, regAddr, Line, Number, DEV_REGS_BASE, DEV_REGS_SIZE, DEV_PER_INT

(***************************************************************************)
(* A WAITIO on any device but the first of its line gives it the command   *)
(* and leaves the process running: it does not wait for the answer.        *)
(***************************************************************************)
THEOREM OthersDoNotBlock ==
  ASSUME NEW p, NEW line \in Line, NEW dev \in Number \ {0}, NEW sub,
         do_io(p, <<line, dev>>, sub)
  PROVE  UNCHANGED queue /\ ~ Waiting(p)
<1> DEFINE f == fintTYPEandLINE(regAddr(line, dev))
<1>1. f.ptype \notin Line
  BY FintOthers
<1> HIDE DEF f
<1>2. <<line, dev>>[1] = line /\ <<line, dev>>[2] = dev
  OBVIOUS
<1> QED
  BY <1>1, <1>2 DEF do_io, blockProcAtDev, f
-----------------------------------------------------------------------------
(***************************************************************************)
(* With nothing but the first device of each line, and one half of the     *)
(* terminal (p2test uses the transmitter of terminal 0), WAITIO does block *)
(* until the answer.  Whoever has not been answered is in the queue of the *)
(* registers he gave the command to, which are busy, and in no other: he   *)
(* gets there only because a semaphore is never above 0, being minus the   *)
(* number of those blocked, and a handler that wakes somebody does so for  *)
(* registers that are done.                                                *)
(***************************************************************************)
In(p, q) == \E i \in 1..Len(q) : q[i] = p
DevTyped ==
  /\ status \in [Regs -> {"ready", "busy", "done"}]
  /\ sem_dev \in [Regs -> Int]
  /\ queue \in [Regs -> Seq(Proc)]
  /\ asked \in [Proc -> Regs \cup {none}]
QueuesCount == \A s \in Regs : sem_dev[s] = 0 - Len(queue[s])
HalvesIdle == \A s \in Regs : s[1] = TERMINAL /\ s[3] \notin Halves => status[s] = "ready"
AskedBlocked ==
  \A p \in Proc : asked[p] /= none =>
    /\ status[asked[p]] = "busy"
    /\ In(p, queue[asked[p]])
    /\ \A s \in Regs : In(p, queue[s]) => s = asked[p]
DevInv == DevTyped /\ QueuesCount /\ HalvesIdle /\ AskedBlocked

\* What a machine of first devices and one half of the terminal has.
FirstDevices ==
  /\ Installed \subseteq Line \X {0}
  /\ Halves \subseteq {"first", "second"}
  /\ \A g \in Halves, h \in Halves : g = h

\* The registers of such a machine.
LEMMA FirstRegs ==
  ASSUME FirstDevices, NEW r \in Regs
  PROVE  /\ r = <<r[1], 0, r[3]>> /\ r[1] \in Line /\ r[3] \in {"first", "second"}
         /\ r[1] /= TERMINAL => r[3] = "first"
         /\ none \notin Regs
<1>1. \A s \in Regs : \E d \in Installed : \E h \in Half(d[1]) : s = <<d[1], d[2], h>>
  BY DEF Regs
<1>2. \A d \in Installed : d[1] \in Line /\ d[2] = 0
  BY DEF FirstDevices
<1>3. \A l : Half(l) \subseteq {"first", "second"} /\ (l /= TERMINAL => Half(l) = {"first"})
  BY DEF Half
<1>4. PICK d \in Installed : \E h \in Half(d[1]) : r = <<d[1], d[2], h>>
  BY <1>1
<1>5. PICK h \in Half(d[1]) : r = <<d[1], 0, h>>
  BY <1>2, <1>4
<1>6. r[1] = d[1] /\ r[3] = h /\ r = <<r[1], 0, r[3]>>
  BY <1>5
<1>7. none \notin Regs
  <2> SUFFICES ASSUME NEW s \in Regs PROVE s /= none
    OBVIOUS
  <2>1. PICK e \in Installed : \E g \in Half(e[1]) : s = <<e[1], e[2], g>>
    BY <1>1
  <2>2. PICK g \in Half(e[1]) : s = <<e[1], e[2], g>>
    BY <2>1
  <2> QED
    BY <2>2 DEF none
<1> QED
  BY <1>2, <1>3, <1>5, <1>6, <1>7

\* What happens to those in a queue when another is put behind them and when the first of
\* them is taken out.
LEMMA InQueue ==
  ASSUME NEW q \in Seq(Proc), NEW x \in Proc
  PROVE  /\ Append(q, x) \in Seq(Proc) /\ Len(Append(q, x)) = Len(q) + 1
         /\ \A p : In(p, Append(q, x)) <=> p = x \/ In(p, q)
<1>1. /\ Append(q, x) \in Seq(Proc) /\ Len(Append(q, x)) = Len(q) + 1
      /\ Append(q, x)[Len(q) + 1] = x
      /\ \A i \in 1..Len(q) : i \in 1..Len(q) + 1 /\ Append(q, x)[i] = q[i]
  OBVIOUS
<1>2. Len(q) + 1 \in 1..Len(q) + 1 /\ \A i \in 1..Len(q) + 1 : i = Len(q) + 1 \/ i \in 1..Len(q)
  OBVIOUS
<1> QED
  BY <1>1, <1>2 DEF In

LEMMA InTail ==
  ASSUME NEW q \in Seq(Proc), q /= <<>>
  PROVE  /\ Tail(q) \in Seq(Proc) /\ Len(Tail(q)) = Len(q) - 1 /\ Len(q) \in Nat
         /\ Head(q) \in Proc /\ In(Head(q), q)
         /\ \A p : In(p, Tail(q)) => In(p, q)
         /\ \A p : In(p, q) /\ p /= Head(q) => In(p, Tail(q))
<1>1. /\ Tail(q) \in Seq(Proc) /\ Len(Tail(q)) = Len(q) - 1 /\ Len(q) \in Nat
      /\ Head(q) \in Proc /\ q[1] = Head(q) /\ 1 \in 1..Len(q)
      /\ \A i \in 1..Len(Tail(q)) : i + 1 \in 1..Len(q) /\ Tail(q)[i] = q[i + 1]
  OBVIOUS
<1>2. \A i \in 1..Len(q) : i /= 1 => i - 1 \in 1..Len(Tail(q)) /\ Tail(q)[i - 1] = q[i]
  BY <1>1
<1> QED
  BY <1>1, <1>2 DEF In

\* WAITIO on the first device of a line puts the process into the queue.
LEMMA DoIoBlocks ==
  ASSUME DevInv, FirstDevices,
         NEW p \in Proc, NEW d \in Installed, NEW sub \in Halves, do_io(p, d, sub)
  PROVE  DevInv'
<1>1. d[1] \in Line /\ d[2] = 0 /\ sub \in {"first", "second"}
  BY DEF FirstDevices
<1>2. fintTYPEandLINE(regAddr(d[1], d[2])) = [ptype |-> d[1], pline |-> 0]
  BY <1>1, FintFirst
<1> DEFINE half == IF d[1] = TERMINAL THEN sub ELSE "first"
           r == <<d[1], 0, half>>
<1>3. r \in Regs
  <2>1. r \in {<<d[1], d[2], h>> : h \in Half(d[1])}
    BY <1>1 DEF Half
  <2> QED
    BY <2>1 DEF Regs
<1>4. /\ ~ Waiting(p)
      /\ status' = [status EXCEPT ![r] = "busy"]
      /\ asked' = [asked EXCEPT ![p] = r]
      /\ blockProcAtDev(p, d[1], 0, half)
  <2>1. /\ [ptype |-> d[1], pline |-> 0].ptype = d[1]
        /\ [ptype |-> d[1], pline |-> 0].pline = 0
    OBVIOUS
  <2> QED
    BY <1>1, <1>2, <2>1 DEF do_io
<1>5. r[1] = d[1] /\ r[3] = half /\ (r[1] = TERMINAL => r[3] \in Halves)
  OBVIOUS
<1> HIDE DEF half
<1>6. /\ sem_dev' = [sem_dev EXCEPT ![r] = @ - 1]
      /\ queue' = IF sem_dev'[r] < 0 THEN [queue EXCEPT ![r] = Append(@, p)] ELSE queue
  BY <1>1, <1>4 DEF blockProcAtDev
<1> HIDE DEF r
<1>7. sem_dev[r] = 0 - Len(queue[r]) /\ Len(queue[r]) \in Nat /\ queue[r] \in Seq(Proc)
  BY <1>3 DEF DevInv, DevTyped, QueuesCount
<1>8. queue' = [queue EXCEPT ![r] = Append(@, p)]
  <2>1. sem_dev'[r] < 0
    BY <1>3, <1>6, <1>7 DEF DevInv, DevTyped
  <2> QED
    BY <1>6, <2>1
<1>9. DevTyped'
  BY <1>3, <1>4, <1>6, <1>7, <1>8, InQueue DEF DevInv, DevTyped
<1>10. QueuesCount'
  <2> SUFFICES ASSUME NEW s \in Regs PROVE sem_dev'[s] = 0 - Len(queue'[s])
    BY DEF QueuesCount
  <2>1. CASE s = r
    BY <1>3, <1>6, <1>7, <1>8, <2>1, InQueue DEF DevInv, DevTyped
  <2>2. CASE s /= r
    BY <1>6, <1>8, <2>2 DEF DevInv, DevTyped, QueuesCount
  <2> QED
    BY <2>1, <2>2
<1>11. HalvesIdle'
  BY <1>3, <1>4, <1>5 DEF DevInv, DevTyped, HalvesIdle
<1>12. ASSUME NEW s \in Regs, NEW x
       PROVE  In(x, queue'[s]) <=> In(x, queue[s]) \/ (s = r /\ x = p)
  <2>1. CASE s = r
    BY <1>3, <1>7, <1>8, <2>1, InQueue DEF DevInv, DevTyped
  <2>2. CASE s /= r
    BY <1>8, <2>2 DEF DevInv, DevTyped
  <2> QED
    BY <2>1, <2>2
<1>13. \A s \in Regs : ~ In(p, queue[s])
  BY <1>4 DEF Waiting, In
<1>14. AskedBlocked'
  <2> SUFFICES ASSUME NEW x \in Proc, asked'[x] /= none
               PROVE  /\ status'[asked'[x]] = "busy"
                      /\ In(x, queue'[asked'[x]])
                      /\ \A s \in Regs : In(x, queue'[s]) => s = asked'[x]
    BY DEF AskedBlocked
  <2>1. CASE x = p
    <3>1. asked'[x] = r
      BY <1>4, <2>1 DEF DevInv, DevTyped
    <3> QED
      BY <1>3, <1>4, <1>12, <1>13, <2>1, <3>1 DEF DevInv, DevTyped
  <2>2. CASE x /= p
    <3>1. /\ asked'[x] = asked[x] /\ asked[x] \in Regs /\ status[asked[x]] = "busy"
          /\ In(x, queue[asked[x]])
          /\ \A s \in Regs : In(x, queue[s]) => s = asked[x]
      BY <1>4, <2>2 DEF DevInv, DevTyped, AskedBlocked
    <3>2. status'[asked[x]] = "busy"
      BY <1>3, <1>4, <3>1 DEF DevInv, DevTyped
    <3> QED
      BY <1>12, <2>2, <3>1, <3>2
  <2> QED
    BY <2>1, <2>2
<1> QED
  BY <1>9, <1>10, <1>11, <1>14 DEF DevInv

\* A handler that wakes the first process of a queue keeps the others in it, and takes out
\* nobody who still awaits an answer when the registers are done.
LEMMA WakeKeeps ==
  ASSUME DevInv, NEW r \in Regs, status[r] = "done", wakeFirst(r), UNCHANGED asked,
         status' \in [Regs -> {"ready", "busy", "done"}], HalvesIdle',
         \A s \in Regs : status[s] = "busy" => status'[s] = "busy"
  PROVE  DevInv'
<1>1. queue[r] \in Seq(Proc)
  BY DEF DevInv, DevTyped
<1>2. ASSUME queue[r] /= <<>> PROVE DevTyped' /\ QueuesCount' /\ AskedBlocked'
  <2>1. /\ sem_dev' = [sem_dev EXCEPT ![r] = @ + 1]
        /\ queue' = [queue EXCEPT ![r] = Tail(@)]
    BY <1>2 DEF wakeFirst
  <2> DEFINE h == Head(queue[r])
  <2>2. /\ Tail(queue[r]) \in Seq(Proc) /\ Len(Tail(queue[r])) = Len(queue[r]) - 1
        /\ Len(queue[r]) \in Nat /\ h \in Proc /\ In(h, queue[r])
    BY <1>1, <1>2, InTail
  <2>3. DevTyped'
    BY <2>1, <2>2 DEF DevInv, DevTyped
  <2>4. QueuesCount'
    <3> SUFFICES ASSUME NEW s \in Regs PROVE sem_dev'[s] = 0 - Len(queue'[s])
      BY DEF QueuesCount
    <3>1. CASE s = r
      BY <2>1, <2>2, <3>1 DEF DevInv, DevTyped, QueuesCount
    <3>2. CASE s /= r
      BY <2>1, <3>2 DEF DevInv, DevTyped, QueuesCount
    <3> QED
      BY <3>1, <3>2
  <2>5. asked[h] = none
    <3>1. asked[h] /= none => r = asked[h] /\ status[r] = "busy"
      BY <2>2 DEF DevInv, AskedBlocked
    <3> QED
      BY <3>1
  <2> HIDE DEF h
  <2>6. ASSUME NEW s \in Regs, NEW x
        PROVE  /\ In(x, queue'[s]) => In(x, queue[s])
               /\ In(x, queue[s]) /\ x /= h => In(x, queue'[s])
    <3>1. CASE s = r
      <4>1. queue'[s] = Tail(queue[r])
        BY <2>1, <3>1 DEF DevInv, DevTyped
      <4> QED
        BY <1>1, <1>2, <3>1, <4>1, InTail DEF h
    <3>2. CASE s /= r
      BY <2>1, <3>2 DEF DevInv, DevTyped
    <3> QED
      BY <3>1, <3>2
  <2>7. AskedBlocked'
    <3> SUFFICES ASSUME NEW x \in Proc, asked[x] /= none
                 PROVE  /\ status'[asked[x]] = "busy"
                        /\ In(x, queue'[asked[x]])
                        /\ \A s \in Regs : In(x, queue'[s]) => s = asked[x]
      BY DEF AskedBlocked
    <3>1. /\ asked[x] \in Regs /\ status[asked[x]] = "busy" /\ In(x, queue[asked[x]])
          /\ \A s \in Regs : In(x, queue[s]) => s = asked[x]
      BY DEF DevInv, DevTyped, AskedBlocked
    <3>2. x /= h
      BY <2>5
    <3> QED
      BY <2>6, <3>1, <3>2
  <2> QED
    BY <2>3, <2>4, <2>7
<1>3. ASSUME queue[r] = <<>> PROVE DevTyped' /\ QueuesCount' /\ AskedBlocked'
  <2>1. UNCHANGED <<sem_dev, queue, asked>>
    BY <1>3 DEF wakeFirst
  <2> QED
    BY <2>1 DEF DevInv, DevTyped, QueuesCount, AskedBlocked
<1> QED
  BY <1>2, <1>3 DEF DevInv

\* The handler of a line that is not of terminals: its acknowledge reaches the registers
\* it has woken somebody for, or none.
LEMMA IntDtpKeeps ==
  ASSUME DevInv, FirstDevices, NEW r \in Regs, intDtp(r)
  PROVE  DevInv'
<1>1. status[r] = "done" /\ wakeFirst(r) /\ UNCHANGED asked
  BY DEF intDtp
<1>2. ASSUME NEW x \in Regs, x \in acknowledged(r[1], r[2]) PROVE x = r
  <2>1. /\ r[1] \in 3..6 /\ r[2] = 0 /\ r = <<r[1], 0, "first">>
        /\ x[1] \in Line /\ x[2] = 0 /\ x = <<x[1], 0, "first">>
        /\ DEV_ADDR(r[1], 0) = regAddr(x[1], 0)
    <3>1. /\ x[3] = "first" /\ regAddr(x[1], x[2]) = DEV_ADDR(r[1], r[2])
          /\ r[1] /= TERMINAL
      BY <1>2 DEF acknowledged, intDtp
    <3>2. /\ r = <<r[1], 0, r[3]>> /\ r[1] \in Line /\ r[3] = "first"
          /\ x = <<x[1], 0, x[3]>> /\ x[1] \in Line
      BY <3>1, FirstRegs
    <3>3. \A a, b, c : <<a, b, c>>[2] = b
      OBVIOUS
    <3> QED
      BY <3>1, <3>2, <3>3 DEF Line, TERMINAL
  <2>2. 0 \in Number
    BY DEF Number, DEV_PER_INT
  <2>3. r[1] = 3 /\ x[1] = 3
    BY <2>1, <2>2, AcknowledgeReaches
  <2> QED
    BY <2>1, <2>3
<1>3. status' = [x \in Regs |-> IF x \in acknowledged(r[1], r[2]) THEN "ready" ELSE status[x]]
  BY DEF intDtp
<1>4. /\ status' \in [Regs -> {"ready", "busy", "done"}]
      /\ \A s \in Regs : status[s] = "busy" => status'[s] = "busy"
  BY <1>1, <1>2, <1>3 DEF DevInv, DevTyped
<1>5. HalvesIdle'
  BY <1>3 DEF DevInv, HalvesIdle
<1> QED
  BY <1>1, <1>4, <1>5, WakeKeeps

\* The handler of the terminals: with one half in use, the half that is not ready is the one
\* that has completed.
LEMMA IntTermKeeps ==
  ASSUME DevInv, FirstDevices, NEW r \in Regs, intTerm(r)
  PROVE  DevInv'
<1>1. /\ r[1] = TERMINAL /\ status[r] /= "ready" /\ wakeFirst(r) /\ UNCHANGED asked
  BY DEF intTerm
<1>2. status[r] = "done"
  <2>1. PICK h \in Half(TERMINAL) : status[<<r[1], r[2], h>>] = "done"
    BY DEF intTerm
  <2> DEFINE s == <<r[1], r[2], h>>
  <2>2. s \in Regs
    <3>1. PICK d \in Installed : \E g \in Half(d[1]) : r = <<d[1], d[2], g>>
      BY DEF Regs
    <3>2. r[1] = d[1] /\ r[2] = d[2]
      BY <3>1
    <3>3. s \in {<<d[1], d[2], g>> : g \in Half(d[1])}
      BY <1>1, <3>2
    <3> QED
      BY <3>3 DEF Regs
  <2>3. s[1] = TERMINAL /\ s[3] = h
    BY <1>1
  <2>4. h \in Halves /\ r[3] \in Halves
    BY <1>1, <2>1, <2>2, <2>3 DEF DevInv, HalvesIdle
  <2>5. r = <<r[1], 0, r[3]>>
    BY FirstRegs
  <2>6. h = r[3] /\ r[2] = 0
    BY <2>4, <2>5 DEF FirstDevices
  <2> QED
    BY <2>1, <2>5, <2>6
<1>3. status' = [status EXCEPT ![r] = "ready"]
  BY <1>2 DEF intTerm
<1>4. /\ status' \in [Regs -> {"ready", "busy", "done"}]
      /\ \A s \in Regs : status[s] = "busy" => status'[s] = "busy"
  BY <1>2, <1>3 DEF DevInv, DevTyped
<1>5. HalvesIdle'
  BY <1>3 DEF DevInv, DevTyped, HalvesIdle
<1> QED
  BY <1>1, <1>2, <1>4, <1>5, WakeKeeps

\* A device that answers is awaited by nobody any more.
LEMMA CompleteKeeps ==
  ASSUME DevInv, FirstDevices, NEW r \in Regs, Complete(r)
  PROVE  DevInv'
<1>1. /\ status[r] = "busy" /\ status' = [status EXCEPT ![r] = "done"]
      /\ asked' = [p \in Proc |-> IF asked[p] = r THEN none ELSE asked[p]]
      /\ UNCHANGED <<sem_dev, queue>>
  BY DEF Complete
<1>2. DevTyped' /\ QueuesCount'
  BY <1>1 DEF DevInv, DevTyped, QueuesCount
<1>3. HalvesIdle'
  BY <1>1 DEF DevInv, DevTyped, HalvesIdle
<1>4. AskedBlocked'
  <2> SUFFICES ASSUME NEW p \in Proc, asked'[p] /= none
               PROVE  /\ status'[asked'[p]] = "busy"
                      /\ In(p, queue[asked'[p]])
                      /\ \A s \in Regs : In(p, queue[s]) => s = asked'[p]
    BY <1>1 DEF AskedBlocked
  <2>1. asked'[p] = asked[p] /\ asked[p] /= r /\ asked[p] \in Regs
    BY <1>1 DEF DevInv, DevTyped
  <2> QED
    BY <1>1, <2>1 DEF DevInv, DevTyped, AskedBlocked
<1> QED
  BY <1>2, <1>3, <1>4 DEF DevInv

(***************************************************************************)
(* On a machine with at most the first device of every line, one half of   *)
(* whose terminal is given commands at most, a process stays blocked until *)
(* the device it gave a command to has answered (include/syscall.h:40):    *)
(* no handler wakes it for another device and no acknowledge stops its     *)
(* command, however many processes use the devices.  One command to any    *)
(* other device breaks this (OthersDoNotBlock), and so does the second     *)
(* half of a terminal (interrupt.c:186-206).                               *)
(***************************************************************************)
THEOREM FirstDevicesBlock ==
  ASSUME Installed \subseteq Line \X {0},
         Halves \subseteq {"first", "second"},
         \A g \in Halves, h \in Halves : g = h
  PROVE  DevSpec => []BlockedUntilAnswer
<1> FirstDevices
  BY DEF FirstDevices
<1>1. DevInit => DevInv
  <2> SUFFICES ASSUME DevInit PROVE DevInv
    OBVIOUS
  <2>1. \A s \in Regs : /\ queue[s] \in Seq(Proc) /\ Len(queue[s]) = 0
                        /\ sem_dev[s] = 0 /\ sem_dev[s] \in Int
                        /\ status[s] = "ready"
    BY DEF DevInit
  <2>2. asked \in [Proc -> Regs \cup {none}] /\ \A p \in Proc : asked[p] = none
    BY DEF DevInit
  <2>3. DevTyped
    BY <2>1, <2>2 DEF DevInit, DevTyped
  <2> QED
    BY <2>1, <2>2, <2>3 DEF DevInv, QueuesCount, HalvesIdle, AskedBlocked
<1>2. DevInv /\ [DevNext]_devVars => DevInv'
  <2> SUFFICES ASSUME DevInv, [DevNext]_devVars PROVE DevInv'
    OBVIOUS
  <2>1. ASSUME NEW p \in Proc, NEW d \in Installed, NEW sub \in Halves, do_io(p, d, sub)
        PROVE  DevInv'
    BY <2>1, DoIoBlocks
  <2>2. ASSUME NEW r \in Regs, intDtp(r)
        PROVE  DevInv'
    BY <2>2, IntDtpKeeps
  <2>3. ASSUME NEW r \in Regs, intTerm(r)
        PROVE  DevInv'
    BY <2>3, IntTermKeeps
  <2>4. ASSUME NEW r \in Regs, Complete(r)
        PROVE  DevInv'
    BY <2>4, CompleteKeeps
  <2>5. CASE UNCHANGED devVars
    BY <2>5 DEF devVars, DevInv, DevTyped, QueuesCount, HalvesIdle, AskedBlocked
  <2> QED
    BY <2>1, <2>2, <2>3, <2>4, <2>5 DEF DevNext
<1>3. DevInv => BlockedUntilAnswer
  BY DEF DevInv, DevTyped, AskedBlocked, BlockedUntilAnswer, Waiting, In
<1> QED
  BY <1>1, <1>2, <1>3, PTL DEF DevSpec
=============================================================================
