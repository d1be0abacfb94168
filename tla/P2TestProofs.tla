---------------------------- MODULE P2TestProofs ----------------------------
(***************************************************************************)
(* The test program runs on the kernel as Nucleus has it, and prints one   *)
(* process at a time, for any number of pcbs, any length of messages, any  *)
(* number of rounds and preemptions anywhere.                              *)
(***************************************************************************)
EXTENDS P2Test, NucleusProofs

-----------------------------------------------------------------------------
(***************************************************************************)
(* The programs.                                                           *)
(***************************************************************************)
progs ==
  {"test", "p2", "p3", "p4", "p4a", "p4b", "p4prog", "p4mm", "p4sys", "p5", "p6", "p7root",
   "child1", "child2", "p7leaf", "error", ""}
conditions ==
  {"transmitted", "testsem is 1", "s is 0", "p2 ran", "p3pid is right", "call succeeded",
   "call failed", "unreachable"}
Instruction ==
  [op : {"P", "V"}, sem : semaphores] \cup [op : {"zero"}, sem : zeroed]
    \cup [op : {"set"}, var : {"p3inc", "p1p2synch"}, val : Nat]
    \cup [op : {"create"}, prog : progs, pid : pids \cup {""}]
    \cup [op : {"terminate"}, pid : pids \cup {""}]
    \cup [op : {"io", "sys13", "panic"}]
    \cup [op : {"trap"}, type : ExcType]
    \cup [op : {"spec"}, type : ExcType, old : areas, new : areas]
    \cup [op : {"ldst"}, area : areas, prog : progs]
    \cup [op : {"check"}, what : conditions]

\* The instructions that may come before one of print()'s that needs the lock.
intoPrint(i) ==
  \/ needsLock(i) /\ i.op /= "V"
  \/ i.op = "P" /\ i.sem = "term_mut"

\* What may follow an instruction: print() is entered by its P only, and a status is read
\* after a WAITIO only.
follows(i, j) ==
  /\ intoPrint(i) \/ ~ needsLock(j)
  /\ readsStatus(j) => i.op = "io"
LockedCode ==
  {c \in Seq(Instruction) :
     /\ c /= <<>> => ~ needsLock(c[1])
     /\ \A i \in 1..Len(c) - 1 : follows(c[i], c[i + 1])}

\* Outside print() anything may follow.
LEMMA OutsideIsFree == \A i, j : ~ needsLock(j) => follows(i, j)
BY DEF follows, needsLock, readsStatus

\* Two that follow each other in a catenation do so in one of its parts, or the second is
\* the first of the second part.
LEMMA CatPairs ==
  ASSUME NEW a \in Seq(Instruction), NEW b \in Seq(Instruction), NEW c, c = a \o b
  PROVE  /\ c \in Seq(Instruction) /\ Len(c) = Len(a) + Len(b)
         /\ Len(a) \in Nat /\ Len(b) \in Nat
         /\ c /= <<>> => \/ a /= <<>> /\ c[1] = a[1]
                         \/ b /= <<>> /\ c[1] = b[1]
         /\ \A i \in 1..Len(c) : \/ i \in 1..Len(a) /\ c[i] = a[i]
                                 \/ i - Len(a) \in 1..Len(b) /\ c[i] = b[i - Len(a)]
         /\ \A i \in 1..Len(c) - 1 :
              \/ \E j \in 1..Len(a) - 1 : c[i] = a[j] /\ c[i + 1] = a[j + 1]
              \/ \E j \in 1..Len(b) - 1 : c[i] = b[j] /\ c[i + 1] = b[j + 1]
              \/ b /= <<>> /\ c[i + 1] = b[1]
<1>2. /\ c \in Seq(Instruction) /\ Len(c) = Len(a) + Len(b)
      /\ \A i \in 1..Len(c) : c[i] = IF i <= Len(a) THEN a[i] ELSE b[i - Len(a)]
  BY ConcatProperties
<1>3. Len(a) \in Nat /\ Len(b) \in Nat
  BY LenProperties
<1>4. /\ Len(a) > 0 => a /= <<>>
      /\ Len(b) > 0 => b /= <<>>
      /\ Len(c) > 0 <=> c /= <<>>
  BY <1>2, EmptyElems
<1>5. c /= <<>> => \/ a /= <<>> /\ c[1] = a[1]
                   \/ b /= <<>> /\ c[1] = b[1]
  BY <1>2, <1>3, <1>4
<1>6. \A i \in 1..Len(c) : \/ i \in 1..Len(a) /\ c[i] = a[i]
                           \/ i - Len(a) \in 1..Len(b) /\ c[i] = b[i - Len(a)]
  BY <1>2, <1>3
<1>7. ASSUME NEW i \in 1..Len(c) - 1
      PROVE  \/ \E j \in 1..Len(a) - 1 : c[i] = a[j] /\ c[i + 1] = a[j + 1]
             \/ \E j \in 1..Len(b) - 1 : c[i] = b[j] /\ c[i + 1] = b[j + 1]
             \/ b /= <<>> /\ c[i + 1] = b[1]
  <2>1. CASE i < Len(a)
    <3>1. c[i] = a[i] /\ c[i + 1] = a[i + 1] /\ i \in 1..Len(a) - 1
      BY <1>2, <1>3, <2>1
    <3> QED
      BY <3>1
  <2>2. CASE i = Len(a)
    <3>1. c[i + 1] = b[1] /\ Len(b) > 0
      BY <1>2, <1>3, <2>2
    <3> QED
      BY <1>4, <3>1
  <2>3. CASE i > Len(a)
    <3>1. /\ c[i] = b[i - Len(a)] /\ c[i + 1] = b[i - Len(a) + 1]
          /\ i - Len(a) \in 1..Len(b) - 1
      BY <1>2, <1>3, <2>3
    <3> QED
      BY <3>1
  <2> QED
    BY <1>3, <2>1, <2>2, <2>3
<1> QED
  BY <1>2, <1>3, <1>5, <1>6, <1>7

\* What enters print() by its P only still does so when put one after the other.
LEMMA CatLocked == \A a, b \in LockedCode : a \o b \in LockedCode
<1> SUFFICES ASSUME NEW a \in LockedCode, NEW b \in LockedCode
             PROVE  a \o b \in LockedCode
  OBVIOUS
<1>1. PICK c : c = a \o b
  OBVIOUS
<1>2. /\ a \in Seq(Instruction) /\ b \in Seq(Instruction)
      /\ a /= <<>> => ~ needsLock(a[1])
      /\ b /= <<>> => ~ needsLock(b[1])
      /\ \A i \in 1..Len(a) - 1 : follows(a[i], a[i + 1])
      /\ \A i \in 1..Len(b) - 1 : follows(b[i], b[i + 1])
  BY DEF LockedCode
<1> HIDE DEF LockedCode
<1>3. c \in Seq(Instruction) /\ (c /= <<>> => ~ needsLock(c[1]))
  BY <1>1, <1>2, CatPairs
<1>4. \A i \in 1..Len(c) - 1 : follows(c[i], c[i + 1])
  BY <1>1, <1>2, CatPairs, OutsideIsFree
<1> QED
  BY <1>1, <1>3, <1>4 DEF LockedCode

\* A catenation of several sequences, as SequencesExt makes it step by step.
Flattens(s, n, f) ==
  /\ DOMAIN f = 1..n
  /\ \A i \in 1..n : f[i] = IF i = 1 THEN s[i] ELSE f[i - 1] \o s[i]

\* The catenation of the first n exists for every n.
LEMMA FlattenExists ==
  ASSUME NEW s
  PROVE  \A n \in Nat : \E f : Flattens(s, n, f) /\ f = [i \in 1..n |-> f[i]]
<1> DEFINE Has(n) == \E f : Flattens(s, n, f) /\ f = [i \in 1..n |-> f[i]]
           T == {n \in Nat : ~ Has(n)}
<1> SUFFICES ASSUME T /= {} PROVE FALSE
  OBVIOUS
<1>1. PICK n \in T : \A m \in T : n <= m
  <2>1. T \subseteq Nat
    OBVIOUS
  <2> HIDE DEF T
  <2> QED
    BY <2>1, LeastNat
<1>2. n \in Nat /\ ~ Has(n)
  BY <1>1
<1>3. CASE n = 0
  <2> DEFINE f == [i \in 1..0 |-> s]
  <2>1. Flattens(s, 0, f) /\ f = [i \in 1..0 |-> f[i]]
    BY DEF Flattens
  <2> QED
    BY <1>2, <1>3, <2>1
<1>4. CASE n > 0
  <2>1. n - 1 \in Nat /\ Has(n - 1)
    <3>1. n - 1 \in Nat /\ n - 1 \notin T
      BY <1>1, <1>2, <1>4
    <3> QED
      BY <3>1
  <2>2. PICK f : Flattens(s, n - 1, f)
    BY <2>1
  <2> DEFINE last == IF n = 1 THEN s[1] ELSE f[n - 1] \o s[n]
             g == [i \in 1..n |-> IF i = n THEN last ELSE f[i]]
  <2> HIDE DEF last
  <2>3. ASSUME NEW i \in 1..n
        PROVE  g[i] = IF i = 1 THEN s[i] ELSE g[i - 1] \o s[i]
    <3>1. CASE i = n
      BY <1>2, <1>4, <3>1 DEF last
    <3>2. CASE i /= n
      <4>1. i \in 1..n - 1 /\ g[i] = f[i] /\ (i /= 1 => g[i - 1] = f[i - 1])
        BY <1>2, <3>2
      <4> QED
        BY <2>2, <4>1 DEF Flattens
    <3> QED
      BY <3>1, <3>2
  <2>4. DOMAIN g = 1..n /\ g = [i \in 1..n |-> g[i]]
    OBVIOUS
  <2> HIDE DEF g
  <2>5. Flattens(s, n, g)
    BY <2>3, <2>4 DEF Flattens
  <2> QED
    BY <1>2, <2>4, <2>5
<1> QED
  BY <1>2, <1>3, <1>4

\* FlattenSeq stays in a set of sequences that contains the empty one and is closed under
\* catenation.
LEMMA FlattenIn ==
  ASSUME NEW S, \A a, b \in S : a \o b \in S,
         NEW n \in Nat \ {0}, NEW s, s = [i \in 1..n |-> s[i]], Len(s) = n,
         \A i \in 1..n : s[i] \in S
  PROVE  SeqOps!FlattenSeq(s) \in S
<1> DEFINE Eq(f) == f = [i \in 1..n |-> IF i = 1 THEN s[i] ELSE f[i - 1] \o s[i]]
           flat == CHOOSE f : Eq(f)
<1>1. PICK f : Flattens(s, n, f) /\ f = [i \in 1..n |-> f[i]]
  BY FlattenExists
<1>2. Eq(f)
  BY <1>1 DEF Flattens
<1>3. Eq(flat)
  <2> HIDE DEF Eq
  <2> QED
    BY <1>2
<1>4. SeqOps!FlattenSeq(s) = flat[n]
  BY DEF SeqOps!FlattenSeq
<1> HIDE DEF flat
<1>5. \A i \in 1..n : flat[i] = IF i = 1 THEN s[i] ELSE flat[i - 1] \o s[i]
  BY <1>3
<1> HIDE DEF Eq
<1> DEFINE T == {i \in 1..n : flat[i] \notin S}
<1>6. T = {}
  <2> SUFFICES ASSUME T /= {} PROVE FALSE
    OBVIOUS
  <2>1. PICK i \in T : \A m \in T : i <= m
    <3>1. T \subseteq Nat
      OBVIOUS
    <3> HIDE DEF T
    <3> QED
      BY <3>1, LeastNat
  <2>2. i \in 1..n /\ flat[i] \notin S
    BY <2>1
  <2>3. i /= 1
    BY <1>5, <2>2
  <2>4. i - 1 \in 1..n /\ flat[i - 1] \in S
    BY <2>1, <2>2, <2>3
  <2> QED
    BY <1>5, <2>2, <2>3, <2>4
<1> QED
  BY <1>4, <1>6

\* The same of Repeat.
LEMMA RepeatIn ==
  ASSUME NEW S, \A a, b \in S : a \o b \in S, NEW code \in S, NEW n \in Nat \ {0}
  PROVE  Repeat(code, n) \in S
<1> DEFINE s == [i \in 1..n |-> code]
<1>1. s = [i \in 1..n |-> s[i]] /\ Len(s) = n /\ \A i \in 1..n : s[i] \in S
  OBVIOUS
<1> HIDE DEF s
<1>2. SeqOps!FlattenSeq(s) \in S
  BY <1>1, FlattenIn
<1> QED
  BY <1>2 DEF Repeat, s

\* The pieces the programs are made of hold instructions.
LEMMA Instructions ==
  /\ \A k \in semaphores : /\ [op |-> "P", sem |-> k] \in Instruction
                           /\ [op |-> "V", sem |-> k] \in Instruction
  /\ \A k \in zeroed : [op |-> "zero", sem |-> k] \in Instruction
  /\ \A g \in {"p3inc", "p1p2synch"}, n \in Nat :
       [op |-> "set", var |-> g, val |-> n] \in Instruction
  /\ \A prog \in progs, pid \in pids \cup {""} :
       [op |-> "create", prog |-> prog, pid |-> pid] \in Instruction
  /\ \A pid \in pids \cup {""} : [op |-> "terminate", pid |-> pid] \in Instruction
  /\ [op |-> "io"] \in Instruction /\ [op |-> "sys13"] \in Instruction
  /\ [op |-> "panic"] \in Instruction
  /\ \A t \in ExcType : [op |-> "trap", type |-> t] \in Instruction
  /\ \A t \in ExcType, o, n \in areas :
       [op |-> "spec", type |-> t, old |-> o, new |-> n] \in Instruction
  /\ \A a \in areas, prog \in progs :
       [op |-> "ldst", area |-> a, prog |-> prog] \in Instruction
  /\ \A w \in conditions : [op |-> "check", what |-> w] \in Instruction
BY DEF Instruction

\* One instruction that needs no lock.
LEMMA OneLocked ==
  ASSUME NEW i \in Instruction, ~ needsLock(i)
  PROVE  <<i>> \in LockedCode
BY DEF LockedCode

\* Two instructions one after the other.
LEMMA PairOfTwo ==
  ASSUME NEW S, NEW x \in S, NEW y \in S
  PROVE  <<x>> \o <<y>> = <<x, y>>
<1>1. <<x>> \in Seq(S) /\ <<y>> \in Seq(S) /\ <<x, y>> \in Seq(S)
  OBVIOUS
<1>2. /\ Len(<<x>>) = 1 /\ Len(<<y>>) = 1 /\ Len(<<x, y>>) = 2
      /\ <<x>>[1] = x /\ <<y>>[1] = y /\ <<x, y>>[1] = x /\ <<x, y>>[2] = y
  OBVIOUS
<1>3. PICK c : c = <<x>> \o <<y>>
  OBVIOUS
<1>4. c \in Seq(S) /\ Len(c) = 2 /\ c[1] = x /\ c[2] = y
  BY <1>1, <1>2, <1>3, ConcatProperties
<1>5. PICK t : t = <<x, y>>
  OBVIOUS
<1>6. t \in Seq(S) /\ Len(t) = 2 /\ t[1] = x /\ t[2] = y
  BY <1>1, <1>2, <1>5
<1>7. \A i \in 1..Len(c) : c[i] = t[i]
  <2>1. \A i \in 1..Len(c) : i = 1 \/ i = 2
    BY <1>4
  <2> QED
    BY <1>4, <1>6, <2>1
<1>8. c = t
  BY <1>4, <1>6, <1>7, SeqEqual
<1> QED
  BY <1>3, <1>5, <1>8

\* print() itself: WAITIO and the check of its status, over and over.
LEMMA PrintLocked == print \in LockedCode
<1> DEFINE io == [op |-> "io"]
           check == [op |-> "check", what |-> "transmitted"]
           p == [op |-> "P", sem |-> "term_mut"]
           v == [op |-> "V", sem |-> "term_mut"]
           S == {c \in Seq(Instruction) :
                   /\ c /= <<>> => c[1] = io
                   /\ \A i \in 1..Len(c) : intoPrint(c[i])
                   /\ \A i \in 1..Len(c) - 1 : follows(c[i], c[i + 1])}
           chars == Repeat(WaitIO \o Check("transmitted"), MSGLEN)
<1>1. p \in Instruction /\ v \in Instruction /\ io \in Instruction /\ check \in Instruction
  BY Instructions DEF semaphores, conditions
<1>2. /\ ~ needsLock(p) /\ intoPrint(p) /\ intoPrint(io) /\ intoPrint(check)
      /\ \A i : intoPrint(i) => follows(i, io) /\ follows(i, v)
      /\ follows(io, check)
  BY DEF needsLock, intoPrint, follows, readsStatus
<1> HIDE DEF io, check, p, v
<1>3. \A a, b \in S : a \o b \in S
  <2> SUFFICES ASSUME NEW a \in S, NEW b \in S
               PROVE  a \o b \in S
    OBVIOUS
  <2>1. PICK c : c = a \o b
    OBVIOUS
  <2>2. a \in Seq(Instruction) /\ b \in Seq(Instruction)
    OBVIOUS
  <2>3. c \in Seq(Instruction) /\ (c /= <<>> => c[1] = io)
    BY <2>1, <2>2, CatPairs
  <2>4. \A i \in 1..Len(c) : intoPrint(c[i])
    BY <2>1, <2>2, CatPairs
  <2>5. \A i \in 1..Len(c) - 1 : follows(c[i], c[i + 1])
    <3> SUFFICES ASSUME NEW i \in 1..Len(c) - 1 PROVE follows(c[i], c[i + 1])
      OBVIOUS
    <3>1. intoPrint(c[i])
      <4>1. Len(c) \in Nat
        BY <2>3, LenProperties
      <4> QED
        BY <2>4, <4>1
    <3>2. CASE b /= <<>> /\ c[i + 1] = b[1]
      BY <1>2, <3>1, <3>2
    <3> QED
      BY <2>1, <2>2, <3>2, CatPairs
  <2> QED
    BY <2>1, <2>3, <2>4, <2>5
<1>4. <<io, check>> \in S
  <2>1. <<io, check>> \in Seq(Instruction) /\ Len(<<io, check>>) = 2
        /\ <<io, check>>[1] = io /\ <<io, check>>[2] = check
    BY <1>1
  <2> QED
    BY <1>2, <2>1
<1>5. WaitIO \o Check("transmitted") = <<io, check>>
  <2>1. <<io>> \o <<check>> = <<io, check>>
    BY <1>1, PairOfTwo
  <2> QED
    BY <2>1 DEF WaitIO, Check, io, check
<1>6. chars \in S
  <2> HIDE DEF S
  <2> QED
    BY <1>3, <1>4, <1>5, RepeatIn, P2TestAssumption
<1> HIDE DEF chars
<1>7. /\ chars \in Seq(Instruction) /\ (chars /= <<>> => chars[1] = io)
      /\ \A i \in 1..Len(chars) : intoPrint(chars[i])
      /\ \A i \in 1..Len(chars) - 1 : follows(chars[i], chars[i + 1])
  BY <1>6
<1> HIDE DEF S
<1>8. PICK b : b = <<p>> \o chars
  OBVIOUS
<1>9. <<p>> \in Seq(Instruction) /\ <<p>> /= <<>> /\ Len(<<p>>) = 1 /\ <<p>>[1] = p
  BY <1>1
<1>10. /\ b \in Seq(Instruction) /\ b /= <<>> /\ Len(b) \in Nat
       /\ b[1] = p
       /\ \A i \in 1..Len(b) : intoPrint(b[i])
       /\ \A i \in 1..Len(b) - 1 : follows(b[i], b[i + 1])
  <2>1. b \in Seq(Instruction) /\ Len(b) = 1 + Len(chars) /\ Len(chars) \in Nat
    BY <1>7, <1>8, <1>9, CatPairs
  <2>2. b /= <<>> /\ b[1] = p
    BY <1>7, <1>8, <1>9, <2>1, ConcatProperties, EmptyElems
  <2>3. ASSUME NEW i \in 1..Len(b) PROVE intoPrint(b[i])
    BY <1>2, <1>7, <1>8, <1>9, CatPairs
  <2>4. ASSUME NEW i \in 1..Len(b) - 1 PROVE follows(b[i], b[i + 1])
    <3>1. intoPrint(b[i])
      BY <2>1, <2>3
    <3>2. CASE chars /= <<>> /\ b[i + 1] = chars[1]
      BY <1>2, <1>7, <3>1, <3>2
    <3> QED
      BY <1>7, <1>8, <1>9, <3>2, CatPairs
  <2> QED
    BY <2>1, <2>2, <2>3, <2>4
<1>11. PICK c : c = b \o <<v>>
  OBVIOUS
<1>12. <<v>> \in Seq(Instruction) /\ <<v>> /= <<>> /\ Len(<<v>>) = 1 /\ <<v>>[1] = v
  BY <1>1
<1>13. /\ c \in Seq(Instruction) /\ Len(c) = Len(b) + 1
       /\ \A i \in 1..Len(b) : c[i] = b[i]
  BY <1>10, <1>11, <1>12, ConcatProperties
<1>14. ~ needsLock(c[1])
  <2>1. 1 \in 1..Len(b)
    BY <1>10, EmptyElems
  <2> QED
    BY <1>2, <1>10, <1>13, <2>1
<1>15. ASSUME NEW i \in 1..Len(c) - 1 PROVE follows(c[i], c[i + 1])
  <2>1. intoPrint(c[i])
    BY <1>10, <1>13
  <2>2. CASE <<v>> /= <<>> /\ c[i + 1] = <<v>>[1]
    BY <1>2, <1>12, <2>1, <2>2
  <2>3. ~ \E j \in 1..Len(<<v>>) - 1 : c[i] = <<v>>[j] /\ c[i + 1] = <<v>>[j + 1]
    BY <1>12
  <2> QED
    BY <1>10, <1>11, <1>12, <2>2, <2>3, CatPairs
<1>16. print = c
  BY <1>8, <1>11 DEF print, P, V, chars, p, v
<1> QED
  BY <1>13, <1>14, <1>15, <1>16 DEF LockedCode

\* None of them, outside print(), needs the lock.
LEMMA PiecesLocked ==
  /\ \A k \in semaphores : P(k) \in LockedCode
  /\ \A k \in semaphores \ {"term_mut"} : V(k) \in LockedCode
  /\ \A k \in zeroed : Zero(k) \in LockedCode
  /\ \A g \in {"p3inc", "p1p2synch"}, n \in Nat : Set(g, n) \in LockedCode
  /\ \A prog \in progs, pid \in pids \cup {""} : New(prog, pid) \in LockedCode
  /\ \A pid \in pids \cup {""} : Terminate(pid) \in LockedCode
  /\ Sys13 \in LockedCode /\ <<[op |-> "panic"]>> \in LockedCode
  /\ \A t \in ExcType : Trap(t) \in LockedCode
  /\ \A t \in ExcType, o, n \in areas : SpecPassUp(t, o, n) \in LockedCode
  /\ \A a \in areas, prog \in progs : Continue(a, prog) \in LockedCode
  /\ \A w \in conditions \ {"transmitted"} : Check(w) \in LockedCode
<1>1. \A i \in Instruction : ~ needsLock(i) => <<i>> \in LockedCode
  BY OneLocked
<1> HIDE DEF LockedCode
<1>2. \A k \in semaphores : P(k) \in LockedCode
  BY <1>1, Instructions DEF P, needsLock
<1>3. \A k \in semaphores \ {"term_mut"} : V(k) \in LockedCode
  BY <1>1, Instructions DEF V, needsLock
<1>4. \A k \in zeroed : Zero(k) \in LockedCode
  BY <1>1, Instructions DEF Zero, needsLock
<1>5. \A g \in {"p3inc", "p1p2synch"}, n \in Nat : Set(g, n) \in LockedCode
  BY <1>1, Instructions DEF Set, needsLock
<1>6. \A prog \in progs, pid \in pids \cup {""} : New(prog, pid) \in LockedCode
  BY <1>1, Instructions DEF New, needsLock
<1>7. \A pid \in pids \cup {""} : Terminate(pid) \in LockedCode
  BY <1>1, Instructions DEF Terminate, needsLock
<1>8. Sys13 \in LockedCode /\ <<[op |-> "panic"]>> \in LockedCode
  BY <1>1, Instructions DEF Sys13, needsLock
<1>9. \A t \in ExcType : Trap(t) \in LockedCode
  BY <1>1, Instructions DEF Trap, needsLock
<1>10. \A t \in ExcType, o, n \in areas : SpecPassUp(t, o, n) \in LockedCode
  BY <1>1, Instructions DEF SpecPassUp, needsLock
<1>11. \A a \in areas, prog \in progs : Continue(a, prog) \in LockedCode
  BY <1>1, Instructions DEF Continue, needsLock
<1>12. \A w \in conditions \ {"transmitted"} : Check(w) \in LockedCode
  BY <1>1, Instructions DEF Check, needsLock
<1> QED
  BY <1>2, <1>3, <1>4, <1>5, <1>6, <1>7, <1>8, <1>9, <1>10, <1>11, <1>12

\* Loops and lists of leaves enter print() by its P only.
LEMMA RepeatLocked ==
  ASSUME NEW code \in LockedCode, NEW n \in Nat
  PROVE  Repeat(code, n) \in LockedCode
<1>1. CASE n = 0
  <2> DEFINE s == [i \in 1..n |-> code]
  <2>1. s = <<>> /\ Len(s) = 0
    BY <1>1
  <2>2. Repeat(code, n) = <<>>
    <3>1. Repeat(code, n) = SeqOps!FlattenSeq(s)
      BY DEF Repeat
    <3> HIDE DEF s
    <3> QED
      BY <2>1, <3>1 DEF SeqOps!FlattenSeq
  <2>3. <<>> \in LockedCode
    BY DEF LockedCode
  <2> QED
    BY <2>2, <2>3
<1>2. CASE n /= 0
  <2> HIDE DEF LockedCode
  <2> QED
    BY <1>2, CatLocked, RepeatIn
<1> QED
  BY <1>1, <1>2

\* So do the creation and the termination of the leaves.
LEMMA LeavesLocked ==
  /\ terminateLeaves \in LockedCode
  /\ createLeaves(1, NOLEAVES \div 2) \in LockedCode
  /\ createLeaves(NOLEAVES \div 2 + 1, NOLEAVES) \in LockedCode
<1>1. /\ NOLEAVES \in {2, 4} /\ NOLEAVES \div 2 \in {1, 2}
      /\ \A i \in 1..NOLEAVES : leafpid[i] \in pids
  BY P2TestAssumption DEF leafpid, pids
<1>2. terminateLeaves \in LockedCode
  <2> DEFINE s == [i \in 1..NOLEAVES |-> Terminate(leafpid[i])]
  <2>1. /\ s = [i \in 1..NOLEAVES |-> s[i]] /\ Len(s) = NOLEAVES
        /\ \A i \in 1..NOLEAVES : s[i] \in LockedCode
    <3>1. \A i \in 1..NOLEAVES : Terminate(leafpid[i]) \in LockedCode
      BY <1>1, PiecesLocked
    <3>2. NOLEAVES \in Nat
      BY <1>1
    <3> QED
      BY <3>1, <3>2
  <2> HIDE DEF s
  <2>2. SeqOps!FlattenSeq(s) \in LockedCode
    BY <1>1, <2>1, FlattenIn, CatLocked
  <2> QED
    BY <2>2 DEF terminateLeaves, s
<1>3. ASSUME NEW from \in 1..NOLEAVES, NEW to \in from..NOLEAVES
      PROVE  createLeaves(from, to) \in LockedCode
  <2> DEFINE n == to - from + 1
             s == [i \in 1..n |-> New("p7leaf", leafpid[from + i - 1])]
  <2>1. n \in Nat \ {0} /\ \A i \in 1..n : from + i - 1 \in 1..NOLEAVES
    BY <1>1
  <2>2. /\ s = [i \in 1..n |-> s[i]] /\ Len(s) = n
        /\ \A i \in 1..n : s[i] \in LockedCode
    <3>1. \A i \in 1..n : New("p7leaf", leafpid[from + i - 1]) \in LockedCode
      BY <1>1, <2>1, PiecesLocked DEF progs
    <3> HIDE DEF n
    <3> QED
      BY <2>1, <3>1
  <2> HIDE DEF s
  <2>3. SeqOps!FlattenSeq(s) \in LockedCode
    <3> HIDE DEF n
    <3> QED
      BY <2>1, <2>2, FlattenIn, CatLocked
  <2> QED
    BY <2>3 DEF createLeaves, s
<1> QED
  BY <1>1, <1>2, <1>3

\* Every program enters print() by its P only.
LEMMA CodeLocked == \A prog \in DOMAIN Code : Code[prog] \in LockedCode
<1> HIDE DEF LockedCode
<1>1. Fail \in LockedCode
  BY PiecesLocked DEF Fail, conditions
<1>2. test \in LockedCode
  <2>1. /\ V("testsem") \in LockedCode /\ Check("testsem is 1") \in LockedCode
        /\ New("p2", "") \in LockedCode /\ V("startp2") \in LockedCode
        /\ P("endp2") \in LockedCode /\ Check("p2 ran") \in LockedCode
        /\ New("p3", "p3pid") \in LockedCode /\ P("endp3") \in LockedCode
        /\ New("p4", "") \in LockedCode /\ P("endp4") \in LockedCode
        /\ New("p5", "") \in LockedCode /\ New("p6", "") \in LockedCode
        /\ V("blkp7") \in LockedCode /\ Trap(PrgTrap) \in LockedCode
        /\ P("blkp7") \in LockedCode /\ Zero("blkp7child") \in LockedCode
        /\ Zero("blkleaves") \in LockedCode /\ New("p7root", "p7pid") \in LockedCode
        /\ Check("call succeeded") \in LockedCode /\ P("endp7") \in LockedCode
        /\ Terminate("p7pid") \in LockedCode /\ V("blkp7child") \in LockedCode
    BY PiecesLocked DEF semaphores, zeroed, pids, progs, conditions, ExcType, SysBp, Tlb, PrgTrap
  <2> DEFINE round == P("blkp7") \o Zero("blkp7child") \o Zero("blkleaves")
                    \o New("p7root", "p7pid") \o Check("call succeeded") \o P("endp7")
                    \o Terminate("p7pid") \o V("blkp7") \o V("blkp7child") \o V("blkp7child")
  <2>2. round \in LockedCode
    BY <2>1, CatLocked
  <2> HIDE DEF round
  <2>3. ROUNDS \in Nat
    BY P2TestAssumption
  <2>4. Repeat(round, ROUNDS) \in LockedCode
    BY <2>2, <2>3, RepeatLocked
  <2> DEFINE upToP3 == V("testsem") \o Check("testsem is 1") \o print
                         \o New("p2", "") \o print \o V("startp2") \o P("endp2") \o print
                         \o Check("p2 ran") \o New("p3", "p3pid") \o P("endp3") \o print
             upToP7 == upToP3 \o New("p4", "") \o P("endp4") \o print
                         \o New("p5", "") \o New("p6", "") \o V("blkp7") \o Repeat(round, ROUNDS)
  <2>5. upToP3 \in LockedCode
    BY <2>1, PrintLocked, CatLocked
  <2> HIDE DEF upToP3
  <2>6. upToP7 \in LockedCode
    BY <2>1, <2>4, <2>5, PrintLocked, CatLocked
  <2> HIDE DEF upToP7
  <2>7. upToP7 \o print \o print \o Trap(PrgTrap) \o Fail \in LockedCode
    BY <1>1, <2>1, <2>6, PrintLocked, CatLocked
  <2>8. test = upToP7 \o print \o print \o Trap(PrgTrap) \o Fail
    BY DEF test, upToP3, upToP7, round
  <2> QED
    BY <2>7, <2>8
<1>3. p2 \in LockedCode
  <2>1. /\ P("startp2") \in LockedCode /\ Set("p1p2synch", 1) \in LockedCode
        /\ V("endp2") \in LockedCode /\ Terminate("") \in LockedCode /\ V("s") \in LockedCode
        /\ P("s") \in LockedCode /\ Check("s is 0") \in LockedCode
    BY PiecesLocked DEF semaphores, pids, conditions
  <2>2. V("s") \o P("s") \o Check("s is 0") \in LockedCode
    BY <2>1, CatLocked
  <2>3. MAXSEM + 1 \in Nat
    BY P2TestAssumption
  <2>4. Repeat(V("s") \o P("s") \o Check("s is 0"), MAXSEM + 1) \in LockedCode
    BY <2>2, <2>3, RepeatLocked
  <2> QED
    BY <1>1, <2>1, <2>4, PrintLocked, CatLocked DEF p2
<1>4. p3 \in LockedCode
  <2>1. /\ Check("p3pid is right") \in LockedCode /\ Set("p3inc", 2) \in LockedCode
        /\ V("synp3") \in LockedCode /\ P("blkp3") \in LockedCode /\ P("synp3") \in LockedCode
        /\ New("p3", "p32id") \in LockedCode /\ Terminate("p32id") \in LockedCode
        /\ Check("call succeeded") \in LockedCode /\ V("endp3") \in LockedCode
        /\ Terminate("") \in LockedCode
    BY PiecesLocked DEF semaphores, pids, progs, conditions
  <2> QED
    BY <1>1, <2>1, PrintLocked, CatLocked DEF p3
<1>5. p4 \in LockedCode
  <2>1. /\ SpecPassUp(PrgTrap, "pstat_o", "pstat_n") \in LockedCode
        /\ SpecPassUp(Tlb, "mstat_o", "mstat_n") \in LockedCode
        /\ SpecPassUp(SysBp, "sstat_o", "sstat_n") \in LockedCode
        /\ Trap(PrgTrap) \in LockedCode
    BY PiecesLocked DEF areas, oldAreas, ExcType, SysBp, Tlb, PrgTrap
  <2> QED
    BY <1>1, <2>1, PrintLocked, CatLocked DEF p4
<1>6. p4a \in LockedCode
  <2>1. Trap(Tlb) \in LockedCode
    BY PiecesLocked DEF ExcType, SysBp, Tlb, PrgTrap
  <2> QED
    BY <1>1, <2>1, PrintLocked, CatLocked DEF p4a
<1>7. p4b \in LockedCode
  <2>1. /\ Sys13 \in LockedCode /\ V("endp4") \in LockedCode
        /\ SpecPassUp(PrgTrap, "pstat_o", "pstat_n") \in LockedCode
        /\ Check("call failed") \in LockedCode /\ Terminate("") \in LockedCode
    BY PiecesLocked DEF semaphores, pids, areas, oldAreas, conditions, ExcType, SysBp, Tlb, PrgTrap
  <2> QED
    BY <1>1, <2>1, PrintLocked, CatLocked DEF p4b
<1>8. p4prog \in LockedCode
  <2>1. Continue("pstat_o", "p4a") \in LockedCode
    BY PiecesLocked DEF progs, areas, oldAreas
  <2> QED
    BY <2>1, PrintLocked, CatLocked DEF p4prog
<1>9. p4mm \in LockedCode
  <2>1. Continue("mstat_o", "p4b") \in LockedCode
    BY PiecesLocked DEF progs, areas, oldAreas
  <2> QED
    BY <2>1, PrintLocked, CatLocked DEF p4mm
<1>10. p4sys \in LockedCode
  <2>1. Continue("sstat_o", "") \in LockedCode
    BY PiecesLocked DEF progs, areas, oldAreas
  <2> QED
    BY <2>1, PrintLocked, CatLocked DEF p4sys
<1>11. p5 \in LockedCode
  <2>1. Sys13 \in LockedCode
    BY PiecesLocked
  <2> QED
    BY <1>1, <2>1, PrintLocked, CatLocked DEF p5
<1>12. p6 \in LockedCode
  <2>1. Trap(PrgTrap) \in LockedCode
    BY PiecesLocked DEF ExcType, SysBp, Tlb, PrgTrap
  <2> QED
    BY <1>1, <2>1, PrintLocked, CatLocked DEF p6
<1>13. p7root \in LockedCode
  <2>1. /\ New("child1", "") \in LockedCode /\ New("child2", "") \in LockedCode
        /\ V("endp7") \in LockedCode /\ P("blkp7") \in LockedCode
        /\ P("endcreate") \in LockedCode /\ V("blkleaves") \in LockedCode
    BY PiecesLocked DEF semaphores, pids, progs
  <2>2. NOLEAVES \in Nat
    BY P2TestAssumption
  <2>3. /\ Repeat(P("endcreate"), NOLEAVES) \in LockedCode
        /\ Repeat(V("blkleaves"), NOLEAVES) \in LockedCode
    BY <2>1, <2>2, RepeatLocked
  <2> QED
    BY <1>1, <2>1, <2>3, PrintLocked, LeavesLocked, CatLocked DEF p7root
<1>14. child1 \in LockedCode
  <2>1. P("blkp7child") \in LockedCode
    BY PiecesLocked DEF semaphores
  <2> QED
    BY <1>1, <2>1, PrintLocked, LeavesLocked, CatLocked DEF child1
<1>15. child2 \in LockedCode
  <2>1. P("blkp7child") \in LockedCode
    BY PiecesLocked DEF semaphores
  <2> QED
    BY <1>1, <2>1, PrintLocked, LeavesLocked, CatLocked DEF child2
<1>16. p7leaf \in LockedCode
  <2>1. /\ V("endcreate") \in LockedCode /\ P("blkleaves") \in LockedCode
    BY PiecesLocked DEF semaphores
  <2> QED
    BY <1>1, <2>1, PrintLocked, CatLocked DEF p7leaf
<1>17. <<[op |-> "panic"]>> \in LockedCode
  BY PiecesLocked
<1> QED
  BY <1>2, <1>3, <1>4, <1>5, <1>6, <1>7, <1>8, <1>9, <1>10, <1>11, <1>12, <1>13, <1>14, <1>15, <1>16,
     <1>17
     DEF Code

-----------------------------------------------------------------------------
(***************************************************************************)
(* What a process in some state does next.                                 *)
(***************************************************************************)
LEMMA InstructionFields ==
  \A i \in Instruction :
    /\ i.op /= "nothing"
    /\ i.op \in {"P", "V"} => i.sem \in semaphores
    /\ i.op = "zero" => i.sem \in zeroed
    /\ i.op = "set" => i.var \in {"p3inc", "p1p2synch"} /\ i.val \in Nat
    /\ i.op = "create" => i.prog \in progs /\ i.pid \in pids \cup {""}
    /\ i.op = "terminate" => i.pid \in pids \cup {""}
    /\ i.op = "trap" => i.type \in ExcType
    /\ i.op = "spec" => i.type \in ExcType /\ i.old \in areas /\ i.new \in areas
    /\ i.op = "ldst" => i.area \in areas /\ i.prog \in progs
BY DEF Instruction

\* A state with something to do is at an instruction of a program, and the next place in it
\* is at one that may follow.
LEMMA Reads ==
  ASSUME NEW st, at(st).op /= "nothing"
  PROVE  /\ at(st) \in Instruction
         /\ \A next : next.prog = st.prog /\ next.pc = st.pc + 1 => follows(at(st), at(next))
<1> DEFINE c == Code[st.prog]
<1>1. st.prog \in DOMAIN Code /\ st.pc \in DOMAIN c /\ at(st) = c[st.pc]
  BY DEF at
<1>2. /\ c \in Seq(Instruction)
      /\ \A i \in 1..Len(c) - 1 : follows(c[i], c[i + 1])
  BY <1>1, CodeLocked DEF LockedCode
<1>3. st.pc \in 1..Len(c) /\ Len(c) \in Nat /\ DOMAIN c = 1..Len(c)
  BY <1>1, <1>2, LenProperties
<1>4. at(st) \in Instruction
  BY <1>1, <1>2, <1>3, ElementOfSeq
<1>5. ASSUME NEW next, next.prog = st.prog, next.pc = st.pc + 1
      PROVE  follows(at(st), at(next))
  <2>1. CASE next.pc \in DOMAIN c
    <3>1. at(next) = c[st.pc + 1] /\ st.pc \in 1..Len(c) - 1
      BY <1>1, <1>3, <1>5, <2>1 DEF at
    <3> QED
      BY <1>1, <1>2, <3>1
  <2>2. CASE next.pc \notin DOMAIN c
    <3>1. at(next) = [op |-> "nothing"]
      BY <1>5, <2>2 DEF at
    <3>2. ~ needsLock(at(next))
      BY <3>1 DEF needsLock
    <3> QED
      BY <3>2, OutsideIsFree
  <2> QED
    BY <2>1, <2>2
<1> QED
  BY <1>4, <1>5

\* No program starts inside print().
LEMMA StartsOutside ==
  /\ \A prog : ~ needsLock(at(start(prog)))
  /\ ~ needsLock(at(waiting))
<1>1. ASSUME NEW prog
      PROVE  ~ needsLock(at(start(prog)))
  <2> DEFINE c == Code[prog]
  <2>1. CASE prog \in DOMAIN Code /\ 1 \in DOMAIN c
    <3>1. at(start(prog)) = c[1]
      BY <2>1 DEF at, start
    <3>2. c \in Seq(Instruction) /\ (c /= <<>> => ~ needsLock(c[1]))
      BY <2>1, CodeLocked DEF LockedCode
    <3>3. c /= <<>>
      BY <2>1
    <3> QED
      BY <3>1, <3>2, <3>3
  <2>2. CASE ~ (prog \in DOMAIN Code /\ 1 \in DOMAIN c)
    <3>1. at(start(prog)) = [op |-> "nothing"]
      BY <2>2 DEF at, start
    <3> QED
      BY <3>1 DEF needsLock
  <2> QED
    BY <2>1, <2>2
<1>2. at(waiting) = [op |-> "nothing"]
  BY DEF at, waiting, Code
<1>3. ~ needsLock(at(waiting))
  BY <1>2 DEF needsLock
<1> QED
  BY <1>1, <1>3

-----------------------------------------------------------------------------
(***************************************************************************)
(* Every step of the test program is one of the kernel.                    *)
(***************************************************************************)
Result == {0, -1, "ready", "busy", "done"}
CpuState == [prog : progs, pc : Int, v0 : Result]

CpuTyped == cpu \in CpuState /\ p_s \in [Pcb -> CpuState] /\ mem \in [areas -> CpuState]
GlobTyped ==
  /\ glob \in [{"p3inc", "p1p2synch"} \cup pids -> Nat]
  /\ \A g \in pids : glob[g] \in Pcb \cup {NULL}
SpecTyped ==
  /\ spec_assigned \in [Pcb -> SUBSET ExcType]
  /\ spec_oarea \in [Pcb -> [ExcType -> areas \cup {"none"}]]
  /\ spec_narea \in [Pcb -> [ExcType -> areas \cup {"none"}]]
  /\ \A p \in Pcb : \A t \in spec_assigned[p] :
       spec_oarea[p][t] \in areas /\ spec_narea[p][t] \in areas
TestTypeOK == CpuTyped /\ GlobTyped /\ SpecTyped

\* Where processes start, and the processor while it waits, is a state.
LEMMA StartTyped == waiting \in CpuState /\ \A prog \in progs : start(prog) \in CpuState
BY DEF waiting, start, CpuState, progs, Result

\* What is known when an instruction is executed.
LEMMA ExecutesFields ==
  ASSUME NEW op, Executes(op), op /= "nothing"
  PROVE  /\ ~ Corrupt /\ phase = "user" /\ current /= NULL /\ Instr.op = op
         /\ Instr \in Instruction
BY Reads DEF Executes, Running, Instr

\* A system call or a step without the kernel.
LEMMA ProcessSteps ==
  ASSUME IInv, TestTypeOK, ProcessStep
  PROVE  [Next]_vars
<1>1. semaphores \subseteq Sem /\ zeroed = Raw /\ DEFAULT_PRIORITY \in Priorities /\ term0 \in Dev
  BY P2TestAssumption DEF term0, Dev, Terminal
<1>2. current \in Pcb \cup {NULL}
  BY Typed DEF IInv
<1>3. CASE DoP
  <2>1. ~ Corrupt /\ Instr.sem \in Sem /\ Passeren(Instr.sem)
    BY <1>1, <1>3, ExecutesFields, InstructionFields DEF DoP
  <2> QED
    BY <2>1 DEF Next
<1>4. CASE DoV
  <2>1. ~ Corrupt /\ Instr.sem \in Sem /\ Verhogen(Instr.sem)
    BY <1>1, <1>4, ExecutesFields, InstructionFields DEF DoV
  <2> QED
    BY <2>1 DEF Next
<1>5. CASE DoWaitIO
  <2>1. ~ Corrupt /\ (DoIO(term0) \/ UNCHANGED vars)
    BY <1>5, ExecutesFields DEF DoWaitIO
  <2> QED
    BY <1>1, <2>1 DEF Next
<1>6. CASE DoCreate
  <2>1. ~ Corrupt /\ (CreateProcess(DEFAULT_PRIORITY) \/ UNCHANGED vars)
    BY <1>6, ExecutesFields DEF DoCreate
  <2> QED
    BY <1>1, <2>1 DEF Next
<1>7. CASE DoTerminate
  <2>1. /\ ~ Corrupt /\ current \in Pcb /\ Instr.pid \in pids \cup {""}
    BY <1>2, <1>7, ExecutesFields, InstructionFields DEF DoTerminate
  <2>2. (Instr.pid = "" \/ glob[Instr.pid] = NULL) \/ glob[Instr.pid] \in Pcb
    BY <2>1 DEF TestTypeOK, GlobTyped
  <2>3. (\E pid \in Pcb : TerminateProcess(pid)) \/ UNCHANGED vars
    BY <1>7, <2>1, <2>2 DEF DoTerminate
  <2> QED
    BY <2>1, <2>3 DEF Next
<1>8. CASE DoSpecPassUp
  BY <1>8 DEF DoSpecPassUp
<1>9. CASE DoSys13 \/ DoTrap
  <2>1. /\ ~ Corrupt /\ current \in Pcb
        /\ UNCHANGED vars \/ TerminateProcess(current)
    BY <1>2, <1>9, ExecutesFields DEF DoSys13, DoTrap, PassUpOrDie
  <2> QED
    BY <2>1 DEF Next
<1>10. CASE DoAssign
  <2>1. CASE Executes("zero") /\ sem' = [sem EXCEPT ![Instr.sem] = 0]
    <3>1. /\ ~ Corrupt /\ phase = "user" /\ current /= NULL /\ Instr.sem \in Raw
      BY <1>1, <2>1, ExecutesFields, InstructionFields
    <3>2. UNCHANGED <<schedVars, bqVars, treeVars, controlVars, dev_status>>
      BY <1>10 DEF DoAssign
    <3>3. Assign(Instr.sem, 0)
      BY <2>1, <3>1, <3>2 DEF Assign, Running
    <3> QED
      BY <3>1, <3>3 DEF Next
  <2>2. CASE UNCHANGED sem
    BY <1>10, <2>2 DEF DoAssign, vars
  <2> QED
    BY <1>10, <2>1, <2>2 DEF DoAssign
<1>11. CASE DoContinue \/ DoCheck
  BY <1>11 DEF DoContinue, DoCheck
<1> QED
  BY <1>3, <1>4, <1>5, <1>6, <1>7, <1>8, <1>9, <1>10, <1>11 DEF ProcessStep

\* Every step of the test program is one of the kernel.
LEMMA TestSteps ==
  ASSUME IInv, TestTypeOK, [TestNext]_allVars
  PROVE  [Next]_vars
<1>1. CASE ProcessStep
  BY <1>1, ProcessSteps
<1>2. CASE Preempt \/ EnterInterrupt \/ DeliverStatus \/ OtherKernelStep
  BY <1>2 DEF Preempt, EnterInterrupt, DeliverStatus, OtherKernelStep, Next, KernelStep
<1>3. CASE Completes
  BY <1>3 DEF Completes, Next
<1>4. CASE UNCHANGED allVars
  BY <1>4 DEF allVars
<1> QED
  BY <1>1, <1>2, <1>3, <1>4 DEF TestNext

\* The types hold at start-up.
LEMMA TestInitTyped == TestInit => TestTypeOK
<1> SUFFICES ASSUME TestInit PROVE TestTypeOK
  OBVIOUS
<1>1. /\ cpu = waiting /\ initSpec("none")
      /\ p_s = [p \in Pcb |-> IF p = root THEN start("test") ELSE waiting]
      /\ mem = [a \in areas |-> CASE a = "pstat_n" -> start("p4prog")
                                  [] a = "mstat_n" -> start("p4mm")
                                  [] a = "sstat_n" -> start("p4sys")
                                  [] OTHER -> waiting]
      /\ glob = [g \in {"p3inc", "p1p2synch"} \cup pids |->
                   IF g = "p3inc" THEN 1 ELSE IF g = "p1p2synch" THEN 0 ELSE NULL]
  BY DEF TestInit
<1>2. waiting \in CpuState /\ \A prog \in progs : start(prog) \in CpuState
  BY StartTyped
<1>3. p_s \in [Pcb -> CpuState]
  BY <1>1, <1>2 DEF progs
<1>4. mem \in [areas -> CpuState]
  <2>1. /\ start("p4prog") \in CpuState /\ start("p4mm") \in CpuState
        /\ start("p4sys") \in CpuState
    BY <1>2 DEF progs
  <2> HIDE DEF areas
  <2> QED
    BY <1>1, <1>2, <2>1
<1>5. glob \in [{"p3inc", "p1p2synch"} \cup pids -> Nat] /\ \A g \in pids : glob[g] = NULL
  BY <1>1 DEF NULL, pids
<1>6. /\ spec_assigned \in [Pcb -> SUBSET ExcType]
      /\ \A p \in Pcb : spec_assigned[p] = {}
      /\ spec_oarea \in [Pcb -> [ExcType -> areas \cup {"none"}]]
      /\ spec_narea \in [Pcb -> [ExcType -> areas \cup {"none"}]]
  BY <1>1 DEF initSpec
<1> QED
  BY <1>1, <1>2, <1>3, <1>4, <1>5, <1>6 DEF TestTypeOK, CpuTyped, GlobTyped, SpecTyped

\* The ways the states of the processes change.
LEMMA LoadTyped ==
  ASSUME cpu \in CpuState, p_s' \in [Pcb -> CpuState], current' \in Pcb \cup {NULL}, Load
  PROVE  cpu' \in CpuState
<1>1. current' /= NULL => p_s'[current'] \in CpuState
  BY DEF NULL
<1> QED
  BY <1>1, StartTyped DEF Load

\* Saving the state of the running process.
LEMMA SaveTyped ==
  ASSUME CpuTyped, current \in Pcb, NEW st \in CpuState, updateCurrentProc(current, st)
  PROVE  p_s' \in [Pcb -> CpuState]
BY DEF CpuTyped, updateCurrentProc

\* Moving on in a program and setting the register of results give a state.
LEMMA NextTyped ==
  ASSUME NEW st \in CpuState, NEW r \in Result
  PROVE  /\ [st EXCEPT !.pc = @ + 1, !.v0 = r] \in CpuState
         /\ [st EXCEPT !.pc = @ + 1] \in CpuState
         /\ [st EXCEPT !.v0 = r] \in CpuState
<1>1. [st EXCEPT !.pc = @ + 1] \in CpuState
  BY DEF CpuState
<1>2. \A a \in CpuState : [a EXCEPT !.v0 = r] \in CpuState
  BY DEF CpuState
<1>3. [[st EXCEPT !.pc = @ + 1] EXCEPT !.v0 = r] \in CpuState
  BY <1>1, <1>2
<1>4. [st EXCEPT !.pc = @ + 1, !.v0 = r] = [[st EXCEPT !.pc = @ + 1] EXCEPT !.v0 = r]
  OBVIOUS
<1> QED
  BY <1>1, <1>2, <1>3, <1>4

\* What moving on and setting the register do to the place in the program.
LEMMA NextFields ==
  ASSUME NEW st \in CpuState, NEW r
  PROVE  /\ [st EXCEPT !.pc = @ + 1, !.v0 = r].prog = st.prog
         /\ [st EXCEPT !.pc = @ + 1, !.v0 = r].pc = st.pc + 1
         /\ [st EXCEPT !.pc = @ + 1].prog = st.prog
         /\ [st EXCEPT !.pc = @ + 1].pc = st.pc + 1
         /\ [st EXCEPT !.v0 = r].prog = st.prog
         /\ [st EXCEPT !.v0 = r].pc = st.pc
BY DEF CpuState

\* A call that saves the state, stores its result and returns.
LEMMA ReturnTyped ==
  ASSUME CpuTyped, current \in Pcb, current' \in Pcb \cup {NULL}, NEW r \in Result,
         SaveAndReturn(r), UNCHANGED mem
  PROVE  CpuTyped'
<1>1. afterCall(r) \in CpuState
  BY NextTyped DEF afterCall, CpuTyped
<1>2. updateCurrentProc(current, afterCall(r)) /\ Load
  BY DEF SaveAndReturn
<1>3. p_s' \in [Pcb -> CpuState]
  BY <1>1, <1>2, SaveTyped
<1>4. cpu \in CpuState
  BY DEF CpuTyped
<1>5. cpu' \in CpuState
  BY <1>2, <1>3, <1>4, LoadTyped
<1> QED
  BY <1>3, <1>5 DEF CpuTyped

\* Who runs, before and after a step.
LEMMA WhoRuns ==
  ASSUME IInv, IInv'
  PROVE  current \in Pcb \cup {NULL} /\ current' \in Pcb \cup {NULL}
BY DEF IInv, SchedInv, SchedTypeOK

\* create_process.
LEMMA CreateTyped ==
  ASSUME IInv, IInv', TestTypeOK, DoCreate
  PROVE  TestTypeOK'
<1>1. /\ current \in Pcb /\ current' \in Pcb \cup {NULL} /\ pcbFree_h \in Seq(Pcb)
      /\ Instr.prog \in progs /\ Instr.pid \in pids \cup {""}
  BY WhoRuns, Typed, InstructionFields, ExecutesFields DEF IInv, DoCreate
<1>2. CASE pcbFree_h = <<>>
  <2>1. UNCHANGED <<mem, specVars, glob>> /\ SaveAndReturn(-1)
    BY <1>2 DEF DoCreate, memVars
  <2>2. CpuTyped'
    BY <1>1, <2>1, ReturnTyped DEF Result, TestTypeOK
  <2> QED
    BY <2>1, <2>2 DEF TestTypeOK, GlobTyped, SpecTyped, specVars
<1>3. CASE pcbFree_h /= <<>>
  <2> DEFINE h == Head(pcbFree_h)
  <2>1. /\ p_s' = [p_s EXCEPT ![current] = afterCall(0), ![h] = start(Instr.prog)]
        /\ Load /\ clearSpec(h) /\ UNCHANGED mem
        /\ glob' = IF Instr.pid = "" THEN glob ELSE [glob EXCEPT ![Instr.pid] = h]
    BY <1>3 DEF DoCreate
  <2>2. h \in Pcb
    BY <1>1, <1>3, HeadTailProperties
  <2> HIDE DEF h
  <2>3. afterCall(0) \in CpuState /\ start(Instr.prog) \in CpuState
    BY <1>1, NextTyped, StartTyped DEF afterCall, TestTypeOK, CpuTyped, Result
  <2>4. p_s' \in [Pcb -> CpuState]
    BY <2>1, <2>2, <2>3 DEF TestTypeOK, CpuTyped
  <2>5. cpu' \in CpuState
    BY <1>1, <2>1, <2>4, LoadTyped DEF TestTypeOK, CpuTyped
  <2>6. GlobTyped'
    <3>1. h \in Nat /\ "" \notin pids
      BY <2>2, MAXPROCAssumption DEF pids, Pcb
    <3>2. CASE Instr.pid = ""
      BY <2>1, <3>2 DEF TestTypeOK, GlobTyped
    <3>3. CASE Instr.pid \in pids
      BY <2>1, <2>2, <3>1, <3>3 DEF TestTypeOK, GlobTyped
    <3> QED
      BY <1>1, <3>2, <3>3
  <2>7. SpecTyped'
    BY <2>1, <2>2 DEF TestTypeOK, SpecTyped, clearSpec
  <2> QED
    BY <2>1, <2>4, <2>5, <2>6, <2>7 DEF TestTypeOK, CpuTyped
<1> QED
  BY <1>2, <1>3

\* spec_passup.
LEMMA RegisterTyped ==
  ASSUME IInv, IInv', TestTypeOK, DoSpecPassUp
  PROVE  TestTypeOK'
<1> DEFINE t == Instr.type
<1>1. /\ current \in Pcb /\ current' \in Pcb \cup {NULL}
      /\ t \in ExcType /\ Instr.old \in areas /\ Instr.new \in areas
  BY WhoRuns, InstructionFields, ExecutesFields DEF DoSpecPassUp
<1>2. /\ spec_passup(current, t, Instr.old, Instr.new)
      /\ UNCHANGED <<mem, glob>> /\ SaveAndReturn(specResult(current, t))
  BY DEF DoSpecPassUp
<1> HIDE DEF t
<1>3. CpuTyped'
  <2>1. specResult(current, t) \in Result
    BY DEF specResult, Result
  <2> QED
    BY <1>1, <1>2, <2>1, ReturnTyped DEF TestTypeOK
<1>4. SpecTyped'
  <2>1. CASE t \in spec_assigned[current]
    BY <1>2, <2>1 DEF TestTypeOK, SpecTyped, spec_passup, specVars
  <2>2. CASE t \notin spec_assigned[current]
    <3>1. /\ spec_assigned' = [spec_assigned EXCEPT ![current] = @ \cup {t}]
          /\ spec_oarea' = [spec_oarea EXCEPT ![current][t] = Instr.old]
          /\ spec_narea' = [spec_narea EXCEPT ![current][t] = Instr.new]
      BY <1>2, <2>2 DEF spec_passup
    <3>2. SpecTyped
      BY DEF TestTypeOK
    <3>3. spec_assigned' \in [Pcb -> SUBSET ExcType]
      BY <1>1, <3>1, <3>2 DEF SpecTyped
    <3>4. /\ spec_oarea' \in [Pcb -> [ExcType -> areas \cup {"none"}]]
          /\ spec_narea' \in [Pcb -> [ExcType -> areas \cup {"none"}]]
      BY <1>1, <3>1, <3>2 DEF SpecTyped
    <3>5. ASSUME NEW p \in Pcb, NEW u \in spec_assigned'[p]
          PROVE  spec_oarea'[p][u] \in areas /\ spec_narea'[p][u] \in areas
      <4>1. u \in spec_assigned[p] \/ (p = current /\ u = t)
        BY <1>1, <3>1, <3>2 DEF SpecTyped
      <4>2. u \in ExcType
        BY <3>3
      <4> QED
        BY <1>1, <3>1, <3>2, <4>1, <4>2 DEF SpecTyped
    <3> QED
      BY <3>3, <3>4, <3>5 DEF SpecTyped
  <2> QED
    BY <2>1, <2>2
<1> QED
  BY <1>2, <1>3, <1>4 DEF TestTypeOK, GlobTyped

\* Every other call that returns.
LEMMA CallTyped ==
  ASSUME IInv, IInv', TestTypeOK, DoP \/ DoV \/ DoWaitIO \/ DoTerminate
  PROVE  TestTypeOK'
<1>1. current \in Pcb /\ current' \in Pcb \cup {NULL}
  BY WhoRuns, ExecutesFields DEF DoP, DoV, DoWaitIO, DoTerminate
<1>2. UNCHANGED <<mem, specVars, glob>>
  BY DEF DoP, DoV, DoWaitIO, DoTerminate, memVars
<1>3. dev_status[term0] \in Result
  <2>1. term0 \in Dev
    BY P2TestAssumption DEF term0, Dev, Terminal
  <2> QED
    BY <2>1, Typed DEF IInv, Result
<1>4. \E r \in Result : SaveAndReturn(r)
  <2>1. {0, -1, "ready"} \subseteq Result
    BY DEF Result
  <2> QED
    BY <1>3, <2>1 DEF DoP, DoV, DoWaitIO, DoTerminate
<1>5. CpuTyped'
  BY <1>1, <1>2, <1>4, ReturnTyped DEF TestTypeOK
<1> QED
  BY <1>2, <1>5 DEF TestTypeOK, GlobTyped, SpecTyped, specVars

\* Exceptions that are passed up, or kill the process.
LEMMA TrapTyped ==
  ASSUME IInv, TestTypeOK, DoSys13 \/ DoTrap
  PROVE  TestTypeOK'
<1>1. current \in Pcb
  BY Typed, ExecutesFields DEF IInv, DoSys13, DoTrap
<1>2. PICK t \in ExcType, st \in CpuState : PassUpOrDie(t, st)
  <2>1. cpu \in CpuState /\ afterCall(0) \in CpuState
    BY NextTyped DEF TestTypeOK, CpuTyped, afterCall, Result
  <2>2. CASE DoSys13
    BY <2>1, <2>2 DEF DoSys13, ExcType
  <2>3. CASE DoTrap
    <3>1. Instr.type \in ExcType
      BY <2>3, InstructionFields, ExecutesFields DEF DoTrap
    <3> QED
      BY <2>1, <2>3, <3>1 DEF DoTrap
  <2> QED
    BY <2>2, <2>3
<1>3. UNCHANGED <<spec_assigned, spec_oarea, spec_narea, glob>>
  BY <1>2 DEF PassUpOrDie, specVars
<1>4. CpuTyped'
  <2>1. CASE t \in spec_assigned[current] /\ passUp(current, t, st)
    <3>1. /\ spec_oarea[current][t] \in areas /\ spec_narea[current][t] \in areas
          /\ p_s' = [p_s EXCEPT ![current] = st]
          /\ mem' = [mem EXCEPT ![spec_oarea[current][t]] = st]
          /\ cpu' = mem'[spec_narea[current][t]]
      BY <1>1, <2>1 DEF TestTypeOK, SpecTyped, passUp, updateCurrentProc
    <3>2. mem' \in [areas -> CpuState]
      BY <3>1 DEF TestTypeOK, CpuTyped
    <3>3. cpu' \in CpuState
      BY <3>1, <3>2
    <3> QED
      BY <1>1, <3>1, <3>2, <3>3 DEF TestTypeOK, CpuTyped
  <2>2. CASE UNCHANGED <<cpu, p_s, mem>>
    BY <2>2 DEF TestTypeOK, CpuTyped
  <2> QED
    BY <1>2, <2>1, <2>2 DEF PassUpOrDie
<1> QED
  BY <1>3, <1>4 DEF TestTypeOK, GlobTyped, SpecTyped

\* What processes do without the kernel.
LEMMA UserTyped ==
  ASSUME TestTypeOK, DoAssign \/ DoContinue \/ DoCheck
  PROVE  TestTypeOK'
<1>1. UNCHANGED <<p_s, mem, spec_assigned, spec_oarea, spec_narea>>
  BY DEF DoAssign, DoContinue, DoCheck, memVars, specVars
<1>2. cpu \in CpuState /\ [cpu EXCEPT !.pc = @ + 1] \in CpuState /\ start("error") \in CpuState
  <2>1. cpu \in CpuState
    BY DEF TestTypeOK, CpuTyped
  <2>2. 0 \in Result /\ "error" \in progs
    BY DEF Result, progs
  <2> QED
    BY <2>1, <2>2, NextTyped, StartTyped
<1>3. CASE DoAssign
  <2>1. GlobTyped'
    <3>1. CASE Executes("set") /\ glob' = [glob EXCEPT ![Instr.var] = Instr.val]
      <4>1. Instr.var \in {"p3inc", "p1p2synch"} /\ Instr.val \in Nat
        BY <3>1, InstructionFields, ExecutesFields
      <4>2. {"p3inc", "p1p2synch"} \cap pids = {}
        BY DEF pids
      <4> QED
        BY <3>1, <4>1, <4>2 DEF TestTypeOK, GlobTyped
    <3>2. CASE UNCHANGED glob
      BY <3>2 DEF TestTypeOK, GlobTyped
    <3> QED
      BY <1>3, <3>1, <3>2 DEF DoAssign
  <2>2. CpuTyped'
    BY <1>1, <1>2, <1>3 DEF TestTypeOK, CpuTyped, DoAssign, UserStep
  <2> QED
    BY <1>1, <2>1, <2>2 DEF TestTypeOK, SpecTyped
<1>4. CASE DoContinue
  <2>1. Instr.area \in areas /\ Instr.prog \in progs
    BY <1>4, InstructionFields, ExecutesFields DEF DoContinue
  <2>2. mem[Instr.area] \in CpuState /\ start(Instr.prog) \in CpuState
    BY <2>1, StartTyped DEF TestTypeOK, CpuTyped
  <2>3. cpu' \in CpuState /\ glob' = glob
    BY <1>4, <2>2 DEF DoContinue
  <2> QED
    BY <1>1, <2>3 DEF TestTypeOK, CpuTyped, GlobTyped, SpecTyped
<1>5. CASE DoCheck
  <2>1. cpu' \in CpuState /\ glob' = glob
    BY <1>2, <1>5 DEF DoCheck, UserStep
  <2> QED
    BY <1>1, <2>1 DEF TestTypeOK, CpuTyped, GlobTyped, SpecTyped
<1> QED
  BY <1>3, <1>4, <1>5

\* The kernel between the calls.
LEMMA KernelTyped ==
  ASSUME IInv, IInv', TestTypeOK,
         Preempt \/ EnterInterrupt \/ DeliverStatus \/ OtherKernelStep \/ Completes
  PROVE  TestTypeOK'
<1>1. current \in Pcb \cup {NULL} /\ current' \in Pcb \cup {NULL} /\ cpu \in CpuState
  BY WhoRuns DEF TestTypeOK, CpuTyped
<1>2. UNCHANGED <<mem, spec_assigned, spec_oarea, spec_narea, glob>>
  BY DEF Preempt, EnterInterrupt, DeliverStatus, OtherKernelStep, Completes, memVars, specVars,
         testVars
<1>3. CASE Preempt \/ EnterInterrupt \/ OtherKernelStep
  <2>1. Interrupted \/ UNCHANGED p_s
    BY <1>3 DEF Preempt, EnterInterrupt, OtherKernelStep
  <2>2. p_s' \in [Pcb -> CpuState]
    BY <1>1, <2>1, SaveTyped DEF Interrupted, TestTypeOK, CpuTyped
  <2>3. Load
    BY <1>3 DEF Preempt, EnterInterrupt, OtherKernelStep
  <2>4. cpu' \in CpuState
    BY <1>1, <2>2, <2>3, LoadTyped
  <2> QED
    BY <1>2, <2>2, <2>4 DEF TestTypeOK, CpuTyped, GlobTyped, SpecTyped
<1>4. CASE DeliverStatus
  <2> DEFINE d == NextPolled
             h == headBlocked(d)
  <2>1. d \in Dev
    <3>1. poll \subseteq Dev /\ poll /= {}
      BY <1>4, Typed DEF IInv, DeliverStatus, PollDevice
    <3> QED
      BY <3>1, NextIsPolled
  <2>2. /\ cpu' = cpu
        /\ p_s' = IF dev_status[d] /= "ready" /\ h /= NULL
                  THEN [p_s EXCEPT ![h].v0 = dev_status[d]] ELSE p_s
    BY <1>4 DEF DeliverStatus
  <2> HIDE DEF d
  <2>3. dev_status[d] \in Result
    BY <2>1, Typed DEF IInv, Result
  <2>4. h /= NULL => h \in Pcb
    <3>1. procQ[d] \in Seq(Pcb)
      BY <2>1, Typed, NucleusAssumption DEF IInv, Dev
    <3> QED
      BY <3>1, PcbElems DEF headBlocked
  <2> HIDE DEF h
  <2>5. p_s' \in [Pcb -> CpuState]
    <3>1. CASE dev_status[d] /= "ready" /\ h /= NULL
      <4>1. p_s[h] \in CpuState
        BY <2>4, <3>1 DEF TestTypeOK, CpuTyped
      <4>2. [p_s[h] EXCEPT !.v0 = dev_status[d]] \in CpuState
        BY <2>3, <4>1, NextTyped
      <4>3. p_s' = [p_s EXCEPT ![h] = [p_s[h] EXCEPT !.v0 = dev_status[d]]]
        BY <2>2, <3>1
      <4> QED
        BY <2>4, <3>1, <4>2, <4>3 DEF TestTypeOK, CpuTyped
    <3>2. CASE ~ (dev_status[d] /= "ready" /\ h /= NULL)
      BY <2>2, <3>2 DEF TestTypeOK, CpuTyped
    <3> QED
      BY <3>1, <3>2
  <2> QED
    BY <1>1, <1>2, <2>2, <2>5 DEF TestTypeOK, CpuTyped, GlobTyped, SpecTyped
<1>5. CASE Completes
  BY <1>2, <1>5 DEF Completes, testVars, TestTypeOK, CpuTyped, GlobTyped, SpecTyped
<1> QED
  BY <1>3, <1>4, <1>5

\* Every step keeps the types.
LEMMA StepTyped ==
  ASSUME IInv, IInv', TestTypeOK, [TestNext]_allVars
  PROVE  TestTypeOK'
<1>1. CASE ProcessStep
  BY <1>1, CreateTyped, RegisterTyped, CallTyped, TrapTyped, UserTyped DEF ProcessStep
<1>2. CASE Preempt \/ EnterInterrupt \/ DeliverStatus \/ OtherKernelStep \/ Completes
  BY <1>2, KernelTyped
<1>3. CASE UNCHANGED allVars
  BY <1>3 DEF allVars, testVars, specVars, TestTypeOK, CpuTyped, GlobTyped, SpecTyped
<1> QED
  BY <1>1, <1>2, <1>3 DEF TestNext

(***************************************************************************)
(* The test program runs on the kernel of Nucleus: every behaviour of the  *)
(* two is one of the kernel, where it assigns only to the semaphores of    *)
(* Raw and passes areas of its own, so that whatever is proved of the      *)
(* kernel for any processes holds while p2test_bikaya_v0.3.c runs.         *)
(***************************************************************************)
THEOREM TestIsKernel == TestSpec => Spec
<1>1. TestInit => Init /\ IInv /\ TestTypeOK
  BY InitInv, TestInitTyped DEF TestInit
<1>2. IInv /\ TestTypeOK /\ [TestNext]_allVars => [Next]_vars /\ (IInv /\ TestTypeOK)'
  BY TestSteps, NextStep, StepTyped DEF Step
<1> QED
  BY <1>1, <1>2, PTL DEF TestSpec, Spec

-----------------------------------------------------------------------------
(***************************************************************************)
(* One process prints at a time.  Where the state of a process is when it  *)
(* is neither in the processor nor about to be loaded from its pcb, and    *)
(* what is in the areas, matters as well.                                  *)
(***************************************************************************)
AreasOutside == \A a \in areas : ~ needsLock(at(mem[a]))
SavedOK ==
  /\ phase = "main" => current = NULL
  /\ phase = "poll" /\ current /= NULL => p_s[current] = cpu
  /\ phase = "terminate" =>
       /\ ~ needsLock(at(cpu))
       /\ stack[1] /= current => ~ needsLock(at(p_s[current]))

LockInv == AreasOutside /\ SavedOK /\ PrintExclusive

\* Nobody comes into print() or gives the semaphore back, except by its P and its V.
Quiet ==
  \/ Corrupt'
  \/ /\ \A p \in Pcb : Printing(p)' => Printing(p)
     /\ sem'["term_mut"] = 1 => sem["term_mut"] = 1
  \/ sem["term_mut"] = 1
  \/ phase = "user" /\ current \in Pcb /\ Printing(current) /\ Instr.op = "V"

\* Nobody living comes to where it reads the status of the terminal.
Still ==
  \A p \in Pcb \ Elems(pcbFree_h') :
    readsStatus(at(stateOf(p)')) => stateOf(p)' = stateOf(p) /\ p \notin Elems(pcbFree_h)

\* Printing and OnePrints after a step.
LEMMA PrintingNext ==
  \A p \in Pcb : Printing(p)' <=> /\ p \notin Elems(pcbFree_h') \cup Elems(procQ'["term_mut"])
                                 /\ needsLock(at(stateOf(p)'))
BY DEF Printing, stateOf

\* The same of OnePrints.
LEMMA OnePrintsNext ==
  OnePrints' <=> /\ sem'["term_mut"] <= 1
                 /\ \A p, q \in Pcb : Printing(p)' /\ Printing(q)' => p = q
                 /\ sem'["term_mut"] = 1 => \A p \in Pcb : ~ Printing(p)'
BY DEF OnePrints

\* The semaphore of print().
LEMMA Mutex ==
  ASSUME IInv
  PROVE  /\ "term_mut" \in Sem /\ "term_mut" \in Key \ Raw /\ "term_mut" \notin Dev
         /\ procQ["term_mut"] \in Seq(Pcb) /\ sem["term_mut"] \in Int
<1>1. "term_mut" \in semaphores /\ "term_mut" \notin zeroed
  BY DEF semaphores, zeroed
<1>2. "term_mut" \in Sem /\ "term_mut" \in Key \ Raw /\ "term_mut" \notin Dev
  BY <1>1, P2TestAssumption, NucleusAssumption
<1> QED
  BY <1>2, Typed DEF IInv

\* The running process is neither free nor blocked there, and is where the processor is.
LEMMA RunningOne ==
  ASSUME IInv, ~ Corrupt, current /= NULL
  PROVE  /\ current \in Pcb
         /\ current \notin Elems(pcbFree_h) /\ current \notin Elems(procQ["term_mut"])
         /\ stateOf(current) = cpu /\ Instr = at(stateOf(current))
<1>1. current \in Pcb /\ OnePlace /\ "term_mut" \in Key
  BY Typed, Mutex DEF IInv, Sound
<1>2. current \notin Elems(pcbFree_h) /\ current \notin Blocked
  BY <1>1 DEF OnePlace
<1> QED
  BY <1>1, <1>2 DEF Blocked, stateOf, Instr

\* A step after which nobody prints who did not print before.
LEMMA NobodyEnters ==
  ASSUME IInv, IInv', OnePrints, \A p \in Pcb : Printing(p)' => Printing(p),
         sem'["term_mut"] = sem["term_mut"] \/ sem'["term_mut"] <= 0
  PROVE  OnePrints' /\ Quiet
<1>1. /\ sem["term_mut"] <= 1
      /\ \A p, q \in Pcb : Printing(p) /\ Printing(q) => p = q
      /\ sem["term_mut"] = 1 => \A p \in Pcb : ~ Printing(p)
  BY DEF OnePrints
<1>2. sem'["term_mut"] \in Int
  BY Mutex DEF IInv, NucleusInv, NucleusTypeOK
<1>3. sem'["term_mut"] <= 1 /\ (sem'["term_mut"] = 1 => sem["term_mut"] = 1)
  BY <1>1, <1>2
<1> QED
  BY <1>1, <1>3, OnePrintsNext DEF Quiet

\* After LDST every process is where its pcb says.
LEMMA Loaded ==
  ASSUME Load, phase' = "user"
  PROVE  \A p \in Pcb : stateOf(p)' = p_s'[p]
<1> SUFFICES ASSUME NEW p \in Pcb PROVE stateOf(p)' = p_s'[p]
  OBVIOUS
<1>1. p /= NULL
  BY DEF Pcb, NULL
<1> QED
  BY <1>1 DEF Load, stateOf

\* Reads, for a place that is known by its program and its counter.
LEMMA OutsideFollows ==
  ASSUME NEW st, at(st).op /= "nothing", ~ intoPrint(at(st)), NEW next,
         next.prog = st.prog, next.pc = st.pc + 1
  PROVE  ~ needsLock(at(next))
BY Reads DEF follows

OnlyCurrentMoves ==
  \A p \in Pcb : IF p = current THEN follows(Instr, at(stateOf(p)'))
                                ELSE stateOf(p)' = stateOf(p)

\* Only a WAITIO brings a process to where it reads the status.
LEMMA MovesStill ==
  ASSUME OnlyCurrentMoves, Instr.op /= "io", Elems(pcbFree_h') = Elems(pcbFree_h)
  PROVE  Still
<1> SUFFICES ASSUME NEW p \in Pcb \ Elems(pcbFree_h'), readsStatus(at(stateOf(p)'))
             PROVE  stateOf(p)' = stateOf(p) /\ p \notin Elems(pcbFree_h)
  BY DEF Still
<1>1. p /= current
  BY DEF OnlyCurrentMoves, follows
<1> QED
  BY <1>1 DEF OnlyCurrentMoves

\* A call that returns moves the running process on by one instruction and nobody else.
LEMMA CallMoves ==
  ASSUME IInv, ~ Corrupt, TestTypeOK, current /= NULL, Instr.op /= "nothing",
         phase' = "user", NEW r, SaveAndReturn(r)
  PROVE  OnlyCurrentMoves
<1>1. current \in Pcb /\ cpu \in CpuState /\ p_s \in [Pcb -> CpuState]
  BY RunningOne DEF TestTypeOK, CpuTyped
<1>2. Load /\ p_s' = [p_s EXCEPT ![current] = afterCall(r)]
  BY DEF SaveAndReturn, updateCurrentProc
<1>3. \A p \in Pcb : stateOf(p)' = p_s'[p]
  BY <1>2, Loaded
<1>4. \A p \in Pcb : stateOf(p)' = IF p = current THEN afterCall(r) ELSE p_s[p]
  BY <1>1, <1>2, <1>3 DEF TestTypeOK, CpuTyped
<1>5. follows(Instr, at(afterCall(r)))
  <2>1. afterCall(r).prog = cpu.prog /\ afterCall(r).pc = cpu.pc + 1
    BY <1>1, NextFields DEF afterCall
  <2> QED
    BY <2>1, Reads DEF Instr
<1> QED
  BY <1>4, <1>5 DEF stateOf, OnlyCurrentMoves

\* A step of the running process that does not take the lock.
LEMMA NotEntering ==
  ASSUME IInv, IInv', ~ Corrupt, OnePrints, current /= NULL, OnlyCurrentMoves,
         ~ (Instr.op = "P" /\ Instr.sem = "term_mut"),
         UNCHANGED pcbFree_h,
         procQ'["term_mut"] = procQ["term_mut"], sem'["term_mut"] = sem["term_mut"]
  PROVE  OnePrints' /\ Quiet
<1>1. ASSUME NEW p \in Pcb, Printing(p)' PROVE Printing(p)
  <2>1. /\ p \notin Elems(pcbFree_h) \cup Elems(procQ["term_mut"])
        /\ needsLock(at(stateOf(p)'))
    BY <1>1, PrintingNext
  <2>2. needsLock(at(stateOf(p)))
    <3>1. CASE p = current
      BY <2>1, <3>1, RunningOne DEF intoPrint, follows, OnlyCurrentMoves
    <3>2. CASE p /= current
      BY <2>1, <3>2 DEF OnlyCurrentMoves
    <3> QED
      BY <3>1, <3>2
  <2> QED
    BY <2>1, <2>2 DEF Printing
<1> QED
  BY <1>1, NobodyEnters

\* A call that returns and is no P or V of the semaphore.
LEMMA CallLock ==
  ASSUME IInv, IInv', TestTypeOK, LockInv, ~ Corrupt, current /= NULL, phase' = "user",
         Instr.op /= "nothing", ~ (Instr.op = "P" /\ Instr.sem = "term_mut"),
         NEW r, SaveAndReturn(r), UNCHANGED <<mem, pcbFree_h>>,
         procQ'["term_mut"] = procQ["term_mut"], sem'["term_mut"] = sem["term_mut"]
  PROVE  LockInv' /\ Quiet /\ (Instr.op /= "io" => Still)
<1>1. OnlyCurrentMoves
  BY CallMoves
<1>2. OnePrints' /\ Quiet
  BY <1>1, NotEntering DEF LockInv, PrintExclusive
<1>3. AreasOutside'
  BY DEF LockInv, AreasOutside
<1>4. SavedOK'
  BY DEF SavedOK
<1> QED
  BY <1>1, <1>2, <1>3, <1>4, MovesStill DEF LockInv, PrintExclusive

\* print() takes the semaphore: nobody had it, or the process waits for it.
LEMMA TakeLock ==
  ASSUME IInv, IInv', TestTypeOK, LockInv, DoP, Instr.sem = "term_mut"
  PROVE  LockInv' /\ Quiet /\ Still
<1>1. /\ ~ Corrupt /\ phase = "user" /\ current /= NULL /\ Instr.op /= "nothing"
      /\ passeren("term_mut") /\ UNCHANGED <<pcbFree_h, phase, mem>> /\ SaveAndReturn(0)
  BY ExecutesFields DEF DoP, Passeren, treeVars, controlVars, memVars
<1>2. OnlyCurrentMoves
  BY <1>1, CallMoves
<1>3. /\ current \in Pcb /\ priority \in [Pcb -> Int] /\ sem \in [Key -> Int]
      /\ procQ \in [Key -> Seq(Pcb)] /\ "term_mut" \in Key
  BY <1>1, RunningOne, Mutex, Typed DEF IInv
<1>4. sem'["term_mut"] = sem["term_mut"] - 1
  BY <1>1, <1>3 DEF passeren
<1>5. OnePrints
  BY <1>1 DEF LockInv, PrintExclusive
<1>6. ASSUME sem["term_mut"] = 1 PROVE OnePrints'
  <2>1. procQ' = procQ /\ sem'["term_mut"] = 0
    BY <1>1, <1>3, <1>4, <1>6 DEF passeren, bqVars
  <2>2. ASSUME NEW p \in Pcb, Printing(p)' PROVE p = current
    <3>1. ~ Printing(p)
      BY <1>5, <1>6 DEF OnePrints
    <3>2. /\ p \notin Elems(pcbFree_h) \cup Elems(procQ["term_mut"])
          /\ needsLock(at(stateOf(p)'))
      BY <1>1, <2>1, <2>2, PrintingNext
    <3> QED
      BY <1>2, <3>1, <3>2 DEF Printing, OnlyCurrentMoves
  <2> QED
    BY <2>1, <2>2, OnePrintsNext
<1>7. ASSUME sem["term_mut"] /= 1 PROVE OnePrints' /\ Quiet
  <2>1. sem'["term_mut"] < 0
    BY <1>3, <1>4, <1>5, <1>7 DEF OnePrints
  <2>2. procQ'["term_mut"] = insertProcQ(procQ["term_mut"], priority, current)
    BY <1>1, <1>3, <2>1 DEF passeren, insertBlocked
  <2>3. Elems(procQ'["term_mut"]) = Elems(procQ["term_mut"]) \cup {current}
    BY <1>3, <2>2, InsertElems
  <2>4. ASSUME NEW p \in Pcb, Printing(p)' PROVE Printing(p)
    <3>1. /\ p \notin Elems(pcbFree_h) \cup Elems(procQ["term_mut"]) /\ p /= current
          /\ needsLock(at(stateOf(p)'))
      BY <1>1, <2>3, <2>4, PrintingNext
    <3> QED
      BY <1>2, <3>1 DEF Printing, OnlyCurrentMoves
  <2> QED
    BY <1>3, <1>4, <1>5, <2>1, <2>4, NobodyEnters
<1>8. OnePrints' /\ Quiet
  BY <1>6, <1>7 DEF Quiet
<1>9. AreasOutside' /\ SavedOK'
  BY <1>1 DEF LockInv, AreasOutside, SavedOK
<1>10. Still
  BY <1>1, <1>2, MovesStill DEF DoP, Executes
<1> QED
  BY <1>8, <1>9, <1>10 DEF LockInv, PrintExclusive

\* print() gives the semaphore back, to the first process that waits for it if any does.
LEMMA GiveLock ==
  ASSUME IInv, IInv', TestTypeOK, LockInv, DoV, Instr.sem = "term_mut"
  PROVE  LockInv' /\ Quiet /\ Still
<1>1. /\ ~ Corrupt /\ phase = "user" /\ current /= NULL /\ Instr.op = "V"
      /\ verhogen("term_mut") /\ UNCHANGED <<pcbFree_h, phase, mem>> /\ SaveAndReturn(0)
  BY ExecutesFields DEF DoV, Verhogen, treeVars, controlVars, memVars
<1>2. OnlyCurrentMoves
  BY <1>1, CallMoves
<1>3. /\ current \in Pcb /\ sem \in [Key -> Int] /\ procQ \in [Key -> Seq(Pcb)]
      /\ priority \in [Pcb -> Int] /\ "term_mut" \in Key /\ "term_mut" \notin Raw
  BY <1>1, RunningOne, Mutex, Typed DEF IInv
<1>4. OnePrints
  BY <1>1 DEF LockInv, PrintExclusive
<1>5. Printing(current)
  BY <1>1, RunningOne DEF Printing, needsLock
<1>6. sem'["term_mut"] = sem["term_mut"] + 1 /\ sem["term_mut"] <= 0
  BY <1>1, <1>3, <1>4, <1>5 DEF verhogen, OnePrints
<1>7. ASSUME NEW p \in Pcb, Printing(p)' PROVE p \in Elems(procQ["term_mut"])
  <2>1. p \notin Elems(pcbFree_h) /\ needsLock(at(stateOf(p)'))
    BY <1>1, <1>7, PrintingNext
  <2>2. p /= current
    BY <1>1, <1>2, <2>1 DEF OnlyCurrentMoves, follows, intoPrint
  <2>3. ~ Printing(p)
    BY <1>3, <1>4, <1>5, <2>2 DEF OnePrints
  <2> QED
    BY <1>2, <2>1, <2>2, <2>3 DEF Printing, OnlyCurrentMoves
<1>8. ASSUME sem["term_mut"] = 0 PROVE OnePrints'
  <2>1. procQ["term_mut"] = <<>>
    <3>1. Len(procQ["term_mut"]) = 0
      BY <1>1, <1>3, <1>8, QueueFacts
    <3> QED
      BY <1>3, <3>1, EmptyElems
  <2>2. \A p \in Pcb : ~ Printing(p)'
    BY <1>3, <1>7, <2>1, EmptyElems
  <2> QED
    BY <1>6, <1>8, <2>2, OnePrintsNext
<1>9. ASSUME sem["term_mut"] /= 0 PROVE OnePrints'
  <2> DEFINE q == procQ["term_mut"]
  <2>1. q \in Seq(Pcb) /\ q /= <<>> /\ NoDup(q) /\ Sorted(q, priority)
    <3>1. q \in Seq(Pcb) /\ NoDup(q) /\ Sorted(q, priority) /\ Len(q) /= 0
      BY <1>1, <1>3, <1>6, <1>9, QueueFacts
    <3> QED
      BY <3>1, EmptyElems
  <2>2. sem'["term_mut"] <= 0
    BY <1>3, <1>6, <1>9
  <2>3. procQ'["term_mut"] = removeProcQ(q)
    <3>1. headBlocked("term_mut") /= NULL
      BY <2>1, PcbElems DEF headBlocked
    <3> QED
      BY <1>1, <1>3, <2>2, <3>1 DEF verhogen, removeBlocked
  <2>4. Elems(procQ'["term_mut"]) = Elems(q) \ {q[1]}
    BY <1>3, <2>1, <2>3, RemoveProp
  <2>5. \A p \in Pcb : Printing(p)' => p = q[1]
    BY <1>7, <2>4, PrintingNext
  <2>6. sem'["term_mut"] <= 1 /\ sem'["term_mut"] /= 1
    BY <1>3, <1>6, <2>2
  <2> QED
    BY <2>5, <2>6, OnePrintsNext
<1>10. OnePrints' /\ Quiet
  BY <1>1, <1>3, <1>5, <1>8, <1>9 DEF Quiet
<1>11. AreasOutside' /\ SavedOK'
  BY <1>1 DEF LockInv, AreasOutside, SavedOK
<1>12. Still
  BY <1>1, <1>2, MovesStill
<1> QED
  BY <1>10, <1>11, <1>12 DEF LockInv, PrintExclusive

\* The other calls of the semaphores, and those that change nothing in the kernel.
LEMMA SemaphoreLock ==
  ASSUME IInv, IInv', TestTypeOK, LockInv, DoP \/ DoV \/ DoWaitIO
  PROVE  LockInv' /\ Quiet /\ (DoP \/ DoV => Still)
<1>1. /\ ~ Corrupt /\ phase = "user" /\ current /= NULL /\ Instr.op \in {"P", "V", "io"}
      /\ UNCHANGED mem
  BY ExecutesFields DEF DoP, DoV, DoWaitIO, memVars
<1>2. CASE (DoP \/ DoV) /\ Instr.sem = "term_mut"
  BY <1>2, TakeLock, GiveLock
<1>3. CASE (DoP \/ DoV) /\ Instr.sem /= "term_mut"
  <2>1. Instr.sem \in Key
    BY <1>3, ExecutesFields, InstructionFields, P2TestAssumption, NucleusAssumption DEF DoP, DoV
  <2>2. /\ verhogen(Instr.sem) \/ passeren(Instr.sem)
        /\ UNCHANGED <<pcbFree_h, phase>> /\ SaveAndReturn(0)
    BY <1>3 DEF DoP, DoV, Passeren, Verhogen, treeVars, controlVars
  <2>3. procQ'["term_mut"] = procQ["term_mut"] /\ sem'["term_mut"] = sem["term_mut"]
    BY <1>3, <2>1, <2>2, OtherQueue, Mutex
  <2>4. Instr.op /= "io"
    BY <1>3 DEF DoP, DoV, Executes
  <2> QED
    BY <1>1, <1>3, <2>2, <2>3, <2>4, CallLock
<1>4. CASE DoWaitIO
  <2>1. term0 \in Dev /\ term0 \in Key /\ term0 /= "term_mut"
    <3>1. term0 \in Dev
      BY P2TestAssumption DEF term0, Dev, Terminal
    <3> QED
      BY <3>1, Mutex, NucleusAssumption
  <2>2. Instr.op = "io" /\ ~ (DoP \/ DoV)
    BY <1>4 DEF DoWaitIO, DoP, DoV, Executes
  <2>3. CASE DoIO(term0) /\ SaveAndReturn("ready")
    <3>1. passeren(term0) /\ UNCHANGED <<pcbFree_h, phase>>
      BY <2>3 DEF DoIO, treeVars, controlVars
    <3>2. procQ'["term_mut"] = procQ["term_mut"] /\ sem'["term_mut"] = sem["term_mut"]
      BY <2>1, <3>1, OtherQueue, Mutex
    <3> QED
      BY <1>1, <2>2, <2>3, <3>1, <3>2, CallLock
  <2>4. CASE UNCHANGED vars /\ SaveAndReturn(dev_status[term0])
    <3>1. UNCHANGED <<pcbFree_h, phase, procQ, sem>>
      BY <2>4 DEF vars, treeVars, controlVars, bqVars
    <3> QED
      BY <1>1, <2>2, <2>4, <3>1, CallLock
  <2> QED
    BY <1>4, <2>3, <2>4 DEF DoWaitIO
<1> QED
  BY <1>2, <1>3, <1>4

\* A step after which every process that may print is where it was.
LEMMA NobodyMoves ==
  ASSUME IInv, IInv', OnePrints,
         \A p \in Pcb \ Elems(pcbFree_h') :
           needsLock(at(stateOf(p)')) => at(stateOf(p)') = at(stateOf(p)),
         Elems(pcbFree_h) \subseteq Elems(pcbFree_h'),
         Elems(procQ["term_mut"]) \subseteq Elems(procQ'["term_mut"]) \cup Elems(pcbFree_h'),
         sem'["term_mut"] = sem["term_mut"] \/ sem'["term_mut"] <= 0
  PROVE  OnePrints' /\ Quiet
<1>1. ASSUME NEW p \in Pcb, Printing(p)' PROVE Printing(p)
  <2>1. /\ p \notin Elems(pcbFree_h') \cup Elems(procQ'["term_mut"])
        /\ needsLock(at(stateOf(p)'))
    BY <1>1, PrintingNext
  <2>2. p \in Pcb \ Elems(pcbFree_h')
    BY <2>1
  <2>3. needsLock(at(stateOf(p)))
    BY <2>1, <2>2
  <2>4. p \notin Elems(pcbFree_h) \cup Elems(procQ["term_mut"])
    BY <2>1
  <2> QED
    BY <2>3, <2>4 DEF Printing
<1> QED
  BY <1>1, NobodyEnters

\* create_process: the child starts outside print().
LEMMA CreateLock ==
  ASSUME IInv, IInv', TestTypeOK, LockInv, DoCreate
  PROVE  LockInv' /\ Quiet /\ Still
<1>1. /\ ~ Corrupt /\ phase = "user" /\ current \in Pcb /\ current /= NULL
      /\ Instr.op = "create" /\ Instr \in Instruction
      /\ current \notin Elems(pcbFree_h) /\ stateOf(current) = cpu
  BY ExecutesFields, RunningOne DEF DoCreate
<1>2. CASE pcbFree_h = <<>>
  <2>1. UNCHANGED <<vars, mem>> /\ SaveAndReturn(-1)
    BY <1>2 DEF DoCreate, memVars
  <2>2. UNCHANGED <<pcbFree_h, phase, procQ, sem>>
    BY <2>1 DEF vars, treeVars, controlVars, bqVars
  <2> QED
    BY <1>1, <2>1, <2>2, CallLock
<1>3. CASE pcbFree_h /= <<>>
  <2> DEFINE h == Head(pcbFree_h)
  <2>1. /\ p_s' = [p_s EXCEPT ![current] = afterCall(0), ![h] = start(Instr.prog)]
        /\ Load /\ UNCHANGED mem
    BY <1>3 DEF DoCreate
  <2>2. /\ pcbFree_h' = Tail(pcbFree_h) /\ UNCHANGED <<current, procQ, sem, phase>>
    BY <1>3 DEF DoCreate, CreateProcess, resetSemkey, controlVars
  <2>3. Elems(pcbFree_h') = Elems(pcbFree_h) \ {h} /\ h \in Elems(pcbFree_h) /\ h \in Pcb
    <3>1. pcbFree_h \in Seq(Pcb) /\ NoDup(pcbFree_h)
      BY <1>1, Typed DEF IInv, Sound, OnePlace
    <3> QED
      BY <1>3, <2>2, <3>1, TakeHeadProp, PcbElems
  <2> HIDE DEF h
  <2>4. p_s \in [Pcb -> CpuState] /\ cpu \in CpuState
    BY DEF TestTypeOK, CpuTyped
  <2>5. \A p \in Pcb : stateOf(p)' = IF p = h THEN start(Instr.prog)
                                    ELSE IF p = current THEN afterCall(0) ELSE p_s[p]
    <3>1. \A p \in Pcb : stateOf(p)' = p_s'[p]
      BY <1>1, <2>1, <2>2, Loaded
    <3> QED
      BY <1>1, <2>1, <2>3, <2>4, <3>1
  <2>6. ~ needsLock(at(afterCall(0)))
    <3>1. afterCall(0).prog = cpu.prog /\ afterCall(0).pc = cpu.pc + 1
      BY <2>4, NextFields DEF afterCall
    <3> QED
      BY <1>1, <3>1, OutsideFollows DEF Instr, intoPrint, needsLock
  <2>7. ASSUME NEW p \in Pcb, Printing(p)' PROVE Printing(p)
    <3>1. /\ p \notin Elems(pcbFree_h') \cup Elems(procQ["term_mut"])
          /\ needsLock(at(stateOf(p)'))
      BY <2>2, <2>7, PrintingNext
    <3>2. p /= h /\ p /= current
      BY <2>5, <2>6, <3>1, StartsOutside
    <3> QED
      BY <2>3, <2>5, <3>1, <3>2 DEF Printing, stateOf
  <2>8. OnePrints' /\ Quiet
    BY <1>1, <2>2, <2>7, NobodyEnters DEF LockInv, PrintExclusive
  <2>9. Still
    <3>1. ~ readsStatus(at(afterCall(0))) /\ ~ readsStatus(at(start(Instr.prog)))
      BY <2>6, StartsOutside DEF readsStatus, needsLock
    <3> QED
      BY <2>2, <2>3, <2>5, <3>1 DEF Still, stateOf
  <2> QED
    BY <1>1, <2>1, <2>2, <2>8, <2>9 DEF LockInv, AreasOutside, SavedOK, PrintExclusive
<1> QED
  BY <1>2, <1>3

\* spec_passup.
LEMMA RegisterLock ==
  ASSUME IInv, IInv', TestTypeOK, LockInv, DoSpecPassUp
  PROVE  LockInv' /\ Quiet /\ Still
<1>1. /\ ~ Corrupt /\ phase = "user" /\ current /= NULL /\ Instr.op = "spec"
      /\ UNCHANGED <<vars, mem>> /\ SaveAndReturn(specResult(current, Instr.type))
  BY ExecutesFields DEF DoSpecPassUp
<1>2. UNCHANGED <<pcbFree_h, phase, procQ, sem>>
  BY <1>1 DEF vars, treeVars, controlVars, bqVars
<1> QED
  BY <1>1, <1>2, CallLock

\* The call that starts terminate_process: its caller is outside print().
LEMMA TerminateLock ==
  ASSUME IInv, IInv', TestTypeOK, LockInv, DoTerminate
  PROVE  LockInv' /\ Quiet /\ Still
<1>1. /\ ~ Corrupt /\ phase = "user" /\ current \in Pcb /\ current /= NULL
      /\ Instr.op = "terminate" /\ UNCHANGED mem
  BY ExecutesFields, RunningOne DEF DoTerminate, memVars
<1>2. CASE UNCHANGED vars /\ SaveAndReturn(-1)
  <2>1. UNCHANGED <<pcbFree_h, phase, procQ, sem>>
    BY <1>2 DEF vars, treeVars, controlVars, bqVars
  <2> QED
    BY <1>1, <1>2, <2>1, CallLock
<1>3. ASSUME NEW pid, TerminateProcess(pid), SaveAndReturn(0)
      PROVE  LockInv' /\ Quiet /\ Still
  <2>1. /\ phase' = "terminate" /\ UNCHANGED <<current, pcbFree_h, procQ, sem>>
    BY <1>3 DEF TerminateProcess, schedVars, treeVars, bqVars
  <2>2. cpu' = cpu /\ p_s' = [p_s EXCEPT ![current] = afterCall(0)]
    BY <1>3, <2>1 DEF SaveAndReturn, updateCurrentProc, Load
  <2>3. p_s \in [Pcb -> CpuState] /\ cpu \in CpuState
    BY DEF TestTypeOK, CpuTyped
  <2>4. ~ needsLock(at(cpu)) /\ ~ needsLock(at(afterCall(0)))
    <3>1. afterCall(0).prog = cpu.prog /\ afterCall(0).pc = cpu.pc + 1
      BY <2>3, NextFields DEF afterCall
    <3> QED
      BY <1>1, <3>1, OutsideFollows DEF Instr, intoPrint, needsLock
  <2>5. \A p \in Pcb : stateOf(p)' = stateOf(p)
    BY <2>1, <2>2, <2>3 DEF stateOf
  <2>6. OnePrints' /\ Quiet
    BY <1>1, <2>1, <2>5, NobodyMoves DEF LockInv, PrintExclusive
  <2>7. SavedOK'
    BY <1>1, <2>1, <2>2, <2>3, <2>4 DEF SavedOK
  <2>8. Still
    BY <2>1, <2>5 DEF Still
  <2> QED
    BY <1>1, <2>6, <2>7, <2>8 DEF LockInv, AreasOutside, PrintExclusive
<1> QED
  BY <1>2, <1>3 DEF DoTerminate

\* Exceptions are raised outside print(), handlers start there.
LEMMA TrapLock ==
  ASSUME IInv, IInv', TestTypeOK, LockInv, DoSys13 \/ DoTrap
  PROVE  LockInv' /\ Quiet /\ Still
<1>1. /\ ~ Corrupt /\ phase = "user" /\ current \in Pcb /\ current /= NULL
      /\ Instr.op \in {"sys13", "trap"}
      /\ p_s \in [Pcb -> CpuState] /\ cpu \in CpuState /\ mem \in [areas -> CpuState]
  BY ExecutesFields, RunningOne DEF DoSys13, DoTrap, TestTypeOK, CpuTyped
<1>2. PICK t \in ExcType, st \in CpuState : PassUpOrDie(t, st) /\ ~ needsLock(at(st))
  <2>1. ~ needsLock(at(cpu)) /\ ~ needsLock(at(afterCall(0)))
    <3>1. afterCall(0).prog = cpu.prog /\ afterCall(0).pc = cpu.pc + 1
      BY <1>1, NextFields DEF afterCall
    <3> QED
      BY <1>1, <3>1, OutsideFollows DEF Instr, intoPrint, needsLock
  <2>2. afterCall(0) \in CpuState
    BY <1>1, NextTyped DEF TestTypeOK, CpuTyped, afterCall, Result
  <2>3. CASE DoSys13
    BY <2>1, <2>2, <2>3 DEF DoSys13, ExcType
  <2>4. CASE DoTrap
    <3>1. Instr.type \in ExcType
      BY <2>4, InstructionFields, ExecutesFields DEF DoTrap
    <3> QED
      BY <1>1, <2>1, <2>4, <3>1 DEF DoTrap
  <2> QED
    BY <2>3, <2>4
<1>3. CASE t \in spec_assigned[current] /\ passUp(current, t, st) /\ UNCHANGED vars
  <2>1. /\ spec_oarea[current][t] \in areas /\ spec_narea[current][t] \in areas
        /\ p_s' = [p_s EXCEPT ![current] = st]
        /\ mem' = [mem EXCEPT ![spec_oarea[current][t]] = st]
        /\ cpu' = mem'[spec_narea[current][t]]
    BY <1>1, <1>3 DEF TestTypeOK, SpecTyped, passUp, updateCurrentProc
  <2>2. UNCHANGED <<current, pcbFree_h, phase, procQ, sem>>
    BY <1>3 DEF vars, treeVars, controlVars, bqVars, schedVars
  <2>3. AreasOutside'
    <3>1. \A a \in areas : ~ needsLock(at(mem'[a]))
      BY <1>1, <1>2, <2>1 DEF LockInv, AreasOutside
    <3> QED
      BY <3>1 DEF AreasOutside
  <2>4. ~ needsLock(at(cpu'))
    BY <2>1, <2>3 DEF AreasOutside
  <2>5. OnlyCurrentMoves
    BY <1>1, <2>1, <2>2, <2>4, OutsideIsFree DEF OnlyCurrentMoves, stateOf
  <2>6. OnePrints' /\ Quiet
    BY <1>1, <2>2, <2>5, NotEntering DEF LockInv, PrintExclusive
  <2>7. Still
    BY <1>1, <2>2, <2>5, MovesStill
  <2> QED
    BY <1>1, <2>2, <2>3, <2>6, <2>7 DEF LockInv, SavedOK, PrintExclusive
<1>4. CASE TerminateProcess(current) /\ UNCHANGED <<cpu, p_s, mem>>
  <2>1. /\ phase' = "terminate" /\ stack' = <<current>>
        /\ UNCHANGED <<current, pcbFree_h, procQ, sem>>
    BY <1>4 DEF TerminateProcess, schedVars, treeVars, bqVars
  <2>2. \A p \in Pcb : stateOf(p)' = stateOf(p)
    BY <1>4, <2>1 DEF stateOf
  <2>3. OnePrints' /\ Quiet
    BY <1>1, <2>1, <2>2, NobodyMoves DEF LockInv, PrintExclusive
  <2>4. SavedOK'
    BY <1>1, <1>4, <2>1 DEF SavedOK, Instr, needsLock
  <2>5. Still
    BY <2>1, <2>2 DEF Still
  <2> QED
    BY <1>4, <2>3, <2>4, <2>5 DEF LockInv, AreasOutside, PrintExclusive
<1> QED
  BY <1>2, <1>3, <1>4 DEF PassUpOrDie

\* What processes do without the kernel.
LEMMA UserLock ==
  ASSUME IInv, IInv', TestTypeOK, LockInv, DoAssign \/ DoContinue \/ DoCheck
  PROVE  LockInv' /\ Quiet /\ Still
<1>1. /\ ~ Corrupt /\ phase = "user" /\ current \in Pcb /\ current /= NULL
      /\ Instr.op \in {"zero", "set", "ldst", "check"}
      /\ mem \in [areas -> CpuState] /\ cpu \in CpuState
  BY ExecutesFields, RunningOne DEF DoAssign, DoContinue, DoCheck, TestTypeOK, CpuTyped
<1>2. UNCHANGED <<current, pcbFree_h, phase, procQ, p_s, mem>>
  BY DEF DoAssign, DoContinue, DoCheck, memVars, vars, treeVars, controlVars, bqVars, schedVars
<1>3. sem'["term_mut"] = sem["term_mut"]
  <2>1. CASE DoAssign
    <3>1. CASE Executes("zero") /\ sem' = [sem EXCEPT ![Instr.sem] = 0]
      <4>1. Instr.sem \in Raw
        BY <3>1, ExecutesFields, InstructionFields, P2TestAssumption
      <4> QED
        BY <3>1, <4>1, Mutex, Typed DEF IInv
    <3>2. CASE UNCHANGED sem
      BY <3>2
    <3> QED
      BY <2>1, <3>1, <3>2 DEF DoAssign
  <2>2. CASE DoContinue \/ DoCheck
    BY <2>2 DEF DoContinue, DoCheck, vars
  <2> QED
    BY <2>1, <2>2
<1>4. ASSUME UserStep PROVE follows(Instr, at(cpu'))
  <2>1. cpu'.prog = cpu.prog /\ cpu'.pc = cpu.pc + 1
    BY <1>1, <1>4, NextFields DEF UserStep
  <2> QED
    BY <1>1, <2>1, Reads DEF Instr
<1>5. follows(Instr, at(cpu'))
  <2>1. CASE UserStep
    BY <1>4, <2>1
  <2>2. CASE DoContinue
    <3>1. Instr.area \in areas
      BY <2>2, InstructionFields, ExecutesFields DEF DoContinue
    <3> QED
      BY <2>2, <3>1, StartsOutside, OutsideIsFree DEF DoContinue, LockInv, AreasOutside
  <2>3. CASE cpu' = start("error")
    BY <2>3, StartsOutside, OutsideIsFree
  <2> QED
    BY <2>1, <2>2, <2>3 DEF DoAssign, DoCheck
<1>6. OnlyCurrentMoves
  BY <1>1, <1>2, <1>5 DEF OnlyCurrentMoves, stateOf
<1>7. OnePrints' /\ Quiet
  BY <1>1, <1>2, <1>3, <1>6, NotEntering DEF LockInv, PrintExclusive
<1>8. Still
  BY <1>1, <1>2, <1>6, MovesStill
<1> QED
  BY <1>1, <1>2, <1>7, <1>8 DEF LockInv, AreasOutside, SavedOK, PrintExclusive

\* Interrupts save the state of the running process.
LEMMA PreemptLock ==
  ASSUME IInv, IInv', TestTypeOK, LockInv, Preempt \/ EnterInterrupt
  PROVE  LockInv' /\ Quiet /\ Still
<1>1. /\ ~ Corrupt /\ phase = "user" /\ phase' \in {"user", "poll"} /\ UNCHANGED mem
      /\ UNCHANGED <<pcbFree_h, procQ, sem>> /\ Interrupted /\ Load
      /\ phase' = "poll" => current' = current
  BY DEF Preempt, EnterInterrupt, TimerInterrupt, DeviceInterrupt, bqVars, treeVars, schedVars,
         controlVars, memVars
<1>2. /\ current \in Pcb \cup {NULL} /\ NULL \notin Pcb /\ p_s \in [Pcb -> CpuState]
  BY WhoRuns DEF TestTypeOK, CpuTyped, NULL, Pcb
<1>3. p_s' = IF current = NULL THEN p_s ELSE [p_s EXCEPT ![current] = cpu]
  BY <1>1 DEF Interrupted, updateCurrentProc
<1>4. \A p \in Pcb : p_s'[p] = stateOf(p)
  BY <1>2, <1>3 DEF stateOf
<1>5. \A p \in Pcb : stateOf(p)' = stateOf(p)
  <2>1. CASE phase' = "user"
    BY <1>1, <1>4, <2>1, Loaded
  <2>2. CASE phase' = "poll"
    <3>1. cpu' = cpu /\ current' = current
      BY <1>1, <2>2 DEF Load
    <3> QED
      BY <1>4, <3>1 DEF stateOf
  <2> QED
    BY <1>1, <2>1, <2>2
<1>6. OnePrints' /\ Quiet
  BY <1>1, <1>5, NobodyMoves DEF LockInv, PrintExclusive
<1>7. SavedOK'
  <2>1. phase' = "poll" => cpu' = cpu /\ current' = current
    BY <1>1 DEF Load
  <2> QED
    BY <1>1, <1>2, <1>3, <2>1 DEF SavedOK
<1>8. Still
  BY <1>1, <1>5 DEF Still
<1> QED
  BY <1>1, <1>6, <1>7, <1>8 DEF LockInv, AreasOutside, PrintExclusive

\* A status for a blocked process leaves it where it is in its program.
LEMMA DeliverLock ==
  ASSUME IInv, IInv', TestTypeOK, LockInv, DeliverStatus
  PROVE  LockInv' /\ Quiet
<1> DEFINE d == NextPolled
           h == headBlocked(d)
<1>1. /\ ~ Corrupt /\ phase = "poll" /\ phase' = "poll" /\ UNCHANGED <<cpu, mem, pcbFree_h>>
      /\ verhogen(d) \/ UNCHANGED <<schedVars, bqVars, sem>>
      /\ p_s' = IF dev_status[d] /= "ready" /\ h /= NULL
                THEN [p_s EXCEPT ![h].v0 = dev_status[d]] ELSE p_s
  BY DEF DeliverStatus, PollDevice, treeVars, memVars
<1>2. current' = current
  BY <1>1 DEF verhogen, schedVars
<1>3. d \in Dev /\ d \in Key /\ d /= "term_mut"
  <2>1. poll \subseteq Dev /\ poll /= {}
    BY Typed DEF IInv, DeliverStatus, PollDevice
  <2> QED
    BY <2>1, NextIsPolled, Mutex, NucleusAssumption
<1>4. procQ'["term_mut"] = procQ["term_mut"] /\ sem'["term_mut"] = sem["term_mut"]
  <2>1. CASE verhogen(d)
    BY <1>3, <2>1, OtherQueue, Mutex
  <2>2. CASE UNCHANGED <<schedVars, bqVars, sem>>
    BY <2>2 DEF bqVars
  <2> QED
    BY <1>1, <2>1, <2>2
<1>5. h /= NULL => h \in Pcb /\ h /= current
  <2>1. procQ[d] \in Seq(Pcb) /\ Elems(procQ[d]) \subseteq Blocked /\ current \notin Blocked
    BY <1>1, <1>3, QueueFacts DEF IInv, Sound, OnePlace
  <2> QED
    BY <2>1, PcbElems DEF headBlocked
<1> HIDE DEF d, h
<1>6. p_s \in [Pcb -> CpuState] /\ cpu \in CpuState
  BY DEF TestTypeOK, CpuTyped
<1>7. \A p \in Pcb : /\ p_s'[p].prog = p_s[p].prog /\ p_s'[p].pc = p_s[p].pc
                     /\ p = current => p_s'[p] = p_s[p]
  <2>1. CASE dev_status[d] /= "ready" /\ h /= NULL
    <3>1. p_s' = [p_s EXCEPT ![h] = [p_s[h] EXCEPT !.v0 = dev_status[d]]]
      BY <1>1, <2>1
    <3>2. \A p \in Pcb : p_s'[p] = IF p = h THEN [p_s[h] EXCEPT !.v0 = dev_status[d]] ELSE p_s[p]
      BY <1>5, <1>6, <2>1, <3>1
    <3>3. p_s[h] \in CpuState
      BY <1>5, <1>6, <2>1
    <3>4. /\ [p_s[h] EXCEPT !.v0 = dev_status[d]].prog = p_s[h].prog
          /\ [p_s[h] EXCEPT !.v0 = dev_status[d]].pc = p_s[h].pc
      BY <3>3, NextFields
    <3> QED
      BY <1>5, <2>1, <3>2, <3>4
  <2>2. CASE ~ (dev_status[d] /= "ready" /\ h /= NULL)
    BY <1>1, <2>2
  <2> QED
    BY <2>1, <2>2
<1>8. \A p \in Pcb : stateOf(p)'.prog = stateOf(p).prog /\ stateOf(p)'.pc = stateOf(p).pc
  BY <1>1, <1>2, <1>7 DEF stateOf
<1>9. \A s, t : s.prog = t.prog /\ s.pc = t.pc => at(s) = at(t)
  BY DEF at
<1>10. OnePrints' /\ Quiet
  BY <1>1, <1>4, <1>8, <1>9, NobodyMoves DEF LockInv, PrintExclusive
<1>11. SavedOK'
  <2>1. current' /= NULL => p_s[current] = cpu /\ p_s'[current] = p_s[current]
    BY <1>1, <1>2, <1>7, WhoRuns DEF LockInv, SavedOK
  <2> QED
    BY <1>1, <1>2, <2>1 DEF SavedOK
<1> QED
  BY <1>1, <1>10, <1>11 DEF LockInv, AreasOutside, PrintExclusive

\* scheduler() at start-up and at the end of an interrupt taken while waiting.
LEMMA ResumeLock ==
  ASSUME IInv, IInv', TestTypeOK, LockInv, ~ Corrupt, Start \/ InterruptReturn, Load,
         UNCHANGED <<p_s, mem>>
  PROVE  LockInv' /\ Quiet /\ Still
<1>1. phase' = "user" /\ UNCHANGED <<pcbFree_h, procQ, sem>>
  BY DEF Start, InterruptReturn, treeVars, bqVars
<1>2. current \in Pcb => p_s[current] = cpu
  <2>1. phase = "main" \/ phase = "poll"
    BY DEF Start, InterruptReturn
  <2> QED
    BY <2>1 DEF LockInv, SavedOK, Pcb, NULL
<1>3. \A p \in Pcb : stateOf(p)' = stateOf(p)
  BY <1>1, <1>2, Loaded DEF stateOf
<1>4. OnePrints' /\ Quiet
  BY <1>1, <1>3, NobodyMoves DEF LockInv, PrintExclusive
<1>5. Still
  BY <1>1, <1>3 DEF Still
<1> QED
  BY <1>1, <1>4, <1>5 DEF LockInv, AreasOutside, SavedOK, PrintExclusive

\* terminate_process, one step of the recursion at a time.
LEMMA KillLock ==
  ASSUME IInv, IInv', TestTypeOK, LockInv, ~ Corrupt,
         TerminateChild \/ TerminateSelf \/ TerminateOther, Load, UNCHANGED <<p_s, mem>>
  PROVE  LockInv' /\ Quiet /\ Still
<1>1. /\ OnePrints /\ phase = "terminate" /\ current \in Pcb /\ current /= NULL
      /\ stack \in Seq(Pcb) /\ stack /= <<>> /\ Len(stack) \in Nat \ {0}
      /\ ~ needsLock(at(cpu))
      /\ stack[1] /= current => ~ needsLock(at(p_s[current]))
  <2>1. phase = "terminate"
    BY DEF TerminateChild, TerminateSelf, TerminateOther
  <2>2. stack /= <<>> /\ current /= NULL /\ stack \in Seq(Pcb)
    BY <2>1, Typed DEF IInv, StackOK
  <2>3. Len(stack) \in Nat \ {0}
    BY <2>2, EmptyElems
  <2> QED
    BY <2>1, <2>2, <2>3, RunningOne DEF LockInv, SavedOK, PrintExclusive
<1>2. CASE TerminateChild
  <2>1. /\ UNCHANGED <<current, pcbFree_h, procQ, sem, phase>>
        /\ stack' = Append(stack, returnChild(Top))
    BY <1>2 DEF TerminateChild, schedVars, treeVars, bqVars
  <2>2. stack'[1] = stack[1] /\ cpu' = cpu
    BY <1>1, <2>1 DEF Load
  <2>3. OnePrints' /\ Quiet /\ Still
    BY <1>1, <2>1, <2>2, NobodyMoves DEF stateOf, Still
  <2> QED
    BY <1>1, <2>1, <2>2, <2>3 DEF LockInv, AreasOutside, SavedOK, PrintExclusive
<1>3. CASE TerminateSelf
  <2>1. /\ pcbFree_h' = <<current>> \o pcbFree_h /\ phase' = "user" /\ UNCHANGED <<procQ, sem>>
    BY <1>3 DEF TerminateSelf, freePcb, bqVars
  <2>2. Elems(pcbFree_h') = Elems(pcbFree_h) \cup {current}
    <3>1. pcbFree_h \in Seq(Pcb) /\ NoDup(pcbFree_h) /\ current \notin Elems(pcbFree_h)
      BY <1>1, Typed, RunningOne DEF IInv, Sound, OnePlace
    <3> QED
      BY <1>1, <2>1, <3>1, AddHeadProp
  <2>3. \A p \in Pcb \ Elems(pcbFree_h') : stateOf(p)' = stateOf(p)
    BY <2>1, <2>2, Loaded DEF stateOf
  <2>4. OnePrints' /\ Quiet /\ Still
    BY <1>1, <2>1, <2>2, <2>3, NobodyMoves DEF Still
  <2> QED
    BY <2>1, <2>4 DEF LockInv, AreasOutside, SavedOK, PrintExclusive
<1>4. CASE TerminateOther
  <2> DEFINE p == Top
  <2>1. /\ p /= current /\ unlink(p) /\ pcbFree_h' = <<p>> \o pcbFree_h
        /\ UNCHANGED <<current, priority, original_priority>>
        /\ stack' = SubSeq(stack, 1, Len(stack) - 1)
        /\ phase' = IF Len(stack) = 1 THEN "user" ELSE "terminate"
    BY <1>4 DEF TerminateOther, freePcb
  <2>2. p \in Pcb /\ p = stack[Len(stack)] /\ p \notin Elems(pcbFree_h)
    <3>1. p = stack[Len(stack)] /\ Len(stack) \in 1..Len(stack)
      BY <1>1 DEF Top
    <3> QED
      BY <1>1, <3>1, ElementOfSeq DEF IInv, StackOK
  <2> HIDE DEF p
  <2>3. Elems(pcbFree_h') = Elems(pcbFree_h) \cup {p} /\ p \in Elems(pcbFree_h') /\ NoDup(pcbFree_h')
    <3>1. pcbFree_h \in Seq(Pcb) /\ NoDup(pcbFree_h)
      BY Typed DEF IInv, Sound, OnePlace
    <3> QED
      BY <2>1, <2>2, <3>1, AddHeadProp
  <2>4. AreasOutside'
    BY DEF LockInv, AreasOutside
  <2>5. SavedOK'
    <3>1. CASE Len(stack) = 1
      BY <2>1, <3>1 DEF SavedOK
    <3>2. CASE Len(stack) /= 1
      <4>1. phase' = "terminate" /\ cpu' = cpu
        BY <2>1, <3>2 DEF Load
      <4>2. stack'[1] = stack[1]
        BY <1>1, <2>1, <3>2
      <4> QED
        BY <1>1, <2>1, <4>1, <4>2 DEF SavedOK
    <3> QED
      BY <3>1, <3>2
  <2>6. \A r \in Pcb : needsLock(at(stateOf(r)')) => stateOf(r)' = stateOf(r)
    <3>1. CASE Len(stack) = 1
      <4>1. ~ needsLock(at(p_s[current]))
        BY <1>1, <2>1, <2>2, <3>1
      <4>2. \A r \in Pcb : stateOf(r)' = p_s[r]
        BY <2>1, <3>1, Loaded
      <4> QED
        BY <4>1, <4>2 DEF stateOf
    <3>2. CASE Len(stack) /= 1
      <4>1. cpu' = cpu
        BY <2>1, <3>2 DEF Load
      <4> QED
        BY <2>1, <4>1 DEF stateOf
    <3> QED
      BY <3>1, <3>2
  <2>7. (OnePrints' \/ Corrupt') /\ Quiet
    <3>1. sem \in [Key -> Int] /\ procQ \in [Key -> Seq(Pcb)] /\ "term_mut" \in Key \ Raw
          /\ p_semkey \in [Pcb -> Key \cup {NoKey}]
      BY Typed, Mutex DEF IInv
    <3>2. CASE p_semkey[p] \in Key /\ p \notin Elems(procQ[p_semkey[p]])
      BY <2>1, <2>2, <2>3, <3>2, UnlinkStale DEF Quiet
    <3>3. CASE p_semkey[p] /= "term_mut"
      <4>1. procQ'["term_mut"] = procQ["term_mut"] /\ sem'["term_mut"] = sem["term_mut"]
        BY <2>1, <3>1, <3>3 DEF unlink, outBlocked, bqVars
      <4> QED
        BY <1>1, <2>3, <2>6, <4>1, NobodyMoves
    <3>4. CASE p_semkey[p] = "term_mut" /\ p \in Elems(procQ["term_mut"])
      <4>1. /\ procQ'["term_mut"] = outProcQ(procQ["term_mut"], p)
            /\ sem'["term_mut"] = sem["term_mut"] + 1
        BY <2>1, <3>1, <3>4, NoKeyAssumption DEF unlink, outBlocked
      <4>2. Elems(procQ'["term_mut"]) = Elems(procQ["term_mut"]) \ {p}
        BY <3>1, <3>4, <4>1, QueueFacts, DelProp
      <4>3. sem["term_mut"] < 0
        <5>1. Len(procQ["term_mut"]) /= 0
          BY <3>1, <3>4, EmptyElems
        <5> QED
          BY <3>1, <5>1, QueueFacts
      <4>4. sem'["term_mut"] <= 0
        BY <3>1, <4>1, <4>3
      <4> QED
        BY <1>1, <2>3, <2>6, <4>2, <4>4, NobodyMoves
    <3> QED
      BY <3>1, <3>2, <3>3, <3>4
  <2>8. Still
    <3>1. \A i : readsStatus(i) => needsLock(i)
      BY DEF readsStatus, needsLock
    <3> QED
      BY <2>3, <2>6, <3>1 DEF Still
  <2> QED
    BY <2>4, <2>5, <2>7, <2>8 DEF LockInv, PrintExclusive
<1> QED
  BY <1>2, <1>3, <1>4

\* Every step of the test program keeps the invariant.
LEMMA LockStep ==
  ASSUME IInv, IInv', TestTypeOK, LockInv, [TestNext]_allVars
  PROVE  LockInv' /\ Quiet /\ (Still \/ DoWaitIO \/ DeliverStatus)
<1>1. CASE ProcessStep
  BY <1>1, SemaphoreLock, CreateLock, RegisterLock, TerminateLock, TrapLock, UserLock
     DEF ProcessStep
<1>2. CASE Preempt \/ EnterInterrupt \/ DeliverStatus
  BY <1>2, PreemptLock, DeliverLock
<1>3. CASE OtherKernelStep
  <2>1. ~ Corrupt /\ Load /\ UNCHANGED <<p_s, mem>>
    BY <1>3 DEF OtherKernelStep, memVars
  <2> QED
    BY <1>3, <2>1, ResumeLock, KillLock DEF OtherKernelStep
<1>4. CASE Completes
  <2>1. /\ ~ Corrupt /\ UNCHANGED <<current, pcbFree_h, procQ, sem, phase, stack, cpu, p_s, mem>>
    BY <1>4 DEF Completes, DeviceCompletes, testVars, schedVars, bqVars, treeVars, controlVars
  <2>2. OnePrints' /\ Quiet /\ Still
    BY <2>1, NobodyMoves DEF LockInv, PrintExclusive, stateOf, Still
  <2> QED
    BY <2>1, <2>2 DEF LockInv, AreasOutside, SavedOK, PrintExclusive
<1>5. CASE UNCHANGED allVars
  <2>1. UNCHANGED <<current, ready, pcbFree_h, procQ, sem, phase, stack, cpu, p_s, mem>>
    BY <1>5 DEF allVars, vars, testVars, schedVars, bqVars, treeVars, controlVars
  <2>2. Quiet /\ Still
    BY <2>1 DEF Quiet, Printing, stateOf, Still
  <2> QED
    BY <2>1, <2>2 DEF LockInv, AreasOutside, SavedOK, PrintExclusive, OnePrints, Printing,
                      stateOf, Corrupt
<1> QED
  BY <1>1, <1>2, <1>3, <1>4, <1>5 DEF TestNext

\* At start-up nobody prints and the semaphore is free.
LEMMA LockInit == TestInit => LockInv
<1> SUFFICES ASSUME TestInit PROVE LockInv
  OBVIOUS
<1>1. /\ p_s = [p \in Pcb |-> IF p = root THEN start("test") ELSE waiting]
      /\ mem = [a \in areas |-> CASE a = "pstat_n" -> start("p4prog")
                                  [] a = "mstat_n" -> start("p4mm")
                                  [] a = "sstat_n" -> start("p4sys")
                                  [] OTHER -> waiting]
      /\ cpu = waiting /\ sem = initialSem
      /\ phase = "main" /\ current = NULL
  BY DEF TestInit, Init, initProcess
<1>2. AreasOutside
  <2>1. \A a \in areas : mem[a] = waiting \/ \E prog : mem[a] = start(prog)
    BY <1>1
  <2> QED
    BY <2>1, StartsOutside DEF AreasOutside
<1>3. \A p \in Pcb : ~ Printing(p)
  <2>1. \A p \in Pcb : stateOf(p) = waiting \/ stateOf(p) = start("test")
    BY <1>1 DEF stateOf
  <2> QED
    BY <2>1, StartsOutside DEF Printing
<1>4. sem["term_mut"] = 1
  <2>1. "term_mut" \in Key
    BY InitInv, Mutex DEF TestInit
  <2> QED
    BY <1>1, <2>1 DEF initialSem
<1> QED
  BY <1>1, <1>2, <1>3, <1>4 DEF LockInv, SavedOK, PrintExclusive, OnePrints

(***************************************************************************)
(* print() has the terminal to itself (p2test_bikaya_v0.3.c:162-182): at   *)
(* most one living process is between its P and its V, and none when the   *)
(* semaphore is free, for every number of pcbs, characters, rounds and     *)
(* preemptions, whoever is killed, preempted, trapped or woken.  It rests  *)
(* on the kernel (a semaphore counts its blocked processes and wakes one)  *)
(* and on the programs, which enter print() by its P only.                 *)
(***************************************************************************)
THEOREM OnePrintsAtATime == TestSpec => []PrintExclusive
<1>1. TestInit => IInv /\ TestTypeOK /\ LockInv
  BY InitInv, TestInitTyped, LockInit DEF TestInit
<1>2. IInv /\ TestTypeOK /\ LockInv /\ [TestNext]_allVars => (IInv /\ TestTypeOK /\ LockInv)'
  BY TestSteps, NextStep, StepTyped, LockStep DEF Step
<1>3. LockInv => PrintExclusive
  BY DEF LockInv
<1> QED
  BY <1>1, <1>2, <1>3, PTL DEF TestSpec

-----------------------------------------------------------------------------
(***************************************************************************)
(* print() reads the status of its own command.  The program uses one half *)
(* of the terminal and no other device; a command it has not given up on   *)
(* is the one of the process that prints, which is blocked meanwhile.      *)
(***************************************************************************)
OthersIdle == \A d \in Dev \ {term0} : dev_status[d] = "ready"
PolledDone == phase = "poll" /\ term0 \in poll => dev_status[term0] = "done"
TerminalIdle ==
  dev_status[term0] /= "ready" =>
    sem["term_mut"] /= 1 /\ \A p \in Pcb : Printing(p) => p \in Elems(procQ[term0])

IOInv == OthersIdle /\ PolledDone /\ PrintSucceeds /\ (~ Corrupt => TerminalIdle)

\* The transmitter of terminal 0.
LEMMA Term0 ==
  /\ term0 \in Dev /\ term0 \in Terminal /\ term0 \in Key
  /\ term0 /= "term_mut" /\ term0 \notin Sem /\ term0 \notin Disk /\ term0 \notin Raw
<1>1. "term_mut" \in Sem
  BY P2TestAssumption DEF semaphores
<1>2. term0 \in Terminal
  BY P2TestAssumption DEF term0, Terminal
<1> QED
  BY <1>1, <1>2, NucleusAssumption DEF Dev

\* Whoever reads the status is inside print().
LEMMA ReadsInside == \A i : readsStatus(i) => needsLock(i)
BY DEF readsStatus, needsLock

\* A step that starts no command and wakes nobody at the terminal.
Leaves ==
  /\ dev_status'[term0] /= "ready" => dev_status[term0] /= "ready"
  /\ Elems(procQ[term0]) \subseteq Elems(procQ'[term0]) \cup Elems(pcbFree_h')

\* terminate_process takes a process out of one queue and frees it.
LEMMA OtherDies ==
  ASSUME IInv, ~ Corrupt, TerminateOther
  PROVE  Leaves
<1> DEFINE p == Top
           q == procQ[term0]
<1>1. unlink(p) /\ pcbFree_h' = <<p>> \o pcbFree_h /\ dev_status' = dev_status
  BY DEF TerminateOther, freePcb
<1>2. p \in Pcb /\ p \notin Elems(pcbFree_h)
  <2>1. phase = "terminate" /\ stack \in Seq(Pcb) /\ stack /= <<>>
    BY Typed DEF IInv, StackOK, TerminateOther
  <2>2. Len(stack) \in 1..Len(stack)
    BY <2>1, EmptyElems, LenProperties
  <2> QED
    BY <2>1, <2>2, ElementOfSeq DEF IInv, StackOK, Top
<1> HIDE DEF p
<1>3. p \in Elems(pcbFree_h')
  <2>1. pcbFree_h \in Seq(Pcb) /\ NoDup(pcbFree_h)
    BY Typed DEF IInv, Sound, OnePlace
  <2> QED
    BY <1>1, <1>2, <2>1, AddHeadProp
<1>4. q \in Seq(Pcb) /\ NoDup(q) /\ Sorted(q, priority) /\ priority \in [Pcb -> Int]
  BY Term0, QueueFacts, Typed DEF IInv
<1>5. procQ'[term0] = q \/ procQ'[term0] = outProcQ(q, p)
  <2>1. procQ \in [Key -> Seq(Pcb)] /\ term0 \in Key
    BY Term0, Typed DEF IInv
  <2> QED
    BY <1>1, <2>1 DEF unlink, outBlocked, bqVars
<1>6. Elems(q) \ {p} \subseteq Elems(procQ'[term0])
  <2>1. CASE p \in Elems(q)
    BY <1>4, <1>5, <2>1, OutProp
  <2>2. CASE p \notin Elems(q)
    BY <1>5, <2>2 DEF outProcQ
  <2> QED
    BY <2>1, <2>2
<1> QED
  BY <1>1, <1>3, <1>6 DEF Leaves

\* The steps of the test program but two.
LEMMA LeavesStep ==
  ASSUME IInv, TestTypeOK, [TestNext]_allVars, ~ Corrupt
  PROVE  Leaves \/ DoWaitIO \/ DeliverStatus
<1>1. CASE DoP \/ DoV
  <2>1. /\ Instr.sem \in Key /\ Instr.sem /= term0
        /\ verhogen(Instr.sem) \/ passeren(Instr.sem)
        /\ dev_status' = dev_status
    <3>1. Instr.sem \in Sem
      BY <1>1, ExecutesFields, InstructionFields, P2TestAssumption DEF DoP, DoV
    <3> QED
      BY <1>1, <3>1, Term0, NucleusAssumption DEF DoP, DoV, Passeren, Verhogen
  <2>2. procQ'[term0] = procQ[term0]
    BY <2>1, Term0, OtherQueue
  <2> QED
    BY <2>1, <2>2 DEF Leaves
<1>2. CASE \/ DoCreate \/ DoTerminate \/ DoSpecPassUp \/ DoSys13 \/ DoTrap
           \/ DoAssign \/ DoContinue \/ DoCheck
  <2>1. procQ' = procQ /\ dev_status' = dev_status
    BY <1>2 DEF DoCreate, DoTerminate, DoSpecPassUp, DoSys13, DoTrap, PassUpOrDie, DoAssign,
                DoContinue, DoCheck, CreateProcess, resetSemkey, TerminateProcess, vars, bqVars
  <2> QED
    BY <2>1 DEF Leaves
<1>3. CASE Preempt \/ EnterInterrupt
  BY <1>3 DEF Preempt, EnterInterrupt, TimerInterrupt, DeviceInterrupt, bqVars, Leaves
<1>4. CASE OtherKernelStep
  <2>1. CASE Start \/ TerminateChild \/ TerminateSelf \/ InterruptReturn
    BY <2>1 DEF Start, TerminateChild, TerminateSelf, InterruptReturn, bqVars, Leaves
  <2> QED
    BY <1>4, <2>1, OtherDies DEF OtherKernelStep
<1>5. CASE Completes
  <2>1. PICK d \in Dev : DeviceCompletes(d)
    BY <1>5 DEF Completes
  <2>2. /\ dev_status[d] = "busy" /\ dev_status' = [dev_status EXCEPT ![d] = "done"]
        /\ procQ' = procQ /\ dev_status \in [Dev -> {"ready", "busy", "done"}]
    BY <2>1, Typed DEF DeviceCompletes, bqVars, IInv
  <2> QED
    BY <2>2, Term0 DEF Leaves
<1>6. CASE UNCHANGED allVars
  BY <1>6 DEF allVars, vars, bqVars, Leaves
<1> QED
  BY <1>1, <1>2, <1>3, <1>4, <1>5, <1>6 DEF TestNext, ProcessStep

\* Such a step leaves who waits for the terminal, and who has been answered.
LEMMA LeavesAnswered ==
  ASSUME IInv, IOInv, ~ Corrupt, ~ Corrupt', Quiet, Still, Leaves
  PROVE  PrintSucceeds' /\ TerminalIdle'
<1>1. ASSUME NEW p \in Pcb \ (Elems(pcbFree_h') \cup Elems(procQ'[term0])),
             readsStatus(at(stateOf(p)'))
      PROVE  stateOf(p)'.v0 = "done"
  <2>1. stateOf(p)' = stateOf(p) /\ p \notin Elems(pcbFree_h)
    BY <1>1 DEF Still
  <2>2. p \notin Elems(procQ[term0])
    BY DEF Leaves
  <2> QED
    BY <1>1, <2>1, <2>2 DEF IOInv, PrintSucceeds
<1>2. TerminalIdle'
  <2> SUFFICES ASSUME dev_status'[term0] /= "ready"
               PROVE  /\ sem'["term_mut"] /= 1
                      /\ \A p \in Pcb : Printing(p)' => p \in Elems(procQ'[term0])
    BY DEF TerminalIdle
  <2>1. /\ sem["term_mut"] /= 1
        /\ \A p \in Pcb : Printing(p) => p \in Elems(procQ[term0])
    BY DEF Leaves, IOInv, TerminalIdle
  <2>2. ~ (phase = "user" /\ current \in Pcb /\ Printing(current))
    <3>1. current \in Pcb => current \notin Elems(procQ[term0])
      BY Term0, QueueFacts DEF IInv, Sound, OnePlace
    <3> QED
      BY <2>1, <3>1
  <2>3. /\ \A p \in Pcb : Printing(p)' => Printing(p)
        /\ sem'["term_mut"] /= 1
    BY <2>1, <2>2 DEF Quiet
  <2>4. \A p \in Pcb : Printing(p)' => p \notin Elems(pcbFree_h')
    BY PrintingNext
  <2> QED
    BY <2>1, <2>3, <2>4 DEF Leaves
<1>3. PrintSucceeds'
  BY <1>1 DEF PrintSucceeds, stateOf
<1> QED
  BY <1>2, <1>3

\* WAITIO: nobody else waits for the terminal, so the command is taken and the process waits.
LEMMA CommandAnswered ==
  ASSUME IInv, IInv', TestTypeOK, LockInv, Quiet, IOInv, DoWaitIO, ~ Corrupt'
  PROVE  PrintSucceeds' /\ TerminalIdle'
<1>1. /\ ~ Corrupt /\ phase = "user" /\ current \in Pcb /\ current /= NULL /\ Instr.op = "io"
      /\ current \notin Elems(pcbFree_h) /\ current \notin Elems(procQ["term_mut"])
      /\ stateOf(current) = cpu /\ Instr = at(stateOf(current))
  BY ExecutesFields, RunningOne DEF DoWaitIO
<1>2. Printing(current)
  BY <1>1 DEF Printing, needsLock
<1>3. dev_status[term0] = "ready" /\ sem["term_mut"] /= 1
  <2>1. current \notin Elems(procQ[term0])
    BY <1>1, Term0, QueueFacts DEF IInv, Sound, OnePlace
  <2> QED
    BY <1>1, <1>2, <2>1 DEF IOInv, TerminalIdle, LockInv, PrintExclusive, OnePrints
<1>4. /\ passeren(term0) /\ UNCHANGED <<pcbFree_h, phase>> /\ SaveAndReturn("ready")
  BY <1>3 DEF DoWaitIO, StatusReady, DoIO, treeVars, controlVars
<1>5. sem[term0] = 0 /\ Elems(procQ[term0]) = {}
  <2>1. sem[term0] = 0 /\ procQ[term0] = <<>> /\ procQ[term0] \in Seq(Pcb)
    BY <1>1, <1>3, Term0, TerminalFacts, QueueFacts
  <2> QED
    BY <2>1, EmptyElems
<1>6. Elems(procQ'[term0]) = {current}
  <2>1. /\ procQ \in [Key -> Seq(Pcb)] /\ sem \in [Key -> Int] /\ priority \in [Pcb -> Int]
        /\ term0 \in Key
    BY Term0, Typed DEF IInv
  <2>2. sem'[term0] < 0
    BY <1>4, <1>5, <2>1 DEF passeren
  <2>3. procQ'[term0] = insertProcQ(procQ[term0], priority, current)
    BY <1>4, <2>1, <2>2 DEF passeren, insertBlocked
  <2> DEFINE q == procQ[term0]
  <2>4. q \in Seq(Pcb) /\ priority \in [Pcb -> Int] /\ current \in Pcb
    BY <1>1, <2>1
  <2> HIDE DEF q
  <2>5. Elems(insertProcQ(q, priority, current)) = Elems(q) \cup {current}
    BY <2>4, InsertElems
  <2> QED
    BY <1>5, <2>3, <2>5 DEF q
<1>7. OnlyCurrentMoves
  BY <1>1, <1>4, CallMoves
<1>8. ASSUME NEW p \in Pcb \ (Elems(pcbFree_h') \cup Elems(procQ'[term0])),
             readsStatus(at(stateOf(p)'))
      PROVE  stateOf(p)'.v0 = "done"
  <2>1. p /= current
    BY <1>6
  <2>2. stateOf(p)' = stateOf(p)
    BY <1>7, <2>1 DEF OnlyCurrentMoves
  <2> QED
    BY <1>1, <1>4, <1>5, <1>8, <2>2 DEF IOInv, PrintSucceeds
<1>9. sem'["term_mut"] = sem["term_mut"]
  BY <1>4, Term0, Mutex, OtherQueue
<1>10. \A p \in Pcb : Printing(p)' => p = current
  <2>1. \A p \in Pcb : Printing(p)' => Printing(p)
    BY <1>1, <1>3 DEF Quiet
  <2> QED
    BY <1>1, <1>2, <2>1 DEF LockInv, PrintExclusive, OnePrints
<1>11. TerminalIdle'
  BY <1>3, <1>6, <1>9, <1>10 DEF TerminalIdle
<1>12. PrintSucceeds'
  BY <1>8 DEF PrintSucceeds, stateOf
<1> QED
  BY <1>11, <1>12

\* The interrupt: the process that waits is given the status of its command and woken.
LEMMA DeliverAnswered ==
  ASSUME IInv, TestTypeOK, IOInv, DeliverStatus
  PROVE  PrintSucceeds' /\ TerminalIdle' /\ OthersIdle' /\ PolledDone'
<1> DEFINE d == NextPolled
           h == headBlocked(d)
<1>1. /\ ~ Corrupt /\ phase = "poll" /\ UNCHANGED <<cpu, pcbFree_h>> /\ poll' = poll \ {d}
      /\ IF dev_status[d] = "ready"
         THEN UNCHANGED <<schedVars, bqVars, sem, dev_status>>
         ELSE /\ IF h /= NULL THEN verhogen(d) ELSE UNCHANGED <<schedVars, bqVars, sem>>
              /\ ack(d)
      /\ p_s' = IF dev_status[d] /= "ready" /\ h /= NULL
                THEN [p_s EXCEPT ![h].v0 = dev_status[d]] ELSE p_s
  BY DEF DeliverStatus, PollDevice, treeVars
<1>2. d \in poll /\ d \in Dev
  <2>1. poll \subseteq Dev /\ poll /= {}
    BY Typed DEF IInv, DeliverStatus, PollDevice
  <2> QED
    BY <2>1, NextIsPolled
<1>3. current' = current
  BY <1>1 DEF verhogen, schedVars
<1> HIDE DEF d
<1>4. /\ procQ \in [Key -> Seq(Pcb)] /\ sem \in [Key -> Int] /\ priority \in [Pcb -> Int]
      /\ dev_status \in [Dev -> {"ready", "busy", "done"}]
      /\ p_s \in [Pcb -> CpuState] /\ "term_mut" \in Key
  BY Typed, Mutex DEF IInv, TestTypeOK, CpuTyped
<1>5. OthersIdle /\ PolledDone /\ TerminalIdle
  BY <1>1 DEF IOInv
<1>6. CASE d /= term0
  <2>1. dev_status[d] = "ready"
    BY <1>2, <1>5, <1>6 DEF OthersIdle
  <2>2. UNCHANGED <<current, ready, procQ, sem, dev_status, cpu, p_s, pcbFree_h>>
    BY <1>1, <2>1 DEF schedVars, bqVars
  <2>3. PrintSucceeds' /\ TerminalIdle'
    BY <2>2, <1>5 DEF IOInv, PrintSucceeds, TerminalIdle, Printing, stateOf, Corrupt
  <2>4. OthersIdle' /\ PolledDone'
    BY <1>1, <1>5, <2>2 DEF OthersIdle, PolledDone
  <2> QED
    BY <2>3, <2>4
<1>7. CASE d = term0
  <2>1. dev_status[term0] = "done"
    BY <1>1, <1>2, <1>5, <1>7 DEF PolledDone
  <2>2. dev_status' = [dev_status EXCEPT ![term0] = "ready"]
    BY <1>1, <1>7, <2>1 DEF ack
  <2>3. dev_status'[term0] = "ready" /\ \A e \in Dev \ {term0} : dev_status'[e] = dev_status[e]
    BY <1>4, <2>2, Term0
  <2>4. OthersIdle' /\ PolledDone' /\ TerminalIdle'
    BY <1>1, <1>5, <1>7, <2>3 DEF OthersIdle, PolledDone, TerminalIdle
  <2>5. CASE h = NULL
    <3>1. UNCHANGED <<current, ready, procQ, cpu, p_s, pcbFree_h>>
      BY <1>1, <2>1, <1>7, <2>5 DEF schedVars, bqVars
    <3> QED
      BY <2>4, <3>1 DEF IOInv, PrintSucceeds, stateOf, Corrupt
  <2>6. CASE h /= NULL
    <3> DEFINE q == procQ[term0]
    <3>1. /\ q \in Seq(Pcb) /\ NoDup(q) /\ Sorted(q, priority) /\ q /= <<>> /\ h = q[1]
          /\ h \in Pcb /\ h \in Elems(q) /\ h /= current
      <4>1. /\ q \in Seq(Pcb) /\ NoDup(q) /\ Sorted(q, priority)
            /\ Elems(q) \subseteq Blocked /\ current \notin Blocked
        BY <1>1, Term0, QueueFacts DEF IInv, Sound, OnePlace
      <4> QED
        BY <1>7, <2>6, <4>1, PcbElems DEF headBlocked, headProcQ
    <3> HIDE DEF h
    <3>2. verhogen(term0) /\ p_s' = [p_s EXCEPT ![h] = [p_s[h] EXCEPT !.v0 = "done"]]
      BY <1>1, <1>7, <2>1, <2>6
    <3>3. sem'[term0] <= 0
      <4>1. sem[term0] = -1
        BY <1>1, <3>1, Term0, TerminalFacts
      <4> QED
        BY <1>4, <3>2, <4>1, Term0 DEF verhogen
    <3>4. procQ'[term0] = removeProcQ(q)
      <4>1. headBlocked(term0) /= NULL
        BY <1>7, <2>6 DEF h
      <4> QED
        BY <1>4, <3>2, <3>3, <4>1, Term0 DEF verhogen, removeBlocked
    <3>5. Elems(procQ'[term0]) = Elems(q) \ {h}
      BY <1>4, <3>1, <3>4, RemoveProp
    <3>6. ASSUME NEW p \in Pcb \ (Elems(pcbFree_h') \cup Elems(procQ'[term0])),
                 readsStatus(at(stateOf(p)'))
          PROVE  stateOf(p)'.v0 = "done"
      <4>1. CASE p = h
        <5>1. stateOf(p)' = [p_s[h] EXCEPT !.v0 = "done"]
          BY <1>3, <1>4, <3>1, <3>2, <4>1 DEF stateOf
        <5>2. p_s[h] \in CpuState
          BY <1>4, <3>1
        <5> QED
          BY <5>1, <5>2 DEF CpuState
      <4>2. CASE p /= h
        <5>1. stateOf(p)' = stateOf(p)
          BY <1>1, <1>3, <1>4, <3>1, <3>2, <4>2 DEF stateOf
        <5>2. p \notin Elems(pcbFree_h) \cup Elems(q)
          BY <1>1, <3>5, <4>2
        <5> QED
          BY <1>1, <3>6, <5>1, <5>2 DEF IOInv, PrintSucceeds
      <4> QED
        BY <4>1, <4>2
    <3>7. PrintSucceeds'
      BY <3>6 DEF PrintSucceeds, stateOf
    <3> QED
      BY <2>4, <3>7
  <2> QED
    BY <2>5, <2>6
<1> QED
  BY <1>6, <1>7

\* Every other step: the program starts no other device, and the interrupt that polls the
\* terminal is its transmitter's.
LEMMA DevicesStep ==
  ASSUME IInv, TestTypeOK, IOInv, [TestNext]_allVars, ~ DeliverStatus
  PROVE  OthersIdle' /\ PolledDone'
<1>1. /\ OthersIdle /\ PolledDone /\ dev_status \in [Dev -> {"ready", "busy", "done"}]
  BY Typed DEF IOInv, IInv
<1>2. CASE ProcessStep
  <2>1. phase' /= "poll"
    <3>1. phase = "user" /\ phase' \in {phase, "terminate"}
      BY <1>2, ExecutesFields
         DEF ProcessStep, DoP, DoV, DoWaitIO, DoCreate, DoTerminate, DoSpecPassUp, DoSys13,
             DoTrap, PassUpOrDie, DoAssign, DoContinue, DoCheck, Passeren, Verhogen, DoIO,
             CreateProcess, TerminateProcess, vars, controlVars
    <3> QED
      BY <3>1
  <2>2. dev_status' = dev_status \/ dev_status' = [dev_status EXCEPT ![term0] = "busy"]
    BY <1>2 DEF ProcessStep, DoP, DoV, DoWaitIO, DoCreate, DoTerminate, DoSpecPassUp, DoSys13,
                DoTrap, PassUpOrDie, DoAssign, DoContinue, DoCheck, Passeren, Verhogen, DoIO,
                CreateProcess, TerminateProcess, vars
  <2> QED
    BY <1>1, <2>1, <2>2 DEF OthersIdle, PolledDone
<1>3. CASE Preempt
  BY <1>1, <1>3 DEF Preempt, TimerInterrupt, controlVars, OthersIdle, PolledDone
<1>4. CASE EnterInterrupt
  <2>1. /\ dev_status' = dev_status
        /\ poll' = {d \in Disk : dev_status[d] = "done"}
                     \cup (IF \E d \in Terminal : dev_status[d] = "done" THEN Terminal ELSE {})
    BY <1>4 DEF EnterInterrupt, DeviceInterrupt
  <2>2. term0 \in poll' => dev_status[term0] = "done"
    <3>1. \A d \in Terminal : d /= term0 => dev_status[d] /= "done"
      BY <1>1 DEF OthersIdle, Dev
    <3> QED
      BY <2>1, <3>1, Term0
  <2> QED
    BY <1>1, <2>1, <2>2 DEF OthersIdle, PolledDone
<1>5. CASE OtherKernelStep
  <2>1. dev_status' = dev_status /\ phase' /= "poll"
    BY <1>5 DEF OtherKernelStep, Start, TerminateChild, TerminateSelf, TerminateOther,
                InterruptReturn
  <2> QED
    BY <1>1, <2>1 DEF OthersIdle, PolledDone
<1>6. CASE Completes
  <2>1. PICK d \in Dev : DeviceCompletes(d)
    BY <1>6 DEF Completes
  <2>2. /\ dev_status[d] = "busy" /\ dev_status' = [dev_status EXCEPT ![d] = "done"]
        /\ UNCHANGED <<phase, poll>>
    BY <2>1 DEF DeviceCompletes, controlVars
  <2>3. d = term0
    BY <1>1, <2>2 DEF OthersIdle
  <2> QED
    BY <1>1, <2>2, <2>3, Term0 DEF OthersIdle, PolledDone
<1>7. CASE UNCHANGED allVars
  BY <1>1, <1>7 DEF allVars, vars, controlVars, OthersIdle, PolledDone
<1> QED
  BY <1>2, <1>3, <1>4, <1>5, <1>6, <1>7 DEF TestNext

\* Every step of the test program.
LEMMA IOStep ==
  ASSUME IInv, IInv', TestTypeOK, LockInv, IOInv, [TestNext]_allVars
  PROVE  IOInv'
<1>1. Quiet /\ (Still \/ DoWaitIO \/ DeliverStatus)
  BY LockStep
<1>2. CASE DeliverStatus
  BY <1>2, DeliverAnswered DEF IOInv
<1>3. CASE ~ DeliverStatus
  <2>1. OthersIdle' /\ PolledDone'
    BY <1>3, DevicesStep
  <2>2. CASE Corrupt'
    BY <2>1, <2>2 DEF IOInv, PrintSucceeds
  <2>3. CASE ~ Corrupt'
    <3>1. ~ Corrupt
      <4>1. Corrupt => UNCHANGED allVars
        BY DEF TestNext, ProcessStep, DoP, DoV, DoWaitIO, DoCreate, DoTerminate, DoSpecPassUp,
               DoSys13, DoTrap, DoAssign, DoContinue, DoCheck, Executes, Preempt, EnterInterrupt,
               DeliverStatus, OtherKernelStep, Completes
      <4>2. UNCHANGED allVars => Corrupt' = Corrupt
        BY DEF allVars, vars, schedVars, treeVars, Corrupt
      <4> QED
        BY <2>3, <4>1, <4>2
    <3>2. CASE DoWaitIO
      BY <1>1, <2>1, <2>3, <3>2, CommandAnswered DEF IOInv
    <3>3. CASE ~ DoWaitIO
      BY <1>1, <1>3, <2>1, <2>3, <3>1, <3>3, LeavesStep, LeavesAnswered DEF IOInv
    <3> QED
      BY <3>2, <3>3
  <2> QED
    BY <2>2, <2>3
<1> QED
  BY <1>2, <1>3

\* At start-up every device is ready, and nobody reads a status.
LEMMA IOInit == TestInit => IOInv
<1> SUFFICES ASSUME TestInit PROVE IOInv
  OBVIOUS
<1>1. /\ dev_status = [d \in Dev |-> "ready"] /\ phase = "main" /\ cpu = waiting
      /\ p_s = [p \in Pcb |-> IF p = root THEN start("test") ELSE waiting]
  BY DEF TestInit, Init
<1>2. \A p \in Pcb : ~ readsStatus(at(stateOf(p)))
  <2>1. \A p \in Pcb : stateOf(p) = waiting \/ stateOf(p) = start("test")
    BY <1>1 DEF stateOf
  <2> QED
    BY <2>1, StartsOutside, ReadsInside
<1> QED
  BY <1>1, <1>2, Term0 DEF IOInv, OthersIdle, PolledDone, TerminalIdle, PrintSucceeds

\* All that is known of the test program, for the theorems below.
LEMMA TestInv == TestSpec => [](IInv /\ TestTypeOK /\ LockInv /\ IOInv)
<1>1. TestInit => IInv /\ TestTypeOK /\ LockInv /\ IOInv
  BY InitInv, TestInitTyped, LockInit, IOInit DEF TestInit
<1>2. IInv /\ TestTypeOK /\ LockInv /\ IOInv /\ [TestNext]_allVars
        => (IInv /\ TestTypeOK /\ LockInv /\ IOInv)'
  BY TestSteps, NextStep, StepTyped, LockStep, IOStep DEF Step
<1> QED
  BY <1>1, <1>2, PTL DEF TestSpec

(***************************************************************************)
(* No process ever reads another status than "transmitted" in print()      *)
(* (p2test_bikaya_v0.3.c:170-178): its command is taken, because whoever   *)
(* printed before has waited for his own to complete, and the status it    *)
(* finds after WAITIO is the one setIOresult saved for it.  It holds for   *)
(* every number of pcbs, characters, rounds and preemptions, and rests on  *)
(* print() being under term_mut, even when a process dies that holds it.   *)
(***************************************************************************)
THEOREM PrintHearsItsDevice == TestSpec => []PrintSucceeds
<1>1. IOInv => PrintSucceeds
  BY DEF IOInv
<1> QED
  BY <1>1, TestInv, PTL

(***************************************************************************)
(* In the test program whoever leaves a device's queue alive leaves it     *)
(* because its operation has completed (interrupt.c:81, 174), on a machine *)
(* with both halves of the terminal too: the program uses one of them, so  *)
(* that what cross_wake shows does not happen to it.                       *)
(***************************************************************************)
THEOREM TestWokenByCompletion == TestSpec => WokenOnCompletion
<1>1. IInv /\ IOInv => PolledIsDone
  <2>1. IInv => poll \subseteq Dev
    BY Typed DEF IInv
  <2> QED
    BY <2>1, NextIsPolled DEF IOInv, OthersIdle, PolledDone, PolledIsDone
<1>2. IInv /\ TestTypeOK /\ IOInv /\ [TestNext]_allVars => [WokenWhenDone]_vars
  BY <1>1, TestSteps, WokenStep
<1> QED
  BY <1>2, TestInv, PTL DEF TestSpec, WokenOnCompletion
=============================================================================
