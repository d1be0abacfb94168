---------------------------- MODULE ProcQProofs ----------------------------
(***************************************************************************)
(* What insertProcQ, removeProcQ and outProcQ do to a queue, for every     *)
(* queue and every assignment of priorities.                               *)
(***************************************************************************)
EXTENDS ProcQ, FiniteSets, FiniteSetTheorems, SequenceTheorems,
        WellFoundedInduction, TLAPS

\* A nonempty set of naturals has a least element.
LEMMA LeastNat ==
  ASSUME NEW T, T \subseteq Nat, T /= {}
  PROVE  \E x \in T : \A y \in T : x <= y
<1> DEFINE R == OpToRel(<, Nat)
<1>1. \E x \in T : \A y \in T : ~ (<<y, x>> \in R)
  BY NatLessThanWellFounded, WFMin, Zenon
<1>2. \A x, y \in Nat : (y < x) => <<y, x>> \in R
  BY Zenon DEF OpToRel
<1> HIDE DEF R
<1>3. PICK x \in T : \A y \in T : ~ (<<y, x>> \in R)
  BY <1>1
<1>4. \A y \in T : ~ (y < x)
  BY <1>2, <1>3
<1> QED
  BY <1>4

\* The place insertProcQ looks for exists: all before it have at least p's priority, the
\* element there, if any, has less.
LEMMA InsertPosProp ==
  ASSUME NEW q \in Seq(Pcb), NEW prio \in [Pcb -> Int], NEW p \in Pcb
  PROVE  LET i == InsertPos(q, prio, p)
         IN  /\ i \in 1..Len(q) + 1
             /\ i <= Len(q) => prio[p] > prio[q[i]]
             /\ \A j \in 1..i - 1 : prio[p] <= prio[q[j]]
<1> DEFINE T == {i \in 1..Len(q) + 1 : i <= Len(q) => prio[p] > prio[q[i]]}
<1>1. Len(q) \in Nat
  OBVIOUS
<1>2. T \subseteq Nat /\ Len(q) + 1 \in T
  BY <1>1
<1>3. PICK i \in T : \A j \in T : i <= j
  BY <1>2, LeastNat
<1>4. \A j \in 1..Len(q) : prio[q[j]] \in Int /\ prio[p] \in Int
  BY ElementOfSeq
<1>5. \A j \in 1..i - 1 : prio[p] <= prio[q[j]]
  <2> TAKE j \in 1..i - 1
  <2>1. j \in 1..Len(q) /\ j \notin T
    BY <1>1, <1>3
  <2> QED
    BY <2>1, <1>1, <1>4
<1>6. \E k \in 1..Len(q) + 1 :
        /\ k <= Len(q) => prio[p] > prio[q[k]]
        /\ \A j \in 1..k - 1 : prio[p] <= prio[q[j]]
  BY <1>3, <1>5
<1> QED
  BY <1>6 DEF InsertPos

\* A function on 1..n with values in S is a sequence of length n.
LEMMA FunIsSeq ==
  ASSUME NEW S, NEW n \in Nat, NEW f \in [1..n -> S]
  PROVE  f \in Seq(S) /\ Len(f) = n
<1>1. f \in Seq(S)
  BY SeqDef
<1>2. DOMAIN f = 1..n /\ DOMAIN f = 1..Len(f) /\ Len(f) \in Nat
  BY <1>1, LenProperties
<1> QED
  BY <1>1, <1>2

-----------------------------------------------------------------------------
(***************************************************************************)
(* insertProcQ.                                                            *)
(***************************************************************************)
\* The shape of the queue after an insertion at i.
LEMMA InsertShape ==
  ASSUME NEW q \in Seq(Pcb), NEW prio \in [Pcb -> Int], NEW p \in Pcb
  PROVE  LET i == InsertPos(q, prio, p)
             r == insertProcQ(q, prio, p)
         IN  /\ r \in Seq(Pcb)
             /\ Len(r) = Len(q) + 1
             /\ \A j \in 1..Len(q) + 1 :
                  r[j] = IF j < i THEN q[j] ELSE IF j = i THEN p ELSE q[j - 1]
<1> DEFINE i == InsertPos(q, prio, p)
           r == insertProcQ(q, prio, p)
<1>1. i \in 1..Len(q) + 1 /\ Len(q) \in Nat
  BY InsertPosProp
<1>2. r = [j \in 1..Len(q) + 1 |-> IF j < i THEN q[j] ELSE IF j = i THEN p ELSE q[j - 1]]
  BY DEF insertProcQ
<1> HIDE DEF i, r
<1>3. \A j \in 1..Len(q) : q[j] \in Pcb
  BY ElementOfSeq
<1>4. r \in [1..Len(q) + 1 -> Pcb]
  BY <1>1, <1>2, <1>3
<1>5. r \in Seq(Pcb) /\ Len(r) = Len(q) + 1
  BY <1>1, <1>4, FunIsSeq
<1> QED
  BY <1>1, <1>2, <1>5 DEF i, r

\* Nothing but p is added, nothing is lost.
LEMMA InsertElems ==
  ASSUME NEW q \in Seq(Pcb), NEW prio \in [Pcb -> Int], NEW p \in Pcb
  PROVE  Elems(insertProcQ(q, prio, p)) = Elems(q) \cup {p}
<1> DEFINE i == InsertPos(q, prio, p)
           r == insertProcQ(q, prio, p)
<1>1. i \in 1..Len(q) + 1 /\ Len(q) \in Nat
  BY InsertPosProp
<1>2. /\ Len(r) = Len(q) + 1
      /\ \A j \in 1..Len(q) + 1 :
           r[j] = IF j < i THEN q[j] ELSE IF j = i THEN p ELSE q[j - 1]
  BY InsertShape
<1> HIDE DEF i, r
<1>3. ASSUME NEW j \in 1..Len(r)
      PROVE  r[j] \in Elems(q) \cup {p}
  <2>1. CASE j < i
    BY <1>1, <1>2, <2>1 DEF Elems
  <2>2. CASE j = i
    BY <1>1, <1>2, <2>2
  <2>3. CASE j > i
    <3>1. r[j] = q[j - 1] /\ j - 1 \in 1..Len(q)
      BY <1>1, <1>2, <2>3
    <3> QED
      BY <3>1 DEF Elems
  <2> QED
    BY <1>1, <1>2, <2>1, <2>2, <2>3
<1>4. \A k \in 1..Len(q) : q[k] = r[IF k < i THEN k ELSE k + 1]
  BY <1>1, <1>2
<1>5. \A k \in 1..Len(q) : (IF k < i THEN k ELSE k + 1) \in 1..Len(r)
  BY <1>1, <1>2
<1>6. p = r[i] /\ i \in 1..Len(r)
  BY <1>1, <1>2
<1>7. \A x \in Elems(q) \cup {p} : x \in Elems(r)
  BY <1>4, <1>5, <1>6 DEF Elems
<1>8. \A x \in Elems(r) : x \in Elems(q) \cup {p}
  BY <1>3 DEF Elems
<1> QED
  BY <1>7, <1>8 DEF r

\* A pcb that was not linked is then linked once.
LEMMA InsertNoDup ==
  ASSUME NEW q \in Seq(Pcb), NEW prio \in [Pcb -> Int], NEW p \in Pcb,
         NoDup(q), p \notin Elems(q)
  PROVE  NoDup(insertProcQ(q, prio, p))
<1> DEFINE i == InsertPos(q, prio, p)
           r == insertProcQ(q, prio, p)
<1>1. i \in 1..Len(q) + 1 /\ Len(q) \in Nat
  BY InsertPosProp
<1>2. /\ Len(r) = Len(q) + 1
      /\ \A j \in 1..Len(q) + 1 :
           r[j] = IF j < i THEN q[j] ELSE IF j = i THEN p ELSE q[j - 1]
  BY InsertShape
<1> HIDE DEF i, r
<1>3. \A k \in 1..Len(q) : q[k] /= p
  BY DEF Elems
<1>4. ASSUME NEW j \in 1..Len(r), NEW k \in 1..Len(r), j < k
      PROVE  r[j] /= r[k]
  <2>1. CASE k < i
    <3>1. r[j] = q[j] /\ r[k] = q[k] /\ j \in 1..Len(q) /\ k \in 1..Len(q)
      BY <1>1, <1>2, <1>4, <2>1
    <3> QED
      BY <3>1, <1>4 DEF NoDup
  <2>2. CASE k = i
    <3>1. r[j] = q[j] /\ r[k] = p /\ j \in 1..Len(q)
      BY <1>1, <1>2, <1>4, <2>2
    <3> QED
      BY <3>1, <1>3
  <2>3. CASE k > i /\ j < i
    <3>1. r[j] = q[j] /\ r[k] = q[k - 1] /\ j \in 1..Len(q) /\ k - 1 \in 1..Len(q)
      BY <1>1, <1>2, <2>3
    <3>2. j /= k - 1
      BY <1>1, <1>2, <2>3
    <3> QED
      BY <3>1, <3>2 DEF NoDup
  <2>4. CASE k > i /\ j = i
    <3>1. r[j] = p /\ r[k] = q[k - 1] /\ k - 1 \in 1..Len(q)
      BY <1>1, <1>2, <2>4
    <3> QED
      BY <3>1, <1>3
  <2>5. CASE k > i /\ j > i
    <3>1. r[j] = q[j - 1] /\ r[k] = q[k - 1] /\ j - 1 \in 1..Len(q) /\ k - 1 \in 1..Len(q)
      BY <1>1, <1>2, <2>5
    <3>2. j - 1 /= k - 1
      BY <1>4
    <3> QED
      BY <3>1, <3>2 DEF NoDup
  <2> QED
    BY <1>1, <2>1, <2>2, <2>3, <2>4, <2>5
<1>5. NoDup(r)
  <2>1. \A j, k \in 1..Len(r) : j < k \/ k < j \/ j = k
    BY <1>1, <1>2
  <2> QED
    BY <1>4, <2>1 DEF NoDup
<1> QED
  BY <1>5 DEF r

\* insertProcQ keeps a queue in order of priority.
LEMMA InsertSorted ==
  ASSUME NEW q \in Seq(Pcb), NEW prio \in [Pcb -> Int], NEW p \in Pcb,
         Sorted(q, prio)
  PROVE  Sorted(insertProcQ(q, prio, p), prio)
<1> DEFINE i == InsertPos(q, prio, p)
           r == insertProcQ(q, prio, p)
<1>1. /\ i \in 1..Len(q) + 1 /\ Len(q) \in Nat
      /\ i <= Len(q) => prio[p] > prio[q[i]]
      /\ \A j \in 1..i - 1 : prio[p] <= prio[q[j]]
  BY InsertPosProp
<1>2. /\ Len(r) = Len(q) + 1
      /\ \A j \in 1..Len(q) + 1 :
           r[j] = IF j < i THEN q[j] ELSE IF j = i THEN p ELSE q[j - 1]
  BY InsertShape
<1> HIDE DEF i, r
<1>3. prio[p] \in Int /\ \A k \in 1..Len(q) : prio[q[k]] \in Int
  BY ElementOfSeq
<1>4. \A k \in 1..Len(q) : k >= i => prio[p] > prio[q[k]]
  BY <1>1, <1>3 DEF Sorted
<1>5. ASSUME NEW j \in 1..Len(r), NEW k \in 1..Len(r), j < k
      PROVE  prio[r[j]] >= prio[r[k]]
  <2>1. CASE k < i
    <3>1. r[j] = q[j] /\ r[k] = q[k] /\ j \in 1..Len(q) /\ k \in 1..Len(q)
      BY <1>1, <1>2, <1>5, <2>1
    <3> QED
      BY <3>1, <1>5 DEF Sorted
  <2>2. CASE k = i
    BY <1>1, <1>2, <1>5, <2>2
  <2>3. CASE k > i /\ j < i
    <3>1. r[j] = q[j] /\ r[k] = q[k - 1] /\ j \in 1..Len(q) /\ k - 1 \in 1..Len(q)
      BY <1>1, <1>2, <2>3
    <3>2. CASE j < k - 1
      <4>1. prio[q[j]] >= prio[q[k - 1]]
        BY <3>1, <3>2 DEF Sorted
      <4> QED
        BY <3>1, <4>1
    <3>3. CASE j = k - 1
      <4>1. prio[q[j]] \in Int /\ r[j] = r[k]
        BY <1>3, <3>1, <3>3
      <4> QED
        BY <3>1, <4>1
    <3> QED
      BY <1>1, <1>2, <2>3, <3>2, <3>3
  <2>4. CASE k > i /\ j = i
    <3>1. r[j] = p /\ r[k] = q[k - 1] /\ k - 1 \in 1..Len(q) /\ k - 1 >= i
      BY <1>1, <1>2, <2>4
    <3> QED
      BY <3>1, <1>3, <1>4
  <2>5. CASE k > i /\ j > i
    <3>1. r[j] = q[j - 1] /\ r[k] = q[k - 1] /\ j - 1 \in 1..Len(q) /\ k - 1 \in 1..Len(q)
      BY <1>1, <1>2, <2>5
    <3> QED
      BY <3>1, <1>5 DEF Sorted
  <2> QED
    BY <1>1, <2>1, <2>2, <2>3, <2>4, <2>5
<1>6. Sorted(r, prio)
  BY <1>5 DEF Sorted
<1> QED
  BY <1>6 DEF r

-----------------------------------------------------------------------------
(***************************************************************************)
(* removeProcQ and outProcQ.                                               *)
(***************************************************************************)
\* Taking the head leaves a queue that is as ordered and as duplicate-free, without it.
LEMMA RemoveProp ==
  ASSUME NEW q \in Seq(Pcb), NEW prio \in [Pcb -> Int], q /= <<>>,
         NoDup(q), Sorted(q, prio)
  PROVE  LET r == removeProcQ(q)
         IN  /\ r \in Seq(Pcb) /\ Len(r) = Len(q) - 1
             /\ \A i \in 1..Len(r) : r[i] = q[i + 1]
             /\ headProcQ(q) = q[1] /\ q[1] \in Pcb
             /\ Elems(r) = Elems(q) \ {q[1]}
             /\ NoDup(r) /\ Sorted(r, prio)
<1> DEFINE r == removeProcQ(q)
<1>1. Len(q) \in Nat \ {0}
  BY EmptySeq
<1>2. /\ r \in Seq(Pcb) /\ Len(r) = Len(q) - 1
      /\ \A i \in 1..Len(r) : r[i] = q[i + 1]
  BY HeadTailProperties DEF removeProcQ
<1>3. headProcQ(q) = q[1] /\ q[1] \in Pcb
  BY <1>1, ElementOfSeq DEF headProcQ, emptyProcQ
<1> HIDE DEF r
<1>4. \A i \in 1..Len(r) : i + 1 \in 1..Len(q) /\ i + 1 /= 1
  BY <1>1, <1>2
<1>5. NoDup(r)
  <2> SUFFICES ASSUME NEW i \in 1..Len(r), NEW j \in 1..Len(r), r[i] = r[j]
               PROVE  i = j
    BY DEF NoDup
  <2>1. i + 1 = j + 1
    BY <1>2, <1>4 DEF NoDup
  <2> QED
    BY <2>1
<1>6. Sorted(r, prio)
  <2> SUFFICES ASSUME NEW i \in 1..Len(r), NEW j \in 1..Len(r), i < j
               PROVE  prio[r[i]] >= prio[r[j]]
    BY DEF Sorted
  <2>1. i + 1 < j + 1
    OBVIOUS
  <2> QED
    BY <2>1, <1>2, <1>4 DEF Sorted
<1>7. \A x \in Elems(r) : x \in Elems(q) \ {q[1]}
  <2> SUFFICES ASSUME NEW i \in 1..Len(r)
               PROVE  r[i] \in Elems(q) \ {q[1]}
    BY DEF Elems
  <2>1. 1 \in 1..Len(q)
    BY <1>1
  <2>2. q[i + 1] /= q[1]
    BY <1>4, <2>1 DEF NoDup
  <2> QED
    BY <1>2, <1>4, <2>2 DEF Elems
<1>8. \A x \in Elems(q) \ {q[1]} : x \in Elems(r)
  <2> SUFFICES ASSUME NEW i \in 1..Len(q), q[i] /= q[1]
               PROVE  q[i] \in Elems(r)
    BY DEF Elems
  <2>1. i - 1 \in 1..Len(r) /\ r[i - 1] = q[i]
    BY <1>1, <1>2
  <2> QED
    BY <2>1 DEF Elems
<1> QED
  BY <1>2, <1>3, <1>5, <1>6, <1>7, <1>8 DEF r

\* outProcQ takes a linked pcb out, wherever it is, and moves nothing else.
LEMMA OutProp ==
  ASSUME NEW q \in Seq(Pcb), NEW prio \in [Pcb -> Int], NEW p \in Elems(q),
         NoDup(q), Sorted(q, prio)
  PROVE  LET r == outProcQ(q, p)
         IN  /\ r \in Seq(Pcb) /\ Len(r) = Len(q) - 1
             /\ \A i \in 1..Len(r) : r[i] \in {q[i], q[i + 1]}
             /\ Elems(r) = Elems(q) \ {p}
             /\ NoDup(r) /\ Sorted(r, prio)
<1> DEFINE r == outProcQ(q, p)
           first(k) == k \in 1..Len(q) /\ q[k] = p /\ \A j \in 1..k - 1 : q[j] /= p
<1>1. Len(q) \in Nat /\ \A j \in 1..Len(q) : q[j] \in Pcb
  BY ElementOfSeq
<1>2. PICK k \in 1..Len(q) : q[k] = p
  BY DEF Elems
<1>3. \A j \in 1..Len(q) : q[j] = p => j = k
  BY <1>2 DEF NoDup
<1>4. \A j \in 1..k - 1 : j \in 1..Len(q) /\ j /= k
  BY <1>1
<1>5. (CHOOSE i \in 1..Len(q) : q[i] = p /\ \A j \in 1..i - 1 : q[j] /= p) = k
  BY <1>2, <1>3, <1>4
<1>6. r = [j \in 1..Len(q) - 1 |-> IF j < k THEN q[j] ELSE q[j + 1]]
  BY <1>5 DEF outProcQ
<1> HIDE DEF r
<1>7. Len(q) - 1 \in Nat /\ r \in [1..Len(q) - 1 -> Pcb]
  BY <1>1, <1>6
<1>8. /\ r \in Seq(Pcb) /\ Len(r) = Len(q) - 1
      /\ \A j \in 1..Len(r) : r[j] = IF j < k THEN q[j] ELSE q[j + 1]
  BY <1>6, <1>7, FunIsSeq
<1> DEFINE at(j) == IF j < k THEN j ELSE j + 1
<1>9. \A j \in 1..Len(r) : at(j) \in 1..Len(q) /\ at(j) /= k /\ r[j] = q[at(j)]
  <2> SUFFICES ASSUME NEW j \in 1..Len(r)
               PROVE  at(j) \in 1..Len(q) /\ at(j) /= k /\ r[j] = q[at(j)]
    OBVIOUS
  <2>1. r[j] = IF j < k THEN q[j] ELSE q[j + 1]
    BY <1>8
  <2>2. at(j) \in 1..Len(q) /\ at(j) /= k
    BY <1>1, <1>8
  <2> QED
    BY <2>1, <2>2
<1>10. \A i, j \in 1..Len(r) : i < j => at(i) < at(j)
  BY <1>1, <1>8
<1>11. \A i \in 1..Len(q) : i /= k => \E j \in 1..Len(r) : at(j) = i
  <2> SUFFICES ASSUME NEW i \in 1..Len(q), i /= k
               PROVE  \E j \in 1..Len(r) : at(j) = i
    OBVIOUS
  <2>1. CASE i < k
    BY <1>1, <1>8, <2>1
  <2>2. CASE i > k
    <3>1. i - 1 \in 1..Len(r) /\ at(i - 1) = i
      BY <1>1, <1>8, <2>2
    <3> QED
      BY <3>1
  <2> QED
    BY <2>1, <2>2
<1>12. \A i \in 1..Len(r) : r[i] \in {q[i], q[i + 1]}
  BY <1>9
<1> HIDE DEF at
<1>13. NoDup(r)
  <2>1. \A i, j \in 1..Len(r) : i < j \/ j < i \/ i = j
    BY <1>1, <1>8
  <2>2. \A i, j \in 1..Len(r) : i < j => r[i] /= r[j]
    <3> SUFFICES ASSUME NEW i \in 1..Len(r), NEW j \in 1..Len(r), i < j
                 PROVE  r[i] /= r[j]
      OBVIOUS
    <3>1. at(i) /= at(j)
      BY <1>1, <1>9, <1>10
    <3> QED
      BY <3>1, <1>9 DEF NoDup
  <2> QED
    BY <2>1, <2>2 DEF NoDup
<1>14. Sorted(r, prio)
  BY <1>9, <1>10 DEF Sorted
<1>15. \A x \in Elems(r) : x \in Elems(q) \ {p}
  BY <1>3, <1>9 DEF Elems
<1>16. \A x \in Elems(q) \ {p} : x \in Elems(r)
  <2> SUFFICES ASSUME NEW i \in 1..Len(q), q[i] /= p
               PROVE  q[i] \in Elems(r)
    BY DEF Elems
  <2>1. PICK j \in 1..Len(r) : at(j) = i
    BY <1>2, <1>11
  <2>2. r[j] = q[i]
    BY <1>9, <2>1
  <2> QED
    BY <2>2 DEF Elems
<1> QED
  BY <1>8, <1>12, <1>13, <1>14, <1>15, <1>16 DEF r

-----------------------------------------------------------------------------
\* There is no room in a queue for more processes than pcbs.
LEMMA LenBound ==
  ASSUME NEW q \in Seq(Pcb), NoDup(q)
  PROVE  Len(q) \in Nat /\ Len(q) <= MAXPROC
<1>1. Len(q) \in Nat /\ q \in [1..Len(q) -> Pcb]
  BY LenProperties
<1>2. q \in Injection(1..Len(q), Pcb)
  BY <1>1 DEF NoDup, Injection, IsInjective
<1>3. IsFiniteSet(Pcb) /\ Cardinality(Pcb) = MAXPROC
  BY MAXPROCAssumption, FS_Interval DEF Pcb
<1>4. Cardinality(1..Len(q)) = Len(q)
  BY <1>1, FS_Interval
<1> QED
  BY <1>1, <1>2, <1>3, <1>4, FS_Injection

-----------------------------------------------------------------------------
(***************************************************************************)
(* The list macros on lists of anything: list_del, list_add, list_add_tail *)
(* and unlinking the first element.                                        *)
(***************************************************************************)
\* Unlinking an element leaves the others, once each.
LEMMA DelProp ==
  ASSUME NEW S, NEW l \in Seq(S), NEW e \in Elems(l), NoDup(l)
  PROVE  /\ outProcQ(l, e) \in Seq(S)
         /\ Elems(outProcQ(l, e)) = Elems(l) \ {e}
         /\ NoDup(outProcQ(l, e))
<1> DEFINE r == outProcQ(l, e)
<1>1. Len(l) \in Nat /\ \A j \in 1..Len(l) : l[j] \in S
  BY ElementOfSeq
<1>2. PICK k \in 1..Len(l) : l[k] = e
  BY DEF Elems
<1>3. \A j \in 1..Len(l) : l[j] = e => j = k
  BY <1>2 DEF NoDup
<1>4. \A j \in 1..k - 1 : j \in 1..Len(l) /\ j /= k
  BY <1>1
<1>5. (CHOOSE i \in 1..Len(l) : l[i] = e /\ \A j \in 1..i - 1 : l[j] /= e) = k
  BY <1>2, <1>3, <1>4
<1>6. r = [j \in 1..Len(l) - 1 |-> IF j < k THEN l[j] ELSE l[j + 1]]
  BY <1>5 DEF outProcQ
<1> HIDE DEF r
<1>7. Len(l) - 1 \in Nat /\ r \in [1..Len(l) - 1 -> S]
  BY <1>1, <1>6
<1>8. /\ r \in Seq(S) /\ Len(r) = Len(l) - 1
      /\ \A j \in 1..Len(r) : r[j] = IF j < k THEN l[j] ELSE l[j + 1]
  BY <1>6, <1>7, FunIsSeq
<1> DEFINE at(j) == IF j < k THEN j ELSE j + 1
<1>9. \A j \in 1..Len(r) : at(j) \in 1..Len(l) /\ at(j) /= k /\ r[j] = l[at(j)]
  BY <1>1, <1>8
<1>10. \A i, j \in 1..Len(r) : at(i) = at(j) => i = j
  BY <1>1, <1>8
<1>11. \A i \in 1..Len(l) : i /= k => \E j \in 1..Len(r) : at(j) = i
  <2> SUFFICES ASSUME NEW i \in 1..Len(l), i /= k
               PROVE  \E j \in 1..Len(r) : at(j) = i
    OBVIOUS
  <2>1. CASE i < k
    BY <1>1, <1>8, <2>1
  <2>2. CASE i > k
    <3>1. i - 1 \in 1..Len(r) /\ at(i - 1) = i
      BY <1>1, <1>8, <2>2
    <3> QED
      BY <3>1
  <2> QED
    BY <2>1, <2>2
<1> HIDE DEF at
<1>12. NoDup(r)
  BY <1>9, <1>10 DEF NoDup
<1>13. \A x \in Elems(r) : x \in Elems(l) \ {e}
  BY <1>3, <1>9 DEF Elems
<1>14. \A x \in Elems(l) \ {e} : x \in Elems(r)
  <2> SUFFICES ASSUME NEW i \in 1..Len(l), l[i] /= e
               PROVE  l[i] \in Elems(r)
    BY DEF Elems
  <2>1. PICK j \in 1..Len(r) : at(j) = i
    BY <1>2, <1>11
  <2>2. r[j] = l[i]
    BY <1>9, <2>1
  <2> QED
    BY <2>2 DEF Elems
<1> QED
  BY <1>8, <1>12, <1>13, <1>14 DEF r

\* list_add_tail of an element that is not linked adds it, once.
LEMMA AddTailProp ==
  ASSUME NEW S, NEW l \in Seq(S), NEW e \in S, e \notin Elems(l), NoDup(l)
  PROVE  /\ Append(l, e) \in Seq(S)
         /\ Elems(Append(l, e)) = Elems(l) \cup {e}
         /\ NoDup(Append(l, e))
<1> DEFINE r == Append(l, e)
<1>1. Len(l) \in Nat
  OBVIOUS
<1>2. /\ r \in Seq(S) /\ Len(r) = Len(l) + 1
      /\ \A j \in 1..Len(l) : r[j] = l[j]
      /\ r[Len(l) + 1] = e
  BY <1>1
<1> HIDE DEF r
<1>3. \A j \in 1..Len(l) : l[j] /= e
  BY DEF Elems
<1>4. \A j \in 1..Len(r) : j \in 1..Len(l) \/ j = Len(l) + 1
  BY <1>1, <1>2
<1>5. NoDup(r)
  BY <1>2, <1>3, <1>4 DEF NoDup
<1>6. \A x \in Elems(r) : x \in Elems(l) \cup {e}
  BY <1>2, <1>4 DEF Elems
<1>7. (1..Len(l)) \subseteq 1..Len(r) /\ Len(l) + 1 \in 1..Len(r)
  BY <1>1, <1>2
<1>8. \A x \in Elems(l) \cup {e} : x \in Elems(r)
  BY <1>2, <1>7 DEF Elems
<1> QED
  BY <1>2, <1>5, <1>6, <1>8 DEF r

\* list_add of an element that is not linked adds it, once.
LEMMA AddHeadProp ==
  ASSUME NEW S, NEW l \in Seq(S), NEW e \in S, e \notin Elems(l), NoDup(l)
  PROVE  /\ <<e>> \o l \in Seq(S)
         /\ Elems(<<e>> \o l) = Elems(l) \cup {e}
         /\ NoDup(<<e>> \o l)
<1> DEFINE r == <<e>> \o l
<1>1. Len(l) \in Nat
  OBVIOUS
<1>2. /\ r \in Seq(S) /\ Len(r) = Len(l) + 1
      /\ r[1] = e
      /\ \A j \in 2..Len(l) + 1 : r[j] = l[j - 1]
  BY <1>1
<1> HIDE DEF r
<1>3. \A j \in 1..Len(l) : l[j] /= e
  BY DEF Elems
<1>4. \A j \in 1..Len(r) : j = 1 \/ (j \in 2..Len(l) + 1 /\ j - 1 \in 1..Len(l))
  BY <1>1, <1>2
<1>5. NoDup(r)
  <2> SUFFICES ASSUME NEW i \in 1..Len(r), NEW j \in 1..Len(r), r[i] = r[j]
               PROVE  i = j
    BY DEF NoDup
  <2>1. CASE i = 1 \/ j = 1
    BY <1>2, <1>3, <1>4, <2>1
  <2>2. CASE i /= 1 /\ j /= 1
    <3>1. i - 1 \in 1..Len(l) /\ j - 1 \in 1..Len(l) /\ l[i - 1] = l[j - 1]
      BY <1>2, <1>4, <2>2
    <3>2. i - 1 = j - 1
      BY <3>1 DEF NoDup
    <3> QED
      BY <3>2
  <2> QED
    BY <2>1, <2>2
<1>6. \A x \in Elems(r) : x \in Elems(l) \cup {e}
  BY <1>2, <1>4 DEF Elems
<1>7. \A j \in 1..Len(l) : j + 1 \in 2..Len(l) + 1 /\ j + 1 \in 1..Len(r) /\ r[j + 1] = l[j]
  BY <1>1, <1>2
<1>8. 1 \in 1..Len(r)
  BY <1>1, <1>2
<1>9. \A x \in Elems(l) \cup {e} : x \in Elems(r)
  BY <1>2, <1>7, <1>8 DEF Elems
<1> QED
  BY <1>2, <1>5, <1>6, <1>9 DEF r

\* Unlinking the first element leaves the others, once each.
LEMMA TakeHeadProp ==
  ASSUME NEW S, NEW l \in Seq(S), l /= <<>>, NoDup(l)
  PROVE  /\ Head(l) \in Elems(l)
         /\ Tail(l) \in Seq(S)
         /\ Elems(Tail(l)) = Elems(l) \ {Head(l)}
         /\ NoDup(Tail(l))
<1> DEFINE r == Tail(l)
<1>1. Len(l) \in Nat \ {0}
  BY EmptySeq
<1>2. /\ r \in Seq(S) /\ Len(r) = Len(l) - 1
      /\ \A i \in 1..Len(r) : r[i] = l[i + 1]
  BY HeadTailProperties
<1>3. Head(l) = l[1] /\ 1 \in 1..Len(l)
  BY <1>1
<1> HIDE DEF r
<1>4. \A i \in 1..Len(r) : i + 1 \in 1..Len(l) /\ i + 1 /= 1
  BY <1>1, <1>2
<1>5. NoDup(r)
  <2> SUFFICES ASSUME NEW i \in 1..Len(r), NEW j \in 1..Len(r), r[i] = r[j]
               PROVE  i = j
    BY DEF NoDup
  <2>1. i + 1 = j + 1
    BY <1>2, <1>4 DEF NoDup
  <2> QED
    BY <2>1
<1>6. \A i \in 1..Len(r) : r[i] \in Elems(l) /\ r[i] /= l[1]
  BY <1>2, <1>3, <1>4 DEF Elems, NoDup
<1>7. \A i \in 1..Len(l) : l[i] /= l[1] => i - 1 \in 1..Len(r) /\ r[i - 1] = l[i]
  <2> SUFFICES ASSUME NEW i \in 1..Len(l), l[i] /= l[1]
               PROVE  i - 1 \in 1..Len(r) /\ r[i - 1] = l[i]
    OBVIOUS
  <2>1. i /= 1
    OBVIOUS
  <2> QED
    BY <1>1, <1>2, <2>1
<1>8. Elems(r) = Elems(l) \ {l[1]}
  BY <1>6, <1>7 DEF Elems
<1> QED
  BY <1>2, <1>3, <1>5, <1>8 DEF r, Elems

=============================================================================
