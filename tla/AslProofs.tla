----------------------------- MODULE AslProofs -----------------------------
(***************************************************************************)
(* The descriptors of asl.c are never lost, shared or missing, and they    *)
(* implement one queue per semaphore address: proofs for every number of   *)
(* pcbs, descriptors and addresses.                                        *)
(***************************************************************************)
EXTENDS Asl, ProcQProofs

\* A pcb and a descriptor each have a number above NULL, and there are finitely many.
LEMMA TablesFacts ==
  /\ Pcb \subseteq Nat /\ Semd \subseteq Nat /\ NULL \notin Semd
  /\ NoKey \notin Key /\ Priorities \subseteq Int
  /\ IsFiniteSet(Semd) /\ Cardinality(Semd) = SEMDS
  /\ IsFiniteSet(Pcb) /\ Cardinality(Pcb) = MAXPROC
<1>1. SEMDS \in Nat \ {0} /\ NoKey \notin Key /\ Priorities \subseteq Int
  BY AslAssumption
<1>2. IsFiniteSet(Semd) /\ Cardinality(Semd) = SEMDS
  BY <1>1, FS_Interval DEF Semd
<1>3. IsFiniteSet(Pcb) /\ Cardinality(Pcb) = MAXPROC
  BY MAXPROCAssumption, FS_Interval DEF Pcb
<1> QED
  BY <1>1, <1>2, <1>3 DEF Semd, Pcb, NULL

-----------------------------------------------------------------------------
(***************************************************************************)
(* getSemd.                                                                *)
(***************************************************************************)
\* getSemd returns an active descriptor with the key, or NULL when there is none.
LEMMA GetSemdProp ==
  ASSUME semd_h \in Seq(Semd)
  PROVE  \A key :
           \/ getSemd(key) = NULL /\ \A s \in Elems(semd_h) : s_key[s] /= key
           \/ getSemd(key) \in Elems(semd_h) /\ s_key[getSemd(key)] = key
<1> SUFFICES ASSUME NEW key, \E s \in Elems(semd_h) : s_key[s] = key
             PROVE  getSemd(key) \in Elems(semd_h) /\ s_key[getSemd(key)] = key
  BY DEF getSemd
<1> DEFINE T == {i \in 1..Len(semd_h) : s_key[semd_h[i]] = key}
<1>1. Len(semd_h) \in Nat
  OBVIOUS
<1>2. T \subseteq Nat /\ T /= {}
  BY <1>1 DEF Elems
<1>3. PICK i \in T : \A j \in T : i <= j
  BY <1>2, LeastNat
<1>4. \A j \in 1..i - 1 : j \in 1..Len(semd_h) /\ j \notin T
  BY <1>1, <1>3
<1>5. \E k \in 1..Len(semd_h) : /\ s_key[semd_h[k]] = key
                                /\ \A j \in 1..k - 1 : s_key[semd_h[j]] /= key
  BY <1>3, <1>4
<1>6. PICK k \in 1..Len(semd_h) : getSemd(key) = semd_h[k] /\ s_key[semd_h[k]] = key
  BY <1>5 DEF getSemd
<1> QED
  BY <1>6 DEF Elems

\* And so it does in the next state.
LEMMA GetSemdNext ==
  ASSUME semd_h' \in Seq(Semd)
  PROVE  \A key :
           \/ getSemd(key)' = NULL /\ \A s \in Elems(semd_h') : s_key'[s] /= key
           \/ getSemd(key)' \in Elems(semd_h') /\ s_key'[getSemd(key)'] = key
<1> SUFFICES ASSUME NEW key, \E s \in Elems(semd_h') : s_key'[s] = key
             PROVE  getSemd(key)' \in Elems(semd_h') /\ s_key'[getSemd(key)'] = key
  BY DEF getSemd, Elems
<1> DEFINE T == {i \in 1..Len(semd_h') : s_key'[semd_h'[i]] = key}
<1>1. Len(semd_h') \in Nat
  OBVIOUS
<1>2. T \subseteq Nat /\ T /= {}
  BY <1>1 DEF Elems
<1>3. PICK i \in T : \A j \in T : i <= j
  BY <1>2, LeastNat
<1>4. \A j \in 1..i - 1 : j \in 1..Len(semd_h') /\ j \notin T
  BY <1>1, <1>3
<1>5. \E k \in 1..Len(semd_h') : /\ s_key'[semd_h'[k]] = key
                                 /\ \A j \in 1..k - 1 : s_key'[semd_h'[j]] /= key
  BY <1>3, <1>4
<1>6. PICK k \in 1..Len(semd_h') : getSemd(key)' = semd_h'[k] /\ s_key'[semd_h'[k]] = key
  BY <1>5 DEF getSemd, Elems
<1> QED
  BY <1>6 DEF Elems

-----------------------------------------------------------------------------
(***************************************************************************)
(* The invariant.                                                          *)
(***************************************************************************)
\* The empty active list satisfies it.
LEMMA AslInit == initASL => AslInv
<1> SUFFICES ASSUME initASL PROVE AslInv
  OBVIOUS
<1> DEFINE l == [i \in 1..SEMDS |-> i]
<1>1. SEMDS \in Nat
  BY AslAssumption
<1>2. l \in [1..SEMDS -> Semd]
  BY DEF Semd
<1>3. l \in Seq(Semd) /\ Len(l) = SEMDS
  BY <1>1, <1>2, FunIsSeq
<1>4. NoDup(l) /\ Elems(l) = Semd
  BY <1>3 DEF NoDup, Elems, Semd
<1> HIDE DEF l
<1>5. semdFree_h = l /\ semd_h = <<>>
  BY DEF initASL, l
<1>6. Elems(semd_h) = {} /\ NoDup(semd_h)
  BY <1>5 DEF Elems, NoDup
<1>7. AslTypeOK
  BY <1>3, <1>5 DEF initASL, AslTypeOK
<1> QED
  BY <1>4, <1>5, <1>6, <1>7 DEF AslInv, DescriptorsPartition, OneDescriptorPerKey, BlockedOnce

\* setQueue moves a descriptor whose queue has become empty from one list to the other.
LEMMA ReleaseLists ==
  ASSUME AslInv, NEW s \in Elems(semd_h), NEW q \in Seq(Pcb), setQueue(s, q)
  PROVE  /\ semd_h' \in Seq(Semd) /\ semdFree_h' \in Seq(Semd)
         /\ NoDup(semd_h') /\ NoDup(semdFree_h')
         /\ q = <<>> => /\ Elems(semd_h') = Elems(semd_h) \ {s}
                        /\ Elems(semdFree_h') = Elems(semdFree_h) \cup {s}
         /\ q /= <<>> => semd_h' = semd_h /\ semdFree_h' = semdFree_h
<1>1. /\ semd_h \in Seq(Semd) /\ semdFree_h \in Seq(Semd) /\ s \in Semd
      /\ NoDup(semd_h) /\ NoDup(semdFree_h) /\ s \notin Elems(semdFree_h)
      /\ s_procQ \in [Semd -> Seq(Pcb)]
  BY DEF AslInv, AslTypeOK, DescriptorsPartition
<1>2. CASE q = <<>>
  <2>1. semd_h' = list_del(semd_h, s) /\ semdFree_h' = Append(semdFree_h, s)
    BY <1>2 DEF setQueue, emptyProcQ
  <2> QED
    BY <1>1, <1>2, <2>1, DelProp, AddTailProp DEF list_del
<1>3. CASE q /= <<>>
  <2>1. semd_h' = semd_h /\ semdFree_h' = semdFree_h
    BY <1>3 DEF setQueue, emptyProcQ
  <2> QED
    BY <1>1, <1>3, <2>1
<1> QED
  BY <1>2, <1>3

\* A queue that only loses processes, and whose descriptor is released when it is empty.
LEMMA ReleaseKeeps ==
  ASSUME AslInv, NEW s \in Elems(semd_h), NEW q \in Seq(Pcb),
         Elems(q) \subseteq Elems(s_procQ[s]), NoDup(q), Sorted(q, prio),
         setQueue(s, q), UNCHANGED <<s_key, p_semkey, prio>>
  PROVE  AslInv'
<1>1. /\ semd_h \in Seq(Semd) /\ semdFree_h \in Seq(Semd) /\ s \in Semd
      /\ NoDup(semd_h) /\ NoDup(semdFree_h) /\ s \notin Elems(semdFree_h)
      /\ s_procQ \in [Semd -> Seq(Pcb)]
  BY DEF AslInv, AslTypeOK, DescriptorsPartition
<1>2. s_procQ' = [s_procQ EXCEPT ![s] = q]
  BY DEF setQueue
<1>3. /\ semd_h' \in Seq(Semd) /\ semdFree_h' \in Seq(Semd)
      /\ NoDup(semd_h') /\ NoDup(semdFree_h')
      /\ q = <<>> => /\ Elems(semd_h') = Elems(semd_h) \ {s}
                     /\ Elems(semdFree_h') = Elems(semdFree_h) \cup {s}
      /\ q /= <<>> => semd_h' = semd_h /\ semdFree_h' = semdFree_h
  BY ReleaseLists
<1>4. /\ Elems(semd_h') \subseteq Elems(semd_h)
      /\ q = <<>> => s \notin Elems(semd_h')
  BY <1>3
<1>5. AslTypeOK'
  BY <1>1, <1>2, <1>3 DEF AslInv, AslTypeOK
<1>6. DescriptorsPartition'
  BY <1>3 DEF AslInv, DescriptorsPartition
<1>7. OneDescriptorPerKey'
  BY <1>1, <1>2, <1>4 DEF AslInv, OneDescriptorPerKey
<1>8. BlockedOnce'
  <2> SUFFICES ASSUME NEW t \in Elems(semd_h')
               PROVE  /\ NoDup(s_procQ'[t]) /\ Sorted(s_procQ'[t], prio')
                      /\ \A p \in Elems(s_procQ'[t]) : p_semkey'[p] = s_key'[t]
    BY DEF BlockedOnce
  <2>1. /\ t \in Elems(semd_h) /\ t \in Semd
        /\ prio' = prio /\ p_semkey' = p_semkey /\ s_key' = s_key
    BY <1>4 DEF AslInv, DescriptorsPartition
  <2>2. /\ NoDup(s_procQ[t]) /\ Sorted(s_procQ[t], prio)
        /\ \A p \in Elems(s_procQ[t]) : p_semkey[p] = s_key[t]
    BY <2>1 DEF AslInv, BlockedOnce
  <2>3. s_procQ'[t] = IF t = s THEN q ELSE s_procQ[t]
    BY <1>1, <1>2, <2>1
  <2> QED
    BY <2>1, <2>2, <2>3
<1> QED
  BY <1>5, <1>6, <1>7, <1>8 DEF AslInv

\* removeBlocked.
LEMMA RemoveBlockedKeeps ==
  ASSUME AslInv, NEW key \in Key, removeBlocked(key)
  PROVE  AslInv'
<1> DEFINE s == getSemd(key)
<1>1. s \in Elems(semd_h)
  BY GetSemdProp DEF removeBlocked, AslInv, AslTypeOK
<1>2. /\ s_procQ[s] \in Seq(Pcb) /\ s_procQ[s] /= <<>> /\ prio \in [Pcb -> Int]
      /\ NoDup(s_procQ[s]) /\ Sorted(s_procQ[s], prio)
  BY <1>1, TablesFacts
     DEF AslInv, AslTypeOK, DescriptorsPartition, OneDescriptorPerKey, BlockedOnce
<1>3. /\ setQueue(s, removeProcQ(s_procQ[s]))
      /\ UNCHANGED <<s_key, p_semkey, prio>>
  BY DEF removeBlocked
<1> HIDE DEF s
<1> DEFINE r == removeProcQ(s_procQ[s])
<1>4. /\ r \in Seq(Pcb) /\ Elems(r) \subseteq Elems(s_procQ[s])
      /\ NoDup(r) /\ Sorted(r, prio)
  BY <1>2, RemoveProp
<1> HIDE DEF r
<1> QED
  BY <1>1, <1>3, <1>4, ReleaseKeeps DEF r

\* outBlocked.
LEMMA OutBlockedKeeps ==
  ASSUME AslInv, NEW p \in Pcb, outBlocked(p)
  PROVE  AslInv'
<1> DEFINE s == getSemd(p_semkey[p])
<1>1. s \in Elems(semd_h)
  BY GetSemdProp DEF outBlocked, AslInv, AslTypeOK
<1>2. /\ s_procQ[s] \in Seq(Pcb) /\ prio \in [Pcb -> Int]
      /\ NoDup(s_procQ[s]) /\ Sorted(s_procQ[s], prio)
  BY <1>1, TablesFacts
     DEF AslInv, AslTypeOK, DescriptorsPartition, OneDescriptorPerKey, BlockedOnce
<1>3. /\ p \in Elems(s_procQ[s])
      /\ setQueue(s, outProcQ(s_procQ[s], p))
      /\ UNCHANGED <<s_key, p_semkey, prio>>
  BY DEF outBlocked
<1> HIDE DEF s
<1> DEFINE r == outProcQ(s_procQ[s], p)
<1>4. /\ r \in Seq(Pcb) /\ Elems(r) \subseteq Elems(s_procQ[s])
      /\ NoDup(r) /\ Sorted(r, prio)
  BY <1>2, <1>3, OutProp
<1> HIDE DEF r
<1> QED
  BY <1>1, <1>3, <1>4, ReleaseKeeps DEF r

\* insertBlocked on the active descriptor of the key.
LEMMA InsertActiveKeeps ==
  ASSUME AslInv, NEW key \in Key, NEW p \in Pcb \ InQueue,
         insertBlocked(key, p), getSemd(key) /= NULL
  PROVE  AslInv'
<1> DEFINE s == getSemd(key)
           r == insertProcQ(s_procQ[s], prio, p)
<1>1. s \in Elems(semd_h) /\ s_key[s] = key
  BY GetSemdProp DEF AslInv, AslTypeOK
<1>2. /\ s_procQ' = [s_procQ EXCEPT ![s] = r]
      /\ p_semkey' = [p_semkey EXCEPT ![p] = key]
      /\ UNCHANGED <<semd_h, semdFree_h, s_key, prio>>
  BY DEF insertBlocked
<1> HIDE DEF s
<1>3. /\ s \in Semd /\ s_procQ \in [Semd -> Seq(Pcb)] /\ s_procQ[s] \in Seq(Pcb)
      /\ prio \in [Pcb -> Int]
      /\ NoDup(s_procQ[s]) /\ Sorted(s_procQ[s], prio)
  BY <1>1, TablesFacts DEF AslInv, AslTypeOK, DescriptorsPartition, BlockedOnce
<1>4. \A t \in Elems(semd_h) : p \notin Elems(s_procQ[t])
  BY DEF InQueue
<1>5. /\ r \in Seq(Pcb) /\ r /= <<>>
      /\ Elems(r) = Elems(s_procQ[s]) \cup {p}
      /\ NoDup(r) /\ Sorted(r, prio)
  <2>1. Len(r) = Len(s_procQ[s]) + 1 /\ Len(s_procQ[s]) \in Nat /\ r \in Seq(Pcb)
    BY <1>3, InsertShape
  <2>2. r /= <<>>
    BY <2>1, EmptySeq
  <2> QED
    BY <1>1, <1>3, <1>4, <2>1, <2>2, InsertElems, InsertNoDup, InsertSorted
<1> HIDE DEF r
<1>6. AslTypeOK'
  BY <1>2, <1>3, <1>5 DEF AslInv, AslTypeOK
<1>7. DescriptorsPartition'
  BY <1>2 DEF AslInv, DescriptorsPartition, Elems
<1>8. Elems(semd_h') = Elems(semd_h)
  BY <1>2
<1>9. OneDescriptorPerKey'
  BY <1>2, <1>3, <1>5, <1>8 DEF AslInv, OneDescriptorPerKey
<1>10. BlockedOnce'
  <2> SUFFICES ASSUME NEW t \in Elems(semd_h)
               PROVE  /\ NoDup(s_procQ'[t]) /\ Sorted(s_procQ'[t], prio)
                      /\ \A x \in Elems(s_procQ'[t]) : p_semkey'[x] = s_key[t]
    BY <1>2, <1>8 DEF BlockedOnce
  <2>1. t \in Semd /\ p_semkey \in [Pcb -> Key \cup {NoKey}]
    BY DEF AslInv, AslTypeOK, DescriptorsPartition
  <2>2. /\ NoDup(s_procQ[t]) /\ Sorted(s_procQ[t], prio)
        /\ \A x \in Elems(s_procQ[t]) : p_semkey[x] = s_key[t]
    BY DEF AslInv, BlockedOnce
  <2>3. \A x \in Elems(s_procQ[t]) : x \in Pcb
    BY <1>3, <2>1, ElementOfSeq DEF Elems
  <2>4. \A x \in Elems(s_procQ[t]) : p_semkey'[x] = s_key[t]
    BY <1>2, <1>4, <2>1, <2>2, <2>3
  <2>5. p_semkey'[p] = key
    BY <1>2, <2>1
  <2>6. s_procQ'[t] = IF t = s THEN r ELSE s_procQ[t]
    BY <1>2, <1>3, <2>1
  <2> QED
    BY <1>1, <1>5, <2>2, <2>4, <2>5, <2>6
<1> QED
  BY <1>6, <1>7, <1>9, <1>10 DEF AslInv

\* insertBlocked on a descriptor taken from the free list.
LEMMA InsertNewKeeps ==
  ASSUME AslInv, NEW key \in Key, NEW p \in Pcb \ InQueue,
         insertBlocked(key, p), getSemd(key) = NULL
  PROVE  AslInv'
<1> DEFINE new == Head(semdFree_h)
           r == insertProcQ(<<>>, prio, p)
<1>1. \A s \in Elems(semd_h) : s_key[s] /= key
  <2>1. NULL \notin Elems(semd_h)
    BY TablesFacts DEF AslInv, DescriptorsPartition
  <2> QED
    BY <2>1, GetSemdProp DEF AslInv, AslTypeOK
<1>2. /\ semdFree_h /= <<>> /\ semdFree_h' = Tail(semdFree_h)
      /\ semd_h' = <<new>> \o semd_h
      /\ s_key' = [s_key EXCEPT ![new] = key]
      /\ s_procQ' = [s_procQ EXCEPT ![new] = r]
      /\ p_semkey' = [p_semkey EXCEPT ![p] = key]
      /\ prio' = prio
  BY DEF insertBlocked
<1>3. /\ semd_h \in Seq(Semd) /\ semdFree_h \in Seq(Semd)
      /\ NoDup(semd_h) /\ NoDup(semdFree_h)
      /\ Elems(semd_h) \cap Elems(semdFree_h) = {}
      /\ Elems(semd_h) \cup Elems(semdFree_h) = Semd
  BY DEF AslInv, AslTypeOK, DescriptorsPartition
<1>4. /\ new \in Elems(semdFree_h)
      /\ semdFree_h' \in Seq(Semd)
      /\ Elems(semdFree_h') = Elems(semdFree_h) \ {new}
      /\ NoDup(semdFree_h')
  BY <1>2, <1>3, TakeHeadProp
<1> HIDE DEF new
<1>5. new \in Semd /\ new \notin Elems(semd_h)
  BY <1>3, <1>4
<1>6. /\ semd_h' \in Seq(Semd)
      /\ Elems(semd_h') = Elems(semd_h) \cup {new}
      /\ NoDup(semd_h')
  BY <1>2, <1>3, <1>5, AddHeadProp
<1>7. prio \in [Pcb -> Int]
  BY TablesFacts DEF AslInv, AslTypeOK
<1>8. /\ r \in Seq(Pcb) /\ r /= <<>> /\ Elems(r) = {p}
      /\ NoDup(r) /\ Sorted(r, prio)
  <2>1. PICK e \in Seq(Pcb) : e = <<>> /\ Len(e) = 0
    BY EmptySeq
  <2>2. Elems(e) = {} /\ NoDup(e) /\ Sorted(e, prio) /\ r = insertProcQ(e, prio, p)
    BY <2>1 DEF Elems, NoDup, Sorted
  <2> HIDE DEF r
  <2>3. Len(r) = Len(e) + 1 /\ r \in Seq(Pcb)
    BY <1>7, <2>2, InsertShape
  <2>4. r /= <<>>
    <3>1. Len(r) /= Len(e)
      BY <2>1, <2>3
    <3> QED
      BY <2>1, <3>1, Zenon
  <2>5. Elems(r) = {p}
    BY <1>7, <2>2, InsertElems
  <2>6. NoDup(r) /\ Sorted(r, prio)
    BY <1>7, <2>2, InsertNoDup, InsertSorted
  <2> QED
    BY <2>3, <2>4, <2>5, <2>6
<1> HIDE DEF r
<1>9. AslTypeOK'
  BY <1>2, <1>4, <1>5, <1>6, <1>8 DEF AslInv, AslTypeOK
<1>10. DescriptorsPartition'
  BY <1>3, <1>4, <1>5, <1>6 DEF DescriptorsPartition
<1>11. \A t \in Elems(semd_h) : /\ t \in Semd /\ t /= new
                                /\ s_key'[t] = s_key[t] /\ s_procQ'[t] = s_procQ[t]
  BY <1>2, <1>3, <1>5 DEF AslInv, AslTypeOK
<1>12. s_key'[new] = key /\ s_procQ'[new] = r
  BY <1>2, <1>5 DEF AslInv, AslTypeOK
<1>13. OneDescriptorPerKey'
  BY <1>1, <1>6, <1>8, <1>11, <1>12 DEF AslInv, OneDescriptorPerKey
<1>14. BlockedOnce'
  <2> SUFFICES ASSUME NEW t \in Elems(semd_h) \cup {new}
               PROVE  /\ NoDup(s_procQ'[t]) /\ Sorted(s_procQ'[t], prio)
                      /\ \A x \in Elems(s_procQ'[t]) : p_semkey'[x] = s_key'[t]
    BY <1>2, <1>6 DEF BlockedOnce
  <2>1. p_semkey \in [Pcb -> Key \cup {NoKey}] /\ s_procQ \in [Semd -> Seq(Pcb)]
    BY DEF AslInv, AslTypeOK
  <2>2. p_semkey'[p] = key
    BY <1>2, <2>1
  <2>3. CASE t = new
    BY <1>8, <1>12, <2>2, <2>3
  <2>4. CASE t \in Elems(semd_h)
    <3>1. /\ NoDup(s_procQ[t]) /\ Sorted(s_procQ[t], prio)
          /\ \A x \in Elems(s_procQ[t]) : p_semkey[x] = s_key[t]
      BY <2>4 DEF AslInv, BlockedOnce
    <3>2. p \notin Elems(s_procQ[t])
      BY <2>4 DEF InQueue
    <3>3. s_procQ[t] \in Seq(Pcb)
      BY <1>11, <2>1, <2>4
    <3>4. \A x \in Elems(s_procQ[t]) : x \in Pcb
      BY <3>3, ElementOfSeq DEF Elems
    <3>5. \A x \in Elems(s_procQ[t]) : p_semkey'[x] = s_key[t]
      BY <1>2, <2>1, <3>1, <3>2, <3>4
    <3> QED
      BY <1>11, <2>4, <3>1, <3>5
  <2> QED
    BY <2>3, <2>4
<1> QED
  BY <1>9, <1>10, <1>13, <1>14 DEF AslInv

\* allocPcb of a pcb that is in no queue: no queue sees its priority change.
LEMMA AllocKeeps ==
  ASSUME AslInv, NEW p \in Pcb \ InQueue, NEW r \in Priorities, allocPcb(p, r)
  PROVE  AslInv'
<1>1. /\ p_semkey' = [p_semkey EXCEPT ![p] = NoKey]
      /\ prio' = [prio EXCEPT ![p] = r]
      /\ semd_h' = semd_h /\ semdFree_h' = semdFree_h
      /\ s_key' = s_key /\ s_procQ' = s_procQ
  BY DEF allocPcb
<1>2. AslTypeOK'
  BY <1>1 DEF AslInv, AslTypeOK
<1>3. DescriptorsPartition' /\ OneDescriptorPerKey'
  BY <1>1 DEF AslInv, DescriptorsPartition, OneDescriptorPerKey
<1>4. BlockedOnce'
  <2> SUFFICES ASSUME NEW t \in Elems(semd_h)
               PROVE  /\ NoDup(s_procQ[t]) /\ Sorted(s_procQ[t], prio')
                      /\ \A x \in Elems(s_procQ[t]) : p_semkey'[x] = s_key[t]
    BY <1>1 DEF BlockedOnce
  <2>1. /\ NoDup(s_procQ[t]) /\ Sorted(s_procQ[t], prio)
        /\ \A x \in Elems(s_procQ[t]) : p_semkey[x] = s_key[t]
    BY DEF AslInv, BlockedOnce
  <2>2. t \in Semd /\ s_procQ[t] \in Seq(Pcb)
    BY DEF AslInv, AslTypeOK, DescriptorsPartition
  <2>3. \A i \in 1..Len(s_procQ[t]) : s_procQ[t][i] \in Pcb /\ s_procQ[t][i] /= p
    BY <2>2, ElementOfSeq DEF InQueue, Elems
  <2>4. \A i \in 1..Len(s_procQ[t]) : /\ prio'[s_procQ[t][i]] = prio[s_procQ[t][i]]
                                      /\ p_semkey'[s_procQ[t][i]] = p_semkey[s_procQ[t][i]]
    BY <1>1, <2>3 DEF AslInv, AslTypeOK
  <2>5. Sorted(s_procQ[t], prio')
    BY <2>1, <2>4 DEF Sorted
  <2>6. \A x \in Elems(s_procQ[t]) : p_semkey'[x] = s_key[t]
    BY <2>1, <2>4 DEF Elems
  <2> QED
    BY <2>1, <2>5, <2>6
<1> QED
  BY <1>2, <1>3, <1>4 DEF AslInv

\* Every step keeps the invariant.
LEMMA AslStep ==
  ASSUME AslInv, [AslNext]_aslVars
  PROVE  AslInv'
<1>1. ASSUME NEW key \in Key, NEW p \in Pcb \ InQueue, insertBlocked(key, p)
      PROVE  AslInv'
  BY <1>1, InsertActiveKeeps, InsertNewKeeps
<1>2. ASSUME NEW key \in Key, removeBlocked(key)
      PROVE  AslInv'
  BY <1>2, RemoveBlockedKeeps
<1>3. ASSUME NEW p \in Pcb, outBlocked(p)
      PROVE  AslInv'
  BY <1>3, OutBlockedKeeps
<1>4. ASSUME NEW p \in Pcb \ InQueue, NEW r \in Priorities, allocPcb(p, r)
      PROVE  AslInv'
  BY <1>4, AllocKeeps
<1>5. CASE UNCHANGED aslVars
  BY <1>5 DEF aslVars, AslInv, AslTypeOK, DescriptorsPartition, OneDescriptorPerKey, BlockedOnce
<1> QED
  BY <1>1, <1>2, <1>3, <1>4, <1>5 DEF AslNext

(***************************************************************************)
(* No descriptor is ever lost or linked twice, each active one has a key   *)
(* of its own and a queue that is in order, and p_semkey finds every       *)
(* blocked process (asl.c).                                                *)
(***************************************************************************)
THEOREM AslInvariant == AslSpec => []AslInv
<1>1. initASL => AslInv
  BY AslInit
<1>2. AslInv /\ [AslNext]_aslVars => AslInv'
  BY AslStep
<1> QED
  BY <1>1, <1>2, PTL DEF AslSpec

-----------------------------------------------------------------------------
(***************************************************************************)
(* With as many descriptors as pcbs (asl.c:4), one is free whenever a      *)
(* process in no queue needs it: each active one is somebody else's.       *)
(***************************************************************************)
LEMMA RoomForAll ==
  ASSUME AslInv, SEMDS >= MAXPROC
  PROVE  AlwaysRoom
<1> SUFFICES ASSUME NEW p \in Pcb \ InQueue, semdFree_h = <<>>
             PROVE  FALSE
  BY DEF AlwaysRoom
<1>1. Elems(semd_h) = Semd
  BY DEF AslInv, DescriptorsPartition, Elems
<1> DEFINE f == [s \in Semd |-> s_procQ[s][1]]
           others == Pcb \ {p}
<1>2. ASSUME NEW s \in Semd
      PROVE  /\ f[s] \in Elems(s_procQ[s]) /\ f[s] \in others
             /\ p_semkey[f[s]] = s_key[s]
  <2>1. s_procQ[s] \in Seq(Pcb) /\ s_procQ[s] /= <<>> /\ s \in Elems(semd_h)
    BY <1>1 DEF AslInv, AslTypeOK, OneDescriptorPerKey
  <2>2. 1 \in 1..Len(s_procQ[s])
    BY <2>1, EmptySeq
  <2>3. f[s] \in Elems(s_procQ[s]) /\ f[s] \in Pcb
    BY <2>1, <2>2, ElementOfSeq DEF Elems
  <2>4. f[s] /= p
    BY <2>1, <2>3 DEF InQueue
  <2> QED
    BY <2>1, <2>3, <2>4 DEF AslInv, BlockedOnce
<1>3. \A s, t \in Semd : f[s] = f[t] => s = t
  BY <1>1, <1>2 DEF AslInv, OneDescriptorPerKey
<1>4. f \in Injection(Semd, others)
  <2>1. f \in [Semd -> others]
    BY <1>2
  <2> HIDE DEF f, others
  <2> QED
    BY <1>3, <2>1 DEF Injection, IsInjective
<1>5. IsFiniteSet(others) /\ Cardinality(others) = MAXPROC - 1
  BY TablesFacts, FS_RemoveElement
<1>6. Cardinality(Semd) <= Cardinality(others)
  BY <1>4, <1>5, FS_Injection
<1> QED
  BY <1>5, <1>6, TablesFacts, MAXPROCAssumption, AslAssumption

(***************************************************************************)
(* passeren may ignore what insertBlocked returns (syscall.c:225).         *)
(***************************************************************************)
THEOREM AlwaysRoomHolds ==
  ASSUME SEMDS >= MAXPROC
  PROVE  AslSpec => []AlwaysRoom
<1>1. AslInv => AlwaysRoom
  BY RoomForAll
<1> QED
  BY <1>1, AslInvariant, PTL

-----------------------------------------------------------------------------
(***************************************************************************)
(* The refinement.                                                         *)
(***************************************************************************)
\* The queue of a key is that of its active descriptor, or empty.
LEMMA QueueOfProp ==
  ASSUME AslInv
  PROVE  \A key :
           /\ \A s \in Elems(semd_h) : s_key[s] = key =>
                getSemd(key) = s /\ QueueOf(key) = s_procQ[s]
           /\ (\A s \in Elems(semd_h) : s_key[s] /= key) => QueueOf(key) = <<>>
<1>1. semd_h \in Seq(Semd) /\ Elems(semd_h) \subseteq Semd
  BY DEF AslInv, AslTypeOK, DescriptorsPartition
<1>2. NULL \notin Elems(semd_h)
  BY <1>1, TablesFacts
<1>3. \A s, t \in Elems(semd_h) : s_key[s] = s_key[t] => s = t
  BY DEF AslInv, OneDescriptorPerKey
<1> QED
  BY <1>1, <1>2, <1>3, GetSemdProp DEF QueueOf

\* And so it is in the next state.
LEMMA QueueOfNext ==
  ASSUME AslInv'
  PROVE  \A key :
           /\ \A s \in Elems(semd_h') : s_key'[s] = key => QueueOf(key)' = s_procQ'[s]
           /\ (\A s \in Elems(semd_h') : s_key'[s] /= key) => QueueOf(key)' = <<>>
<1>1. semd_h' \in Seq(Semd) /\ Elems(semd_h') \subseteq Semd
  BY DEF AslInv, AslTypeOK, DescriptorsPartition
<1>2. NULL \notin Elems(semd_h')
  BY <1>1, TablesFacts
<1>3. \A s \in Elems(semd_h') : \A t \in Elems(semd_h') : s_key'[s] = s_key'[t] => s = t
  BY DEF AslInv, OneDescriptorPerKey
<1> QED
  BY <1>1, <1>2, <1>3, GetSemdNext DEF QueueOf

\* Releasing a descriptor empties no queue but the one that is empty already.
LEMMA ReleaseQueues ==
  ASSUME AslInv, AslInv', NEW s \in Elems(semd_h), NEW q \in Seq(Pcb),
         setQueue(s, q), s_key' = s_key
  PROVE  \A k : QueueOf(k)' = IF k = s_key[s] THEN q ELSE QueueOf(k)
<1>1. /\ s \in Semd /\ Elems(semd_h) \subseteq Semd
      /\ s_procQ \in [Semd -> Seq(Pcb)]
      /\ \A t \in Elems(semd_h) : s_key[t] = s_key[s] => t = s
  BY DEF AslInv, AslTypeOK, DescriptorsPartition, OneDescriptorPerKey
<1>2. s_procQ' = [s_procQ EXCEPT ![s] = q]
  BY DEF setQueue
<1>3. Elems(semd_h') = IF q = <<>> THEN Elems(semd_h) \ {s} ELSE Elems(semd_h)
  BY ReleaseLists
<1>4. \A t \in Elems(semd_h) : s_procQ'[t] = IF t = s THEN q ELSE s_procQ[t]
  BY <1>1, <1>2
<1> TAKE k
<1>5. CASE k = s_key[s]
  <2>1. CASE q = <<>>
    <3>1. \A t \in Elems(semd_h') : s_key'[t] /= k
      BY <1>1, <1>3, <1>5, <2>1
    <3> QED
      BY <1>5, <2>1, <3>1, QueueOfNext
  <2>2. CASE q /= <<>>
    <3>1. s \in Elems(semd_h') /\ s_key'[s] = k
      BY <1>3, <1>5, <2>2
    <3> QED
      BY <1>4, <1>5, <3>1, QueueOfNext
  <2> QED
    BY <2>1, <2>2
<1>6. CASE k /= s_key[s]
  <2>1. CASE \E t \in Elems(semd_h) : s_key[t] = k
    <3>1. PICK t \in Elems(semd_h) : s_key[t] = k
      BY <2>1
    <3>2. t /= s /\ t \in Elems(semd_h') /\ s_key'[t] = k
      BY <1>3, <1>6, <3>1
    <3>3. QueueOf(k)' = s_procQ'[t] /\ QueueOf(k) = s_procQ[t]
      BY <3>1, <3>2, QueueOfProp, QueueOfNext
    <3> QED
      BY <1>4, <1>6, <3>2, <3>3
  <2>2. CASE \A t \in Elems(semd_h) : s_key[t] /= k
    <3>1. \A t \in Elems(semd_h') : s_key'[t] /= k
      BY <1>3, <2>2
    <3> QED
      BY <1>6, <2>2, <3>1, QueueOfProp, QueueOfNext
  <2> QED
    BY <2>1, <2>2
<1> QED
  BY <1>5, <1>6

\* insertBlocked inserts into the queue of the key and no other.
LEMMA InsertQueues ==
  ASSUME AslInv, AslInv', NEW key \in Key, NEW p \in Pcb, insertBlocked(key, p)
  PROVE  \A k : QueueOf(k)' = IF k = key THEN insertProcQ(QueueOf(key), prio, p) ELSE QueueOf(k)
<1>1. /\ Elems(semd_h) \subseteq Semd /\ s_procQ \in [Semd -> Seq(Pcb)]
      /\ s_key \in [Semd -> Key \cup {NoKey}]
      /\ semdFree_h \in Seq(Semd) /\ NoDup(semdFree_h)
      /\ Elems(semd_h) \cap Elems(semdFree_h) = {}
      /\ Elems(semdFree_h) \subseteq Semd
  BY DEF AslInv, AslTypeOK, DescriptorsPartition
<1>2. CASE getSemd(key) /= NULL
  <2> DEFINE s == getSemd(key)
             r == insertProcQ(s_procQ[s], prio, p)
  <2>1. s \in Elems(semd_h) /\ s_key[s] = key
    BY <1>2, GetSemdProp DEF AslInv, AslTypeOK
  <2>2. s_procQ' = [s_procQ EXCEPT ![s] = r] /\ semd_h' = semd_h /\ s_key' = s_key
    BY <1>2 DEF insertBlocked
  <2> HIDE DEF s, r
  <2>3. /\ Elems(semd_h') = Elems(semd_h)
        /\ \A t \in Elems(semd_h) : s_procQ'[t] = IF t = s THEN r ELSE s_procQ[t]
    BY <1>1, <2>1, <2>2
  <2>4. \A t \in Elems(semd_h) : s_key[t] = key => t = s
    BY <2>1 DEF AslInv, OneDescriptorPerKey
  <2>5. r = insertProcQ(QueueOf(key), prio, p)
    BY <2>1, QueueOfProp DEF r
  <2> SUFFICES ASSUME NEW k PROVE QueueOf(k)' = IF k = key THEN r ELSE QueueOf(k)
    BY <2>5
  <2>6. CASE \E t \in Elems(semd_h) : s_key[t] = k
    <3>1. PICK t \in Elems(semd_h) : s_key[t] = k
      BY <2>6
    <3>2. QueueOf(k)' = s_procQ'[t] /\ QueueOf(k) = s_procQ[t]
      BY <2>2, <2>3, <3>1, QueueOfProp, QueueOfNext
    <3> QED
      BY <2>1, <2>3, <2>4, <3>1, <3>2
  <2>7. CASE \A t \in Elems(semd_h) : s_key[t] /= k
    <3>1. k /= key
      BY <2>1, <2>7
    <3>2. QueueOf(k)' = <<>> /\ QueueOf(k) = <<>>
      BY <2>2, <2>3, <2>7, QueueOfProp, QueueOfNext
    <3> QED
      BY <3>1, <3>2
  <2> QED
    BY <2>6, <2>7
<1>3. CASE getSemd(key) = NULL
  <2> DEFINE new == Head(semdFree_h)
             r == insertProcQ(<<>>, prio, p)
  <2>1. \A s \in Elems(semd_h) : s_key[s] /= key
    BY <1>1, <1>3, TablesFacts, GetSemdProp DEF AslInv, AslTypeOK
  <2>2. /\ semdFree_h /= <<>> /\ semd_h' = <<new>> \o semd_h
        /\ s_key' = [s_key EXCEPT ![new] = key]
        /\ s_procQ' = [s_procQ EXCEPT ![new] = r]
    BY <1>3 DEF insertBlocked
  <2>3. new \in Elems(semdFree_h)
    BY <1>1, <2>2, TakeHeadProp
  <2> HIDE DEF new
  <2>4. new \in Semd /\ new \notin Elems(semd_h)
    BY <1>1, <2>3
  <2>5. Elems(semd_h') = Elems(semd_h) \cup {new}
    BY <2>2, <2>4, AddHeadProp DEF AslInv, AslTypeOK, DescriptorsPartition
  <2>6. QueueOf(key) = <<>>
    BY <2>1, QueueOfProp
  <2>7. r = insertProcQ(QueueOf(key), prio, p)
    BY <2>6
  <2> HIDE DEF r
  <2>8. \A t \in Elems(semd_h) : s_key'[t] = s_key[t] /\ s_procQ'[t] = s_procQ[t]
    BY <1>1, <2>2, <2>4
  <2>9. s_key'[new] = key /\ s_procQ'[new] = r
    BY <1>1, <2>2, <2>4
  <2> SUFFICES ASSUME NEW k PROVE QueueOf(k)' = IF k = key THEN r ELSE QueueOf(k)
    BY <2>7
  <2>10. CASE k = key
    BY <2>5, <2>9, <2>10, QueueOfNext
  <2>11. CASE k /= key /\ \E t \in Elems(semd_h) : s_key[t] = k
    <3>1. PICK t \in Elems(semd_h) : s_key[t] = k
      BY <2>11
    <3>2. QueueOf(k)' = s_procQ'[t] /\ QueueOf(k) = s_procQ[t]
      BY <2>5, <2>8, <3>1, QueueOfProp, QueueOfNext
    <3> QED
      BY <2>8, <2>11, <3>2
  <2>12. CASE k /= key /\ \A t \in Elems(semd_h) : s_key[t] /= k
    <3>1. \A t \in Elems(semd_h') : s_key'[t] /= k
      BY <2>5, <2>8, <2>9, <2>12
    <3>2. QueueOf(k)' = <<>> /\ QueueOf(k) = <<>>
      BY <2>12, <3>1, QueueOfProp, QueueOfNext
    <3> QED
      BY <2>12, <3>2
  <2> QED
    BY <2>10, <2>11, <2>12
<1> QED
  BY <1>2, <1>3

\* The blocked processes of BlockedQueues are those in the queue of a descriptor.
LEMMA BlockedInQueue ==
  ASSUME AslInv
  PROVE  BQ!Blocked \subseteq InQueue
<1> SUFFICES ASSUME NEW k \in Key, NEW x \in BQ!Elems(QueueOf(k))
             PROVE  x \in InQueue
  BY DEF BQ!Blocked, BQ!Elems
<1>1. x \in Elems(QueueOf(k))
  BY DEF BQ!Elems, Elems
<1>2. QueueOf(k) /= <<>>
  <2> SUFFICES ASSUME QueueOf(k) = <<>> PROVE FALSE
    OBVIOUS
  <2>1. PICK e \in Seq(Pcb) : e = <<>> /\ Len(e) = 0
    BY EmptySeq
  <2>2. Elems(e) = {}
    BY <2>1 DEF Elems
  <2> QED
    BY <1>1, <2>1, <2>2, Zenon
<1>3. PICK s \in Elems(semd_h) : s_key[s] = k
  BY <1>2, QueueOfProp
<1> QED
  BY <1>1, <1>3, QueueOfProp DEF InQueue

\* The queues of BlockedQueues are those of ProcQ.
LEMMA SameQueues ==
  /\ BQ!Pcb = Pcb /\ BQ!NULL = NULL
  /\ \A q, pr, p : BQ!insertProcQ(q, pr, p) = insertProcQ(q, pr, p)
  /\ \A q : BQ!removeProcQ(q) = removeProcQ(q) /\ BQ!headProcQ(q) = headProcQ(q)
  /\ \A q, p : BQ!outProcQ(q, p) = outProcQ(q, p)
<1>1. BQ!Pcb = Pcb /\ BQ!NULL = NULL
  BY DEF BQ!Pcb, Pcb, BQ!NULL, NULL
<1>2. \A q, pr, p : BQ!insertProcQ(q, pr, p) = insertProcQ(q, pr, p)
  BY Zenon DEF BQ!insertProcQ, insertProcQ, BQ!InsertPos, InsertPos
<1>3. \A q : BQ!removeProcQ(q) = removeProcQ(q) /\ BQ!headProcQ(q) = headProcQ(q)
  BY DEF BQ!removeProcQ, removeProcQ, BQ!headProcQ, headProcQ, BQ!emptyProcQ, emptyProcQ,
         BQ!NULL, NULL
<1>4. \A q, p : BQ!outProcQ(q, p) = outProcQ(q, p)
  BY Zenon DEF BQ!outProcQ, outProcQ, BQ!Elems, Elems
<1> QED
  BY <1>1, <1>2, <1>3, <1>4

\* The empty lists are empty queues.
LEMMA RefinesInit == initASL => BQ!initASL
<1> SUFFICES ASSUME initASL PROVE BQ!initASL
  OBVIOUS
<1>1. AslInv /\ semd_h = <<>>
  BY AslInit DEF initASL
<1>2. PICK e \in Seq(Pcb) : e = <<>> /\ Len(e) = 0
  BY EmptySeq
<1>3. Elems(e) = {}
  BY <1>2 DEF Elems
<1>4. Elems(semd_h) = {}
  BY <1>1, <1>2, <1>3
<1>5. \A k \in Key : QueueOf(k) = <<>>
  BY <1>1, <1>4, QueueOfProp
<1> QED
  BY <1>5, SameQueues DEF BQ!initASL, initASL

\* Every step of the descriptors is one of the queues.
LEMMA RefinesStep ==
  ASSUME AslInv, AslInv', [AslNext]_aslVars
  PROVE  [BQ!BQNext(prio)]_BQ!bqVars
<1> DEFINE Q == [k \in Key |-> QueueOf(k)]
<1>1. ASSUME NEW key \in Key, NEW p \in Pcb \ InQueue, insertBlocked(key, p)
      PROVE  BQ!BQNext(prio)
  <2>1. p \in BQ!Pcb \ BQ!Blocked
    BY <1>1, BlockedInQueue, SameQueues
  <2>2. Q' = [Q EXCEPT ![key] = BQ!insertProcQ(@, prio, p)]
    BY <1>1, InsertQueues, SameQueues
  <2>3. p_semkey' = [p_semkey EXCEPT ![p] = key]
    BY <1>1 DEF insertBlocked
  <2>4. BQ!insertBlocked(prio, key, p)
    BY <2>2, <2>3 DEF BQ!insertBlocked
  <2> QED
    BY <2>1, <2>4 DEF BQ!BQNext
<1>2. ASSUME NEW key \in Key, removeBlocked(key)
      PROVE  BQ!BQNext(prio)
  <2> DEFINE s == getSemd(key)
             q == removeProcQ(s_procQ[s])
  <2>1. s \in Elems(semd_h) /\ s_key[s] = key
    BY <1>2, GetSemdProp DEF removeBlocked, AslInv, AslTypeOK
  <2>2. /\ s_procQ[s] \in Seq(Pcb) /\ s_procQ[s] /= <<>>
        /\ prio \in [Pcb -> Int] /\ NoDup(s_procQ[s]) /\ Sorted(s_procQ[s], prio)
    BY <2>1, TablesFacts
       DEF AslInv, AslTypeOK, DescriptorsPartition, OneDescriptorPerKey, BlockedOnce
  <2>3. setQueue(s, q) /\ s_key' = s_key /\ p_semkey' = p_semkey
    BY <1>2 DEF removeBlocked
  <2>4. QueueOf(key) = s_procQ[s]
    BY <2>1, QueueOfProp
  <2>5. headProcQ(QueueOf(key)) \in Pcb /\ q \in Seq(Pcb)
    BY <2>2, <2>4, RemoveProp
  <2> HIDE DEF s, q
  <2>6. \A k \in Key : QueueOf(k)' = IF k = key THEN q ELSE QueueOf(k)
    BY <2>1, <2>3, <2>5, ReleaseQueues
  <2>7. q = BQ!removeProcQ(Q[key])
    BY <2>4, SameQueues DEF q
  <2>8. Q' = [Q EXCEPT ![key] = BQ!removeProcQ(@)]
    BY <2>6, <2>7
  <2>9. BQ!headBlocked(key) /= BQ!NULL
    BY <2>5, SameQueues, TablesFacts DEF BQ!headBlocked, Pcb, NULL
  <2>10. BQ!removeBlocked(key)
    BY <2>3, <2>8 DEF BQ!removeBlocked
  <2> QED
    BY <2>9, <2>10 DEF BQ!BQNext
<1>3. ASSUME NEW p \in Pcb, outBlocked(p)
      PROVE  BQ!BQNext(prio)
  <2> DEFINE key == p_semkey[p]
             s == getSemd(key)
             q == outProcQ(s_procQ[s], p)
  <2>1. s \in Elems(semd_h) /\ s_key[s] = key
    BY <1>3, GetSemdProp DEF outBlocked, AslInv, AslTypeOK
  <2>2. /\ s_procQ[s] \in Seq(Pcb) /\ prio \in [Pcb -> Int]
        /\ NoDup(s_procQ[s]) /\ Sorted(s_procQ[s], prio)
    BY <2>1, TablesFacts DEF AslInv, AslTypeOK, DescriptorsPartition, BlockedOnce
  <2>3. /\ p \in Elems(s_procQ[s])
        /\ setQueue(s, q) /\ s_key' = s_key /\ p_semkey' = p_semkey
    BY <1>3 DEF outBlocked
  <2>4. q \in Seq(Pcb)
    BY <2>2, <2>3, OutProp
  <2>5. QueueOf(key) = s_procQ[s]
    BY <2>1, QueueOfProp
  <2>6. q = BQ!outProcQ(QueueOf(key), p)
    BY <2>5, SameQueues
  <2> HIDE DEF s, q
  <2>7. \A k \in Key : QueueOf(k)' = IF k = key THEN q ELSE QueueOf(k)
    BY <2>1, <2>3, <2>4, ReleaseQueues
  <2>8. Q' = [k \in Key |-> IF k = key THEN BQ!outProcQ(Q[k], p) ELSE Q[k]]
    BY <2>6, <2>7
  <2>9. BQ!outBlocked(p)
    BY <2>3, <2>8 DEF BQ!outBlocked
  <2> QED
    BY <2>9, SameQueues DEF BQ!BQNext
<1>4. ASSUME NEW p \in Pcb \ InQueue, NEW r \in Priorities, allocPcb(p, r)
      PROVE  BQ!BQNext(prio)
  <2>1. p \in BQ!Pcb \ BQ!Blocked
    BY <1>4, BlockedInQueue, SameQueues
  <2>2. Q' = Q
    BY <1>4 DEF allocPcb, QueueOf, getSemd, Elems
  <2>3. BQ!resetSemkey(p)
    BY <1>4, <2>2 DEF BQ!resetSemkey, allocPcb
  <2> QED
    BY <2>1, <2>3 DEF BQ!BQNext
<1>5. CASE UNCHANGED aslVars
  <2>1. Q' = Q /\ p_semkey' = p_semkey
    BY <1>5 DEF aslVars, QueueOf, getSemd, Elems
  <2> QED
    BY <2>1 DEF BQ!bqVars
<1> QED
  BY <1>1, <1>2, <1>3, <1>4, <1>5 DEF AslNext

(***************************************************************************)
(* asl.c implements one priority queue per semaphore address, with room    *)
(* for everybody: every call does to the queue of its address what         *)
(* BlockedQueues says, and nothing to the others.                          *)
(***************************************************************************)
THEOREM AslRefines == AslSpec => BlockedQueuesSpec
<1>1. initASL => BQ!initASL
  BY RefinesInit
<1>2. AslInv /\ AslInv' /\ [AslNext]_aslVars => [BQ!BQNext(prio)]_BQ!bqVars
  BY RefinesStep
<1> QED
  BY <1>1, <1>2, AslInvariant, PTL DEF AslSpec, BlockedQueuesSpec
=============================================================================
