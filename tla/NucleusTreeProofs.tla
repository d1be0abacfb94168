------------------------- MODULE NucleusTreeProofs -------------------------
(***************************************************************************)
(* Who dies by terminate_process, for every number of pcbs: only the       *)
(* progeny of the process it is called for, which is the caller or of the  *)
(* caller's progeny; and all of it, so that no process is left without a   *)
(* way up to the first one.                                                *)
(***************************************************************************)
EXTENDS NucleusProofs

-----------------------------------------------------------------------------
(***************************************************************************)
(* isChildOf in terms of paths.                                            *)
(***************************************************************************)
\* f is a path of n pcbs up the tree, from the father of s to a.
Path(par, a, s, n, f) ==
  /\ f \in [1..n -> Pcb] /\ f[1] = par[s] /\ f[n] = a
  /\ \A i \in 2..n : f[i] = par[f[i - 1]]
Above(par, a, s) == \E n \in 1..MAXPROC : Up(par, s)[n] = a

\* Along a path isChildOf climbs.
LEMMA PathIsAbove ==
  ASSUME NEW par \in [Pcb -> Pcb \cup {NULL}], NEW a \in Pcb, NEW s \in Pcb,
         NEW n \in 1..MAXPROC, NEW f, Path(par, a, s, n, f)
  PROVE  Above(par, a, s)
<1> DEFINE u == Up(par, s)
           T == {i \in 1..n : u[i] /= f[i]}
<1>1. Climbs(par, s, MAXPROC, u)
  BY UpClimbs
<1>2. MAXPROC \in Nat /\ n \in Nat
  BY MAXPROCAssumption
<1>3. ASSUME T /= {} PROVE FALSE
  <2>1. T \subseteq Nat
    BY <1>2
  <2>2. PICK i \in T : \A j \in T : i <= j
    <3> HIDE DEF T
    <3> QED
      BY <1>3, <2>1, LeastNat
  <2> HIDE DEF u
  <2>3. i \in 1..n /\ i \in 1..MAXPROC /\ u[i] /= f[i]
    BY <1>2, <2>2
  <2>4. i /= 1
    BY <1>1, <2>3 DEF Climbs, Path
  <2>5. i - 1 \in 1..n /\ i \in 2..n /\ i - 1 \in 1..MAXPROC
    BY <1>2, <2>3, <2>4
  <2>6. u[i - 1] = f[i - 1]
    <3>1. i - 1 \notin T
      BY <2>2, <2>3
    <3> QED
      BY <2>5, <3>1
  <2>7. f[i - 1] \in Pcb /\ f[i] = par[f[i - 1]]
    BY <2>5 DEF Path
  <2>8. u[i] = IF u[i - 1] = NULL THEN NULL ELSE par[u[i - 1]]
    BY <1>1, <2>3, <2>4 DEF Climbs
  <2> QED
    BY <2>3, <2>6, <2>7, <2>8, NullNotPcb
<1>4. u[n] = f[n]
  <2>1. n \in 1..n
    BY <1>2
  <2> QED
    BY <1>3, <2>1
<1> QED
  BY <1>4 DEF Above, Path

\* Before it finds the parent isChildOf has climbed over pcbs only.
LEMMA AboveHasPath ==
  ASSUME NEW par \in [Pcb -> Pcb \cup {NULL}], NEW a \in Pcb, NEW s \in Pcb, Above(par, a, s)
  PROVE  \E n \in 1..MAXPROC : \E f : Path(par, a, s, n, f)
<1> DEFINE u == Up(par, s)
<1>1. Climbs(par, s, MAXPROC, u)
  BY UpClimbs
<1>2. PICK n \in 1..MAXPROC : u[n] = a
  BY DEF Above
<1> HIDE DEF u
<1>3. MAXPROC \in Nat /\ n \in Nat
  BY MAXPROCAssumption
<1>4. ASSUME NEW i \in 1..n, u[i] = NULL PROVE FALSE
  <2> DEFINE T == {j \in i..n : u[j] /= NULL}
  <2>1. T \subseteq Nat
    BY <1>3
  <2>2. n \in T
    BY <1>2, <1>3, NullNotPcb
  <2>3. PICK j \in T : \A k \in T : j <= k
    <3> HIDE DEF T
    <3> QED
      BY <2>1, <2>2, LeastNat
  <2>4. j \in i..n /\ u[j] /= NULL /\ j /= i
    BY <1>4, <2>3
  <2>5. j - 1 \in i..n /\ j \in 1..MAXPROC /\ j /= 1
    BY <1>3, <2>4
  <2>6. u[j - 1] = NULL
    <3>1. j - 1 \notin T
      BY <2>3, <2>4
    <3> QED
      BY <2>5, <3>1
  <2> QED
    BY <1>1, <2>4, <2>5, <2>6 DEF Climbs
<1> DEFINE f == [i \in 1..n |-> u[i]]
<1>5. \A i \in 1..n : u[i] \in Pcb
  <2> TAKE i \in 1..n
  <2>1. i \in 1..MAXPROC
    BY <1>3
  <2> QED
    BY <1>1, <1>4, <2>1 DEF Climbs
<1>6. f \in [1..n -> Pcb] /\ f[n] = a
  BY <1>2, <1>3, <1>5
<1>7. f[1] = par[s]
  <2>1. 1 \in 1..n /\ 1 \in 1..MAXPROC
    BY <1>3
  <2> QED
    BY <1>1, <2>1 DEF Climbs
<1>8. ASSUME NEW i \in 2..n PROVE f[i] = par[f[i - 1]]
  <2>1. i \in 1..MAXPROC /\ i \in 1..n /\ i - 1 \in 1..n /\ i /= 1
    BY <1>3
  <2>2. u[i - 1] /= NULL
    BY <1>4, <2>1
  <2>3. u[i] = par[u[i - 1]]
    BY <1>1, <2>1, <2>2 DEF Climbs
  <2> QED
    BY <2>1, <2>3
<1>9. Path(par, a, s, n, f)
  BY <1>6, <1>7, <1>8 DEF Path
<1> QED
  BY <1>9

\* The paths of the others do not go through a pcb without children.
LEMMA AbovePersists ==
  ASSUME NEW par \in [Pcb -> Pcb \cup {NULL}], NEW par2 \in [Pcb -> Pcb \cup {NULL}],
         NEW a \in Pcb, NEW s \in Pcb, NEW t \in Pcb, s /= t,
         \A q \in Pcb : par[q] /= t, \A q \in Pcb \ {t} : par2[q] = par[q],
         Above(par, a, s)
  PROVE  Above(par2, a, s)
<1>1. PICK n \in 1..MAXPROC : \E f : Path(par, a, s, n, f)
  BY AboveHasPath
<1>2. PICK f : Path(par, a, s, n, f)
  BY <1>1
<1>3. n \in Nat
  BY MAXPROCAssumption
<1>4. \A i \in 1..n : f[i] \in Pcb /\ f[i] /= t
  <2> TAKE i \in 1..n
  <2>1. f[i] \in Pcb
    BY <1>2 DEF Path
  <2>2. CASE i = 1
    BY <1>2, <2>1, <2>2 DEF Path
  <2>3. CASE i /= 1
    <3>1. i \in 2..n /\ i - 1 \in 1..n
      BY <1>3, <2>3
    <3>2. f[i - 1] \in Pcb /\ f[i] = par[f[i - 1]]
      BY <1>2, <3>1 DEF Path
    <3> QED
      BY <2>1, <3>2
  <2> QED
    BY <2>2, <2>3
<1>5. \A i \in 2..n : f[i] = par2[f[i - 1]]
  <2> TAKE i \in 2..n
  <2>1. i - 1 \in 1..n
    BY <1>3
  <2> QED
    BY <1>2, <1>4, <2>1 DEF Path
<1>6. Path(par2, a, s, n, f)
  BY <1>2, <1>5 DEF Path
<1> QED
  BY <1>6, PathIsAbove

\* Along a list that goes down in rank no pcb comes twice, so the list is not longer than
\* there are pcbs.
LEMMA RankedIsShort ==
  ASSUME NEW rank \in [Pcb -> Nat], NEW g \in Seq(Pcb),
         \A i \in 1..Len(g) - 1 : rank[g[i + 1]] < rank[g[i]]
  PROVE  Len(g) \in Nat /\ Len(g) <= MAXPROC
<1> DEFINE N == Len(g)
<1>1. N \in Nat /\ \A i \in 1..N : g[i] \in Pcb
  BY LenProperties, ElementOfSeq
<1>2. \A i \in 1..N : rank[g[i]] \in Nat
  BY <1>1
<1>3. \A i \in 1..N - 1 : rank[g[i + 1]] < rank[g[i]]
  OBVIOUS
<1> HIDE DEF N
<1>4. ASSUME NEW i \in 1..N, NEW j \in 1..N, i < j
      PROVE  rank[g[j]] < rank[g[i]]
  <2> DEFINE T == {k \in i + 1..N : ~ rank[g[k]] < rank[g[i]]}
  <2>1. ASSUME T /= {} PROVE FALSE
    <3>1. PICK k \in T : \A m \in T : k <= m
      <4>1. T \subseteq Nat
        BY <1>1
      <4> HIDE DEF T
      <4> QED
        BY <2>1, <4>1, LeastNat
    <3>2. k \in i + 1..N /\ ~ rank[g[k]] < rank[g[i]]
      BY <3>1
    <3>3. k - 1 \in 1..N - 1 /\ (k - 1) + 1 = k /\ k \in 1..N /\ k - 1 \in 1..N
      BY <1>1, <3>2
    <3>4. rank[g[k]] < rank[g[k - 1]]
      BY <1>3, <3>3
    <3>5. rank[g[k]] \in Nat /\ rank[g[k - 1]] \in Nat /\ rank[g[i]] \in Nat
      BY <1>2, <3>3
    <3>6. CASE k = i + 1
      BY <3>2, <3>4, <3>6
    <3>7. CASE k /= i + 1
      <4>1. k - 1 \notin T /\ k - 1 \in i + 1..N
        BY <1>1, <3>1, <3>2, <3>7
      <4>2. rank[g[k - 1]] < rank[g[i]]
        BY <4>1
      <4> QED
        BY <3>2, <3>4, <3>5, <4>2
    <3> QED
      BY <3>6, <3>7
  <2>2. j \in i + 1..N
    BY <1>1, <1>4
  <2> QED
    BY <2>1, <2>2
<1>5. NoDup(g)
  <2> SUFFICES ASSUME NEW i \in 1..N, NEW j \in 1..N, g[i] = g[j], i /= j
               PROVE  FALSE
    BY DEF NoDup, N
  <2>1. rank[g[i]] < rank[g[j]] \/ rank[g[j]] < rank[g[i]]
    BY <1>1, <1>4
  <2>2. rank[g[i]] \in Nat /\ rank[g[j]] = rank[g[i]]
    BY <1>2
  <2> QED
    BY <2>1, <2>2
<1> QED
  BY <1>5, LenBound

\* In a tree without cycles every path is short.
LEMMA PathIsShort ==
  ASSUME Acyclic, p_parent \in [Pcb -> Pcb \cup {NULL}],
         NEW a, NEW s \in Pcb, NEW n \in Nat \ {0}, NEW f, Path(p_parent, a, s, n, f)
  PROVE  n \in 1..MAXPROC
<1>1. PICK rank \in [Pcb -> Nat] :
        \A q \in Pcb : p_parent[q] /= NULL => rank[p_parent[q]] < rank[q]
  BY DEF Acyclic
<1>2. f \in Seq(Pcb) /\ Len(f) = n
  BY FunIsSeq DEF Path
<1>3. ASSUME NEW i \in 1..n - 1 PROVE rank[f[i + 1]] < rank[f[i]]
  <2>1. i + 1 \in 2..n /\ i \in 1..n /\ i + 1 \in 1..n /\ (i + 1) - 1 = i
    OBVIOUS
  <2>2. f[i + 1] = p_parent[f[i]] /\ f[i] \in Pcb /\ f[i + 1] \in Pcb
    BY <2>1 DEF Path
  <2> QED
    BY <1>1, <2>2, NullNotPcb
<1>4. n <= MAXPROC
  BY <1>2, <1>3, RankedIsShort
<1> QED
  BY <1>4, MAXPROCAssumption

\* Whoever is above one that is above a third is above the third.
LEMMA AboveTrans ==
  ASSUME Acyclic, p_parent \in [Pcb -> Pcb \cup {NULL}],
         NEW a \in Pcb, NEW b \in Pcb, NEW s \in Pcb,
         Above(p_parent, a, b), Above(p_parent, b, s)
  PROVE  Above(p_parent, a, s)
<1>1. PICK n \in 1..MAXPROC : \E f : Path(p_parent, b, s, n, f)
  BY AboveHasPath
<1>2. PICK f : Path(p_parent, b, s, n, f)
  BY <1>1
<1>3. PICK m \in 1..MAXPROC : \E g : Path(p_parent, a, b, m, g)
  BY AboveHasPath
<1>4. PICK g : Path(p_parent, a, b, m, g)
  BY <1>3
<1>5. n \in Nat \ {0} /\ m \in Nat \ {0} /\ n + m \in Nat \ {0}
  BY MAXPROCAssumption
<1>6. /\ f \in [1..n -> Pcb] /\ f[1] = p_parent[s] /\ f[n] = b
      /\ \A i \in 2..n : f[i] = p_parent[f[i - 1]]
  BY <1>2 DEF Path
<1>7. /\ g \in [1..m -> Pcb] /\ g[1] = p_parent[b] /\ g[m] = a
      /\ \A i \in 2..m : g[i] = p_parent[g[i - 1]]
  BY <1>4 DEF Path
<1> DEFINE h == [i \in 1..n + m |-> IF i <= n THEN f[i] ELSE g[i - n]]
<1>8. h \in [1..n + m -> Pcb] /\ h[1] = p_parent[s] /\ h[n + m] = a
  <2>1. \A i \in 1..n + m : IF i <= n THEN i \in 1..n ELSE i - n \in 1..m
    BY <1>5
  <2>2. 1 \in 1..n + m /\ n + m \in 1..n + m /\ 1 <= n /\ ~ (n + m <= n) /\ (n + m) - n = m
    BY <1>5
  <2> QED
    BY <1>6, <1>7, <2>1, <2>2
<1>9. ASSUME NEW i \in 2..n + m PROVE h[i] = p_parent[h[i - 1]]
  <2>1. i \in 1..n + m /\ i - 1 \in 1..n + m /\ n \in 1..n
    BY <1>5
  <2>2. CASE i <= n
    <3>1. i \in 2..n /\ i - 1 <= n
      BY <1>5, <2>2
    <3> QED
      BY <1>6, <2>1, <2>2, <3>1
  <2>3. CASE i = n + 1
    <3>1. ~ (i <= n) /\ i - n = 1 /\ i - 1 = n /\ i - 1 <= n
      BY <1>5, <2>3
    <3> QED
      BY <1>6, <1>7, <2>1, <3>1
  <2>4. CASE i > n + 1
    <3>1. /\ ~ (i <= n) /\ ~ (i - 1 <= n) /\ i - n \in 2..m /\ (i - 1) - n = (i - n) - 1
      BY <1>5, <2>4
    <3> QED
      BY <1>7, <2>1, <3>1
  <2> QED
    BY <1>5, <2>2, <2>3, <2>4
<1> HIDE DEF h
<1>10. Path(p_parent, a, s, n + m, h)
  BY <1>8, <1>9 DEF Path
<1>11. n + m \in 1..MAXPROC
  BY <1>5, <1>10, PathIsShort
<1> QED
  BY <1>10, <1>11, PathIsAbove

-----------------------------------------------------------------------------
(***************************************************************************)
(* The invariant.                                                          *)
(***************************************************************************)
\* A living process has a father, unless it is the first.
Fathered == \A p \in Pcb \ Elems(pcbFree_h) : p /= root => p_parent[p] /= NULL

\* What terminates is the running process or of its progeny.
OwnProgeny ==
  phase = "terminate" => stack[1] = current \/ Above(p_parent, current, stack[1])

TreeInv == Fathered /\ OwnProgeny

\* In a tree without cycles where all others have fathers, the way up leads to the first
\* process within MAXPROC steps: there are no more pcbs to climb over.
LEMMA UpToRoot ==
  ASSUME IInv, Fathered, NEW p \in Pcb \ Elems(pcbFree_h), p /= root
  PROVE  isChildOf(root, p)
<1> SUFFICES ASSUME ~ isChildOf(root, p) PROVE FALSE
  OBVIOUS
<1>1. p_parent \in [Pcb -> Pcb \cup {NULL}] /\ MAXPROC \in Nat \ {0} /\ p \in Pcb
  BY Typed, MAXPROCAssumption DEF IInv
<1> DEFINE u == Up(p_parent, p)
<1>2. Climbs(p_parent, p, MAXPROC, u)
  BY <1>1, UpClimbs
<1>3. \A n \in 1..MAXPROC : u[n] /= root
  BY ChildIsUp
<1>4. PICK rank \in [Pcb -> Nat] :
        \A q \in Pcb : p_parent[q] /= NULL => rank[p_parent[q]] < rank[q]
  BY DEF IInv, Acyclic
<1> HIDE DEF u
<1> DEFINE Lives(x) == x \in Pcb /\ x \notin Elems(pcbFree_h)
<1>5. \A x \in Pcb : Lives(x) /\ x /= root => Lives(p_parent[x]) /\ rank[p_parent[x]] < rank[x]
  BY <1>1, <1>4, LinkFacts DEF Fathered
<1>6. \A n \in 1..MAXPROC : Lives(u[n])
  <2> DEFINE T == {n \in 1..MAXPROC : ~ Lives(u[n])}
  <2> SUFFICES ASSUME T /= {} PROVE FALSE
    OBVIOUS
  <2>1. PICK n \in T : \A m \in T : n <= m
    <3>1. T \subseteq Nat
      BY <1>1
    <3> HIDE DEF T
    <3> QED
      BY <3>1, LeastNat
  <2>2. n \in 1..MAXPROC /\ ~ Lives(u[n])
    BY <2>1
  <2>3. CASE n = 1
    <3>1. u[1] = p_parent[p]
      BY <1>2, <2>2, <2>3 DEF Climbs
    <3> QED
      BY <1>1, <1>5, <2>2, <2>3, <3>1
  <2>4. CASE n /= 1
    <3>1. n - 1 \in 1..MAXPROC
      BY <1>1, <2>2, <2>4
    <3>2. Lives(u[n - 1]) /\ u[n - 1] /= root
      <4>1. n - 1 \notin T
        BY <2>1, <2>2
      <4> QED
        BY <1>3, <3>1, <4>1
    <3>3. u[n] = p_parent[u[n - 1]]
      BY <1>2, <2>2, <2>4, <3>2, NullNotPcb DEF Climbs
    <3> QED
      BY <1>5, <2>2, <3>2, <3>3
  <2> QED
    BY <2>3, <2>4
<1> DEFINE g == [i \in 1..MAXPROC + 1 |-> IF i = 1 THEN p ELSE u[i - 1]]
<1>7. \A i \in 1..MAXPROC + 1 : g[i] \in Pcb /\ Lives(g[i]) /\ g[i] /= root
  <2> TAKE i \in 1..MAXPROC + 1
  <2>1. CASE i = 1
    BY <1>1, <2>1
  <2>2. CASE i /= 1
    <3>1. i - 1 \in 1..MAXPROC /\ g[i] = u[i - 1]
      BY <1>1, <2>2
    <3> QED
      BY <1>3, <1>6, <3>1
  <2> QED
    BY <2>1, <2>2
<1>8. \A i \in 1..MAXPROC : g[i + 1] = p_parent[g[i]]
  <2> TAKE i \in 1..MAXPROC
  <2>1. g[i + 1] = u[i]
    BY <1>1
  <2>2. CASE i = 1
    BY <1>1, <1>2, <2>1, <2>2 DEF Climbs
  <2>3. CASE i /= 1
    <3>1. i - 1 \in 1..MAXPROC /\ g[i] = u[i - 1]
      BY <1>1, <2>3
    <3>2. u[i - 1] /= NULL
      BY <1>6, <3>1, NullNotPcb
    <3> QED
      BY <1>2, <2>1, <2>3, <3>1, <3>2 DEF Climbs
  <2> QED
    BY <2>2, <2>3
<1>9. g \in Seq(Pcb) /\ Len(g) = MAXPROC + 1
  <2>1. g \in [1..MAXPROC + 1 -> Pcb] /\ MAXPROC + 1 \in Nat
    BY <1>1, <1>7
  <2> HIDE DEF g
  <2> QED
    BY <2>1, FunIsSeq
<1> HIDE DEF g
<1>10. ASSUME NEW i \in 1..Len(g) - 1 PROVE rank[g[i + 1]] < rank[g[i]]
  <2>1. i \in 1..MAXPROC /\ i \in 1..MAXPROC + 1
    BY <1>1, <1>9
  <2> QED
    BY <1>5, <1>7, <1>8, <2>1
<1>11. Len(g) <= MAXPROC
  BY <1>4, <1>9, <1>10, RankedIsShort
<1> QED
  BY <1>1, <1>9, <1>11

\* The innermost activation is of the progeny of the outermost: the stack is a path.
LEMMA StackPath ==
  ASSUME IInv, phase = "terminate"
  PROVE  Top = stack[1] \/ isChildOf(stack[1], Top)
<1> DEFINE n == Len(stack)
<1>1. /\ stack \in Seq(Pcb) /\ n \in Nat \ {0} /\ NoDup(stack) /\ Top \in Pcb /\ Top = stack[n]
      /\ \A i \in 1..n : stack[i] \in Pcb
      /\ \A i \in 1..n - 1 : p_parent[stack[i + 1]] = stack[i]
  BY StackFacts
<1>2. n <= MAXPROC /\ MAXPROC \in Nat
  BY <1>1, LenBound, MAXPROCAssumption
<1> HIDE DEF n
<1>3. CASE n = 1
  BY <1>1, <1>3
<1>4. CASE n /= 1
  <2> DEFINE f == [i \in 1..n - 1 |-> stack[n - i]]
  <2>1. n - 1 \in 1..MAXPROC /\ n - 1 \in Nat
    BY <1>1, <1>2, <1>4
  <2>2. f \in [1..n - 1 -> Pcb] /\ f[n - 1] = stack[1]
    <3>1. \A i \in 1..n - 1 : n - i \in 1..n
      BY <1>1
    <3>2. n - 1 \in 1..n - 1 /\ n - (n - 1) = 1
      BY <1>1, <1>4
    <3> QED
      BY <1>1, <3>1, <3>2
  <2>3. f[1] = p_parent[Top]
    <3>1. 1 \in 1..n - 1 /\ n - 1 \in 1..n - 1 /\ (n - 1) + 1 = n
      BY <1>1, <1>4
    <3>2. p_parent[stack[(n - 1) + 1]] = stack[n - 1]
      BY <1>1, <3>1
    <3> QED
      BY <1>1, <3>1, <3>2
  <2>4. ASSUME NEW i \in 2..n - 1 PROVE f[i] = p_parent[f[i - 1]]
    <3>1. i \in 1..n - 1 /\ i - 1 \in 1..n - 1 /\ n - i \in 1..n - 1 /\ n - (i - 1) = (n - i) + 1
      BY <1>1
    <3>2. p_parent[stack[(n - i) + 1]] = stack[n - i]
      BY <1>1, <3>1
    <3> QED
      BY <3>1, <3>2
  <2> HIDE DEF f
  <2>5. Path(p_parent, stack[1], Top, n - 1, f)
    BY <2>2, <2>3, <2>4 DEF Path
  <2>6. stack[1] \in Pcb /\ p_parent \in [Pcb -> Pcb \cup {NULL}]
    BY <1>1, Typed DEF IInv
  <2>7. Above(p_parent, stack[1], Top)
    BY <1>1, <2>1, <2>5, <2>6, PathIsAbove
  <2> QED
    BY <2>7, ChildIsUp DEF Above
<1> QED
  BY <1>3, <1>4

-----------------------------------------------------------------------------
(***************************************************************************)
(* The steps.                                                              *)
(***************************************************************************)
\* Steps that leave the tree alone, outside terminate_process or in it.
LEMMA TreeStays ==
  ASSUME TreeInv, UNCHANGED treeVars,
         phase' = "terminate" =>
           phase = "terminate" /\ stack'[1] = stack[1] /\ current' = current
  PROVE  TreeInv' /\ ProgenyDies
BY DEF TreeInv, Fathered, OwnProgeny, ProgenyDies, treeVars

\* create_process gives the new process a father.
LEMMA CreateTree ==
  ASSUME IInv, ~ Corrupt, TreeInv, NEW prio \in Priorities, CreateProcess(prio)
  PROVE  TreeInv' /\ ProgenyDies
<1> DEFINE p == Head(pcbFree_h)
<1>1. /\ phase = "user" /\ phase' = phase /\ current /= NULL /\ pcbFree_h /= <<>>
      /\ pcbFree_h' = Tail(pcbFree_h) /\ p_parent' = [p_parent EXCEPT ![p] = current]
  BY DEF CreateProcess, Running, insertChild, controlVars
<1>2. /\ pcbFree_h \in Seq(Pcb) /\ NoDup(pcbFree_h) /\ p_parent \in [Pcb -> Pcb \cup {NULL}]
  BY Typed DEF IInv, Sound, OnePlace
<1>3. p \in Pcb /\ Elems(pcbFree_h') = Elems(pcbFree_h) \ {p}
  BY <1>1, <1>2, TakeHeadProp, PcbElems
<1> HIDE DEF p
<1>4. \A q \in Pcb : p_parent'[q] = IF q = p THEN current ELSE p_parent[q]
  BY <1>1, <1>2
<1>5. Fathered'
  BY <1>1, <1>3, <1>4 DEF TreeInv, Fathered, root
<1>6. OwnProgeny' /\ ProgenyDies
  BY <1>1, <1>3 DEF OwnProgeny, ProgenyDies
<1> QED
  BY <1>5, <1>6 DEF TreeInv

\* The death of a process: of the progeny of the outermost activation, which is the
\* caller or of its progeny.
LEMMA DeathTree ==
  ASSUME IInv, ~ Corrupt, TreeInv, phase = "terminate", returnChild(Top) = NULL,
         outChild(Top), freePcb(Top),
         phase' = "terminate" => /\ Len(stack) > 1 /\ current' = current
                                 /\ stack' = SubSeq(stack, 1, Len(stack) - 1)
  PROVE  TreeInv' /\ ProgenyDies
<1>1. /\ stack \in Seq(Pcb) /\ Len(stack) \in Nat \ {0} /\ NoDup(stack) /\ current \in Pcb
      /\ Top \in Pcb \ Elems(pcbFree_h) /\ Top = stack[Len(stack)] /\ stack[1] \in Pcb
  BY StackFacts
<1>2. /\ Elems(pcbFree_h') = Elems(pcbFree_h) \cup {Top}
      /\ p_parent' \in [Pcb -> Pcb \cup {NULL}]
      /\ \A q \in Pcb \ {Top} : p_parent'[q] = p_parent[q]
      /\ \A q \in Pcb : p_parent[q] /= Top
  <2>1. NoDup(pcbFree_h)
    BY DEF IInv, Sound, OnePlace
  <2> QED
    BY <1>1, <2>1, OutChildLinks
<1>3. Fathered'
  BY <1>2 DEF TreeInv, Fathered, root
<1>4. OwnProgeny'
  <2> SUFFICES ASSUME phase' = "terminate"
               PROVE  stack'[1] = current' \/ Above(p_parent', current', stack'[1])
    BY DEF OwnProgeny
  <2>1. current' = current /\ stack'[1] = stack[1] /\ stack[1] /= Top
    <3>1. Len(stack) > 1 /\ stack' = SubSeq(stack, 1, Len(stack) - 1) /\ current' = current
      OBVIOUS
    <3>2. 1 \in 1..Len(stack) /\ Len(stack) \in 1..Len(stack)
      BY <1>1
    <3>3. stack[1] /= Top
      BY <1>1, <3>1, <3>2 DEF NoDup
    <3> QED
      BY <1>1, <3>1, <3>3
  <2>2. p_parent \in [Pcb -> Pcb \cup {NULL}]
    BY Typed DEF IInv
  <2>3. CASE stack[1] = current
    BY <2>1, <2>3
  <2>4. CASE Above(p_parent, current, stack[1])
    <3>1. Above(p_parent', current, stack[1])
      BY <1>1, <1>2, <2>1, <2>2, <2>4, AbovePersists
    <3> QED
      BY <2>1, <3>1
  <2> QED
    BY <2>3, <2>4 DEF TreeInv, OwnProgeny
<1>5. ProgenyDies
  <2>1. Top = stack[1] \/ isChildOf(stack[1], Top)
    BY StackPath
  <2>2. stack[1] = current \/ isChildOf(current, stack[1])
    BY ChildIsUp DEF TreeInv, OwnProgeny, Above
  <2> QED
    BY <1>2, <2>1, <2>2 DEF ProgenyDies
<1> QED
  BY <1>3, <1>4, <1>5 DEF TreeInv

\* Every step.
LEMMA TreeNext == IInv /\ TreeInv /\ [Next]_vars => TreeInv' /\ [ProgenyDies]_vars
<1> SUFFICES ASSUME IInv, TreeInv, [Next]_vars
             PROVE  TreeInv' /\ [ProgenyDies]_vars
  OBVIOUS
<1>1. CASE UNCHANGED vars
  BY <1>1, TreeStays DEF vars, schedVars, controlVars
<1>2. CASE ~ Corrupt /\ KernelStep
  <2>1. CASE Start
    BY <2>1, TreeStays DEF Start
  <2>2. CASE TerminateChild
    <3>1. /\ phase = "terminate" /\ stack' = Append(stack, returnChild(Top))
          /\ UNCHANGED treeVars /\ current' = current /\ returnChild(Top) /= NULL
      BY <2>2 DEF TerminateChild, schedVars
    <3>2. /\ stack \in Seq(Pcb) /\ Len(stack) \in Nat \ {0} /\ Top \in Pcb
      BY <3>1, StackFacts
    <3>3. returnChild(Top) \in Pcb
      BY <3>1, <3>2, LinkFacts, PcbElems DEF returnChild
    <3>4. stack'[1] = stack[1]
      BY <3>1, <3>2, <3>3
    <3> QED
      BY <3>1, <3>4, TreeStays
  <2>3. CASE TerminateSelf
    BY <1>2, <2>3, DeathTree DEF TerminateSelf
  <2>4. CASE TerminateOther
    <3>1. /\ phase = "terminate" /\ returnChild(Top) = NULL /\ outChild(Top) /\ freePcb(Top)
          /\ stack' = SubSeq(stack, 1, Len(stack) - 1) /\ current' = current
          /\ phase' = IF Len(stack) = 1 THEN "user" ELSE "terminate"
      BY <2>4 DEF TerminateOther
    <3>2. Len(stack) \in Nat \ {0}
      BY <3>1, StackFacts
    <3>3. Len(stack) /= 1 => Len(stack) > 1
      <4>1. \A n \in Nat \ {0} : n /= 1 => n > 1
        OBVIOUS
      <4> QED
        BY <3>2, <4>1
    <3>4. phase' = "terminate" => Len(stack) /= 1
      BY <3>1
    <3> QED
      BY <1>2, <3>1, <3>3, <3>4, DeathTree
  <2>5. CASE PollDevice
    BY <2>5, TreeStays DEF PollDevice
  <2>6. CASE InterruptReturn
    BY <2>6, TreeStays DEF InterruptReturn
  <2> QED
    BY <1>2, <2>1, <2>2, <2>3, <2>4, <2>5, <2>6 DEF KernelStep
<1>3. CASE ~ Corrupt /\ TimerInterrupt
  BY <1>3, TreeStays DEF TimerInterrupt, controlVars
<1>4. CASE ~ Corrupt /\ DeviceInterrupt
  BY <1>4, TreeStays DEF DeviceInterrupt
<1>5. CASE ~ Corrupt /\ \E prio \in Priorities : CreateProcess(prio)
  BY <1>5, CreateTree
<1>6. CASE ~ Corrupt /\ \E k \in Sem : Verhogen(k)
  BY <1>6, TreeStays DEF Verhogen, Running, controlVars
<1>7. CASE ~ Corrupt /\ \E k \in Sem : Passeren(k)
  BY <1>7, TreeStays DEF Passeren, Running, controlVars
<1>8. CASE ~ Corrupt /\ \E d \in Dev : DoIO(d)
  BY <1>8, TreeStays DEF DoIO, Running, controlVars
<1>9. CASE ~ Corrupt /\ \E pid \in Pcb : TerminateProcess(pid)
  <2>1. PICK pid \in Pcb : TerminateProcess(pid)
    BY <1>9
  <2>2. /\ stack'[1] = pid /\ UNCHANGED treeVars /\ current' = current /\ p_parent' = p_parent
        /\ pid = current \/ isChildOf(current, pid)
    BY <2>1 DEF TerminateProcess, schedVars, treeVars
  <2>3. OwnProgeny'
    BY <2>2, ChildIsUp DEF OwnProgeny, Above
  <2> QED
    BY <2>2, <2>3 DEF TreeInv, Fathered, ProgenyDies, treeVars
<1>10. CASE ~ Corrupt /\ \E d \in Dev : DeviceCompletes(d)
  BY <1>10, TreeStays DEF DeviceCompletes, schedVars, controlVars
<1>11. CASE ~ Corrupt /\ \E k \in Raw, v \in InitVals \cup {0} : Assign(k, v)
  BY <1>11, TreeStays DEF Assign, Running, controlVars
<1> QED
  BY <1>1, <1>2, <1>3, <1>4, <1>5, <1>6, <1>7, <1>8, <1>9, <1>10, <1>11 DEF Next

\* At first there is only the first process, and nobody terminates.
LEMMA TreeInit == Init => TreeInv
<1> SUFFICES ASSUME Init
             PROVE  TreeInv
  OBVIOUS
<1>1. OnePlace /\ phase = "main"
  BY InitInv DEF IInv, Sound, Init
<1>2. Elems(ready) = {root} /\ Blocked = {} /\ current = NULL
  <2>1. ready = <<root>> /\ current = NULL
    BY DEF Init, initProcess
  <2>2. Elems(ready) = {root}
    BY <2>1 DEF Elems
  <2>3. Blocked = {}
    BY EmptySeq DEF Init, initASL, Blocked, Elems
  <2> QED
    BY <2>1, <2>2, <2>3
<1>3. \A p \in Pcb \ Elems(pcbFree_h) : p = root
  BY <1>1, <1>2 DEF OnePlace
<1> QED
  BY <1>1, <1>3 DEF TreeInv, Fathered, OwnProgeny

\* The invariant, for the theorems below.
LEMMA TreeAlways == Spec => [](IInv /\ TreeInv) /\ [][ProgenyDies]_vars
<1>1. IInv /\ TreeInv /\ [Next]_vars => IInv' /\ TreeInv' /\ [ProgenyDies]_vars
  BY NextStep, TreeNext DEF Step
<1>2. Init => IInv /\ TreeInv
  BY InitInv, TreeInit
<1> QED
  BY <1>1, <1>2, PTL DEF Spec

(***************************************************************************)
(* terminate_process leaves no orphan, not even between two of its steps:  *)
(* from every living process isChildOf finds the way up to the first one,  *)
(* and p_parent and p_child agree.                                         *)
(***************************************************************************)
THEOREM NobodyOrphaned == Spec => []NoOrphans
<1>1. IInv /\ TreeInv => NoOrphans
  <2> SUFFICES ASSUME IInv, TreeInv
               PROVE  NoOrphans
    OBVIOUS
  <2>1. TreeLinks
    BY DEF IInv
  <2>2. \A p \in Pcb \ Elems(pcbFree_h) : p = root \/ isChildOf(root, p)
    BY UpToRoot DEF TreeInv
  <2> QED
    BY <2>1, <2>2 DEF NoOrphans
<1> QED
  BY <1>1, TreeAlways, PTL

(***************************************************************************)
(* terminate_process frees nobody but the process it is called for, which  *)
(* is the caller or descends from it, and what descends from that one:     *)
(* the recursion never leaves the subtree, however deep it is.             *)
(***************************************************************************)
THEOREM OnlyProgenyFreed == Spec => OnlyProgenyDies
BY TreeAlways, PTL DEF OnlyProgenyDies

-----------------------------------------------------------------------------
(***************************************************************************)
(* The recursion of terminate_process comes to its end.                    *)
(***************************************************************************)
\* A child of the innermost activation is of the caller's progeny.
LEMMA ChildIsOfCaller == IInv /\ TreeInv => NeverRefusesChild
<1> SUFFICES ASSUME IInv, TreeInv, phase = "terminate", returnChild(Top) /= NULL
             PROVE  isChildOf(current, returnChild(Top))
  BY DEF NeverRefusesChild
<1> DEFINE c == returnChild(Top)
<1>1. /\ Top \in Pcb /\ stack[1] \in Pcb /\ current \in Pcb
      /\ p_parent \in [Pcb -> Pcb \cup {NULL}] /\ MAXPROC \in Nat \ {0} /\ Acyclic
  <2>1. Len(stack) \in Nat \ {0} /\ \A i \in 1..Len(stack) : stack[i] \in Pcb
    BY StackFacts
  <2>2. 1 \in 1..Len(stack)
    BY <2>1
  <2> QED
    BY <2>1, <2>2, StackFacts, Typed, MAXPROCAssumption DEF IInv
<1>2. c \in Pcb /\ p_parent[c] = Top
  BY <1>1, LinkFacts, PcbElems DEF returnChild
<1> HIDE DEF c
<1>3. Above(p_parent, Top, c)
  <2> DEFINE f == [i \in 1..1 |-> Top]
  <2>1. f \in [1..1 -> Pcb] /\ f[1] = p_parent[c] /\ f[1] = Top
    BY <1>1, <1>2
  <2>2. \A i \in 2..1 : f[i] = p_parent[f[i - 1]]
    OBVIOUS
  <2>3. 1 \in 1..MAXPROC
    BY <1>1
  <2> HIDE DEF f
  <2>4. Path(p_parent, Top, c, 1, f)
    BY <2>1, <2>2 DEF Path
  <2> QED
    BY <1>1, <1>2, <2>3, <2>4, PathIsAbove
<1>4. Above(p_parent, stack[1], c)
  <2>1. CASE Top = stack[1]
    BY <1>3, <2>1
  <2>2. CASE isChildOf(stack[1], Top)
    <3>1. Above(p_parent, stack[1], Top)
      BY <2>2, ChildIsUp DEF Above
    <3> QED
      BY <1>1, <1>2, <1>3, <3>1, AboveTrans
  <2> QED
    BY <2>1, <2>2, StackPath
<1>5. Above(p_parent, current, c)
  <2>1. CASE stack[1] = current
    BY <1>4, <2>1
  <2>2. CASE Above(p_parent, current, stack[1])
    BY <1>1, <1>2, <1>4, <2>2, AboveTrans
  <2> QED
    BY <2>1, <2>2 DEF TreeInv, OwnProgeny
<1> QED
  BY <1>5, ChildIsUp DEF c, Above

\* Two lists of different pcbs are not longer together than there are pcbs.
LEMMA ListsFit ==
  ASSUME NEW a \in Seq(Pcb), NEW b \in Seq(Pcb), NoDup(a), NoDup(b),
         \A i \in 1..Len(a) : a[i] \notin Elems(b)
  PROVE  Len(a) \in Nat /\ Len(b) \in Nat /\ Len(a) + Len(b) <= MAXPROC
<1> DEFINE n == Len(a)
           m == Len(b)
           f == [i \in 1..n + m |-> IF i <= n THEN a[i] ELSE b[i - n]]
<1>1. /\ n \in Nat /\ m \in Nat /\ n + m \in Nat
      /\ \A i \in 1..n : a[i] \in Pcb
      /\ \A i \in 1..m : b[i] \in Pcb
  BY LenProperties, ElementOfSeq
<1>2. \A i \in 1..n, j \in 1..m : a[i] /= b[j]
  BY DEF Elems
<1>3. /\ \A i, j \in 1..n : a[i] = a[j] => i = j
      /\ \A i, j \in 1..m : b[i] = b[j] => i = j
  BY DEF NoDup
<1> HIDE DEF n, m
<1>4. \A i \in 1..n + m : IF i <= n THEN i \in 1..n ELSE i - n \in 1..m
  BY <1>1
<1>5. f \in [1..n + m -> Pcb]
  BY <1>1, <1>4
<1>6. ASSUME NEW i \in 1..n + m, NEW j \in 1..n + m, f[i] = f[j] PROVE i = j
  <2>1. CASE i <= n /\ j <= n
    BY <1>3, <1>4, <1>6, <2>1
  <2>2. CASE i <= n /\ ~ (j <= n)
    BY <1>2, <1>4, <1>6, <2>2
  <2>3. CASE ~ (i <= n) /\ j <= n
    BY <1>2, <1>4, <1>6, <2>3
  <2>4. CASE ~ (i <= n) /\ ~ (j <= n)
    <3>1. i - n = j - n
      BY <1>3, <1>4, <1>6, <2>4
    <3> QED
      BY <1>1, <3>1
  <2> QED
    BY <2>1, <2>2, <2>3, <2>4
<1> HIDE DEF f
<1>7. f \in Seq(Pcb) /\ Len(f) = n + m
  BY <1>1, <1>5, FunIsSeq
<1>8. NoDup(f)
  BY <1>6, <1>7 DEF NoDup
<1>9. n + m <= MAXPROC
  BY <1>7, <1>8, LenBound
<1> QED
  BY <1>1, <1>9 DEF n, m

\* Every step of the recursion is one of those that were left.
LEMMA ShrinkStep == IInv /\ IInv' /\ [Next]_vars => [RecursionShrinks]_vars
<1> SUFFICES ASSUME IInv, IInv', Next, phase = "terminate", phase' = "terminate"
             PROVE  \/ dev_status' /= dev_status /\ UNCHANGED <<pcbFree_h, stack>>
                    \/ vars' = vars
                    \/ /\ Len(stack') <= StepsLeft(pcbFree_h', stack')
                       /\ StepsLeft(pcbFree_h', stack') < StepsLeft(pcbFree_h, stack)
  BY DEF RecursionShrinks
<1>1. /\ stack \in Seq(Pcb) /\ Len(stack) \in Nat \ {0} /\ Top \in Pcb /\ Top \notin Elems(pcbFree_h)
      /\ pcbFree_h \in Seq(Pcb) /\ Len(pcbFree_h) \in Nat /\ MAXPROC \in Nat
      /\ pcbFree_h' \in Seq(Pcb) /\ stack' \in Seq(Pcb)
  <2>1. NucleusInv /\ NucleusInv'
    BY DEF IInv
  <2>2. pcbFree_h \in Seq(Pcb) /\ pcbFree_h' \in Seq(Pcb) /\ stack' \in Seq(Pcb)
    BY <2>1 DEF NucleusInv, NucleusTypeOK
  <2> QED
    BY <2>2, StackFacts, LenProperties, MAXPROCAssumption
<1>2. /\ NoDup(stack') /\ \A i \in 1..Len(stack') : stack'[i] \notin Elems(pcbFree_h')
  BY DEF IInv, StackOK
<1>3. ASSUME NoDup(pcbFree_h'),
             2 * Len(pcbFree_h') + Len(stack') > 2 * Len(pcbFree_h) + Len(stack)
      PROVE  /\ Len(stack') <= StepsLeft(pcbFree_h', stack')
             /\ StepsLeft(pcbFree_h', stack') < StepsLeft(pcbFree_h, stack)
  <2>1. Len(stack') \in Nat /\ Len(pcbFree_h') \in Nat /\ Len(stack') + Len(pcbFree_h') <= MAXPROC
    BY <1>1, <1>2, <1>3, ListsFit
  <2> QED
    BY <1>1, <1>3, <2>1 DEF StepsLeft
<1>4. ASSUME ~ Corrupt PROVE NoDup(pcbFree_h)
  BY <1>4 DEF IInv, Sound, OnePlace
<1>5. CASE ~ Corrupt /\ TerminateChild
  <2>1. /\ returnChild(Top) /= NULL /\ stack' = Append(stack, returnChild(Top))
        /\ pcbFree_h' = pcbFree_h
    BY <1>5 DEF TerminateChild, treeVars
  <2>2. Len(stack') = Len(stack) + 1
    BY <1>1, <2>1
  <2> QED
    BY <1>1, <1>3, <1>4, <1>5, <2>1, <2>2
<1>6. CASE ~ Corrupt /\ TerminateOther
  <2>1. /\ returnChild(Top) = NULL /\ outChild(Top) /\ freePcb(Top)
        /\ stack' = SubSeq(stack, 1, Len(stack) - 1)
        /\ pcbFree_h' = <<Top>> \o pcbFree_h
    BY <1>6 DEF TerminateOther, freePcb
  <2>2. Len(stack') = Len(stack) - 1
    BY <1>1, <2>1
  <2>3. Len(pcbFree_h') = Len(pcbFree_h) + 1
    BY <1>1, <2>1
  <2>4. NoDup(pcbFree_h')
    BY <1>1, <1>4, <1>6, <2>1, OutChildLinks
  <2> QED
    BY <1>1, <1>3, <2>2, <2>3, <2>4
<1>7. CASE \E d \in Dev : DeviceCompletes(d)
  <2>1. PICK d \in Dev : DeviceCompletes(d)
    BY <1>7
  <2>2. dev_status' /= dev_status
    BY <2>1, Typed DEF IInv, DeviceCompletes
  <2> QED
    BY <2>1, <2>2 DEF DeviceCompletes, treeVars, controlVars
<1>8. \/ ~ Corrupt /\ TerminateChild
      \/ ~ Corrupt /\ TerminateOther
      \/ \E d \in Dev : DeviceCompletes(d)
      \/ vars' = vars
  <2>1. ~ Start /\ ~ PollDevice /\ ~ InterruptReturn /\ ~ TerminateSelf
    BY DEF Start, PollDevice, InterruptReturn, TerminateSelf
  <2>2. ~ TimerInterrupt /\ ~ DeviceInterrupt
    BY DEF TimerInterrupt, DeviceInterrupt
  <2>3. ~ Running
    BY DEF Running
  <2>4. /\ \A prio \in Priorities : ~ CreateProcess(prio)
        /\ \A k \in Sem : ~ Verhogen(k) /\ ~ Passeren(k)
        /\ \A k \in Raw, v \in InitVals \cup {0} : ~ Assign(k, v)
        /\ \A d \in Dev : ~ DoIO(d)
        /\ \A pid \in Pcb : ~ TerminateProcess(pid)
    BY <2>3, Zenon DEF CreateProcess, Verhogen, Passeren, Assign, DoIO, TerminateProcess
  <2> QED
    BY <2>1, <2>2, <2>4 DEF Next, KernelStep
<1> QED
  BY <1>5, <1>6, <1>7, <1>8

(***************************************************************************)
(* The recursion never refuses a child (syscall.c:142): terminate_process  *)
(* is not left with one that it neither kills nor skips.                   *)
(***************************************************************************)
THEOREM ChildNeverRefused == Spec => []NeverRefusesChild
BY ChildIsOfCaller, TreeAlways, PTL

(***************************************************************************)
(* terminate_process takes less than 2 * MAXPROC steps and never nests     *)
(* more than MAXPROC activations, for every tree: what is left of liveness *)
(* is that the processor executes it.                                      *)
(***************************************************************************)
THEOREM RecursionIsBounded == Spec => TerminateShrinks
<1>1. IInv /\ IInv' /\ [Next]_vars => [RecursionShrinks]_vars
  BY ShrinkStep
<1> QED
  BY <1>1, TreeAlways, PTL DEF Spec, TerminateShrinks
=============================================================================
