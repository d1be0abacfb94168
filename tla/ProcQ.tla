------------------------------- MODULE ProcQ -------------------------------
(***************************************************************************)
(* The process queues of pcb.c (insertProcQ, headProcQ, removeProcQ,       *)
(* outProcQ) as operators on sequences of pcbs.  A pcb is named by its     *)
(* place in pcbFree_table, 1..MAXPROC; NULL is 0.  "prio" is the priority  *)
(* field of every pcb, which the queues read and never write.              *)
(***************************************************************************)
EXTENDS Integers, Sequences

CONSTANT MAXPROC            \* const.h:28, the length of pcbFree_table

ASSUME MAXPROCAssumption == MAXPROC \in Nat \ {0}

Pcb == 1..MAXPROC
NULL == 0

\* The pcbs linked in a queue.
Elems(q) == {q[i] : i \in 1..Len(q)}

emptyProcQ(q) == q = <<>>
headProcQ(q) == IF emptyProcQ(q) THEN NULL ELSE Head(q)

(***************************************************************************)
(* insertProcQ links p before the first element of strictly lower          *)
(* priority, or at the tail when there is none.                            *)
(***************************************************************************)
BeforeEqualsPos(q, prio, p) ==
  CHOOSE i \in 1..Len(q) + 1 :
    /\ i <= Len(q) => prio[p] >= prio[q[i]]
    /\ \A j \in 1..i - 1 : prio[p] < prio[q[j]]
InsertPos(q, prio, p) ==
  CHOOSE i \in 1..Len(q) + 1 :
    /\ i <= Len(q) => prio[p] > prio[q[i]]
    /\ \A j \in 1..i - 1 : prio[p] <= prio[q[j]]

insertProcQ(q, prio, p) ==
  LET i == InsertPos(q, prio, p)
  IN  [j \in 1..Len(q) + 1 |-> IF j < i THEN q[j] ELSE IF j = i THEN p ELSE q[j - 1]]

\* removeProcQ: what is left behind the head; the head itself is headProcQ.
NoListDel(q) == q
removeProcQ(q) == Tail(q)

\* outProcQ unlinks the first occurrence of p; q is untouched when p is not in it.
outProcQ(q, p) ==
  IF p \in Elems(q)
  THEN LET i == CHOOSE i \in 1..Len(q) : q[i] = p /\ \A j \in 1..i - 1 : q[j] /= p
       IN  [j \in 1..Len(q) - 1 |-> IF j < i THEN q[j] ELSE q[j + 1]]
  ELSE q

\* No pcb is linked twice; priorities never rise from the head to the tail.
NoDup(q) == \A i, j \in 1..Len(q) : q[i] = q[j] => i = j
Sorted(q, prio) == \A i, j \in 1..Len(q) : i < j => prio[q[i]] >= prio[q[j]]
=============================================================================
