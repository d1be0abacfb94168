------------------------------- MODULE PassUp -------------------------------
(***************************************************************************)
(* Processor states and the passing up of exceptions: the state of the     *)
(* running process is saved in its pcb when an exception is raised and     *)
(* loaded when it is dispatched; SPECPASSUP registers, once for each type  *)
(* of exception, an area to save the state in and an area to load the      *)
(* handler from.  Operators for the modules that have the handlers.        *)
(***************************************************************************)
EXTENDS ProcQ

VARIABLES
  cpu,                      \* the state in the processor
  p_s,                      \* pcb_t.p_s
  mem,                      \* the states in the areas processes have registered
  spec_assigned,            \* [Pcb -> the types a handler is registered for]
  spec_oarea, spec_narea    \* [Pcb -> [ExcType -> area]]

specVars == <<spec_assigned, spec_oarea, spec_narea>>

\* const.h:66-76
SysBp == 0
Tlb == 1
PrgTrap == 2
ExcType == {SysBp, Tlb, PrgTrap}

\* The pcbs as they are zeroed at start-up; "none" stands for the NULL area.
initSpec(none) ==
  /\ spec_assigned = [p \in Pcb |-> {}]
  /\ spec_oarea = [p \in Pcb |-> [t \in ExcType |-> none]]
  /\ spec_narea = [p \in Pcb |-> [t \in ExcType |-> none]]

\* updateCurrentProc: the state saved by the exception goes to the pcb of p.
updateCurrentProc(p, st) == p_s' = [p_s EXCEPT ![p] = st]

\* spec_passup and its result: a type is registered once; then the call fails.
specResult(p, t) == IF t \in spec_assigned[p] THEN -1 ELSE 0
spec_passup(p, t, old, new) ==
  IF t \in spec_assigned[p]
  THEN UNCHANGED specVars
  ELSE /\ spec_assigned' = [spec_assigned EXCEPT ![p] = @ \cup {t}]
       /\ spec_oarea' = [spec_oarea EXCEPT ![p][t] = old]
       /\ spec_narea' = [spec_narea EXCEPT ![p][t] = new]

\* What allocPcb resets of a pcb; the addresses of the areas stay.
keepSpec(p) == UNCHANGED specVars
clearSpec(p) ==
  /\ spec_assigned' = [spec_assigned EXCEPT ![p] = {}]
  /\ UNCHANGED <<spec_oarea, spec_narea>>

(***************************************************************************)
(* An exception of type t that p, in state st, has a handler for: the      *)
(* state goes to the pcb and to the old area, and the new area is loaded.  *)
(***************************************************************************)
passUp(p, t, st) ==
  /\ updateCurrentProc(p, st)
  /\ mem' = [mem EXCEPT ![spec_oarea[p][t]] = st]
  /\ cpu' = mem'[spec_narea[p][t]]
=============================================================================
