---------------------------- MODULE MCScheduler ----------------------------
(***************************************************************************)
(* The scheduler alone, under the most liberal kernel around it.           *)
(***************************************************************************)
EXTENDS Scheduler

MCPriorities == 1..MaxPrio
=============================================================================
