----------------------------- MODULE MCNucleus -----------------------------
(***************************************************************************)
(* The kernel on small instances.                                          *)
(***************************************************************************)
EXTENDS Nucleus

MCKey == Sem \cup Disk \cup TermRecv \cup TermTransm
=============================================================================
