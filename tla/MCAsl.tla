------------------------------- MODULE MCAsl -------------------------------
(***************************************************************************)
(* The active semaphore list on a small instance.  Addresses are only      *)
(* compared, so permuting them is sound; pcbs and descriptors are numbered *)
(* by their tables and are not permuted.                                   *)
(***************************************************************************)
EXTENDS Asl, TLC

KeySymmetry == Permutations(Key)
=============================================================================
