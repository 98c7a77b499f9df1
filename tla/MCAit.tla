------------------------------ MODULE MCAit ------------------------------
(***************************************************************************)
(* Instances of Ait for TLC.                                               *)
(***************************************************************************)
EXTENDS Ait, TLC

\* Blocks, their parts and callbacks are only compared for equality.
Symmetry == Permutations(Blocks) \cup Permutations(Subs) \cup Permutations(ReadIds)
=============================================================================
