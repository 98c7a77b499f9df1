------------------------------ MODULE MCRmw ------------------------------
(***************************************************************************)
(* Instances of Rmw for TLC.                                               *)
(***************************************************************************)
EXTENDS Rmw, TLC

\* Blocks, lines and callbacks are only compared for equality.
Symmetry == Permutations(Blocks) \cup Permutations(CL) \cup Permutations(ReadIds)
=============================================================================
