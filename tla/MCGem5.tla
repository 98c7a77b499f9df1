------------------------------- MODULE MCGem5 -------------------------------
(***************************************************************************)
(* Instances of Gem5 for TLC.                                              *)
(***************************************************************************)
EXTENDS Gem5

CONSTANTS p1, p2, p3

TwoPages == {0, 1}

\* two packets meet at one address, the third has its own
SharedPage == [i \in Ids |-> IF i = p3 THEN 1 ELSE 0]
=============================================================================
