------------------------------ MODULE MCDram ------------------------------
(***************************************************************************)
(* Instances of Dram for TLC: a bank with two lines in different rows.     *)
(***************************************************************************)
EXTENDS Dram

CONSTANT Bank

OneBank == [line \in Lines |-> Bank]
OwnRow == [line \in Lines |-> line]
OneRank == [b \in Banks |-> 1]
=============================================================================
