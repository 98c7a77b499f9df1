------------------------------ MODULE MCImc ------------------------------
(***************************************************************************)
(* Instances of Imc for TLC.                                               *)
(***************************************************************************)
EXTENDS Imc

\* The first pages of the address space: with two memories below, two of them
\* fall to the first and one to the second.
FirstPages == {0, 1, 2}
=============================================================================
