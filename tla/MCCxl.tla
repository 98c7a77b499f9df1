------------------------------- MODULE MCCxl -------------------------------
(***************************************************************************)
(* Instances of Cxl for TLC.                                               *)
(***************************************************************************)
EXTENDS Cxl

\* an address that may be allocated, freed and given out again, and a second one
TwoAddresses == {1, 2}
=============================================================================
