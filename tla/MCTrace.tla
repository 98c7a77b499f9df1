------------------------------ MODULE MCTrace ------------------------------
(***************************************************************************)
(* Instances of TraceDriver for TLC.                                       *)
(***************************************************************************)
EXTENDS TraceDriver

LineNumbers == 1 .. MaxLines

\* one page for each of the two memories
TwoPages == {0, 1}

L(type, page, clocks) == [type |-> type, page |-> page, idle |-> clocks]

\* Every type of line, idle for two cycles or none: reads of two addresses,
\* one of them that of the critical load and of the write too.
AllTypes == {L("R", 0, NoIdle), L("R", 1, NoIdle), L("W", 1, 1), L("C", 1, NoIdle)}
=============================================================================
