--------------------------- MODULE CoherentMemory ---------------------------
(***************************************************************************)
(* What a memory with queued writes promises to the level above: a read    *)
(* returns the value that was last written to its line when the read was   *)
(* accepted, although writes reach the banks later; the last write of a    *)
(* line is the one that stays in its bank; and reads are answered in any   *)
(* order.  While a write of the line is queued a read may be served by     *)
(* forwarding, which is not concerned with values.                         *)
(***************************************************************************)
CONSTANTS
  Lines,    \* cache line addresses
  ReadIds,  \* identities of read callbacks
  Values,   \* values of lines
  NoValue,  \* "this read was forwarded"
  NoRead    \* "this callback is not in use"

VARIABLES
  store,    \* value of the last write that was accepted, for every line
  bank,     \* value that the banks hold
  queued,   \* lines with a write that is not in its bank yet
  asked     \* callback -> the line and the value it will be called with

vars == <<store, bank, queued, asked>>

Init ==
  /\ store \in [Lines -> Values]
  /\ bank = store /\ queued = {}
  /\ asked = [r \in ReadIds |-> NoRead]

AcceptRead(r, line) ==
  /\ asked[r] = NoRead
  /\ asked' = [asked EXCEPT ![r] = [line |-> line, val |-> store[line]]]
  /\ UNCHANGED <<store, bank, queued>>

ForwardRead(r, line) ==
  /\ asked[r] = NoRead /\ line \in queued
  /\ asked' = [asked EXCEPT ![r] = [line |-> line, val |-> NoValue]]
  /\ UNCHANGED <<store, bank, queued>>

AcceptWrite(line, v) ==
  /\ store' = [store EXCEPT ![line] = v]
  /\ queued' = queued \cup {line}
  /\ UNCHANGED <<bank, asked>>

\* a write reaches its bank; if no other one is queued it is the last
WriteBank(line, v) ==
  /\ line \in queued
  /\ bank' = [bank EXCEPT ![line] = v]
  /\ \/ queued' = queued
     \/ queued' = queued \ {line} /\ v = store[line]
  /\ UNCHANGED <<store, asked>>

Answer(r) ==
  /\ asked[r] # NoRead
  /\ asked' = [asked EXCEPT ![r] = NoRead]
  /\ UNCHANGED <<store, bank, queued>>

Next ==
  \/ \E r \in ReadIds, line \in Lines : AcceptRead(r, line) \/ ForwardRead(r, line)
  \/ \E line \in Lines, v \in Values : AcceptWrite(line, v) \/ WriteBank(line, v)
  \/ \E r \in ReadIds : Answer(r)

Spec == Init /\ [][Next]_vars
=============================================================================
