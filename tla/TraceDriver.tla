----------------------------- MODULE TraceDriver -----------------------------
(***************************************************************************)
(* A simulation of a trace: run_trace of src/src/general/trace.cpp on top  *)
(* of the root memory controller, which passes requests on, the memory     *)
(* controller Imc and the memories below it.                               *)
(*                                                                         *)
(* Every iteration of the main loop is a step of the driver (turn          *)
(* "driver") and a tick of the model (turn "model"), after which the       *)
(* memories below may have taken and answered requests.  When the trace    *)
(* has ended the model is drained and ticked while anything is pending.    *)
(*                                                                         *)
(* The identity of a request is the number of its line.  The driver never  *)
(* sets the arrival clock, so Stamped is FALSE.                            *)
(*                                                                         *)
(* The memories below are nvram or ddr4.  They differ in what the driver   *)
(* sees of them: whose callback is called, and what pending() tells.       *)
(***************************************************************************)
EXTENDS Imc

CONSTANTS
  MaxLines,  \* length of the longest trace
  Lines      \* the lines that occur in traces

\* clk_invalid: the line asks for no idle clocks
NoIdle == -1

\* read, write, critical read
Line == [type : {"R", "W", "C"}, page : Pages, idle : Nat \cup {NoIdle}]

ASSUME TraceAssumption ==
  /\ MaxLines \in Nat /\ Ids = 1 .. MaxLines
  /\ Lines \subseteq Line
  /\ ~Stamped

VARIABLES
  trace,           \* the lines of the trace that get_dram_trace_request returns
  pos,             \* number of lines read; the last of them is `addr', `type' ...
  stall,           \* the line was refused
  critical_stall,  \* a critical load waits for its callback
  wait_idle_clk,
  idle,            \* idle_clk_injection
  stage,           \* "trace", "ended" (trace_end), "draining", "done"
  turn,            \* "driver" or "model"
  memory,          \* the memories below: "nvram" or "ddr4"
  owes,            \* reads that the memories below have to serve
  sent,            \* history: line -> how often it was sent below
  shared           \* history: nvram had to serve two reads of an address at a time

\* a read below: its line, the page in the component and the component
Owed == [line : Ids, page : Nat, to : Below]

driverVars == <<pos, stall, critical_stall, wait_idle_clk, idle, stage, turn>>
belowVars == <<memory, owes, sent, shared>>
traceVars == <<vars, trace, driverVars, belowVars>>

TraceInit ==
  /\ Init
  /\ trace \in UNION {[1 .. n -> Lines] : n \in 1 .. MaxLines}
  /\ pos = 0
  /\ stall = FALSE /\ critical_stall = FALSE
  /\ wait_idle_clk = FALSE /\ idle = NoIdle
  /\ stage = "trace" /\ turn = "driver"
  /\ memory \in {"nvram", "ddr4"}
  /\ owes = {}
  /\ sent = [l \in Ids |-> 0]
  /\ shared = FALSE

(***************************************************************************)
(* The driver                                                              *)
(***************************************************************************)
Driving == stage = "trace" /\ turn = "driver"

\* Mutant of ReadsLine: a refused line is skipped.
ReadsLineStalled == ~critical_stall

ReadsLine == ~stall /\ ~critical_stall

\* issue_request for line l, through rmc
Issue(l) ==
  \/ trace[l].type = "W" /\ IssueWrite(l, trace[l].page)
  \/ trace[l].type # "W" /\ IssueRead(l, trace[l].page)

Full(l) == IF trace[l].type = "W" THEN Len(wpq) = WpqEntries ELSE Len(rpq) = RpqEntries

TryIssue(l) ==
  \/ /\ ~Full(l) /\ Issue(l)
     /\ stall' = FALSE
     /\ critical_stall' = (trace[l].type = "C")
  \/ /\ Full(l)
     /\ stall' = TRUE
     /\ UNCHANGED <<vars, critical_stall>>

NextLine ==
  /\ Driving /\ ~wait_idle_clk /\ ReadsLine
  /\ pos < Len(trace)
  /\ pos' = pos + 1
  /\ idle' = trace[pos + 1].idle
  /\ wait_idle_clk' = (idle' # NoIdle)
  /\ TryIssue(pos + 1)
  /\ turn' = "model"
  /\ UNCHANGED <<trace, stage, belowVars>>

SameLine ==
  /\ Driving /\ ~wait_idle_clk /\ stall
  /\ TryIssue(pos)
  /\ turn' = "model"
  /\ UNCHANGED <<trace, pos, wait_idle_clk, idle, stage, belowVars>>

CriticalWait ==
  /\ Driving /\ ~wait_idle_clk /\ critical_stall
  /\ turn' = "model"
  /\ UNCHANGED <<vars, trace, pos, stall, critical_stall, wait_idle_clk, idle, stage, belowVars>>

StillIdle == idle > 0

IdleWait ==
  /\ Driving /\ wait_idle_clk
  /\ \/ StillIdle /\ idle' = idle - 1 /\ UNCHANGED wait_idle_clk
     \/ ~StillIdle /\ wait_idle_clk' = FALSE /\ UNCHANGED idle
  /\ turn' = "model"
  /\ UNCHANGED <<vars, trace, pos, stall, critical_stall, stage, belowVars>>

\* the last iteration, in which the end of the trace is found
TraceEnd ==
  /\ Driving /\ ~wait_idle_clk /\ ReadsLine
  /\ pos = Len(trace)
  /\ stage' = "ended"
  /\ turn' = "model"
  /\ UNCHANGED <<vars, trace, pos, stall, critical_stall, wait_idle_clk, idle, belowVars>>

PendingCurrent == rpq # <<>> \/ wpq # <<>>

\* What pending() of the memories below may tell.  That of the DRAM looks at one of
\* its queues only, where a read is at the end of its way.
BelowPending ==
  IF memory = "nvram" THEN {owes # {} \/ \E c \in Below : free[c] < NextEntries}
                      ELSE {FALSE, owes # {}}

\* drain() finds nothing to do in the memory controller
Drain ==
  /\ stage = "ended" /\ turn = "driver"
  /\ stage' = "draining"
  /\ UNCHANGED <<vars, trace, pos, stall, critical_stall, wait_idle_clk, idle, turn, belowVars>>

DrainLoop ==
  /\ stage = "draining" /\ turn = "driver"
  /\ \E below \in BelowPending :
       \/ (PendingCurrent \/ below) /\ turn' = "model" /\ UNCHANGED stage
       \/ ~(PendingCurrent \/ below) /\ stage' = "done" /\ UNCHANGED turn
  /\ UNCHANGED <<vars, trace, pos, stall, critical_stall, wait_idle_clk, idle, belowVars>>

Terminated == stage = "done" /\ UNCHANGED traceVars

(***************************************************************************)
(* A tick of the model.  The last one is before run_trace returns.         *)
(***************************************************************************)
IdsOf(q) == {req.id : req \in Queued(q)}

\* two reads below of one address
Collide(x, y) == x.page = y.page /\ x.to = y.to

\* what a step of the controller takes out of its queues has been sent
Sends ==
  LET reads == IdsOf(rpq) \ IdsOf(rpq')
      writes == IdsOf(wpq) \ IdsOf(wpq')
      new == {[line |-> l, page |-> out'[1].page, to |-> out'[1].to] : l \in reads}
  IN  /\ owes' = owes \cup new
      /\ sent' = [l \in Ids |-> sent[l] + IF l \in reads \cup writes THEN 1 ELSE 0]
      /\ shared' = (shared \/ (memory = "nvram" /\ \E x \in new, y \in owes : Collide(x, y)))

StartTick == turn = "model" /\ NextCycle /\ UNCHANGED <<trace, driverVars, belowVars>>
ImcTick == Tick /\ Sends /\ UNCHANGED <<trace, driverVars, memory>>
EndTick ==
  /\ Adr /\ Sends
  /\ turn' = "driver"
  /\ UNCHANGED <<trace, pos, stall, critical_stall, wait_idle_clk, idle, stage, memory>>

MemoryTakes(c) ==
  turn = "driver" /\ stage # "done" /\ NextTakes(c) /\ UNCHANGED <<trace, driverVars, belowVars>>

\* Mutant of Calls: the callback of a critical load is kept for the lines after it.
CallsAny(l) == critical_stall' = FALSE

\* the callback of line l: critical_read_callback, or one without effect
Calls(l) == critical_stall' = (critical_stall /\ trace[l].type # "C")

\* The read x is served.  The RMW buffer has one place for the callback of a block:
\* that of a later read of the address may be called in the place of the own one.
MemoryAnswers(x) ==
  /\ turn = "driver" /\ phase = "idle" /\ stage # "done"
  /\ x \in owes
  /\ owes' = owes \ {x}
  /\ \/ Calls(x.line)
     \/ /\ memory = "nvram"
        /\ \E y \in owes : y.line > x.line /\ Collide(x, y) /\ Calls(y.line)
  /\ UNCHANGED <<vars, trace, pos, stall, wait_idle_clk, idle, stage, turn, memory, sent, shared>>

Driver == NextLine \/ SameLine \/ CriticalWait \/ IdleWait \/ TraceEnd \/ Drain \/ DrainLoop

TraceNext ==
  \/ Driver
  \/ StartTick \/ ImcTick \/ EndTick
  \/ \E c \in Below : MemoryTakes(c)
  \/ \E x \in owes : MemoryAnswers(x)
  \/ Terminated

TraceSpec == TraceInit /\ [][TraceNext]_traceVars

\* The program runs, and the memories below take and answer what they were sent
\* (one condition for all of them, since a trace has finitely many lines).
TraceFairness ==
  /\ WF_traceVars(Driver \/ StartTick \/ ImcTick \/ EndTick)
  /\ SF_traceVars(\E c \in Below : MemoryTakes(c))
  /\ SF_traceVars(\E x \in owes : MemoryAnswers(x))

TraceFairSpec == TraceSpec /\ TraceFairness

(***************************************************************************)
(* Properties                                                              *)
(***************************************************************************)
\* A line that was read, and is not waiting to be issued again, is queued in the
\* controller or was sent below, once: none is skipped by a refusal and none is
\* issued twice.
LinesConserved ==
  \A l \in Ids :
    Cardinality({i \in DOMAIN rpq : rpq[i].id = l})
      + Cardinality({i \in DOMAIN wpq : wpq[i].id = l}) + sent[l]
    = IF l < pos \/ (l = pos /\ ~stall) THEN 1 ELSE 0

\* The driver goes on only when what it waits for was served.  It reads no line
\* past a critical load that is queued or has to be served below, as long as nvram
\* never has to serve two reads of an address at a time: then callbacks are confused
\* and the wait may end early.  run_trace returns when every line was sent; with ddr4
\* reads may still be on their way then.
WaitsUntilServed ==
  /\ ~shared =>
       \A l \in IdsOf(rpq) \cup {x.line : x \in owes} :
         trace[l].type = "C" => l = pos /\ critical_stall
  /\ stage = "done" => \A l \in 1 .. Len(trace) : sent[l] = 1

\* The simulation of a finite trace ends.
SimulationEnds == <>(stage = "done")
=============================================================================
