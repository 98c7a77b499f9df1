------------------------------- MODULE Dram -------------------------------
(***************************************************************************)
(* The DRAM controller: dram_media_controller of                           *)
(* src/src/general/dram_memory.h, over the banks of dram.h and the command *)
(* tables of ddr4.cpp.                                                     *)
(*                                                                         *)
(* One tick: "answer" calls back the read at the head of the pending       *)
(* queue, "refresh" queues the refreshes that are due, "schedule" gives    *)
(* one command to the front request of one queue.  Then (phase "idle") the *)
(* level above issues requests.                                            *)
(*                                                                         *)
(* The timing table is abstracted to its largest delay: a command may find *)
(* the bank busy for less than MaxDelay cycles after the last command, and *)
(* is accepted afterwards.  Depart and refresh clocks count down or up to  *)
(* the current cycle; `arrive' is kept as a rank.  The program has no      *)
(* data; `mem' and `latest' are history, to tell which write a read of a   *)
(* bank sees.  A forwarded read sees no bank: the code looks for a queued  *)
(* write of its line, stops at the first one and copies nothing, so the    *)
(* model gives such a read no value.                                       *)
(***************************************************************************)
EXTENDS Integers, Sequences, FiniteSets

CONSTANTS
  Lines,        \* cache line addresses
  Banks,        \* banks of all ranks
  Ranks,        \* number of ranks
  BankOf,       \* dram_mapping: bank of a line
  RowOf,        \* dram_mapping: row of a line
  RankOf,       \* rank of a bank
  NoRow,        \* the bank is closed
  ReadIds,      \* identities of read callbacks
  NoLine,       \* "this callback is not waiting for a line"
  Values,       \* values of lines, for the history
  NoValue,      \* "this read was forwarded and has seen no bank"
  QueueSize,    \* cfg queue_size
  MaxDelay,     \* largest delay of the timing table
  ReadLatency,  \* nCL + nBL
  Refi          \* nREFI

\* The refreshes of all ranks fit in the queue, and in one interval: a request
\* that was activated, then PREA and REF of every rank, each after MaxDelay.
\* Addresses are mapped to banks that exist; NoRow and NoLine are no row, no line.
ASSUME DramAssumption ==
  /\ Ranks \in Nat \ {0} /\ QueueSize \in Nat /\ QueueSize >= Ranks
  /\ MaxDelay \in Nat \ {0} /\ ReadLatency \in Nat \ {0}
  /\ Refi \in Nat /\ Refi > (2 * Ranks + 1) * MaxDelay
  /\ BankOf \in [Lines -> Banks] /\ RankOf \in [Banks -> 1 .. Ranks]
  /\ NoRow \notin {RowOf[line] : line \in Lines}
  /\ NoLine \notin Lines \cup [line : Lines, val : Values \cup {NoValue}]

VARIABLES
  readq, writeq,  \* read_queue, write_queue
  actq,           \* act_queue: requests whose row was activated
  miscq,          \* misc_queue: ranks to refresh
  pendq,          \* pending_queue: reads that are done at their depart clock
  open,           \* open row of every bank
  quiet,          \* cycles since the last command, up to MaxDelay
  sinceRef,       \* curr_clk - last_refreshed_clk
  phase,          \* the part of tick() that runs next
  wanted,         \* history: the line each outstanding read asked for
  mem,            \* history: value of every line in the banks
  latest          \* history: value of the last write issued to every line

queues == <<readq, writeq, actq, miscq, pendq>>
history == <<wanted, mem, latest>>
vars == <<queues, open, quiet, sinceRef, phase, history>>

RankIds == 1 .. Ranks
Read == [op : {"read"}, line : Lines, id : ReadIds, val : Values, arrive : Nat]
Write == [op : {"write"}, line : Lines, val : Values, arrive : Nat]
Refresh == [op : {"refresh"}, rank : RankIds]
Done == [line : Lines, id : ReadIds, left : -1 .. ReadLatency, val : Values \cup {NoValue}]

Init ==
  /\ readq = <<>> /\ writeq = <<>> /\ actq = <<>> /\ miscq = <<>> /\ pendq = <<>>
  /\ open = [b \in Banks |-> NoRow]
  /\ quiet = MaxDelay /\ sinceRef = 0
  /\ phase = "idle"
  /\ wanted = [r \in ReadIds |-> NoLine]
  /\ mem \in [Lines -> Values] /\ latest = mem

(***************************************************************************)
(* issue_request                                                           *)
(***************************************************************************)
\* Ranks of queued requests are below this one.
Now == 2 * QueueSize

\* a write of the line is still in the write queue
Forwards(line) == \E i \in DOMAIN writeq : writeq[i].line = line

\* Mutant of ReadQueued: a forwarded read is left in the read queue.
ReadQueuedToo(read) == readq' = Append(readq, read)

\* a forwarded read is popped from the read queue again
ReadQueued(read) ==
  readq' = IF Forwards(read.line) THEN readq ELSE Append(readq, read)

\* the value a read expects is the one of the last write before it
IssueRead(line, r) ==
  LET read == [op |-> "read", line |-> line, id |-> r, val |-> latest[line], arrive |-> Now]
  IN  /\ phase = "idle" /\ wanted[r] = NoLine
      /\ Len(readq) < QueueSize
      /\ ReadQueued(read)
      /\ pendq' = IF Forwards(line)
                  THEN Append(pendq, [line |-> line, id |-> r, left |-> 1, val |-> NoValue])
                  ELSE pendq
      /\ wanted' = [wanted EXCEPT ![r] = line]
      /\ UNCHANGED <<writeq, actq, miscq, open, quiet, sinceRef, phase, mem, latest>>

IssueWrite(line, v) ==
  /\ phase = "idle"
  /\ Len(writeq) < QueueSize
  /\ writeq' = Append(writeq, [op |-> "write", line |-> line, val |-> v, arrive |-> Now])
  /\ latest' = [latest EXCEPT ![line] = v]
  /\ UNCHANGED <<readq, actq, miscq, pendq, open, quiet, sinceRef, phase, wanted, mem>>

(***************************************************************************)
(* tick                                                                    *)
(***************************************************************************)
Queued == {readq[i] : i \in DOMAIN readq} \cup {writeq[i] : i \in DOMAIN writeq}
RankIn(arrive) == Cardinality({x.arrive : x \in {y \in Queued : y.arrive < arrive}})
Aged(q) == [i \in DOMAIN q |-> [q[i] EXCEPT !.arrive = RankIn(@)]]

\* the clock moves on
NextCycle ==
  /\ phase = "idle"
  /\ phase' = "answer"
  /\ readq' = Aged(readq) /\ writeq' = Aged(writeq)
  /\ pendq' = [i \in DOMAIN pendq |->
                 [pendq[i] EXCEPT !.left = IF @ >= 0 THEN @ - 1 ELSE @]]
  /\ quiet' = IF quiet < MaxDelay THEN quiet + 1 ELSE quiet
  /\ sinceRef' = sinceRef + 1
  /\ UNCHANGED <<actq, miscq, open, history>>

\* the read at the head of the pending queue is done (-1: since earlier)
AnswerDue == pendq # <<>> /\ Head(pendq).left <= 0

\* one read at a time, in the order of the pending queue
Answer ==
  /\ phase = "answer"
  /\ \/ /\ AnswerDue
        /\ wanted' = [wanted EXCEPT ![Head(pendq).id] = NoLine]
        /\ pendq' = Tail(pendq)
     \/ ~AnswerDue /\ UNCHANGED <<wanted, pendq>>
  /\ phase' = "refresh"
  /\ UNCHANGED <<readq, writeq, actq, miscq, open, quiet, sinceRef, mem, latest>>

\* Mutant of RefreshDue: a cycle late.
RefreshDueLate == sinceRef > Refi

RefreshDue == sinceRef >= Refi

\* every rank is refreshed; a full queue would be an exception
QueueRefresh ==
  /\ phase = "refresh"
  /\ \/ /\ RefreshDue
        /\ miscq' = miscq \o [k \in RankIds |-> [op |-> "refresh", rank |-> k]]
        /\ sinceRef' = 0
     \/ ~RefreshDue /\ UNCHANGED <<miscq, sinceRef>>
  /\ phase' = "schedule"
  /\ UNCHANGED <<readq, writeq, actq, pendq, open, quiet, history>>

(***************************************************************************)
(* schedule: the queue, the command and what it does                       *)
(***************************************************************************)
\* Mutants of WritePrior: a write passes an older read of another line, or wins against
\* a read of the same cycle.
WritePriorPasses ==
  /\ writeq # <<>>
  /\ readq # <<>> => \/ Head(writeq).arrive < Head(readq).arrive
                    \/ Head(writeq).line # Head(readq).line
WritePriorTie ==
  /\ writeq # <<>>
  /\ readq # <<>> => Head(writeq).arrive <= Head(readq).arrive

WritePrior ==
  /\ writeq # <<>>
  /\ readq # <<>> => Head(writeq).arrive < Head(readq).arrive

\* Mutants of Source: a refresh does not wait for activated requests, or
\* waits for all requests.
SourceRefreshFirst ==
  CASE miscq # <<>> -> "misc"
    [] miscq = <<>> /\ actq # <<>> -> "act"
    [] miscq = <<>> /\ actq = <<>> /\ WritePrior -> "write"
    [] OTHER -> "read"
SourceRefreshLast ==
  CASE actq # <<>> -> "act"
    [] actq = <<>> /\ WritePrior -> "write"
    [] actq = <<>> /\ ~WritePrior /\ readq # <<>> -> "read"
    [] OTHER -> "misc"

Source ==
  CASE actq # <<>> -> "act"
    [] actq = <<>> /\ miscq # <<>> -> "misc"
    [] actq = <<>> /\ miscq = <<>> /\ WritePrior -> "write"
    [] OTHER -> "read"

SourceQueue ==
  CASE Source = "act" -> actq [] Source = "misc" -> miscq
    [] Source = "write" -> writeq [] Source = "read" -> readq

\* the front request leaves its queue
Pop ==
  /\ readq' = IF Source = "read" THEN Tail(readq) ELSE readq
  /\ writeq' = IF Source = "write" THEN Tail(writeq) ELSE writeq
  /\ miscq' = IF Source = "misc" THEN Tail(miscq) ELSE miscq

\* get_first_cmd: the first command that the request still needs
FirstCmd(req) ==
  IF req.op = "refresh"
  THEN IF \A b \in Banks : RankOf[b] = req.rank => open[b] = NoRow THEN "REF" ELSE "PREA"
  ELSE CASE open[BankOf[req.line]] = NoRow -> "ACT"
         [] open[BankOf[req.line]] = RowOf[req.line] -> req.op
         [] OTHER -> "PRE"

\* no constraint of the timing table is left
Rested == quiet >= MaxDelay

\* update_timing: any command may delay any other one
UpdateTiming == quiet' = 0

Activate(req) ==
  /\ FirstCmd(req) = "ACT"
  /\ open' = [open EXCEPT ![BankOf[req.line]] = RowOf[req.line]]
  /\ Pop /\ actq' = Append(IF Source = "act" THEN Tail(actq) ELSE actq, req)
  /\ UNCHANGED <<pendq, history>>

Precharge(req) ==
  /\ FirstCmd(req) = "PRE"
  /\ open' = [open EXCEPT ![BankOf[req.line]] = NoRow]
  /\ UNCHANGED <<queues, history>>

PrechargeAll(req) ==
  /\ FirstCmd(req) = "PREA"
  /\ open' = [b \in Banks |-> IF RankOf[b] = req.rank THEN NoRow ELSE open[b]]
  /\ UNCHANGED <<queues, history>>

DoRefresh(req) ==
  /\ FirstCmd(req) = "REF"
  /\ Pop
  /\ UNCHANGED <<actq, pendq, open, history>>

DoRead(req) ==
  /\ FirstCmd(req) = "read"
  /\ pendq' = Append(pendq, [line |-> req.line, id |-> req.id, left |-> ReadLatency,
                             val |-> mem[req.line]])
  /\ Pop /\ actq' = IF Source = "act" THEN Tail(actq) ELSE actq
  /\ UNCHANGED <<open, history>>

DoWrite(req) ==
  /\ FirstCmd(req) = "write"
  /\ mem' = [mem EXCEPT ![req.line] = req.val]
  /\ Pop /\ actq' = IF Source = "act" THEN Tail(actq) ELSE actq
  /\ UNCHANGED <<pendq, open, wanted, latest>>

Schedule ==
  /\ phase = "schedule"
  /\ \/ /\ SourceQueue # <<>>
        /\ LET req == Head(SourceQueue)
           IN  \/ Activate(req) \/ Precharge(req) \/ PrechargeAll(req)
               \/ DoRefresh(req) \/ DoRead(req) \/ DoWrite(req)
        /\ UpdateTiming
     \/ /\ SourceQueue = <<>> \/ ~Rested
        /\ UNCHANGED <<queues, open, quiet, history>>
  /\ phase' = "idle"
  /\ UNCHANGED sinceRef

Tick == Answer \/ QueueRefresh \/ Schedule

Next ==
  \/ \E line \in Lines, r \in ReadIds : IssueRead(line, r)
  \/ \E line \in Lines, v \in Values : IssueWrite(line, v)
  \/ NextCycle
  \/ Tick

Spec == Init /\ [][Next]_vars

\* The controller is ticked for ever.
FairSpec == Spec /\ WF_vars(NextCycle \/ Tick)

(***************************************************************************)
(* Properties                                                              *)
(***************************************************************************)
\* Every variable has its type.
TypeOK ==
  /\ readq \in Seq(Read) /\ writeq \in Seq(Write)
  /\ actq \in Seq(Read \cup Write) /\ miscq \in Seq(Refresh) /\ pendq \in Seq(Done)
  /\ open \in [Banks -> {RowOf[line] : line \in Lines} \cup {NoRow}]
  /\ quiet \in 0 .. MaxDelay /\ sinceRef \in 0 .. Refi
  /\ phase \in {"idle", "answer", "refresh", "schedule"}
  /\ wanted \in [ReadIds -> Lines \cup {NoLine}]
  /\ mem \in [Lines -> Values] /\ latest \in [Lines -> Values]

\* At most one request waits in the act_queue, and its row stays open until it
\* is accessed: neither a refresh nor another request closes the row between,
\* and the queue is never extended while its own front is activated.
ActivatedStaysOpen ==
  /\ Len(actq) <= 1
  /\ \A i \in DOMAIN actq : open[BankOf[actq[i].line]] = RowOf[actq[i].line]

\* When a refresh is due the refreshes of the last interval are done, so the
\* exception "Queue full, cannot issue refresh request" is not reachable.
RefreshInTime == (phase = "refresh" /\ RefreshDue) => miscq = <<>>

\* Where read r is: in one of the queues, with the line it asked for.
Places(r) ==
  {<<"read", i, readq[i].line>> : i \in {j \in DOMAIN readq : readq[j].id = r}}
  \cup {<<"act", i, actq[i].line>> :
          i \in {j \in DOMAIN actq : actq[j].op = "read" /\ actq[j].id = r}}
  \cup {<<"pend", i, pendq[i].line>> : i \in {j \in DOMAIN pendq : pendq[j].id = r}}

\* A read that was accepted is in exactly one queue until its callback is
\* called, for the line it asked for.
ReadsConserved ==
  \A r \in ReadIds :
    IF wanted[r] = NoLine THEN Places(r) = {}
    ELSE \E p \in Places(r) : Places(r) = {p} /\ p[3] = wanted[r]

\* The value that callback r is called with, as far as it is known: expected
\* while the read waits for its access, then the one that it found in the bank.
Asked(r) ==
  LET activated == {x \in {actq[i] : i \in DOMAIN actq} : x.op = "read"}
      reads == {x \in {readq[i] : i \in DOMAIN readq} \cup activated
                      \cup {pendq[i] : i \in DOMAIN pendq} : x.id = r}
      read == CHOOSE x \in reads : TRUE
  IN  IF reads = {} THEN NoLine ELSE [line |-> read.line, val |-> read.val]

\* Lines with a write that has not reached its bank.
Unwritten ==
  {writeq[i].line : i \in DOMAIN writeq}
  \cup {actq[i].line : i \in {j \in DOMAIN actq : actq[j].op = "write"}}

Memory == INSTANCE CoherentMemory
            WITH NoRead <- NoLine, store <- latest, bank <- mem, queued <- Unwritten,
                 asked <- [r \in ReadIds |-> Asked(r)]

\* A read of a bank sees the last write issued before it and no later one, and
\* the banks are left with the last write of every line: the queues of reads and
\* writes, ties of arrival clocks, the activated request and the forwarding never
\* reorder the accesses to a line.  A read is answered without its bank only
\* while a write of its line is under way.  That is, the controller implements a
\* memory with no order among requests but that of their arrival.
ReadsCoherent == Memory!Spec

\* Every read is answered: writes, refreshes and conflicting rows delay it for
\* a bounded time only.
EveryReadAnswered == \A r \in ReadIds : wanted[r] # NoLine ~> wanted[r] = NoLine
=============================================================================
