------------------------------- MODULE Imc -------------------------------
(***************************************************************************)
(* The integrated memory controller: imc_controller of                     *)
(* src/src/general/imc.cpp and imc.h.  Reads and writes wait in queues of  *)
(* their own (rpq, wpq) and are sent, by arrival clock, to the memories    *)
(* below, among which the address space is striped page by page            *)
(* (stride_mapping_4096 of mapping.h).                                     *)
(*                                                                         *)
(* A tick has two steps: the choice of a queue (phase "tick") and the ADR  *)
(* flush of the wpq that ends it (phase "adr").  Between ticks (phase      *)
(* "idle") the driver issues requests and the memories below free slots.   *)
(*                                                                         *)
(* An address is its page number: the offset in the page takes no part.    *)
(* Clocks are kept as ranks: `arrive' and `born' of the requests that are  *)
(* queued are only compared with each other.                               *)
(***************************************************************************)
EXTENDS Integers, Sequences, FiniteSets

CONSTANTS
  Pages,        \* page numbers that the driver uses
  Ids,          \* identities of requests, for the history variables
  Components,   \* number of memories below (organization count)
  RpqEntries,   \* cfg rpq_entries
  WpqEntries,   \* cfg wpq_entries
  NextEntries,  \* lsq_entries of each memory below
  AdrEpoch,     \* cfg adr_epoch, 0 for no ADR
  Stamped       \* does the driver set `arrive' (gem5), or leave it 0 (trace)?

ASSUME ImcAssumption ==
  /\ Pages \subseteq Nat
  /\ Components \in Nat \ {0}
  /\ RpqEntries \in Nat /\ WpqEntries \in Nat /\ NextEntries \in Nat
  /\ AdrEpoch \in Nat
  /\ Stamped \in BOOLEAN

VARIABLES
  rpq,    \* read pending queue
  wpq,    \* write pending queue
  free,   \* free slots of every memory below
  clk,    \* imc_curr_clk modulo adr_epoch
  phase,  \* "tick", "adr" or "idle"
  out     \* history: what the last step sent down, in order

vars == <<rpq, wpq, free, clk, phase, out>>

Below == 0 .. Components - 1

\* `page' is req.addr, `orig' and `born' remember what the driver asked and when
Request == [id : Ids, page : Nat, orig : Pages, arrive : Nat, born : Nat]
Delivery == [op : {"read", "write"}, page : Nat, orig : Pages, born : Nat, to : Below]

(***************************************************************************)
(* stride_mapping_4096: address inside the component, and the component    *)
(***************************************************************************)
MapPage(page) == page \div Components
MapComponent(page) == page % Components

Send(op, req, page) ==
  [op |-> op, page |-> page, orig |-> req.orig, born |-> req.born,
   to |-> MapComponent(req.page)]

Init ==
  /\ rpq = <<>> /\ wpq = <<>>
  /\ free = [c \in Below |-> NextEntries]
  /\ clk = 0
  /\ phase = "idle"
  /\ out = <<>>

(***************************************************************************)
(* The driver                                                              *)
(***************************************************************************)
Queued(q) == {q[i] : i \in DOMAIN q}
Waiting == Queued(rpq) \cup Queued(wpq)
FreeId(i) == \A req \in Waiting : req.id # i

\* Ranks of queued requests are below this one.
Now == RpqEntries + WpqEntries

NewRequest(i, page) ==
  [id |-> i, page |-> page, orig |-> page,
   arrive |-> IF Stamped THEN Now ELSE 0, born |-> Now]

IssueRead(i, page) ==
  /\ phase = "idle" /\ FreeId(i)
  /\ Len(rpq) < RpqEntries
  /\ rpq' = Append(rpq, NewRequest(i, page))
  /\ out' = <<>>
  /\ UNCHANGED <<wpq, free, clk, phase>>

IssueWrite(i, page) ==
  /\ phase = "idle" /\ FreeId(i)
  /\ Len(wpq) < WpqEntries
  /\ wpq' = Append(wpq, NewRequest(i, page))
  /\ out' = <<>>
  /\ UNCHANGED <<rpq, free, clk, phase>>

\* a memory below takes a request from its queue
NextTakes(c) ==
  /\ phase = "idle" /\ free[c] < NextEntries
  /\ free' = [free EXCEPT ![c] = @ + 1]
  /\ out' = <<>>
  /\ UNCHANGED <<rpq, wpq, clk, phase>>

\* Between two ticks the clock moves: the ranks are made dense again.
RankOf(born) == Cardinality({req.born : req \in {x \in Waiting : x.born < born}})
Aged(q) ==
  [i \in DOMAIN q |-> [q[i] EXCEPT !.born = RankOf(@),
                                   !.arrive = IF Stamped THEN RankOf(q[i].born) ELSE 0]]

NextCycle ==
  /\ phase = "idle"
  /\ phase' = "tick"
  /\ rpq' = Aged(rpq) /\ wpq' = Aged(wpq)
  /\ out' = <<>>
  /\ UNCHANGED <<free, clk>>

(***************************************************************************)
(* tick                                                                    *)
(***************************************************************************)
ReadChosen ==
  /\ rpq # <<>>
  /\ wpq # <<>> => Head(rpq).arrive < Head(wpq).arrive

\* The address is replaced before the memory below is asked for room.
TickRead ==
  LET req == Head(rpq)
      mapped == MapPage(req.page)
      to == MapComponent(req.page)
  IN  /\ phase = "tick" /\ ReadChosen
      /\ \/ /\ free[to] > 0
            /\ rpq' = Tail(rpq)
            /\ free' = [free EXCEPT ![to] = @ - 1]
            /\ out' = <<Send("read", req, mapped)>>
         \/ /\ free[to] = 0
            /\ rpq' = [rpq EXCEPT ![1].page = mapped]
            /\ out' = <<>>
            /\ UNCHANGED free
      /\ phase' = "adr"
      /\ UNCHANGED <<wpq, clk>>

\* Mutant of CanFlush: an older read is passed.
CanFlushPasses(i) ==
  LET to == MapComponent(wpq[i].page)
  IN  Cardinality({j \in 1 .. i : MapComponent(wpq[j].page) = to}) <= free[to]

\* write i of the wpq can go once those before it have gone
CanFlush(i) ==
  LET to == MapComponent(wpq[i].page)
  IN  /\ rpq # <<>> => Head(rpq).arrive >= wpq[i].arrive
      /\ Cardinality({j \in 1 .. i : MapComponent(wpq[j].page) = to}) <= free[to]

\* flush_wpq: the writes up to the first one that has to stay.  The mapped
\* address is discarded; the request goes down with the address it came with.
FlushWpq ==
  \E n \in 0 .. Len(wpq) :
    /\ \A i \in 1 .. n : CanFlush(i)
    /\ n < Len(wpq) => ~CanFlush(n + 1)
    /\ wpq' = SubSeq(wpq, n + 1, Len(wpq))
    /\ free' = [c \in Below |->
                  free[c] - Cardinality({i \in 1 .. n : MapComponent(wpq[i].page) = c})]
    /\ out' = [i \in 1 .. n |-> Send("write", wpq[i], wpq[i].page)]

TickWrite ==
  /\ phase = "tick" /\ wpq # <<>> /\ ~ReadChosen
  /\ \/ Len(wpq) = WpqEntries /\ FlushWpq
     \/ Len(wpq) # WpqEntries /\ out' = <<>> /\ UNCHANGED <<wpq, free>>
  /\ phase' = "adr"
  /\ UNCHANGED <<rpq, clk>>

TickNone ==
  /\ phase = "tick" /\ rpq = <<>> /\ wpq = <<>>
  /\ phase' = "adr"
  /\ out' = <<>>
  /\ UNCHANGED <<rpq, wpq, free, clk>>

\* Mutant of AdrDue: a counter that has wrapped is compared with the epoch.
AdrDueNever == AdrEpoch # 0 /\ clk = AdrEpoch

AdrDue == AdrEpoch # 0 /\ (clk + 1) % AdrEpoch = 0

Adr ==
  /\ phase = "adr"
  /\ \/ wpq # <<>> /\ AdrDue /\ FlushWpq
     \/ ~(wpq # <<>> /\ AdrDue) /\ out' = <<>> /\ UNCHANGED <<wpq, free>>
  /\ clk' = IF AdrEpoch = 0 THEN 0 ELSE (clk + 1) % AdrEpoch
  /\ phase' = "idle"
  /\ UNCHANGED rpq

Tick == TickRead \/ TickWrite \/ TickNone

Next ==
  \/ \E i \in Ids, page \in Pages : IssueRead(i, page) \/ IssueWrite(i, page)
  \/ \E c \in Below : NextTakes(c)
  \/ NextCycle
  \/ Tick
  \/ Adr

Spec == Init /\ [][Next]_vars

(***************************************************************************)
(* Properties                                                              *)
(***************************************************************************)
\* Every variable has its type and no queue exceeds its capacity.
TypeOK ==
  /\ rpq \in Seq(Request) /\ Len(rpq) <= RpqEntries
  /\ wpq \in Seq(Request) /\ Len(wpq) <= WpqEntries
  /\ free \in [Below -> 0 .. NextEntries]
  /\ clk \in Nat
  /\ phase \in {"tick", "adr", "idle"}
  /\ out \in Seq(Delivery)

\* "First come first serve" (imc.cpp): a request that was issued in an
\* earlier cycle is never left behind, in either queue, by one that is sent.
FirstComeFirstServe ==
  \A i \in DOMAIN out : \A req \in Waiting : out[i].born <= req.born

\* A delivery goes to the component of the page that was asked for, with the
\* "address inside the component" (mapping.h).
Mapped(d) == d.page = MapPage(d.orig) /\ d.to = MapComponent(d.orig)

\* A read is delivered where it was mapped to, also when it had to wait for
\* room and was tried again.
ReadsMappedOnce ==
  \A i \in DOMAIN out : out[i].op = "read" => Mapped(out[i])
=============================================================================
