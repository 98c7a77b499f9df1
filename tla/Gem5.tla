-------------------------------- MODULE Gem5 --------------------------------
(***************************************************************************)
(* VANS as a memory of gem5: the object VANS of src/src/gem5/patch/vans.cc *)
(* with its wrapper (gem5/wrapper.cpp) and the root memory controller      *)
(* (general/rmc.h), on top of the memory controller Imc.                   *)
(*                                                                         *)
(* gem5 calls recvTimingReq with a packet, which is refused while the      *)
(* queues are full; tick ends with a retry.  An accepted packet is filed   *)
(* under its address until the callback of VANS finds it there.  Responses *)
(* leave one at a time, by an event or, after the peer refused one, by the *)
(* peer's retry.                                                           *)
(*                                                                         *)
(* External: the peer port, gem5's event queue and its drain manager.      *)
(***************************************************************************)
EXTENDS Imc

CONSTANTS
  StartAddr,  \* cfg start_addr of rmc, in pages
  PageOf,     \* the page above it that a packet is about
  NoPacket,
  Watched     \* packets that the liveness property follows; the others are alike

ASSUME Gem5Assumption == StartAddr \in Nat /\ PageOf \in [Ids -> Pages] /\ Watched \subseteq Ids

VARIABLES
  reads, writes,   \* address -> packets that wait for a callback
  resp_queue,
  reqs_in_flight,
  resp_stall,      \* the peer refused a response and will ask for it
  req_stall,       \* a request was refused, tick will ask for it
  scheduled,       \* is send_resp_event scheduled?
  drain_state,     \* what gem5's drain manager knows about this object
  peer,            \* the refused packet of the peer and whether it may resend
  below,           \* address -> number of reads that the memories below owe
  owed             \* history: packets sent, and refused or not answered yet

portVars == <<reads, writes, resp_queue, reqs_in_flight, resp_stall, req_stall,
              scheduled, drain_state, peer, below, owed>>
gem5Vars == <<vars, portVars>>

(***************************************************************************)
(* Packets.  A read or write goes through the memory; "other" commands are *)
(* answered at once.  Write-backs and clean evictions need no response; a  *)
(* "snooped" packet is one that a cache responds to.                       *)
(***************************************************************************)
Kinds == {"read", "write", "writeback", "other", "evict", "snooped"}
NeedsResponse(kind) == kind \in {"read", "write", "other"}

GemAddrs == {page + StartAddr : page \in Pages}
Addrs == GemAddrs \cup Pages
Packet == {pkt \in [id : Ids, kind : Kinds, addr : GemAddrs] :
             pkt.addr = PageOf[pkt.id] + StartAddr}
NoPeer == [pkt |-> NoPacket, state |-> "free"]

ASSUME PacketAssumption == NoPacket \notin Packet

Filed(f) == UNION {Queued(f[a]) : a \in Addrs}
FreePacket(i) ==
  /\ i \notin Filed(reads) \cup Filed(writes) \cup Queued(resp_queue)
  /\ peer.pkt # NoPacket => peer.pkt.id # i

NumOutstanding == reqs_in_flight + Len(resp_queue)

Gem5Init ==
  /\ Init
  /\ reads = [a \in Addrs |-> <<>>] /\ writes = [a \in Addrs |-> <<>>]
  /\ resp_queue = <<>>
  /\ reqs_in_flight = 0
  /\ resp_stall = FALSE /\ req_stall = FALSE
  /\ scheduled = FALSE
  /\ drain_state = "Running"
  /\ peer = NoPeer
  /\ below = [a \in Addrs |-> 0]
  /\ owed = {}

(***************************************************************************)
(* Responses                                                               *)
(***************************************************************************)
\* Mutant of ScheduleSend: the event is scheduled although the peer stalls.
ScheduleSendAlways == scheduled' = TRUE

ScheduleSend == scheduled' = (scheduled \/ ~resp_stall)

\* accessAndRespond for a packet of the given kind
AccessAndRespond(i, kind) ==
  \/ /\ NeedsResponse(kind)
     /\ resp_queue' = Append(resp_queue, i)
     /\ ScheduleSend
  \/ ~NeedsResponse(kind) /\ UNCHANGED <<resp_queue, scheduled>>

\* signalDrainDone of gem5, called when nothing is outstanding
SignalDrainDone ==
  drain_state' = IF drain_state = "Draining" /\ NumOutstanding' = 0
                 THEN "Drained" ELSE drain_state

\* `pending' tells whether the event is scheduled when sendResponse is called
SendResponse(pending) ==
  /\ resp_queue # <<>>
  /\ \/ /\ resp_queue' = Tail(resp_queue)
        /\ owed' = owed \ {Head(resp_queue)}
        /\ scheduled' = (pending \/ Len(resp_queue) > 1)
        /\ resp_stall' = FALSE
        /\ UNCHANGED reqs_in_flight
        /\ SignalDrainDone
     \/ /\ resp_stall' = TRUE
        /\ scheduled' = pending
        /\ UNCHANGED <<resp_queue, owed, reqs_in_flight, drain_state>>
  /\ UNCHANGED <<vars, reads, writes, req_stall, peer, below>>

SendRespEvent == phase = "idle" /\ scheduled /\ ~resp_stall /\ SendResponse(FALSE)

RecvRespRetry == phase = "idle" /\ resp_stall /\ SendResponse(scheduled)

(***************************************************************************)
(* Requests                                                                *)
(***************************************************************************)
\* rmc passes the address on relative to its start address
RmcAddr(addr) == addr - StartAddr

Respond(pkt) ==
  /\ AccessAndRespond(pkt.id, pkt.kind)
  /\ owed' = IF NeedsResponse(pkt.kind) THEN owed \cup {pkt.id} ELSE owed \ {pkt.id}

\* Mutant of CountRequest: a request is not counted.
CountRequestNot == UNCHANGED reqs_in_flight

CountRequest == reqs_in_flight' = reqs_in_flight + 1

\* send takes a copy of the request: the packet is filed under gem5's address
RecvRead(pkt) ==
  /\ pkt.kind = "read" /\ ~req_stall
  /\ IssueRead(pkt.id, RmcAddr(pkt.addr))
  /\ reads' = [reads EXCEPT ![pkt.addr] = Append(@, pkt.id)]
  /\ CountRequest
  /\ owed' = owed \cup {pkt.id}
  /\ UNCHANGED <<writes, resp_queue, scheduled>>

\* a write is answered when it is accepted
RecvWrite(pkt) ==
  /\ pkt.kind \in {"write", "writeback"} /\ ~req_stall
  /\ IssueWrite(pkt.id, RmcAddr(pkt.addr))
  /\ writes' = [writes EXCEPT ![pkt.addr] = Append(@, pkt.id)]
  /\ CountRequest
  /\ Respond(pkt)
  /\ UNCHANGED reads

RecvOther(pkt) ==
  /\ pkt.kind \in {"other", "evict"} /\ ~req_stall
  /\ Respond(pkt)
  /\ UNCHANGED <<vars, reads, writes, reqs_in_flight>>

RecvSnooped(pkt) ==
  /\ pkt.kind = "snooped"
  /\ UNCHANGED <<vars, reads, writes, reqs_in_flight, resp_queue, scheduled, owed>>

Refused(pkt) ==
  /\ \/ pkt.kind = "read" /\ Len(rpq) = RpqEntries
     \/ pkt.kind \in {"write", "writeback"} /\ Len(wpq) = WpqEntries
  /\ req_stall' = TRUE

RecvTimingReq(pkt) ==
  /\ phase = "idle"
  /\ \/ /\ RecvRead(pkt) \/ RecvWrite(pkt) \/ RecvOther(pkt) \/ RecvSnooped(pkt)
        /\ peer' = NoPeer
        /\ UNCHANGED req_stall
     \/ /\ ~req_stall /\ Refused(pkt)
        /\ peer' = [pkt |-> pkt, state |-> "waiting"]
        /\ owed' = owed \cup {pkt.id}
        /\ UNCHANGED <<vars, reads, writes, reqs_in_flight, resp_queue, scheduled>>
  /\ UNCHANGED <<resp_stall, drain_state, below>>

\* The peer sends a new packet, or the one that was refused once it was asked.
NewPacket(pkt) == peer = NoPeer /\ FreePacket(pkt.id) /\ RecvTimingReq(pkt)
Resend == peer.state = "retry" /\ RecvTimingReq(peer.pkt)

(***************************************************************************)
(* Callbacks and the tick                                                  *)
(***************************************************************************)
\* Mutant of Popped: the packet that was answered stays filed.
PoppedNot(q, n) == q

Popped(q, n) == SubSeq(q, n + 1, Len(q))

\* Mutant of Answered: the youngest packet is answered, the oldest one popped.
AnsweredLast(q) == q[Len(q)]

Answered(q) == Head(q)

\* readComplete, called by a memory below with the address that it was sent
ReadComplete(a) ==
  /\ phase = "idle" /\ below[a] > 0
  /\ reads[a] # <<>> /\ reqs_in_flight > 0
  /\ below' = [below EXCEPT ![a] = @ - 1]
  /\ reads' = [reads EXCEPT ![a] = Popped(@, 1)]
  /\ reqs_in_flight' = reqs_in_flight - 1
  /\ AccessAndRespond(Answered(reads[a]), "read")
  /\ UNCHANGED <<vars, writes, resp_stall, req_stall, drain_state, peer, owed>>

\* the writes that this step sends; their callback is writeComplete
SentWrites == {i \in DOMAIN out' : out'[i].op = "write"}

\* Mutant of WriteSignals: only responses are thought to end a drain.
WriteSignalsNot == UNCHANGED drain_state

WriteSignals == IF SentWrites = {} THEN UNCHANGED drain_state ELSE SignalDrainDone

\* writeComplete for the writes that were sent, and the new reads below
Sent(op, a) == {i \in DOMAIN out' : out'[i].op = op /\ out'[i].page = a}

\* writeComplete finds the packet of every write that was sent.  When there is none,
\* which a start address brings about, it dereferences writes.end(): the process
\* crashes, and the model stops in the middle of the tick.
WritesFiled ==
  \A i \in SentWrites :
    LET a == out'[i].page
    IN  a \in Addrs /\ Cardinality(Sent("write", a)) <= Len(writes[a])

WriteComplete ==
  /\ WritesFiled
  /\ writes' = [a \in Addrs |-> Popped(writes[a], Cardinality(Sent("write", a)))]
  /\ reqs_in_flight' = reqs_in_flight - Cardinality(SentWrites)
  /\ below' = [a \in Addrs |-> below[a] + Cardinality(Sent("read", a))]
  /\ UNCHANGED <<reads, resp_queue, resp_stall, scheduled, owed>>
  /\ WriteSignals

WrapperTick == Tick /\ WriteComplete /\ UNCHANGED <<req_stall, peer>>

\* Mutant of RetryReq: the flag is reset and nobody is told.
RetryReqSilent == req_stall' = FALSE /\ UNCHANGED peer

\* the end of tick: the peer may send the refused packet again
RetryReq ==
  /\ req_stall' = FALSE
  /\ peer' = IF req_stall THEN [peer EXCEPT !.state = "retry"] ELSE peer

EndTick == Adr /\ WriteComplete /\ RetryReq

Gem5Cycle == NextCycle /\ UNCHANGED portVars
MemoryTakes == \E c \in Below : NextTakes(c) /\ UNCHANGED portVars

(***************************************************************************)
(* The drain manager asks, and lets the system run again once it is told.  *)
(***************************************************************************)
Drain ==
  /\ phase = "idle" /\ drain_state = "Running"
  /\ drain_state' = IF NumOutstanding > 0 THEN "Draining" ELSE "Drained"
  /\ UNCHANGED <<vars, reads, writes, resp_queue, reqs_in_flight, resp_stall,
                 req_stall, scheduled, peer, below, owed>>

Resume ==
  /\ phase = "idle" /\ drain_state = "Drained"
  /\ drain_state' = "Running"
  /\ UNCHANGED <<vars, reads, writes, resp_queue, reqs_in_flight, resp_stall,
                 req_stall, scheduled, peer, below, owed>>

Gem5Next ==
  \/ \E pkt \in Packet : NewPacket(pkt)
  \/ Resend
  \/ SendRespEvent
  \/ RecvRespRetry
  \/ \E a \in Addrs : ReadComplete(a)
  \/ Gem5Cycle
  \/ WrapperTick
  \/ EndTick
  \/ MemoryTakes
  \/ Drain
  \/ Resume

Gem5Spec == Gem5Init /\ [][Gem5Next]_gem5Vars

\* a response that the peer takes
Delivered == (SendRespEvent \/ RecvRespRetry) /\ resp_queue' # resp_queue

\* gem5 ticks for ever; a memory below takes and answers what it was sent; a
\* peer that refused a response asks for it and takes it in the end, and sends
\* a refused packet again when it is asked.
Gem5Fairness ==
  /\ WF_gem5Vars(Gem5Cycle \/ WrapperTick \/ EndTick)
  /\ SF_gem5Vars(MemoryTakes)
  /\ \A a \in Addrs : SF_gem5Vars(ReadComplete(a))
  /\ SF_gem5Vars(Delivered)
  /\ SF_gem5Vars(Resend)

Gem5FairSpec == Gem5Spec /\ Gem5Fairness

(***************************************************************************)
(* Properties                                                              *)
(***************************************************************************)
\* Every variable of the memory controller and of the port has its type; the
\* counter of requests never drops below zero.
Gem5TypeOK ==
  /\ TypeOK
  /\ reads \in [Addrs -> Seq(Ids)] /\ writes \in [Addrs -> Seq(Ids)]
  /\ resp_queue \in Seq(Ids)
  /\ reqs_in_flight \in Nat
  /\ resp_stall \in BOOLEAN /\ req_stall \in BOOLEAN /\ scheduled \in BOOLEAN
  /\ drain_state \in {"Running", "Draining", "Drained"}
  /\ peer \in [pkt : Packet \cup {NoPacket}, state : {"free", "waiting", "retry"}]
  /\ below \in [Addrs -> Nat]
  /\ owed \subseteq Ids

\* "assert(reads.count(addr) != 0)" (vans.cc 226): a read that a memory below
\* calls back is filed under the address of the callback.
AnswerFindsPacket == \A a \in Addrs : below[a] > 0 => reads[a] # <<>>

\* The packets filed under an address are as many as the requests to it that
\* are queued in the memory controller or owed by a memory below, so that no
\* callback finds its queue empty or answers a packet too many.
RequestsMatchPackets ==
  \A a \in Addrs :
    /\ Len(writes[a]) = Cardinality({i \in DOMAIN wpq : wpq[i].page = a})
    /\ Len(reads[a]) = Cardinality({i \in DOMAIN rpq : rpq[i].page = a})
                       + below[a]

\* sendResponse asserts that it is not stalled and has something to send.  A
\* queued response has exactly one waker: the event, or the peer's retry.
OneWaker ==
  /\ resp_queue # <<>> <=> scheduled \/ resp_stall
  /\ ~(scheduled /\ resp_stall)

\* A packet is held by the peer that has to send it again, filed as a read or
\* queued as a response, in one place, until it is delivered (or, without a
\* response, accepted).  So none is lost and none is answered twice.
PacketsConserved ==
  LET places(i) == UNION {{a} \X {n \in DOMAIN reads[a] : reads[a][n] = i} : a \in Addrs}
      answers(i) == {n \in DOMAIN resp_queue : resp_queue[n] = i}
  IN  \A i \in Ids : Cardinality(places(i)) + Cardinality(answers(i))
                     + (IF peer.pkt # NoPacket /\ peer.pkt.id = i THEN 1 ELSE 0)
                     = IF i \in owed THEN 1 ELSE 0

\* "if (num_outstanding() == 0) signalDrainDone()" is in two of the places where
\* the number drops: the last one to drop it never leaves the drain manager
\* waiting for an object that has nothing left to do.
DrainIsSignalled == drain_state = "Draining" => NumOutstanding > 0

\* Every packet is accepted, also when it was refused at first, and answered.
EveryPacketAnswered == \A i \in Watched : i \in owed ~> i \notin owed
=============================================================================
