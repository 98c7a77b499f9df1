------------------------------ MODULE Gem5Proofs ------------------------------
(***************************************************************************)
(* Machine-checked proofs about Gem5, for every set of packets and pages,  *)
(* every size of the controller and every start address: the port uses the *)
(* memory controller as it is specified, wakes its responses, signals the  *)
(* end of a drain, and loses no packet.                                    *)
(***************************************************************************)
EXTENDS Gem5, ImcProofs

USE ImcAssumption, Gem5Assumption, PacketAssumption

(***************************************************************************)
(* The invariant                                                           *)
(***************************************************************************)
PortTypeOK ==
  /\ reads \in [Addrs -> Seq(Ids)] /\ writes \in [Addrs -> Seq(Ids)]
  /\ resp_queue \in Seq(Ids)
  /\ reqs_in_flight \in Nat
  /\ resp_stall \in BOOLEAN /\ req_stall \in BOOLEAN /\ scheduled \in BOOLEAN
  /\ drain_state \in {"Running", "Draining", "Drained"}
  /\ peer \in [pkt : Packet \cup {NoPacket}, state : {"free", "waiting", "retry"}]
  /\ below \in [Addrs -> Nat]
  /\ owed \subseteq Ids

\* A peer that waits for a retry holds the refused packet, and a retry is due.
PeerOK ==
  /\ req_stall <=> peer.state = "waiting"
  /\ peer.state = "free" <=> peer.pkt = NoPacket

\* the reads that the memories below owe, one by one
Owing(f) == UNION {{a} \X (1 .. f[a]) : a \in Addrs}

\* Every request of the controller, and every read below, is counted.
FlightOK ==
  /\ IsFiniteSet(Owing(below))
  /\ reqs_in_flight >= Len(rpq) + Len(wpq) + Cardinality(Owing(below))

Gem5Inv == TypeOK /\ PortTypeOK /\ PeerOK /\ FlightOK /\ OneWaker /\ DrainIsSignalled

(***************************************************************************)
(* The port uses the memory controller as it is specified.                 *)
(***************************************************************************)
\* Packets have their fields.
LEMMA PacketTypes ==
  ASSUME NEW pkt \in Packet
  PROVE  /\ pkt.id \in Ids /\ pkt.kind \in Kinds /\ pkt.addr \in Addrs
         /\ RmcAddr(pkt.addr) = PageOf[pkt.id] /\ RmcAddr(pkt.addr) \in Pages
         /\ pkt # NoPacket
<1>1. /\ pkt.id \in Ids /\ pkt.kind \in Kinds /\ pkt.addr \in GemAddrs
      /\ pkt.addr = PageOf[pkt.id] + StartAddr
  BY DEF Packet
<1>2. PageOf[pkt.id] \in Pages /\ PageOf[pkt.id] \in Nat
  BY <1>1
<1>3. RmcAddr(pkt.addr) = PageOf[pkt.id]
  BY <1>1, <1>2 DEF RmcAddr
<1> QED
  BY <1>1, <1>2, <1>3 DEF Addrs

\* A packet that arrives is a request, or does not reach the controller.
LEMMA RecvImc ==
  ASSUME NEW pkt \in Packet, RecvTimingReq(pkt)
  PROVE  [Next]_vars
<1>1. pkt.id \in Ids /\ RmcAddr(pkt.addr) \in Pages
  BY PacketTypes
<1>2. CASE IssueRead(pkt.id, RmcAddr(pkt.addr)) \/ IssueWrite(pkt.id, RmcAddr(pkt.addr))
  BY <1>1, <1>2 DEF Next
<1>3. CASE UNCHANGED vars
  BY <1>3
<1> QED
  BY <1>2, <1>3 DEF RecvTimingReq, RecvRead, RecvWrite, RecvOther, RecvSnooped

\* A peer that was asked to send again has a packet.
LEMMA ResendsPacket ==
  ASSUME PortTypeOK, PeerOK, peer.state = "retry"
  PROVE  peer.pkt \in Packet
<1>1. peer.pkt \in Packet \cup {NoPacket}
  BY DEF PortTypeOK
<1> QED
  BY <1>1 DEF PeerOK

\* Every step of the port is a step of the memory controller or leaves it alone.
LEMMA Gem5Imc ==
  ASSUME PortTypeOK, PeerOK, [Gem5Next]_gem5Vars
  PROVE  [Next]_vars
<1>1. ASSUME NEW pkt \in Packet, NewPacket(pkt) PROVE [Next]_vars
  BY <1>1, RecvImc DEF NewPacket
<1>2. CASE Resend
  BY <1>2, RecvImc, ResendsPacket DEF Resend
<1>3. CASE SendRespEvent \/ RecvRespRetry
  BY <1>3 DEF SendRespEvent, RecvRespRetry, SendResponse
<1>4. ASSUME NEW a \in Addrs, ReadComplete(a) PROVE [Next]_vars
  BY <1>4 DEF ReadComplete
<1>5. CASE Gem5Cycle \/ WrapperTick \/ EndTick
  BY <1>5 DEF Gem5Cycle, WrapperTick, EndTick, Next
<1>6. CASE MemoryTakes
  BY <1>6 DEF MemoryTakes, Next
<1>7. CASE Drain \/ Resume
  BY <1>7 DEF Drain, Resume
<1>8. CASE UNCHANGED gem5Vars
  BY <1>8 DEF gem5Vars
<1> QED
  BY <1>1, <1>2, <1>3, <1>4, <1>5, <1>6, <1>7, <1>8 DEF Gem5Next

(***************************************************************************)
(* Counting                                                                *)
(***************************************************************************)
\* One read more below is one read more to answer.
LEMMA OwingAdds ==
  ASSUME NEW f \in [Addrs -> Nat], NEW g \in [Addrs -> Nat], NEW a \in Addrs,
         g[a] = f[a] + 1, \A b \in Addrs \ {a} : g[b] = f[b],
         IsFiniteSet(Owing(f)) \/ IsFiniteSet(Owing(g))
  PROVE  /\ IsFiniteSet(Owing(f)) /\ IsFiniteSet(Owing(g))
         /\ Cardinality(Owing(f)) \in Nat
         /\ Cardinality(Owing(g)) = Cardinality(Owing(f)) + 1
<1> DEFINE x == <<a, f[a] + 1>>
<1>1. f[a] \in Nat /\ 1 .. g[a] = (1 .. f[a]) \cup {f[a] + 1} /\ f[a] + 1 \notin 1 .. f[a]
  OBVIOUS
<1>2. \A y : y \in Owing(f) <=> \E b \in Addrs : \E n \in 1 .. f[b] : y = <<b, n>>
  BY DEF Owing
<1>3. \A y : y \in Owing(g) <=> \E b \in Addrs : \E n \in 1 .. g[b] : y = <<b, n>>
  BY DEF Owing
<1>4. x \notin Owing(f)
  BY <1>1, <1>2
<1>5. Owing(g) = Owing(f) \cup {x}
  <2>1. ASSUME NEW y \in Owing(g) PROVE y \in Owing(f) \cup {x}
    <3>4. PICK b \in Addrs : \E n \in 1 .. g[b] : y = <<b, n>>
      BY <1>3
    <3>1. PICK n \in 1 .. g[b] : y = <<b, n>>
      BY <3>4
    <3>2. CASE b = a
      BY <1>1, <1>2, <3>1, <3>2
    <3>3. CASE b # a
      BY <1>2, <3>1, <3>3
    <3> QED
      BY <3>2, <3>3
  <2>2. ASSUME NEW y \in Owing(f) PROVE y \in Owing(g)
    <3>4. PICK b \in Addrs : \E n \in 1 .. f[b] : y = <<b, n>>
      BY <1>2
    <3>1. PICK n \in 1 .. f[b] : y = <<b, n>>
      BY <3>4
    <3>2. n \in 1 .. g[b]
      <4>1. CASE b = a
        BY <1>1, <3>1, <4>1
      <4>2. CASE b # a
        BY <3>1, <4>2
      <4> QED
        BY <4>1, <4>2
    <3> QED
      BY <1>3, <3>1, <3>2
  <2>3. x \in Owing(g)
    BY <1>1, <1>3
  <2> QED
    BY <2>1, <2>2, <2>3
<1> HIDE DEF x
<1>6. Owing(f) \in SUBSET Owing(g)
  BY <1>5
<1>7. IsFiniteSet(Owing(f))
  BY <1>6, FS_Subset
<1> QED
  BY <1>4, <1>5, <1>7, FS_AddElement, FS_CardinalityType

\* What the callbacks of a step are counted by.
LEMMA SentFacts ==
  ASSUME TypeOK
  PROVE  /\ Stays => /\ SentWrites = {}
                     /\ \A op, a : Sent(op, a) = {}
         /\ ReadGoes => /\ SentWrites = {}
                        /\ \A a : Sent("write", a) = {}
                        /\ \A a : Sent("read", a) = IF a = MapPage(Head(rpq).page)
                                                    THEN {1} ELSE {}
         /\ \A n \in 0 .. Len(wpq) :
              WritesGo(n) => /\ SentWrites = 1 .. n
                             /\ \A a : Sent("read", a) = {}
                             /\ \A a : Sent("write", a) = {i \in 1 .. n : wpq[i].page = a}
<1>1. rpq \in Seq(Request) /\ wpq \in Seq(Request)
  BY DEF TypeOK
<1>2. ASSUME Stays
      PROVE  SentWrites = {} /\ \A op, a : Sent(op, a) = {}
  BY <1>2 DEF Stays, SentWrites, Sent
<1>3. ASSUME ReadGoes
      PROVE  /\ SentWrites = {} /\ \A a : Sent("write", a) = {}
             /\ \A a : Sent("read", a) = IF a = MapPage(Head(rpq).page) THEN {1} ELSE {}
  <2> DEFINE d == Send("read", Head(rpq), MapPage(Head(rpq).page))
  <2>1. out' = <<d>>
    BY <1>3 DEF ReadGoes
  <2>2. d.op = "read" /\ d.page = MapPage(Head(rpq).page)
    BY DEF Send
  <2> HIDE DEF d
  <2>3. DOMAIN out' = {1} /\ out'[1] = d
    BY <2>1
  <2> QED
    BY <2>2, <2>3 DEF SentWrites, Sent
<1>4. ASSUME NEW n \in 0 .. Len(wpq), WritesGo(n)
      PROVE  /\ SentWrites = 1 .. n /\ \A a : Sent("read", a) = {}
             /\ \A a : Sent("write", a) = {i \in 1 .. n : wpq[i].page = a}
  <2>1. out' = [i \in 1 .. n |-> Send("write", wpq[i], wpq[i].page)]
    BY <1>4 DEF WritesGo
  <2>2. DOMAIN out' = 1 .. n
    BY <2>1
  <2>3. \A i \in 1 .. n : out'[i].op = "write" /\ out'[i].page = wpq[i].page
    BY <2>1 DEF Send
  <2> QED
    BY <2>2, <2>3 DEF SentWrites, Sent
<1> QED
  BY <1>2, <1>3, <1>4

(***************************************************************************)
(* Ticks                                                                   *)
(***************************************************************************)
\* What Popped leaves of a queue.
LEMMA PoppedType ==
  ASSUME NEW q \in Seq(Ids), NEW n \in Nat
  PROVE  Popped(q, n) \in Seq(Ids)
<1>1. PICK m \in Int, k \in Int : m = n + 1 /\ k = Len(q)
  <2>1. n + 1 \in Int /\ Len(q) \in Int
    OBVIOUS
  <2> QED
    BY <2>1, Zenon
<1>2. \A i \in m .. k : q[i] \in Ids
  BY <1>1
<1>3. SubSeq(q, m, k) \in Seq(Ids)
  BY <1>2, SubSeqProperties
<1> QED
  BY <1>1, <1>3 DEF Popped

\* The callbacks of a tick keep the counts, and tell the drain manager.
LEMMA CallbacksKeep ==
  ASSUME Gem5Inv, Tick \/ Adr, WriteComplete
  PROVE  /\ writes' \in [Addrs -> Seq(Ids)] /\ below' \in [Addrs -> Nat]
         /\ reqs_in_flight' \in Nat
         /\ drain_state' \in {"Running", "Draining", "Drained"}
         /\ FlightOK' /\ DrainIsSignalled'
<1>1. /\ TypeOK /\ PortTypeOK /\ rpq \in Seq(Request) /\ wpq \in Seq(Request)
      /\ Len(rpq) \in Nat /\ Len(wpq) \in Nat
      /\ writes \in [Addrs -> Seq(Ids)] /\ below \in [Addrs -> Nat]
      /\ reqs_in_flight \in Nat /\ resp_queue \in Seq(Ids) /\ Len(resp_queue) \in Nat
      /\ drain_state \in {"Running", "Draining", "Drained"}
  BY DEF Gem5Inv, TypeOK, PortTypeOK
<1>2. /\ writes' = [a \in Addrs |-> Popped(writes[a], Cardinality(Sent("write", a)))]
      /\ reqs_in_flight' = reqs_in_flight - Cardinality(SentWrites)
      /\ below' = [a \in Addrs |-> below[a] + Cardinality(Sent("read", a))]
      /\ UNCHANGED <<reads, resp_queue, resp_stall, scheduled, owed>>
      /\ WriteSignals
  BY DEF WriteComplete
<1>9. /\ DOMAIN below' = Addrs /\ DOMAIN below = Addrs
      /\ \A a \in Addrs : below'[a] = below[a] + Cardinality(Sent("read", a))
  BY <1>1, <1>2
<1>10. ASSUME \A a \in Addrs : below'[a] = below[a] PROVE below' = below
  <2>1. below \in [Addrs -> Nat] /\ below' \in [Addrs -> Nat]
    BY <1>1, <1>2, <1>9, <1>10
  <2> QED
    BY <1>10, <2>1
<1>3. /\ IsFiniteSet(Owing(below)) /\ Cardinality(Owing(below)) \in Nat
      /\ reqs_in_flight >= Len(rpq) + Len(wpq) + Cardinality(Owing(below))
  BY FS_CardinalityType DEF Gem5Inv, FlightOK
<1>4. Stays \/ ReadGoes \/ \E n \in 0 .. Len(wpq) : WritesGo(n)
  BY <1>1, TickMoves
<1>5. /\ \A a \in Addrs : Cardinality(Sent("write", a)) \in Nat
      /\ below' \in [Addrs -> Nat]
      /\ reqs_in_flight' \in Nat
      /\ SentWrites = {} => reqs_in_flight' = reqs_in_flight
      /\ FlightOK'
  <2>0. Cardinality({}) = 0
    BY FS_EmptySet
  <2>1. CASE Stays
    <3>1. SentWrites = {} /\ \A op, a : Sent(op, a) = {}
      BY <1>1, <2>1, SentFacts
    <3>5. \A a \in Addrs : /\ Cardinality(Sent("read", a)) = 0
                             /\ Cardinality(Sent("write", a)) = 0
      BY <2>0, <3>1
    <3>6. \A a \in Addrs : below'[a] = below[a]
      BY <1>1, <1>9, <3>5
    <3>2. below' = below /\ reqs_in_flight' = reqs_in_flight
      BY <1>1, <1>2, <1>10, <2>0, <3>1, <3>6
    <3>3. Len(rpq') = Len(rpq) /\ wpq' = wpq
      <4>1. CASE rpq' = rpq
        BY <2>1, <4>1 DEF Stays
      <4>2. CASE rpq # <<>> /\ rpq' = [rpq EXCEPT ![1].page = MapPage(Head(rpq).page)]
        <5>1. wpq' = wpq
          BY <2>1 DEF Stays
        <5> QED
          BY <1>1, <4>2, <5>1
      <4> QED
        BY <2>1, <4>1, <4>2 DEF Stays
    <3>4. FlightOK'
      BY <1>3, <3>2, <3>3 DEF FlightOK
    <3> QED
      BY <1>1, <3>2, <3>4, <3>5
  <2>2. CASE ReadGoes
    <3> DEFINE p == MapPage(Head(rpq).page)
    <3>1. /\ SentWrites = {} /\ \A a : Sent("write", a) = {}
          /\ \A a : Sent("read", a) = IF a = p THEN {1} ELSE {}
      BY <1>1, <2>2, SentFacts
    <3> HIDE DEF p
    <3>2. reqs_in_flight' = reqs_in_flight
      BY <1>1, <1>2, <2>0, <3>1
    <3>3. \A a \in Addrs : below'[a] = IF a = p THEN below[a] + 1 ELSE below[a]
      <4>1. Cardinality({1}) = 1
        BY FS_Singleton
      <4> TAKE a \in Addrs
      <4>2. Cardinality(Sent("read", a)) = IF a = p THEN 1 ELSE 0
        BY <2>0, <3>1, <4>1
      <4>3. below'[a] = below[a] + Cardinality(Sent("read", a)) /\ below[a] \in Nat
        BY <1>1, <1>9
      <4> QED
        BY <4>2, <4>3
    <3>4. below' \in [Addrs -> Nat]
      <4>1. below' \in [Addrs -> Int] /\ \A a \in Addrs : below'[a] \in Nat
        BY <1>1, <1>2, <3>3
      <4> QED
        BY <1>2, <4>1
    <3>5. Len(rpq') = Len(rpq) - 1 /\ wpq' = wpq
      <4>1. rpq # <<>> /\ rpq' = Tail(rpq) /\ wpq' = wpq
        BY <2>2 DEF ReadGoes
      <4> QED
        BY <1>1, <4>1, TailFacts
    <3>6. /\ IsFiniteSet(Owing(below')) /\ Cardinality(Owing(below')) \in Nat
          /\ Cardinality(Owing(below')) <= Cardinality(Owing(below)) + 1
      <4>1. CASE p \in Addrs
        <5>1. below'[p] = below[p] + 1 /\ \A b \in Addrs \ {p} : below'[b] = below[b]
          BY <3>3, <4>1
        <5>2. /\ IsFiniteSet(Owing(below'))
              /\ Cardinality(Owing(below')) = Cardinality(Owing(below)) + 1
          BY <1>1, <1>3, <3>4, <4>1, <5>1, OwingAdds
        <5> QED
          BY <1>3, <5>2
      <4>2. CASE p \notin Addrs
        <5>1. below' = below
          BY <1>1, <3>3, <3>4, <4>2
        <5> QED
          BY <1>3, <5>1
      <4> QED
        BY <4>1, <4>2
    <3>7. reqs_in_flight' >= Len(rpq') + Len(wpq') + Cardinality(Owing(below'))
      BY <1>1, <1>3, <3>2, <3>5, <3>6
    <3>8. FlightOK'
      BY <3>6, <3>7 DEF FlightOK, Owing
    <3>9. \A a \in Addrs : Cardinality(Sent("write", a)) = 0
      BY <2>0, <3>1
    <3> QED
      BY <1>1, <3>2, <3>4, <3>8, <3>9
  <2>3. CASE \E n \in 0 .. Len(wpq) : WritesGo(n)
    <3>1. PICK n \in 0 .. Len(wpq) : WritesGo(n)
      BY <2>3
    <3>2. /\ SentWrites = 1 .. n /\ \A a : Sent("read", a) = {}
          /\ \A a : Sent("write", a) = {i \in 1 .. n : wpq[i].page = a}
      BY <1>1, <3>1, SentFacts
    <3>3. n \in Nat /\ n <= Len(wpq) /\ IsFiniteSet(1 .. n) /\ Cardinality(1 .. n) = n
      BY <1>1, FS_Interval
    <3>4. \A a \in Addrs : Cardinality(Sent("write", a)) \in Nat
      <4> TAKE a \in Addrs
      <4>1. Sent("write", a) \in SUBSET (1 .. n)
        BY <3>2
      <4> QED
        BY <3>3, <4>1, FS_Subset, FS_CardinalityType
    <3>5. below' = below
      <4>1. \A a \in Addrs : Cardinality(Sent("read", a)) = 0
        BY <2>0, <3>2
      <4>2. \A a \in Addrs : below'[a] = below[a]
        BY <1>1, <1>9, <4>1
      <4> QED
        BY <1>10, <4>2
    <3>6. reqs_in_flight' = reqs_in_flight - n
      BY <1>2, <3>2, <3>3
    <3>7. rpq' = rpq /\ wpq' = SubSeq(wpq, n + 1, Len(wpq))
      BY <3>1 DEF WritesGo
    <3>8. Len(wpq') = Len(wpq) - n
      BY <1>1, <3>7, DropFacts
    <3>9. /\ reqs_in_flight' \in Nat
          /\ reqs_in_flight' >= Len(rpq') + Len(wpq') + Cardinality(Owing(below'))
      BY <1>1, <1>3, <3>3, <3>5, <3>6, <3>7, <3>8
    <3>10. FlightOK'
      BY <1>3, <3>5, <3>9 DEF FlightOK, Owing
    <3>11. SentWrites = {} => reqs_in_flight' = reqs_in_flight
      BY <1>1, <1>2, <2>0
    <3> QED
      BY <1>1, <3>4, <3>5, <3>9, <3>10, <3>11
  <2> QED
    BY <1>4, <2>1, <2>2, <2>3
<1>6. writes' \in [Addrs -> Seq(Ids)]
  BY <1>1, <1>2, <1>5, PoppedType
<1>7. CASE SentWrites = {}
  <2>1. reqs_in_flight' = reqs_in_flight /\ drain_state' = drain_state
    BY <1>2, <1>5, <1>7 DEF WriteSignals
  <2>2. DrainIsSignalled'
    BY <1>2, <2>1 DEF Gem5Inv, DrainIsSignalled, NumOutstanding
  <2> QED
    BY <1>1, <1>5, <1>6, <2>1, <2>2
<1>8. CASE SentWrites # {}
  <2>1. drain_state' = IF drain_state = "Draining" /\ NumOutstanding' = 0
                       THEN "Drained" ELSE drain_state
    BY <1>2, <1>8 DEF WriteSignals, SignalDrainDone
  <2>2. NumOutstanding' \in Nat
    BY <1>1, <1>2, <1>5 DEF NumOutstanding
  <2>3. DrainIsSignalled'
    BY <2>1, <2>2 DEF DrainIsSignalled
  <2>4. drain_state' \in {"Running", "Draining", "Drained"}
    BY <1>1, <2>1
  <2> QED
    BY <1>5, <1>6, <2>3, <2>4
<1> QED
  BY <1>7, <1>8

(***************************************************************************)
(* The steps of the port                                                   *)
(***************************************************************************)
\* A response that is queued is woken.
LEMMA RespondFacts ==
  ASSUME PortTypeOK, OneWaker, NEW i \in Ids, NEW kind, AccessAndRespond(i, kind),
         resp_stall' = resp_stall
  PROVE  /\ resp_queue' \in Seq(Ids) /\ scheduled' \in BOOLEAN /\ OneWaker'
         /\ Len(resp_queue) \in Nat
         /\ Len(resp_queue') = Len(resp_queue) + IF NeedsResponse(kind) THEN 1 ELSE 0
<1>1. /\ resp_queue \in Seq(Ids) /\ Len(resp_queue) \in Nat
      /\ scheduled \in BOOLEAN /\ resp_stall \in BOOLEAN
  BY DEF PortTypeOK
<1>2. CASE NeedsResponse(kind) /\ resp_queue' = Append(resp_queue, i) /\ ScheduleSend
  <2>1. /\ resp_queue' \in Seq(Ids) /\ Len(resp_queue') = Len(resp_queue) + 1
    BY <1>1, <1>2, AppendFacts
  <2>2. resp_queue' # <<>>
    BY <1>1, <2>1
  <2>3. scheduled' = (scheduled \/ ~resp_stall)
    BY <1>2 DEF ScheduleSend
  <2>4. scheduled' \in BOOLEAN /\ OneWaker'
    BY <1>1, <2>2, <2>3 DEF OneWaker
  <2> QED
    BY <1>1, <1>2, <2>1, <2>4
<1>3. CASE ~NeedsResponse(kind) /\ UNCHANGED <<resp_queue, scheduled>>
  BY <1>1, <1>3 DEF OneWaker
<1> QED
  BY <1>2, <1>3 DEF AccessAndRespond

\* A packet arrives.
LEMMA RecvStep ==
  ASSUME Gem5Inv, TypeOK', NEW pkt \in Packet, ~req_stall, RecvTimingReq(pkt)
  PROVE  Gem5Inv'
<1>1. /\ TypeOK /\ PortTypeOK /\ PeerOK /\ FlightOK /\ OneWaker /\ DrainIsSignalled
      /\ rpq \in Seq(Request) /\ wpq \in Seq(Request) /\ Len(rpq) \in Nat /\ Len(wpq) \in Nat
      /\ reqs_in_flight \in Nat /\ Len(resp_queue) \in Nat
      /\ reads \in [Addrs -> Seq(Ids)] /\ writes \in [Addrs -> Seq(Ids)]
      /\ resp_queue \in Seq(Ids) /\ scheduled \in BOOLEAN /\ owed \subseteq Ids
  BY SMTT(30) DEF Gem5Inv, TypeOK, PortTypeOK
<1>2. /\ pkt.id \in Ids /\ pkt.addr \in Addrs /\ RmcAddr(pkt.addr) \in Pages /\ pkt # NoPacket
  BY PacketTypes
<1>3. UNCHANGED <<resp_stall, drain_state, below>>
  BY DEF RecvTimingReq
<1>4. /\ IsFiniteSet(Owing(below)) /\ Cardinality(Owing(below)) \in Nat
      /\ reqs_in_flight >= Len(rpq) + Len(wpq) + Cardinality(Owing(below))
  BY <1>1, FS_CardinalityType DEF FlightOK
\* the parts of the invariant that a packet can touch
<1>5. ASSUME reads' \in [Addrs -> Seq(Ids)], writes' \in [Addrs -> Seq(Ids)],
             resp_queue' \in Seq(Ids), scheduled' \in BOOLEAN, OneWaker',
             Len(resp_queue') >= Len(resp_queue), owed' \subseteq Ids,
             reqs_in_flight' \in Nat, reqs_in_flight' >= reqs_in_flight,
             reqs_in_flight' - reqs_in_flight
               = (Len(rpq') + Len(wpq')) - (Len(rpq) + Len(wpq)),
             \/ peer' = NoPeer /\ req_stall' = req_stall
             \/ peer' = [pkt |-> pkt, state |-> "waiting"] /\ req_stall' = TRUE
      PROVE  Gem5Inv'
  <2>1. Len(rpq') \in Nat /\ Len(wpq') \in Nat /\ Len(resp_queue') \in Nat
    BY <1>5 DEF TypeOK
  <2>2. /\ req_stall' \in BOOLEAN
        /\ peer' \in [pkt : Packet \cup {NoPacket}, state : {"free", "waiting", "retry"}]
    <3>1. req_stall \in BOOLEAN
      BY <1>1 DEF PortTypeOK
    <3>2. NoPeer \in [pkt : Packet \cup {NoPacket}, state : {"free", "waiting", "retry"}]
      BY DEF NoPeer
    <3>3. [pkt |-> pkt, state |-> "waiting"]
            \in [pkt : Packet \cup {NoPacket}, state : {"free", "waiting", "retry"}]
      OBVIOUS
    <3> QED
      BY <1>5, <3>1, <3>2, <3>3
  <2>3. PortTypeOK'
    BY <1>1, <1>3, <1>5, <2>2 DEF PortTypeOK
  <2>4. PeerOK'
    BY <1>1, <1>2, <1>5 DEF PeerOK, NoPeer
  <2>5. reqs_in_flight' >= Len(rpq') + Len(wpq') + Cardinality(Owing(below))
    BY <1>1, <1>4, <1>5, <2>1, SMTT(30)
  <2>6. FlightOK'
    BY <1>3, <1>4, <2>5 DEF FlightOK, Owing
  <2>7. DrainIsSignalled'
    BY <1>1, <1>3, <1>5, <2>1 DEF DrainIsSignalled, NumOutstanding
  <2> QED
    BY <1>5, <2>3, <2>4, <2>6, <2>7 DEF Gem5Inv
<1>6. CASE RecvRead(pkt) /\ peer' = NoPeer /\ UNCHANGED req_stall
  <2>1. /\ rpq' = Append(rpq, NewRequest(pkt.id, RmcAddr(pkt.addr))) /\ wpq' = wpq
        /\ reads' = [reads EXCEPT ![pkt.addr] = Append(reads[pkt.addr], pkt.id)]
        /\ reqs_in_flight' = reqs_in_flight + 1 /\ owed' = owed \cup {pkt.id}
        /\ UNCHANGED <<writes, resp_queue, scheduled>>
    BY <1>6 DEF RecvRead, IssueRead, CountRequest
  <2>2. Len(rpq') = Len(rpq) + 1
    BY <1>1, <1>2, <2>1, NewRequestType, AppendFacts
  <2>3. reads' \in [Addrs -> Seq(Ids)]
    BY <1>1, <1>2, <2>1
  <2>4. OneWaker'
    BY <1>1, <1>3, <2>1 DEF OneWaker
  <2>5. /\ reqs_in_flight' \in Nat /\ reqs_in_flight' >= reqs_in_flight
        /\ reqs_in_flight' - reqs_in_flight = (Len(rpq') + Len(wpq')) - (Len(rpq) + Len(wpq))
    BY <1>1, <2>1, <2>2
  <2>6. writes' \in [Addrs -> Seq(Ids)] /\ resp_queue' \in Seq(Ids) /\ scheduled' \in BOOLEAN
        /\ Len(resp_queue') >= Len(resp_queue) /\ owed' \subseteq Ids
    BY <1>1, <1>2, <2>1
  <2> QED
    BY <1>5, <1>6, <2>3, <2>4, <2>5, <2>6
<1>7. ASSUME Respond(pkt)
      PROVE  /\ resp_queue' \in Seq(Ids) /\ scheduled' \in BOOLEAN /\ OneWaker'
             /\ Len(resp_queue') >= Len(resp_queue) /\ owed' \subseteq Ids
  <2>1. /\ resp_queue' \in Seq(Ids) /\ scheduled' \in BOOLEAN /\ OneWaker'
        /\ Len(resp_queue') = Len(resp_queue) + IF NeedsResponse(pkt.kind) THEN 1 ELSE 0
    BY <1>1, <1>2, <1>3, <1>7, RespondFacts DEF Respond
  <2>2. owed' \subseteq Ids
    BY <1>1, <1>2, <1>7 DEF Respond
  <2>3. Len(resp_queue') >= Len(resp_queue)
    BY <1>1, <2>1
  <2> QED
    BY <2>1, <2>2, <2>3
<1>8. CASE RecvWrite(pkt) /\ peer' = NoPeer /\ UNCHANGED req_stall
  <2>1. /\ wpq' = Append(wpq, NewRequest(pkt.id, RmcAddr(pkt.addr))) /\ rpq' = rpq
        /\ writes' = [writes EXCEPT ![pkt.addr] = Append(writes[pkt.addr], pkt.id)]
        /\ reqs_in_flight' = reqs_in_flight + 1 /\ Respond(pkt) /\ reads' = reads
    BY <1>8 DEF RecvWrite, IssueWrite, CountRequest
  <2>2. Len(wpq') = Len(wpq) + 1
    BY <1>1, <1>2, <2>1, NewRequestType, AppendFacts
  <2>3. writes' \in [Addrs -> Seq(Ids)] /\ reads' \in [Addrs -> Seq(Ids)]
    BY <1>1, <1>2, <2>1
  <2>5. /\ reqs_in_flight' \in Nat /\ reqs_in_flight' >= reqs_in_flight
        /\ reqs_in_flight' - reqs_in_flight = (Len(rpq') + Len(wpq')) - (Len(rpq) + Len(wpq))
    BY <1>1, <2>1, <2>2
  <2> QED
    BY <1>5, <1>7, <1>8, <2>1, <2>3, <2>5
<1>9. CASE RecvOther(pkt) /\ peer' = NoPeer /\ UNCHANGED req_stall
  <2>1. /\ Respond(pkt) /\ UNCHANGED <<rpq, wpq, reads, writes, reqs_in_flight>>
    BY <1>9 DEF RecvOther, vars
  <2>2. /\ reqs_in_flight' \in Nat /\ reqs_in_flight' >= reqs_in_flight
        /\ reqs_in_flight' - reqs_in_flight = (Len(rpq') + Len(wpq')) - (Len(rpq) + Len(wpq))
    BY <1>1, <2>1
  <2> QED
    BY <1>1, <1>5, <1>7, <1>9, <2>1, <2>2
<1>10. ASSUME UNCHANGED <<rpq, wpq, reads, writes, reqs_in_flight, resp_queue, scheduled>>
       PROVE  /\ reads' \in [Addrs -> Seq(Ids)] /\ writes' \in [Addrs -> Seq(Ids)]
              /\ resp_queue' \in Seq(Ids) /\ scheduled' \in BOOLEAN /\ OneWaker'
              /\ Len(resp_queue') >= Len(resp_queue)
              /\ reqs_in_flight' \in Nat /\ reqs_in_flight' >= reqs_in_flight
              /\ reqs_in_flight' - reqs_in_flight
                   = (Len(rpq') + Len(wpq')) - (Len(rpq) + Len(wpq))
  <2>1. OneWaker'
    BY <1>1, <1>3, <1>10 DEF OneWaker
  <2> QED
    BY <1>1, <1>10, <2>1
<1>11. CASE RecvSnooped(pkt) /\ peer' = NoPeer /\ UNCHANGED req_stall
  <2>1. UNCHANGED <<rpq, wpq, reads, writes, reqs_in_flight, resp_queue, scheduled, owed>>
    BY <1>11 DEF RecvSnooped, vars
  <2> QED
    BY <1>1, <1>5, <1>10, <1>11, <2>1
<1>12. CASE /\ Refused(pkt) /\ peer' = [pkt |-> pkt, state |-> "waiting"]
            /\ owed' = owed \cup {pkt.id}
            /\ UNCHANGED <<vars, reads, writes, reqs_in_flight, resp_queue, scheduled>>
  <2>1. /\ UNCHANGED <<rpq, wpq, reads, writes, reqs_in_flight, resp_queue, scheduled>>
        /\ req_stall' = TRUE /\ owed' \subseteq Ids
    BY <1>1, <1>2, <1>12 DEF Refused, vars
  <2> QED
    BY <1>5, <1>10, <1>12, <2>1
<1> QED
  BY <1>6, <1>8, <1>9, <1>11, <1>12 DEF RecvTimingReq

\* A response is sent, or refused.
LEMMA SendStep ==
  ASSUME Gem5Inv, SendRespEvent \/ RecvRespRetry
  PROVE  Gem5Inv'
<1>1. /\ TypeOK /\ PortTypeOK /\ PeerOK /\ FlightOK /\ OneWaker /\ DrainIsSignalled
      /\ reqs_in_flight \in Nat /\ Len(resp_queue) \in Nat
      /\ resp_queue \in Seq(Ids) /\ owed \subseteq Ids
      /\ scheduled \in BOOLEAN /\ resp_stall \in BOOLEAN
  BY DEF Gem5Inv, PortTypeOK
<1>2. SendResponse(FALSE)
  BY <1>1 DEF SendRespEvent, RecvRespRetry, OneWaker
<1>3. /\ resp_queue # <<>>
      /\ UNCHANGED <<vars, reads, writes, req_stall, peer, below, reqs_in_flight>>
  BY <1>2 DEF SendResponse
<1>4. UNCHANGED <<rpq, wpq, free, clk, phase, out>>
  BY <1>3 DEF vars
<1>5. TypeOK' /\ PeerOK' /\ FlightOK'
  BY <1>1, <1>3, <1>4 DEF TypeOK, PeerOK, FlightOK, Owing
<1>6. CASE /\ resp_queue' = Tail(resp_queue) /\ owed' = owed \ {Head(resp_queue)}
           /\ scheduled' = (FALSE \/ Len(resp_queue) > 1) /\ resp_stall' = FALSE
           /\ SignalDrainDone
  <2>1. resp_queue' \in Seq(Ids) /\ Len(resp_queue') = Len(resp_queue) - 1
        /\ Len(resp_queue') \in Nat /\ owed' \subseteq Ids
    BY <1>1, <1>3, <1>6, TailFacts
  <2>2. resp_queue' # <<>> <=> Len(resp_queue) > 1
    BY <1>1, <2>1
  <2>3. OneWaker' /\ scheduled' \in BOOLEAN /\ resp_stall' \in BOOLEAN
    <3>1. scheduled' <=> resp_queue' # <<>>
      BY <1>6, <2>2
    <3>2. scheduled' \in BOOLEAN /\ resp_stall' = FALSE
      BY <1>6
    <3> QED
      BY <3>1, <3>2 DEF OneWaker
  <2>4. drain_state' = IF drain_state = "Draining" /\ NumOutstanding' = 0
                       THEN "Drained" ELSE drain_state
    BY <1>6 DEF SignalDrainDone
  <2>5. NumOutstanding' \in Nat
    BY <1>1, <1>3, <2>1 DEF NumOutstanding
  <2>6. DrainIsSignalled' /\ drain_state' \in {"Running", "Draining", "Drained"}
    BY <1>1, <2>4, <2>5 DEF DrainIsSignalled, PortTypeOK
  <2>7. PortTypeOK'
    BY <1>1, <1>3, <2>1, <2>3, <2>6 DEF PortTypeOK
  <2> QED
    BY <1>5, <2>3, <2>6, <2>7 DEF Gem5Inv
<1>7. CASE /\ resp_stall' = TRUE /\ scheduled' = FALSE
           /\ UNCHANGED <<resp_queue, owed, drain_state>>
  <2>1. OneWaker'
    BY <1>3, <1>7 DEF OneWaker
  <2>2. DrainIsSignalled'
    BY <1>1, <1>3, <1>7 DEF DrainIsSignalled, NumOutstanding
  <2>3. PortTypeOK'
    BY <1>1, <1>3, <1>7 DEF PortTypeOK
  <2> QED
    BY <1>5, <2>1, <2>2, <2>3 DEF Gem5Inv
<1>8. \/ /\ resp_queue' = Tail(resp_queue) /\ owed' = owed \ {Head(resp_queue)}
         /\ scheduled' = (FALSE \/ Len(resp_queue) > 1) /\ resp_stall' = FALSE
         /\ SignalDrainDone
      \/ /\ resp_stall' = TRUE /\ scheduled' = FALSE
         /\ UNCHANGED <<resp_queue, owed, drain_state>>
  BY <1>2 DEF SendResponse
<1> QED
  BY <1>6, <1>7, <1>8

\* A memory below calls back.
LEMMA ReadCompleteStep ==
  ASSUME Gem5Inv, NEW a \in Addrs, ReadComplete(a)
  PROVE  Gem5Inv'
<1>1. /\ TypeOK /\ PortTypeOK /\ PeerOK /\ FlightOK /\ OneWaker /\ DrainIsSignalled
      /\ reqs_in_flight \in Nat /\ Len(resp_queue) \in Nat /\ Len(rpq) \in Nat
      /\ Len(wpq) \in Nat /\ reads \in [Addrs -> Seq(Ids)] /\ below \in [Addrs -> Nat]
  BY SMTT(30) DEF Gem5Inv, PortTypeOK, TypeOK
<1>2. /\ below[a] > 0 /\ reads[a] # <<>> /\ reqs_in_flight > 0
      /\ below' = [below EXCEPT ![a] = below[a] - 1]
      /\ reads' = [reads EXCEPT ![a] = Popped(reads[a], 1)]
      /\ reqs_in_flight' = reqs_in_flight - 1
      /\ AccessAndRespond(Head(reads[a]), "read")
      /\ UNCHANGED <<vars, writes, resp_stall, req_stall, drain_state, peer, owed>>
  BY DEF ReadComplete, Answered
<1>3. UNCHANGED <<rpq, wpq, free, clk, phase, out>>
  BY <1>2 DEF vars
<1>4. reads[a] \in Seq(Ids) /\ Head(reads[a]) \in Ids
  BY <1>1, <1>2, TailFacts
<1>5. /\ resp_queue' \in Seq(Ids) /\ scheduled' \in BOOLEAN /\ OneWaker'
      /\ Len(resp_queue') = Len(resp_queue) + 1
  BY <1>1, <1>2, <1>4, RespondFacts DEF NeedsResponse
<1>6. reads' \in [Addrs -> Seq(Ids)]
  <2>1. Popped(reads[a], 1) \in Seq(Ids)
    BY <1>4, PoppedType
  <2> QED
    BY <1>1, <1>2, <2>1
<1>7. below' \in [Addrs -> Nat] /\ below[a] = below'[a] + 1
      /\ \A b \in Addrs \ {a} : below[b] = below'[b]
  BY <1>1, <1>2
<1>8. /\ IsFiniteSet(Owing(below')) /\ Cardinality(Owing(below')) \in Nat
      /\ Cardinality(Owing(below)) = Cardinality(Owing(below')) + 1
  BY <1>1, <1>7, OwingAdds DEF FlightOK
<1>9. reqs_in_flight' >= Len(rpq') + Len(wpq') + Cardinality(Owing(below'))
  BY <1>1, <1>2, <1>3, <1>8 DEF FlightOK
<1>10. FlightOK'
  BY <1>8, <1>9 DEF FlightOK, Owing
<1>11. reqs_in_flight' \in Nat
  BY <1>1, <1>2
<1>12. PortTypeOK'
  BY <1>1, <1>2, <1>5, <1>6, <1>7, <1>11 DEF PortTypeOK
<1>13. DrainIsSignalled'
  BY <1>1, <1>2, <1>5 DEF DrainIsSignalled, NumOutstanding
<1>14. TypeOK' /\ PeerOK'
  BY <1>1, <1>2, <1>3 DEF TypeOK, PeerOK
<1> QED
  BY <1>5, <1>10, <1>12, <1>13, <1>14 DEF Gem5Inv

\* Every step keeps the invariant of the port.
LEMMA PortStep == Gem5Inv /\ [Gem5Next]_gem5Vars => Gem5Inv'
<1> SUFFICES ASSUME Gem5Inv, [Gem5Next]_gem5Vars PROVE Gem5Inv'
  OBVIOUS
<1>1. TypeOK /\ PortTypeOK /\ PeerOK /\ FlightOK /\ OneWaker /\ DrainIsSignalled
  BY DEF Gem5Inv
<1>2. TypeOK'
  BY <1>1, Gem5Imc, TypeStep
<1>3. ASSUME NEW pkt \in Packet, NewPacket(pkt) PROVE Gem5Inv'
  <2>1. RecvTimingReq(pkt) /\ ~req_stall
    BY <1>1, <1>3 DEF NewPacket, PeerOK, NoPeer
  <2> QED
    BY <1>2, <2>1, RecvStep
<1>4. CASE Resend
  <2>1. peer.pkt \in Packet /\ RecvTimingReq(peer.pkt) /\ ~req_stall
    BY <1>1, <1>4, ResendsPacket DEF Resend, PeerOK
  <2> QED
    BY <1>2, <2>1, RecvStep
<1>5. CASE SendRespEvent \/ RecvRespRetry
  BY <1>5, SendStep
<1>6. ASSUME NEW a \in Addrs, ReadComplete(a) PROVE Gem5Inv'
  BY <1>6, ReadCompleteStep
<1>7. ASSUME UNCHANGED <<reads, writes, resp_queue, reqs_in_flight, resp_stall, req_stall,
                         scheduled, peer, below, owed>>,
             Len(rpq') = Len(rpq), Len(wpq') = Len(wpq),
             drain_state' \in {"Running", "Draining", "Drained"}, DrainIsSignalled'
      PROVE  Gem5Inv'
  <2>1. PortTypeOK'
    BY <1>1, <1>7 DEF PortTypeOK
  <2>2. PeerOK' /\ FlightOK' /\ OneWaker'
    BY <1>1, <1>7 DEF PeerOK, FlightOK, Owing, OneWaker
  <2> QED
    BY <1>2, <1>7, <2>1, <2>2 DEF Gem5Inv
<1>8. ASSUME UNCHANGED portVars, Len(rpq') = Len(rpq), Len(wpq') = Len(wpq) PROVE Gem5Inv'
  <2>1. UNCHANGED <<reads, writes, resp_queue, reqs_in_flight, resp_stall, req_stall,
                    scheduled, drain_state, peer, below, owed>>
    BY <1>8 DEF portVars
  <2>2. DrainIsSignalled' /\ drain_state' \in {"Running", "Draining", "Drained"}
    BY <1>1, <2>1 DEF DrainIsSignalled, NumOutstanding, PortTypeOK
  <2> QED
    BY <1>7, <1>8, <2>1, <2>2
<1>9. CASE Gem5Cycle
  <2>1. UNCHANGED portVars /\ rpq' = Aged(rpq) /\ wpq' = Aged(wpq)
    BY <1>9 DEF Gem5Cycle, NextCycle
  <2>2. Len(rpq') = Len(rpq) /\ Len(wpq') = Len(wpq)
    BY <1>1, <2>1, AgedFacts DEF TypeOK
  <2> QED
    BY <1>8, <2>1, <2>2
<1>10. CASE MemoryTakes
  BY <1>8, <1>10 DEF MemoryTakes, NextTakes
<1>11. CASE WrapperTick \/ EndTick
  <2>1. /\ Tick \/ Adr
        /\ WriteComplete /\ UNCHANGED <<reads, resp_queue, resp_stall, scheduled, owed>>
        /\ UNCHANGED <<req_stall, peer>> \/ RetryReq
    BY <1>11 DEF WrapperTick, EndTick, WriteComplete
  <2>2. /\ writes' \in [Addrs -> Seq(Ids)] /\ below' \in [Addrs -> Nat]
        /\ reqs_in_flight' \in Nat /\ drain_state' \in {"Running", "Draining", "Drained"}
        /\ FlightOK' /\ DrainIsSignalled'
    BY <2>1, CallbacksKeep
  <2>3. OneWaker'
    BY <1>1, <2>1 DEF OneWaker
  <2>4. /\ req_stall' \in BOOLEAN /\ PeerOK'
        /\ peer' \in [pkt : Packet \cup {NoPacket}, state : {"free", "waiting", "retry"}]
    <3>1. /\ peer \in [pkt : Packet \cup {NoPacket}, state : {"free", "waiting", "retry"}]
          /\ req_stall \in BOOLEAN
      BY <1>1 DEF PortTypeOK
    <3>2. CASE UNCHANGED <<req_stall, peer>>
      BY <1>1, <3>1, <3>2 DEF PeerOK
    <3>3. CASE RetryReq
      <4>1. req_stall' = FALSE
            /\ peer' = IF req_stall THEN [peer EXCEPT !.state = "retry"] ELSE peer
        BY <3>3 DEF RetryReq
      <4>2. CASE req_stall
        BY <1>1, <3>1, <4>1, <4>2 DEF PeerOK
      <4>3. CASE ~req_stall
        BY <1>1, <3>1, <4>1, <4>3 DEF PeerOK
      <4> QED
        BY <4>2, <4>3
    <3> QED
      BY <2>1, <3>2, <3>3
  <2>5. PortTypeOK'
    BY <1>1, <2>1, <2>2, <2>4 DEF PortTypeOK
  <2> QED
    BY <1>2, <2>2, <2>3, <2>4, <2>5 DEF Gem5Inv
<1>12. CASE Drain \/ Resume
  <2>1. /\ UNCHANGED <<vars, reads, writes, resp_queue, reqs_in_flight, resp_stall, req_stall,
                       scheduled, peer, below, owed>>
        /\ \/ drain_state' = IF NumOutstanding > 0 THEN "Draining" ELSE "Drained"
           \/ drain_state' = "Running"
    BY <1>12 DEF Drain, Resume
  <2>2. Len(rpq') = Len(rpq) /\ Len(wpq') = Len(wpq)
    BY <2>1 DEF vars
  <2>3. DrainIsSignalled' /\ drain_state' \in {"Running", "Draining", "Drained"}
    BY <2>1 DEF DrainIsSignalled, NumOutstanding
  <2> QED
    BY <1>7, <2>1, <2>2, <2>3
<1>13. CASE UNCHANGED gem5Vars
  BY <1>8, <1>13 DEF gem5Vars, vars
<1> QED
  BY <1>3, <1>4, <1>5, <1>6, <1>9, <1>10, <1>11, <1>12, <1>13 DEF Gem5Next

(***************************************************************************)
(* Theorems about the port                                                 *)
(***************************************************************************)
\* The invariant at the start.
LEMMA PortInit == Gem5Init => Gem5Inv
<1> SUFFICES ASSUME Gem5Init PROVE Gem5Inv
  OBVIOUS
<1>1. /\ Init /\ reads = [a \in Addrs |-> <<>>] /\ writes = [a \in Addrs |-> <<>>]
      /\ resp_queue = <<>> /\ reqs_in_flight = 0 /\ resp_stall = FALSE /\ req_stall = FALSE
      /\ scheduled = FALSE /\ drain_state = "Running" /\ peer = NoPeer
      /\ below = [a \in Addrs |-> 0] /\ owed = {} /\ rpq = <<>> /\ wpq = <<>>
  BY DEF Gem5Init, Init
<1>2. TypeOK
  BY <1>1, ImcInit DEF ImcInv
<1>3. PortTypeOK
  <2>1. peer \in [pkt : Packet \cup {NoPacket}, state : {"free", "waiting", "retry"}]
    BY <1>1 DEF NoPeer
  <2>2. <<>> \in Seq(Ids) /\ {} \subseteq Ids
    BY EmptySeq
  <2>3. reads \in [Addrs -> Seq(Ids)] /\ writes \in [Addrs -> Seq(Ids)] /\ below \in [Addrs -> Nat]
    BY <1>1, <2>2
  <2>4. /\ reqs_in_flight \in Nat /\ drain_state \in {"Running", "Draining", "Drained"}
        /\ resp_stall \in BOOLEAN /\ req_stall \in BOOLEAN /\ scheduled \in BOOLEAN
    BY <1>1
  <2> QED
    BY <1>1, <2>1, <2>2, <2>3, <2>4 DEF PortTypeOK
<1>4. PeerOK /\ OneWaker /\ DrainIsSignalled
  BY <1>1 DEF PeerOK, NoPeer, OneWaker, DrainIsSignalled
<1>5. Owing(below) = {}
  BY <1>1 DEF Owing
<1>6. IsFiniteSet(Owing(below)) /\ Cardinality(Owing(below)) = 0
  BY <1>5, FS_EmptySet
<1>7. FlightOK
  BY <1>1, <1>6 DEF FlightOK
<1> QED
  BY <1>2, <1>3, <1>4, <1>7 DEF Gem5Inv

\* Types, the flags of the port and the count of requests, for every instance.
THEOREM Gem5Consistent == Gem5Spec => []Gem5Inv
<1>1. Gem5Init => Gem5Inv
  BY PortInit
<1>2. Gem5Inv /\ [Gem5Next]_gem5Vars => Gem5Inv'
  BY PortStep
<1> QED
  BY <1>1, <1>2, PTL DEF Gem5Spec

\* Every variable has its type and the counter of requests never drops below
\* zero, for every number of memories and, until a write that is not filed crashes
\* the process, for every start address.
THEOREM Gem5TypeCorrect == Gem5Spec => []Gem5TypeOK
<1>1. Gem5Inv => Gem5TypeOK
  BY DEF Gem5Inv, PortTypeOK, Gem5TypeOK
<1> QED
  BY <1>1, Gem5Consistent, PTL

\* A queued response has exactly one waker.
THEOREM ResponsesWoken == Gem5Spec => []OneWaker
<1>1. Gem5Inv => OneWaker
  BY DEF Gem5Inv
<1> QED
  BY <1>1, Gem5Consistent, PTL

\* The drain manager never waits for an object with nothing outstanding.
THEOREM DrainEnds == Gem5Spec => []DrainIsSignalled
<1>1. Gem5Inv => DrainIsSignalled
  BY DEF Gem5Inv
<1> QED
  BY <1>1, Gem5Consistent, PTL

\* gem5 drives the memory controller as its specification allows: pages come
\* from the driver's set, no queue is overrun, nothing is sent during a tick.
THEOREM Gem5DrivesImc == Gem5Spec => Spec
<1>1. Gem5Init => Init
  BY DEF Gem5Init
<1>2. Gem5Inv /\ [Gem5Next]_gem5Vars => [Next]_vars
  BY Gem5Imc DEF Gem5Inv
<1> QED
  BY <1>1, <1>2, Gem5Consistent, PTL DEF Gem5Spec, Spec

\* Packets of gem5 are served first come first serve, since gem5 stamps them.
THEOREM Gem5ServedInOrder ==
  ASSUME Stamped
  PROVE  Gem5Spec => []FirstComeFirstServe
<1>1. Spec => []FirstComeFirstServe
  BY ServedInOrder
<1> QED
  BY <1>1, Gem5DrivesImc, PTL

(***************************************************************************)
(* Packets are in one place.                                               *)
(***************************************************************************)
Distinct(q) == \A n \in DOMAIN q : \A m \in DOMAIN q : q[n] = q[m] => n = m

\* the packet that the peer holds, as a set
Held == IF peer.pkt # NoPacket THEN {peer.pkt.id} ELSE {}

\* A packet is filed at most once, under its own address, or queued for its
\* response, or held by the peer, and then it is one of those that can be
\* refused; the packets owed are these.
PlacesOK ==
  /\ \A a \in Addrs : /\ Distinct(reads[a])
                      /\ \A i \in Queued(reads[a]) : a = PageOf[i] + StartAddr
  /\ Distinct(resp_queue)
  /\ Filed(reads) \cap Queued(resp_queue) = {}
  /\ Held \cap (Filed(reads) \cup Queued(resp_queue)) = {}
  /\ peer.pkt # NoPacket => peer.pkt.kind \in {"read", "write", "writeback"}
  /\ owed = Filed(reads) \cup Queued(resp_queue) \cup Held

\* A packet that is not in a queue may be appended to it.
LEMMA DistinctAppend ==
  ASSUME NEW q \in Seq(Ids), NEW i \in Ids
  PROVE  /\ Queued(Append(q, i)) = Queued(q) \cup {i}
         /\ Distinct(q) /\ i \notin Queued(q) => Distinct(Append(q, i))
<1> DEFINE p == Append(q, i)
<1>1. /\ DOMAIN q = 1 .. Len(q) /\ DOMAIN p = 1 .. Len(q) + 1 /\ Len(q) \in Nat
      /\ p[Len(q) + 1] = i /\ \A n \in 1 .. Len(q) : p[n] = q[n]
      /\ \A n \in 1 .. Len(q) + 1 : n \in 1 .. Len(q) \/ n = Len(q) + 1
  BY AppendFacts
<1> HIDE DEF p
<1>2. Queued(p) = Queued(q) \cup {i}
  BY <1>1 DEF Queued
<1>3. Distinct(q) /\ i \notin Queued(q) => Distinct(p)
  BY <1>1 DEF Distinct, Queued
<1> QED
  BY <1>2, <1>3 DEF p

\* The head of a queue is the only one that leaves.
LEMMA DistinctTail ==
  ASSUME NEW q \in Seq(Ids), q # <<>>, Distinct(q), NEW p, p = Tail(q) \/ p = Popped(q, 1)
  PROVE  Distinct(p) /\ Queued(p) = Queued(q) \ {Head(q)} /\ Head(q) \in Queued(q)
<1>1. /\ Head(q) = q[1] /\ 1 \in DOMAIN q /\ DOMAIN q = 1 .. Len(q)
      /\ Len(q) \in Nat \ {0} /\ DOMAIN Tail(q) = 1 .. Len(q) - 1
      /\ \A n \in 1 .. Len(q) - 1 : Tail(q)[n] = q[n + 1] /\ n + 1 \in 1 .. Len(q)
  BY TailFacts
<1>2. DOMAIN p = 1 .. Len(q) - 1 /\ \A n \in 1 .. Len(q) - 1 : p[n] = q[n + 1]
  <2>1. CASE p = Tail(q)
    BY <1>1, <2>1
  <2>2. CASE p = Popped(q, 1)
    <3>1. p = SubSeq(q, 1 + 1, Len(q)) /\ 1 \in 0 .. Len(q)
      BY <1>1, <2>2 DEF Popped
    <3>2. /\ DOMAIN SubSeq(q, 1 + 1, Len(q)) = 1 .. Len(q) - 1
          /\ \A n \in 1 .. Len(q) - 1 : SubSeq(q, 1 + 1, Len(q))[n] = q[1 + n]
      BY <3>1, DropFacts
    <3>3. \A n \in 1 .. Len(q) - 1 : 1 + n = n + 1
      BY <1>1
    <3> QED
      BY <3>1, <3>2, <3>3
  <2> QED
    BY <2>1, <2>2
<1>3. \A n \in 1 .. Len(q) : n = 1 \/ \E m \in 1 .. Len(q) - 1 : n = m + 1
  <2> TAKE n \in 1 .. Len(q)
  <2>1. n # 1 => n - 1 \in 1 .. Len(q) - 1 /\ n = (n - 1) + 1
    BY <1>1
  <2> QED
    BY <2>1
<1>4. \A n \in 1 .. Len(q) - 1 : n + 1 \in 1 .. Len(q) /\ n + 1 # 1 /\ n \in Int
  BY <1>1
<1>5. Distinct(p)
  <2> SUFFICES ASSUME NEW n \in 1 .. Len(q) - 1, NEW m \in 1 .. Len(q) - 1, p[n] = p[m]
               PROVE  n = m
    BY <1>2 DEF Distinct
  <2>1. n + 1 = m + 1
    BY <1>1, <1>2, <1>4 DEF Distinct
  <2> QED
    BY <1>4, <2>1
<1>6. Queued(p) = Queued(q) \ {Head(q)}
  <2>1. ASSUME NEW x \in Queued(p) PROVE x \in Queued(q) \ {Head(q)}
    <3>1. PICK n \in 1 .. Len(q) - 1 : x = p[n]
      BY <1>2, <2>1 DEF Queued
    <3>2. x = q[n + 1] /\ n + 1 \in DOMAIN q /\ n + 1 # 1
      BY <1>1, <1>2, <1>4, <3>1
    <3> QED
      BY <1>1, <3>2 DEF Queued, Distinct
  <2>2. ASSUME NEW x \in Queued(q) \ {Head(q)} PROVE x \in Queued(p)
    <3>1. PICK n \in 1 .. Len(q) : x = q[n] /\ n # 1
      BY <1>1, <2>2 DEF Queued
    <3>2. PICK m \in 1 .. Len(q) - 1 : n = m + 1
      BY <1>3, <3>1
    <3> QED
      BY <1>2, <3>1, <3>2 DEF Queued
  <2> QED
    BY <2>1, <2>2
<1> QED
  BY <1>1, <1>5, <1>6 DEF Queued

\* Filing one more packet.
LEMMA FiledAdds ==
  ASSUME NEW f \in [Addrs -> Seq(Ids)], NEW a \in Addrs, NEW q \in Seq(Ids)
  PROVE  /\ \A i : i \in Filed(f) <=> \E b \in Addrs : i \in Queued(f[b])
         /\ \A b \in Addrs : [f EXCEPT ![a] = q][b] = IF b = a THEN q ELSE f[b]
  BY DEF Filed

\* A packet that arrives gets its place.
LEMMA PlacesRecv ==
  ASSUME PortTypeOK, PlacesOK, NEW pkt \in Packet, RecvTimingReq(pkt),
         pkt.id \notin Filed(reads) \cup Queued(resp_queue),
         peer.pkt = NoPacket \/ peer.pkt = pkt
  PROVE  PlacesOK'
<1> DEFINE i == pkt.id
           R == Filed(reads)
           Q == Queued(resp_queue)
<1>1. /\ i \in Ids /\ pkt.addr \in Addrs /\ pkt.addr = PageOf[i] + StartAddr /\ pkt # NoPacket
  BY PacketTypes DEF Packet
<1>2. /\ reads \in [Addrs -> Seq(Ids)] /\ resp_queue \in Seq(Ids)
  BY DEF PortTypeOK
<1>3. /\ \A a \in Addrs : /\ Distinct(reads[a])
                          /\ \A j \in Queued(reads[a]) : a = PageOf[j] + StartAddr
      /\ Distinct(resp_queue)
      /\ R \cap Q = {} /\ owed = R \cup Q \cup Held
      /\ peer.pkt # NoPacket => pkt.kind \in {"read", "write", "writeback"}
      /\ Held = {} \/ Held = {i}
      /\ Held # {} => peer.pkt # NoPacket
      /\ i \notin R \cup Q
  BY DEF PlacesOK, Held
<1>4. owed \cup {i} = R \cup Q \cup {i} /\ owed \ {i} = R \cup Q
  BY <1>3
<1>5. ASSUME peer' = NoPeer PROVE Held' = {} /\ peer'.pkt = NoPacket
  BY <1>5 DEF Held, NoPeer
<1>6. ASSUME Respond(pkt), reads' = reads, peer' = NoPeer PROVE PlacesOK'
  <2>1. CASE NeedsResponse(pkt.kind)
    <3>1. resp_queue' = Append(resp_queue, i) /\ owed' = owed \cup {i}
      BY <1>6, <2>1 DEF Respond, AccessAndRespond
    <3>2. Queued(resp_queue') = Q \cup {i} /\ Distinct(resp_queue')
      BY <1>1, <1>2, <1>3, <3>1, DistinctAppend
    <3>3. Filed(reads') = R
      BY <1>6
    <3> HIDE DEF i, R, Q
    <3> QED
      BY <1>3, <1>4, <1>5, <1>6, <3>1, <3>2, <3>3 DEF PlacesOK
  <2>2. CASE ~NeedsResponse(pkt.kind)
    <3>1. resp_queue' = resp_queue /\ owed' = owed \ {i}
      BY <1>6, <2>2 DEF Respond, AccessAndRespond
    <3>2. Filed(reads') = R /\ Queued(resp_queue') = Q
      BY <1>6, <3>1
    <3> HIDE DEF i, R, Q
    <3> QED
      BY <1>3, <1>4, <1>5, <1>6, <3>1, <3>2 DEF PlacesOK
  <2> QED
    BY <2>1, <2>2
<1>7. CASE RecvRead(pkt) /\ peer' = NoPeer
  <2> DEFINE a == pkt.addr
             q == Append(reads[a], i)
  <2>1. reads' = [reads EXCEPT ![a] = q] /\ resp_queue' = resp_queue /\ owed' = owed \cup {i}
    BY <1>7 DEF RecvRead
  <2>2. q \in Seq(Ids) /\ Queued(q) = Queued(reads[a]) \cup {i}
    BY <1>1, <1>2, AppendFacts, DistinctAppend
  <2>3. i \notin Queued(reads[a])
    BY <1>1, <1>2, <1>3, FiledAdds
  <2>4. Distinct(q)
    BY <1>1, <1>2, <1>3, <2>3, DistinctAppend
  <2>10. a \in Addrs /\ a = PageOf[i] + StartAddr
    BY <1>1
  <2> HIDE DEF q, a
  <2>5. \A b \in Addrs : reads'[b] = IF b = a THEN q ELSE reads[b]
    BY <1>2, <2>1, <2>2, <2>10, FiledAdds
  <2>6. reads' \in [Addrs -> Seq(Ids)]
    BY <1>2, <2>1, <2>2
  <2>7. Filed(reads') = R \cup {i}
    <3>1. \A j : j \in Filed(reads') <=> \E b \in Addrs : j \in Queued(reads'[b])
      BY <1>2, <2>2, <2>6, <2>10, FiledAdds
    <3>2. \A j : j \in R <=> \E b \in Addrs : j \in Queued(reads[b])
      BY <1>2, <2>2, <2>10, FiledAdds
    <3> HIDE DEF R, i
    <3> QED
      BY <2>2, <2>5, <2>10, <3>1, <3>2
  <2>8. \A b \in Addrs : /\ Distinct(reads'[b])
                         /\ \A j \in Queued(reads'[b]) : b = PageOf[j] + StartAddr
    BY <1>3, <2>2, <2>4, <2>5, <2>10
  <2>9. Queued(resp_queue') = Q /\ Distinct(resp_queue')
    BY <1>3, <2>1
  <2> HIDE DEF i, R, Q
  <2> QED
    BY <1>3, <1>4, <1>5, <1>7, <2>1, <2>7, <2>8, <2>9 DEF PlacesOK
<1>8. CASE RecvWrite(pkt) /\ peer' = NoPeer
  BY <1>6, <1>8 DEF RecvWrite
<1>9. CASE RecvOther(pkt) /\ peer' = NoPeer
  BY <1>6, <1>9 DEF RecvOther
<1>10. CASE RecvSnooped(pkt) /\ peer' = NoPeer
  <2>1. /\ reads' = reads /\ resp_queue' = resp_queue /\ owed' = owed
        /\ pkt.kind = "snooped"
    BY <1>10 DEF RecvSnooped
  <2>2. Filed(reads') = R /\ Queued(resp_queue') = Q
    BY <2>1
  <2>3. Held = {}
    BY <1>3, <2>1
  <2> HIDE DEF i, R, Q
  <2> QED
    BY <1>3, <1>4, <1>5, <1>10, <2>1, <2>2, <2>3 DEF PlacesOK
<1>11. CASE /\ Refused(pkt) /\ peer' = [pkt |-> pkt, state |-> "waiting"]
            /\ owed' = owed \cup {pkt.id} /\ UNCHANGED <<reads, resp_queue>>
  <2>1. peer'.pkt = pkt /\ pkt.kind \in {"read", "write", "writeback"}
    BY <1>11 DEF Refused
  <2>2. Held' = {i}
    BY <1>1, <2>1 DEF Held
  <2>3. Filed(reads') = R /\ Queued(resp_queue') = Q /\ owed' = owed \cup {i}
    BY <1>11
  <2> HIDE DEF i, R, Q
  <2> QED
    BY <1>3, <1>4, <1>11, <2>1, <2>2, <2>3 DEF PlacesOK
<1> QED
  BY <1>7, <1>8, <1>9, <1>10, <1>11 DEF RecvTimingReq

\* A response that is taken leaves the queue, and is owed no longer.
LEMMA PlacesSend ==
  ASSUME PortTypeOK, PlacesOK, NEW pending, SendResponse(pending)
  PROVE  PlacesOK'
<1>1. /\ resp_queue # <<>> /\ reads' = reads /\ peer' = peer
      /\ \/ resp_queue' = Tail(resp_queue) /\ owed' = owed \ {Head(resp_queue)}
         \/ resp_queue' = resp_queue /\ owed' = owed
  BY DEF SendResponse
<1>2. resp_queue \in Seq(Ids)
  BY DEF PortTypeOK
<1>3. Filed(reads') = Filed(reads) /\ Held' = Held
  BY <1>1 DEF Held
<1>4. CASE resp_queue' = Tail(resp_queue) /\ owed' = owed \ {Head(resp_queue)}
  <2>1. /\ Distinct(resp_queue') /\ Queued(resp_queue') = Queued(resp_queue) \ {Head(resp_queue)}
        /\ Head(resp_queue) \in Queued(resp_queue)
    BY <1>1, <1>2, <1>4, DistinctTail DEF PlacesOK
  <2> HIDE DEF Filed, Queued, Held
  <2> QED
    BY <1>1, <1>3, <1>4, <2>1 DEF PlacesOK
<1>5. CASE resp_queue' = resp_queue /\ owed' = owed
  <2>1. Queued(resp_queue') = Queued(resp_queue)
    BY <1>5
  <2> QED
    BY <1>1, <1>3, <1>5, <2>1 DEF PlacesOK
<1> QED
  BY <1>1, <1>4, <1>5

\* A read that is called back moves from its address to the responses.
LEMMA PlacesReadComplete ==
  ASSUME PortTypeOK, PlacesOK, NEW a \in Addrs, ReadComplete(a)
  PROVE  PlacesOK'
<1> DEFINE q == Popped(reads[a], 1)
           i == Head(reads[a])
           R == Filed(reads)
           Q == Queued(resp_queue)
<1>1. /\ reads[a] # <<>> /\ reads' = [reads EXCEPT ![a] = q]
      /\ AccessAndRespond(i, "read") /\ peer' = peer /\ owed' = owed
  BY DEF ReadComplete, Answered
<1>2. /\ reads \in [Addrs -> Seq(Ids)] /\ resp_queue \in Seq(Ids) /\ reads[a] \in Seq(Ids)
  BY DEF PortTypeOK
<1>3. resp_queue' = Append(resp_queue, i)
  BY <1>1 DEF AccessAndRespond, NeedsResponse
<1>4. i \in Ids /\ q \in Seq(Ids)
  BY <1>1, <1>2, TailFacts, PoppedType
<1>5. Distinct(q) /\ Queued(q) = Queued(reads[a]) \ {i} /\ i \in Queued(reads[a])
  BY <1>1, <1>2, DistinctTail DEF PlacesOK
<1> HIDE DEF q, i
<1>6. \A b \in Addrs : reads'[b] = IF b = a THEN q ELSE reads[b]
  BY <1>1, <1>2, <1>4, FiledAdds
<1>7. reads' \in [Addrs -> Seq(Ids)]
  BY <1>1, <1>2, <1>4
<1>8. \A b \in Addrs : \A j \in Queued(reads[b]) : b = PageOf[j] + StartAddr
  BY DEF PlacesOK
<1>9. \A j : j \in Filed(reads') <=> \E b \in Addrs : j \in Queued(reads'[b])
  BY <1>4, <1>7, FiledAdds
<1>10. \A j : j \in R <=> \E b \in Addrs : j \in Queued(reads[b])
  BY <1>2, <1>4, FiledAdds
<1>18. /\ R \cap Q = {} /\ Held \cap (R \cup Q) = {} /\ owed = R \cup Q \cup Held
       /\ \A b \in Addrs : Distinct(reads[b])
       /\ Distinct(resp_queue)
       /\ peer.pkt # NoPacket => peer.pkt.kind \in {"read", "write", "writeback"}
  BY DEF PlacesOK
<1> HIDE DEF R
<1>11. Filed(reads') = R \ {i}
  <2>1. ASSUME NEW j \in Filed(reads') PROVE j \in R \ {i}
    <3>1. PICK b \in Addrs : j \in Queued(reads'[b])
      BY <1>9, <2>1
    <3>2. CASE b = a
      BY <1>5, <1>6, <1>10, <3>1, <3>2
    <3>3. CASE b # a
      BY <1>5, <1>6, <1>8, <1>10, <3>1, <3>3
    <3> QED
      BY <3>2, <3>3
  <2>2. ASSUME NEW j \in R \ {i} PROVE j \in Filed(reads')
    BY <1>5, <1>6, <1>9, <1>10
  <2> QED
    BY <2>1, <2>2
<1>12. i \in R
  BY <1>5, <1>10
<1>13. i \notin Q
  BY <1>12, <1>18
<1>14. Queued(resp_queue') = Q \cup {i} /\ Distinct(resp_queue')
  BY <1>2, <1>3, <1>4, <1>13, <1>18, DistinctAppend
<1>15. Held' = Held
  BY <1>1 DEF Held
<1>16. \A b \in Addrs : /\ Distinct(reads'[b])
                        /\ \A j \in Queued(reads'[b]) : b = PageOf[j] + StartAddr
  BY <1>5, <1>6, <1>8, <1>18
<1> HIDE DEF Q
<1>17. /\ Filed(reads') \cap Queued(resp_queue') = {}
       /\ Held' \cap (Filed(reads') \cup Queued(resp_queue')) = {}
       /\ owed' = Filed(reads') \cup Queued(resp_queue') \cup Held'
  BY <1>1, <1>11, <1>12, <1>14, <1>15, <1>18
<1>19. peer'.pkt # NoPacket => peer'.pkt.kind \in {"read", "write", "writeback"}
  BY <1>1, <1>18
<1>20. /\ Filed(reads)' = Filed(reads') /\ Queued(resp_queue)' = Queued(resp_queue')
       /\ \A b \in Addrs : Queued(reads[b])' = Queued(reads'[b])
  BY DEF Filed, Queued
<1> QED
  BY <1>14, <1>16, <1>17, <1>19, <1>20 DEF PlacesOK

\* Every step keeps every packet in its one place.
LEMMA PlacesStep == Gem5Inv /\ PlacesOK /\ [Gem5Next]_gem5Vars => PlacesOK'
<1> SUFFICES ASSUME Gem5Inv, PlacesOK, [Gem5Next]_gem5Vars PROVE PlacesOK'
  OBVIOUS
<1>1. PortTypeOK /\ PeerOK
  BY DEF Gem5Inv
<1>2. ASSUME NEW pkt \in Packet, NewPacket(pkt) PROVE PlacesOK'
  BY <1>1, <1>2, PlacesRecv DEF NewPacket, FreePacket, NoPeer
<1>3. CASE Resend
  <2>1. peer.pkt \in Packet /\ RecvTimingReq(peer.pkt) /\ peer.pkt # NoPacket
    BY <1>1, <1>3, ResendsPacket DEF Resend
  <2>2. peer.pkt.id \in Held
    BY <2>1 DEF Held
  <2>3. peer.pkt.id \notin Filed(reads) \cup Queued(resp_queue)
    BY <2>2 DEF PlacesOK
  <2> QED
    BY <1>1, <2>1, <2>3, PlacesRecv
<1>4. CASE SendRespEvent \/ RecvRespRetry
  BY <1>1, <1>4, PlacesSend DEF SendRespEvent, RecvRespRetry
<1>5. ASSUME NEW a \in Addrs, ReadComplete(a) PROVE PlacesOK'
  BY <1>1, <1>5, PlacesReadComplete
<1>6. ASSUME UNCHANGED <<reads, resp_queue, owed>>, peer'.pkt = peer.pkt PROVE PlacesOK'
  <2>1. Filed(reads)' = Filed(reads) /\ Queued(resp_queue)' = Queued(resp_queue) /\ Held' = Held
    BY <1>6 DEF Filed, Queued, Held
  <2>2. \A a \in Addrs : Queued(reads[a])' = Queued(reads[a]) /\ Distinct(reads[a])' = Distinct(reads[a])
    BY <1>6 DEF Queued, Distinct
  <2>3. Distinct(resp_queue)'
    BY <1>6 DEF PlacesOK, Distinct
  <2> QED
    BY <1>6, <2>1, <2>2, <2>3 DEF PlacesOK
<1>7. CASE Gem5Cycle \/ MemoryTakes \/ Drain \/ Resume \/ UNCHANGED gem5Vars
  BY <1>6, <1>7 DEF Gem5Cycle, MemoryTakes, Drain, Resume, gem5Vars, portVars
<1>8. CASE WrapperTick \/ EndTick
  <2>1. UNCHANGED <<reads, resp_queue, owed>>
    BY <1>8 DEF WrapperTick, EndTick, WriteComplete
  <2>2. peer' = peer \/ peer' = [peer EXCEPT !.state = "retry"]
    BY <1>8 DEF WrapperTick, EndTick, RetryReq
  <2>3. peer'.pkt = peer.pkt
    BY <1>1, <2>2 DEF PortTypeOK
  <2> QED
    BY <1>6, <2>1, <2>3
<1> QED
  BY <1>2, <1>3, <1>4, <1>5, <1>7, <1>8 DEF Gem5Next

\* At most one index holds a packet of a queue without repetitions.
LEMMA CountDistinct ==
  ASSUME NEW q, Distinct(q), NEW i
  PROVE  Cardinality({n \in DOMAIN q : q[n] = i}) = IF i \in Queued(q) THEN 1 ELSE 0
<1> DEFINE S == {n \in DOMAIN q : q[n] = i}
<1>1. CASE i \in Queued(q)
  <2>1. PICK n \in DOMAIN q : q[n] = i
    BY <1>1 DEF Queued
  <2>2. S = {n}
    BY <2>1 DEF Distinct
  <2> QED
    BY <1>1, <2>2, FS_Singleton
<1>2. CASE i \notin Queued(q)
  <2>1. S = {}
    BY <1>2 DEF Queued
  <2> QED
    BY <1>2, <2>1, FS_EmptySet
<1> QED
  BY <1>1, <1>2

\* Packets in one place are conserved.
LEMMA PlacesConserve == PortTypeOK /\ PlacesOK => PacketsConserved
<1> SUFFICES ASSUME PortTypeOK, PlacesOK PROVE PacketsConserved
  OBVIOUS
<1> DEFINE places(i) == UNION {{a} \X {n \in DOMAIN reads[a] : reads[a][n] = i} : a \in Addrs}
           answers(i) == {n \in DOMAIN resp_queue : resp_queue[n] = i}
<1> SUFFICES ASSUME NEW i \in Ids
             PROVE  Cardinality(places(i)) + Cardinality(answers(i))
                      + (IF peer.pkt # NoPacket /\ peer.pkt.id = i THEN 1 ELSE 0)
                    = IF i \in owed THEN 1 ELSE 0
  BY DEF PacketsConserved
<1>1. Cardinality(answers(i)) = IF i \in Queued(resp_queue) THEN 1 ELSE 0
  BY CountDistinct DEF PlacesOK
<1>2. Cardinality(places(i)) = IF i \in Filed(reads) THEN 1 ELSE 0
  <2>1. \A x : x \in places(i) <=>
          \E a \in Addrs : \E n \in DOMAIN reads[a] : reads[a][n] = i /\ x = <<a, n>>
    OBVIOUS
  <2>2. i \in Filed(reads) <=> \E a \in Addrs : i \in Queued(reads[a])
    BY DEF Filed
  <2> DEFINE P == places(i)
  <2> HIDE DEF places
  <2>3. CASE i \in Filed(reads)
    <3>1. PICK a \in Addrs : i \in Queued(reads[a])
      BY <2>2, <2>3
    <3>2. PICK n \in DOMAIN reads[a] : reads[a][n] = i
      BY <3>1 DEF Queued
    <3>3. \A b \in Addrs : \A m \in DOMAIN reads[b] : reads[b][m] = i => b = a /\ m = n
      <4> SUFFICES ASSUME NEW b \in Addrs, NEW m \in DOMAIN reads[b], reads[b][m] = i
                   PROVE  b = a /\ m = n
        OBVIOUS
      <4>1. i \in Queued(reads[b])
        BY DEF Queued
      <4>2. b = a
        BY <3>1, <4>1 DEF PlacesOK
      <4> QED
        BY <3>2, <4>2 DEF PlacesOK, Distinct
    <3>4. P = {<<a, n>>}
      BY <2>1, <3>2, <3>3
    <3> QED
      BY <2>3, <3>4, FS_Singleton
  <2>4. CASE i \notin Filed(reads)
    <3>1. P = {}
      BY <2>1, <2>2, <2>4 DEF Queued
    <3> QED
      BY <2>4, <3>1, FS_EmptySet
  <2> QED
    BY <2>3, <2>4
<1>3. /\ i \in owed <=> i \in Filed(reads) \/ i \in Queued(resp_queue) \/ i \in Held
      /\ ~(i \in Filed(reads) /\ i \in Queued(resp_queue))
      /\ i \in Held => i \notin Filed(reads) /\ i \notin Queued(resp_queue)
      /\ i \in Held <=> peer.pkt # NoPacket /\ peer.pkt.id = i
  BY DEF PlacesOK, Held
<1> HIDE DEF places, answers
<1> QED
  BY <1>1, <1>2, <1>3

\* No packet of gem5 is lost, and none is answered twice, whatever is refused
\* by whom and in which order the memories below call back.
THEOREM PacketsKept == Gem5Spec => []PacketsConserved
<1>1. Gem5Init => PlacesOK
  <2> SUFFICES ASSUME Gem5Init PROVE PlacesOK
    OBVIOUS
  <2>1. /\ reads = [a \in Addrs |-> <<>>] /\ resp_queue = <<>> /\ owed = {} /\ peer.pkt = NoPacket
    BY DEF Gem5Init, NoPeer
  <2>2. Queued(<<>>) = {} /\ Distinct(<<>>)
    BY DEF Queued, Distinct
  <2>3. Filed(reads) = {} /\ Queued(resp_queue) = {} /\ Held = {}
    BY <2>1, <2>2 DEF Filed, Held
  <2>4. \A a \in Addrs : reads[a] = <<>>
    BY <2>1
  <2> QED
    BY <2>1, <2>2, <2>3, <2>4 DEF PlacesOK
<1>2. Gem5Inv /\ PlacesOK /\ [Gem5Next]_gem5Vars => PlacesOK'
  BY PlacesStep
<1>3. Gem5Inv /\ PlacesOK => PacketsConserved
  BY PlacesConserve DEF Gem5Inv
<1> QED
  BY <1>1, <1>2, <1>3, Gem5Consistent, PTL DEF Gem5Spec

(***************************************************************************)
(* With one memory below that starts at address 0, the packets filed under *)
(* an address are the requests to it.                                      *)
(***************************************************************************)
\* requests of a queue to an address
Count(q, a) == Cardinality({i \in DOMAIN q : q[i].page = a})

\* those among the first n
CountFirst(q, n, a) == Cardinality({i \in 1 .. n : q[i].page = a})

\* The requests that left a queue and those that stayed.
LEMMA CountDrop ==
  ASSUME NEW q \in Seq(Request), NEW n \in 0 .. Len(q), NEW p, NEW a, Leaves(q, n, p)
  PROVE  /\ Count(p, a) \in Nat /\ CountFirst(q, n, a) \in Nat
         /\ Count(q, a) = CountFirst(q, n, a) + Count(p, a)
<1> DEFINE A == {i \in 1 .. n : q[i].page = a}
           B == {i \in DOMAIN p : p[i].page = a}
           C == {i \in (n + 1) .. Len(q) : q[i].page = a}
           D == {i \in DOMAIN q : q[i].page = a}
           f == [i \in B |-> n + i]
<1>17. DOMAIN p = 1 .. Len(q) - n /\ \A i \in 1 .. Len(q) - n : p[i] = q[n + i]
  BY DEF Leaves
<1>1. Len(q) \in Nat /\ DOMAIN q = 1 .. Len(q) /\ n \in Nat /\ n <= Len(q)
  OBVIOUS
<1>2. \A i \in 1 .. Len(q) - n : i \in Int /\ n + i \in (n + 1) .. Len(q)
  BY <1>1
<1>3. \A j \in (n + 1) .. Len(q) : j - n \in 1 .. Len(q) - n /\ n + (j - n) = j
  BY <1>1
<1>4. \A i \in B : f[i] \in C
  BY <1>2, <1>17
<1>5. \A i \in B : \A j \in B : f[i] = f[j] => i = j
  BY <1>2, <1>17
<1>6. \A j \in C : \E i \in B : f[i] = j
  <2> TAKE j \in C
  <2>1. j - n \in B /\ f[j - n] = j
    BY <1>3, <1>17
  <2> QED
    BY <2>1
<1>13. f \in [B -> C]
  BY <1>4
<1>7. f \in Bijection(B, C)
  <2> HIDE DEF f, B, C
  <2>1. f \in Injection(B, C)
    BY <1>5, <1>13 DEF Injection, IsInjective
  <2>2. f \in Surjection(B, C)
    BY <1>6, <1>13 DEF Surjection
  <2> QED
    BY <2>1, <2>2 DEF Bijection
<1>8. /\ IsFiniteSet(1 .. n) /\ A \in SUBSET (1 .. n)
      /\ IsFiniteSet(1 .. Len(q) - n) /\ B \in SUBSET (1 .. Len(q) - n)
  <2>4. Len(q) - n \in Int
    BY <1>1
  <2>1. PICK k \in Int : k = Len(q) - n
    BY <2>4, Zenon
  <2>2. IsFiniteSet(1 .. n) /\ IsFiniteSet(1 .. k)
    BY <1>1, FS_Interval
  <2>3. A \subseteq 1 .. n /\ B \subseteq DOMAIN p
    OBVIOUS
  <2> HIDE DEF A, B
  <2> QED
    BY <1>17, <2>1, <2>2, <2>3
<1>9. A \cap C = {} /\ A \cup C = D
  <2>1. \A i \in 1 .. Len(q) : i \in 1 .. n \/ i \in (n + 1) .. Len(q)
    BY <1>1
  <2>2. \A i \in 1 .. n : i \in 1 .. Len(q) /\ ~(i \in (n + 1) .. Len(q))
    BY <1>1
  <2>3. \A i \in (n + 1) .. Len(q) : i \in 1 .. Len(q)
    BY <1>1
  <2> QED
    BY <1>1, <2>1, <2>2, <2>3
<1>14. /\ Count(q, a) = Cardinality(D) /\ Count(p, a) = Cardinality(B)
       /\ CountFirst(q, n, a) = Cardinality(A)
  BY DEF Count, CountFirst
<1> HIDE DEF A, B, C, D, f
<1>10. IsFiniteSet(A) /\ IsFiniteSet(B)
  BY <1>8, FS_Subset
<1>11. IsFiniteSet(C) /\ Cardinality(C) = Cardinality(B)
  BY <1>7, <1>10, FS_Bijection DEF ExistsBijection
<1>12. Cardinality(D) = Cardinality(A) + Cardinality(C) - Cardinality({})
  <2>1. Cardinality(A \cup C) = Cardinality(A) + Cardinality(C) - Cardinality(A \cap C)
    BY <1>10, <1>11, FS_Union
  <2> QED
    BY <1>9, <2>1
<1>15. Cardinality(A) \in Nat /\ Cardinality(B) \in Nat /\ Cardinality({}) = 0
  BY <1>10, FS_CardinalityType, FS_EmptySet
<1>16. Cardinality(D) = Cardinality(A) + Cardinality(B)
  BY <1>11, <1>12, <1>15
<1> QED
  BY <1>14, <1>15, <1>16

\* A queue has finitely many requests to an address.
LEMMA CountTypes ==
  ASSUME NEW q \in Seq(Request), NEW a
  PROVE  Count(q, a) \in Nat
<1> DEFINE D == {i \in DOMAIN q : q[i].page = a}
<1>1. D \in SUBSET (1 .. Len(q)) /\ IsFiniteSet(1 .. Len(q))
  <2>1. DOMAIN q = 1 .. Len(q) /\ Len(q) \in Int
    OBVIOUS
  <2> QED
    BY <2>1, FS_Interval
<1> HIDE DEF D
<1>2. Cardinality(D) \in Nat
  BY <1>1, FS_Subset, FS_CardinalityType
<1> QED
  BY <1>2 DEF D, Count

\* A queue with as many requests to the same addresses.
LEMMA CountSame ==
  ASSUME NEW q, NEW p, NEW a, DOMAIN p = DOMAIN q, \A i \in DOMAIN q : p[i].page = q[i].page
  PROVE  Count(p, a) = Count(q, a)
<1>1. {i \in DOMAIN p : p[i].page = a} = {i \in DOMAIN q : q[i].page = a}
  OBVIOUS
<1> QED
  BY <1>1 DEF Count

\* A request that is appended is one more to its address.
LEMMA CountAppend ==
  ASSUME NEW q \in Seq(Request), NEW x \in Request, NEW a
  PROVE  /\ Count(q, a) \in Nat
         /\ Count(Append(q, x), a) = Count(q, a) + IF x.page = a THEN 1 ELSE 0
<1> DEFINE p == Append(q, x)
           D == {i \in DOMAIN q : q[i].page = a}
           E == {i \in DOMAIN p : p[i].page = a}
<1>1. /\ DOMAIN q = 1 .. Len(q) /\ DOMAIN p = 1 .. Len(q) + 1 /\ Len(q) \in Nat
      /\ p[Len(q) + 1] = x /\ \A i \in 1 .. Len(q) : p[i] = q[i]
      /\ \A i \in 1 .. Len(q) + 1 : i \in 1 .. Len(q) \/ i = Len(q) + 1
  BY AppendFacts
<1>7. IsFiniteSet(1 .. Len(q))
  <2>1. 1 \in Int /\ Len(q) \in Int
    BY <1>1
  <2> QED
    BY ONLY <2>1, FS_Interval, Zenon
<1>8. D \in SUBSET (1 .. Len(q))
  BY <1>1
<1>9. /\ Len(q) + 1 \notin 1 .. Len(q) /\ Len(q) + 1 \in 1 .. Len(q) + 1
      /\ \A i \in 1 .. Len(q) : i \in 1 .. Len(q) + 1
  BY <1>1
<1>2. /\ IsFiniteSet(1 .. Len(q)) /\ D \in SUBSET (1 .. Len(q)) /\ Len(q) + 1 \notin D
      /\ \A i \in 1 .. Len(q) : i \in 1 .. Len(q) + 1
      /\ Len(q) + 1 \in 1 .. Len(q) + 1
  <2> HIDE DEF D
  <2> QED
    BY <1>7, <1>8, <1>9
<1>5. Count(q, a) = Cardinality(D) /\ Count(p, a) = Cardinality(E)
  BY DEF Count
<1> HIDE DEF p
<1>4. E = IF x.page = a THEN D \cup {Len(q) + 1} ELSE D
  <2>1. \A i : i \in E <=> i \in 1 .. Len(q) + 1 /\ p[i].page = a
    BY <1>1
  <2>2. \A i : i \in D <=> i \in 1 .. Len(q) /\ q[i].page = a
    BY <1>1
  <2>3. \A i : i \in E <=> i \in D \/ (i = Len(q) + 1 /\ x.page = a)
    <3>1. ASSUME NEW i \in E PROVE i \in D \/ (i = Len(q) + 1 /\ x.page = a)
      BY <1>1, <2>1, <2>2
    <3>2. ASSUME NEW i \in D PROVE i \in E
      BY <1>1, <1>2, <2>1, <2>2
    <3>3. x.page = a => Len(q) + 1 \in E
      BY <1>1, <1>2, <2>1
    <3> HIDE DEF D, E
    <3> QED
      BY <3>1, <3>2, <3>3
  <2> HIDE DEF D, E
  <2> QED
    BY <2>3
<1> HIDE DEF D, E
<1>3. IsFiniteSet(D) /\ Cardinality(D) \in Nat
  BY <1>2, FS_Subset, FS_CardinalityType
<1>6. Cardinality(D \cup {Len(q) + 1}) = Cardinality(D) + 1
  BY <1>2, <1>3, FS_AddElement
<1> QED
  BY <1>3, <1>4, <1>5, <1>6 DEF p

\* What Popped leaves is shorter.
LEMMA PoppedLength ==
  ASSUME NEW q \in Seq(Ids), NEW n \in 0 .. Len(q)
  PROVE  Len(Popped(q, n)) = Len(q) - n
  BY DropFacts DEF Popped

\* A packet is filed under the address that its request is sent to.
LEMMA MatchRecv ==
  ASSUME StartAddr = 0, TypeOK, PortTypeOK, RequestsMatchPackets,
         NEW pkt \in Packet, RecvTimingReq(pkt)
  PROVE  RequestsMatchPackets'
<1> DEFINE x == NewRequest(pkt.id, RmcAddr(pkt.addr))
<1>1. /\ rpq \in Seq(Request) /\ wpq \in Seq(Request) /\ reads \in [Addrs -> Seq(Ids)]
      /\ writes \in [Addrs -> Seq(Ids)] /\ below \in [Addrs -> Nat]
  BY DEF TypeOK, PortTypeOK
<1>2. pkt.id \in Ids /\ pkt.addr \in Addrs /\ RmcAddr(pkt.addr) \in Pages
  BY PacketTypes
<1>3. x \in Request /\ x.page = pkt.addr
  <2>1. RmcAddr(pkt.addr) = pkt.addr
    <3>1. PageOf[pkt.id] \in Nat /\ pkt.addr = PageOf[pkt.id] + StartAddr
      BY <1>2 DEF Packet
    <3> QED
      BY <3>1 DEF RmcAddr
  <2> QED
    BY <1>2, <2>1, NewRequestType DEF NewRequest
<1>4. \A a \in Addrs : /\ Len(writes[a]) = Count(wpq, a)
                       /\ Len(reads[a]) = Count(rpq, a) + below[a]
  BY DEF RequestsMatchPackets, Count
<1>5. below' = below
  BY DEF RecvTimingReq
<1>6. CASE /\ rpq' = Append(rpq, x) /\ wpq' = wpq /\ writes' = writes
           /\ reads' = [reads EXCEPT ![pkt.addr] = Append(reads[pkt.addr], pkt.id)]
  <2>1. ASSUME NEW a \in Addrs PROVE Len(reads'[a]) = Count(rpq', a) + below'[a]
    <3>1. Count(rpq, a) \in Nat /\ Count(rpq', a) = Count(rpq, a) + IF x.page = a THEN 1 ELSE 0
      BY <1>1, <1>3, <1>6, CountAppend
    <3>2. Len(reads'[a]) = Len(reads[a]) + IF pkt.addr = a THEN 1 ELSE 0
      BY <1>1, <1>2, <1>6
    <3>3. below[a] \in Nat /\ Len(reads[a]) = Count(rpq, a) + below[a]
      BY <1>1, <1>4
    <3> HIDE DEF x
    <3> QED
      BY <1>3, <1>5, <3>1, <3>2, <3>3
  <2>2. \A a \in Addrs : Len(writes'[a]) = Count(wpq', a)
    BY <1>4, <1>6
  <2> QED
    BY <2>1, <2>2 DEF RequestsMatchPackets, Count
<1>7. CASE /\ wpq' = Append(wpq, x) /\ rpq' = rpq /\ reads' = reads
           /\ writes' = [writes EXCEPT ![pkt.addr] = Append(writes[pkt.addr], pkt.id)]
  <2>1. ASSUME NEW a \in Addrs PROVE Len(writes'[a]) = Count(wpq', a)
    <3>1. Count(wpq, a) \in Nat /\ Count(wpq', a) = Count(wpq, a) + IF x.page = a THEN 1 ELSE 0
      BY <1>1, <1>3, <1>7, CountAppend
    <3>2. Len(writes'[a]) = Len(writes[a]) + IF pkt.addr = a THEN 1 ELSE 0
      BY <1>1, <1>2, <1>7
    <3> HIDE DEF x
    <3> QED
      BY <1>3, <1>4, <3>1, <3>2
  <2>2. \A a \in Addrs : Len(reads'[a]) = Count(rpq', a) + below'[a]
    BY <1>4, <1>5, <1>7
  <2> QED
    BY <2>1, <2>2 DEF RequestsMatchPackets, Count
<1>8. CASE UNCHANGED <<rpq, wpq, reads, writes>>
  BY <1>5, <1>8 DEF RequestsMatchPackets
<1>9. CASE RecvRead(pkt)
  BY <1>6, <1>9 DEF RecvRead, IssueRead
<1>10. CASE RecvWrite(pkt)
  BY <1>7, <1>10 DEF RecvWrite, IssueWrite
<1>11. CASE UNCHANGED <<vars, reads, writes>>
  BY <1>8, <1>11 DEF vars
<1> QED
  BY <1>9, <1>10, <1>11 DEF RecvTimingReq, RecvOther, RecvSnooped

\* What a tick sends is called back, or owed, under the address it was filed.
LEMMA MatchTick ==
  ASSUME Components = 1, TypeOK, PortTypeOK, RequestsMatchPackets,
         Tick \/ Adr, WriteComplete
  PROVE  RequestsMatchPackets'
<1>1. /\ rpq \in Seq(Request) /\ wpq \in Seq(Request) /\ reads \in [Addrs -> Seq(Ids)]
      /\ writes \in [Addrs -> Seq(Ids)] /\ below \in [Addrs -> Nat]
      /\ DOMAIN rpq = 1 .. Len(rpq) /\ Len(rpq) \in Nat
      /\ DOMAIN wpq = 1 .. Len(wpq) /\ Len(wpq) \in Nat
  BY DEF TypeOK, PortTypeOK
<1>2. \A a \in Addrs : /\ Len(writes[a]) = Count(wpq, a)
                       /\ Len(reads[a]) = Count(rpq, a) + below[a]
  BY DEF RequestsMatchPackets, Count
<1>3. /\ \A a \in Addrs : /\ writes'[a] = Popped(writes[a], Cardinality(Sent("write", a)))
                          /\ below'[a] = below[a] + Cardinality(Sent("read", a))
      /\ reads' = reads
  BY DEF WriteComplete
<1>4. \A page \in Nat : MapPage(page) = page
  BY DEF MapPage
<1>5. ASSUME NEW a \in Addrs, NEW n \in Nat, Cardinality(Sent("write", a)) = n,
             NEW m \in Nat, Count(wpq, a) = n + m, Count(wpq', a) = m,
             NEW k \in Nat, Cardinality(Sent("read", a)) = k,
             NEW l \in Nat, Count(rpq, a) = k + l, Count(rpq', a) = l
      PROVE  Len(writes'[a]) = Count(wpq', a) /\ Len(reads'[a]) = Count(rpq', a) + below'[a]
  <2>1. writes[a] \in Seq(Ids) /\ Len(writes[a]) = n + m /\ n \in 0 .. Len(writes[a])
    BY <1>1, <1>2, <1>5
  <2>2. writes'[a] = Popped(writes[a], n)
    BY <1>3, <1>5
  <2>3. Len(writes'[a]) = Len(writes[a]) - n
    BY <2>1, <2>2, PoppedLength
  <2>4. below[a] \in Nat /\ below'[a] = below[a] + k /\ Len(reads'[a]) = (k + l) + below[a]
    BY <1>1, <1>2, <1>3, <1>5
  <2> QED
    BY <1>5, <2>1, <2>3, <2>4
<1>6. \A q \in Seq(Request) : \A a : Count(q, a) \in Nat
  BY CountTypes
<1>7. Cardinality({}) = 0 /\ Cardinality({1}) = 1
  BY FS_EmptySet, FS_Singleton
<1>8. \A a \in Addrs : Count(rpq, a) \in Nat /\ Count(wpq, a) \in Nat
  BY <1>1, <1>6
<1>9. CASE Stays
  <2>1. \A op, a : Sent(op, a) = {}
    BY <1>9, SentFacts
  <2>2. wpq' = wpq
    BY <1>9 DEF Stays
  <2>3. \A a \in Addrs : Count(rpq', a) = Count(rpq, a)
    <3>1. CASE rpq' = rpq
      BY <3>1
    <3>2. CASE rpq # <<>> /\ rpq' = [rpq EXCEPT ![1].page = MapPage(Head(rpq).page)]
      <4>1. 1 \in DOMAIN rpq /\ Head(rpq) = rpq[1] /\ rpq[1] \in Request
        BY <1>1, <3>2, TailFacts
      <4>2. MapPage(Head(rpq).page) = rpq[1].page
        BY <1>4, <4>1, RequestTypes
      <4>3. rpq' = [rpq EXCEPT ![1].page = rpq[1].page]
        BY <3>2, <4>2
      <4>4. DOMAIN rpq' = DOMAIN rpq /\ \A i \in DOMAIN rpq : rpq'[i].page = rpq[i].page
        BY <1>1, <4>1, <4>3 DEF Request
      <4> QED
        BY <4>4, CountSame
    <3> QED
      BY <1>9, <3>1, <3>2 DEF Stays
  <2>4. ASSUME NEW a \in Addrs
        PROVE  Len(writes'[a]) = Count(wpq', a) /\ Len(reads'[a]) = Count(rpq', a) + below'[a]
    <3>1. Cardinality(Sent("write", a)) = 0 /\ Cardinality(Sent("read", a)) = 0
      BY <1>7, <2>1
    <3>2. PICK m \in Nat, l \in Nat : m = Count(wpq, a) /\ l = Count(rpq, a)
      BY <1>8
    <3>3. /\ Count(wpq, a) = 0 + m /\ Count(wpq', a) = m
          /\ Count(rpq, a) = 0 + l /\ Count(rpq', a) = l
      BY <2>2, <2>3, <3>2
    <3> QED
      BY <1>5, <3>1, <3>2, <3>3
  <2> QED
    BY <2>4 DEF RequestsMatchPackets, Count
<1>10. CASE ReadGoes
  <2>1. /\ \A a : Sent("write", a) = {}
        /\ \A a : Sent("read", a) = IF a = MapPage(Head(rpq).page) THEN {1} ELSE {}
    BY <1>10, SentFacts
  <2>2. rpq # <<>> /\ rpq' = Tail(rpq) /\ wpq' = wpq
    BY <1>10 DEF ReadGoes
  <2>3. /\ Head(rpq) = rpq[1] /\ rpq[1] \in Request /\ 1 \in 0 .. Len(rpq)
        /\ DOMAIN rpq' = 1 .. Len(rpq) - 1
        /\ \A i \in 1 .. Len(rpq) - 1 : rpq'[i] = rpq[1 + i]
    BY <1>1, <2>2, TailFacts
  <2>4. MapPage(Head(rpq).page) = rpq[1].page
    BY <1>4, <2>3, RequestTypes
  <2>5. ASSUME NEW a \in Addrs
        PROVE  Len(writes'[a]) = Count(wpq', a) /\ Len(reads'[a]) = Count(rpq', a) + below'[a]
    <3>1. Cardinality(Sent("write", a)) = 0
      BY <1>7, <2>1
    <3>2. PICK k \in Nat : k = IF a = rpq[1].page THEN 1 ELSE 0
      OBVIOUS
    <3>3. Cardinality(Sent("read", a)) = k
      BY <1>7, <2>1, <2>4, <3>2
    <3>4. CountFirst(rpq, 1, a) = k
      <4>1. {i \in 1 .. 1 : rpq[i].page = a} = IF a = rpq[1].page THEN {1} ELSE {}
        OBVIOUS
      <4> QED
        BY <1>7, <3>2, <4>1 DEF CountFirst
    <3>5. Count(rpq', a) \in Nat /\ Count(rpq, a) = k + Count(rpq', a)
      <4>1. Leaves(rpq, 1, rpq')
        BY <2>3 DEF Leaves
      <4> QED
        BY <1>1, <2>3, <3>4, <4>1, CountDrop
    <3>6. PICK m \in Nat, l \in Nat : m = Count(wpq, a) /\ l = Count(rpq', a)
      BY <1>8, <3>5
    <3>8. PICK z \in Nat : z = 0
      OBVIOUS
    <3>7. /\ Count(wpq, a) = z + m /\ Count(wpq', a) = m
          /\ Count(rpq, a) = k + l /\ Count(rpq', a) = l
      BY <2>2, <3>5, <3>6, <3>8
    <3>9. Cardinality(Sent("write", a)) = z
      BY <3>1, <3>8
    <3> QED
      BY <1>5, <3>3, <3>7, <3>9, Zenon
  <2> QED
    BY <2>5 DEF RequestsMatchPackets, Count
<1>11. CASE \E n \in 0 .. Len(wpq) : WritesGo(n)
  <2>1. PICK n \in 0 .. Len(wpq) : WritesGo(n)
    BY <1>11
  <2>2. /\ \A a : Sent("read", a) = {}
        /\ \A a : Sent("write", a) = {i \in 1 .. n : wpq[i].page = a}
    BY <2>1, SentFacts
  <2>3. /\ rpq' = rpq /\ DOMAIN wpq' = 1 .. Len(wpq) - n
        /\ \A i \in 1 .. Len(wpq) - n : wpq'[i] = wpq[n + i]
    BY <1>1, <2>1, DropFacts DEF WritesGo
  <2>4. ASSUME NEW a \in Addrs
        PROVE  Len(writes'[a]) = Count(wpq', a) /\ Len(reads'[a]) = Count(rpq', a) + below'[a]
    <3>1. Cardinality(Sent("read", a)) = 0
      BY <1>7, <2>2
    <3>2. /\ Count(wpq', a) \in Nat /\ Cardinality(Sent("write", a)) \in Nat
          /\ Count(wpq, a) = Cardinality(Sent("write", a)) + Count(wpq', a)
      <4>1. Cardinality(Sent("write", a)) = CountFirst(wpq, n, a)
        BY <2>2 DEF CountFirst
      <4>2. Leaves(wpq, n, wpq')
        BY <2>3 DEF Leaves
      <4>3. /\ Count(wpq', a) \in Nat /\ CountFirst(wpq, n, a) \in Nat
            /\ Count(wpq, a) = CountFirst(wpq, n, a) + Count(wpq', a)
        BY <1>1, <4>2, CountDrop
      <4> QED
        BY <4>1, <4>3
    <3>3. PICK k \in Nat, m \in Nat, l \in Nat :
            k = Cardinality(Sent("write", a)) /\ m = Count(wpq', a) /\ l = Count(rpq, a)
      BY <1>8, <3>2
    <3>5. PICK z \in Nat : z = 0
      OBVIOUS
    <3>4. /\ Count(wpq, a) = k + m /\ Count(wpq', a) = m
          /\ Count(rpq, a) = z + l /\ Count(rpq', a) = l
      BY <2>3, <3>2, <3>3, <3>5
    <3>6. Cardinality(Sent("read", a)) = z /\ Cardinality(Sent("write", a)) = k
      BY <3>1, <3>3, <3>5
    <3> QED
      BY <1>5, <3>4, <3>6, Zenon
  <2> QED
    BY <2>4 DEF RequestsMatchPackets, Count
<1> QED
  BY <1>9, <1>10, <1>11, TickMoves

\* Every step keeps the packets of an address as many as its requests.
LEMMA MatchStep ==
  ASSUME Components = 1, StartAddr = 0
  PROVE  Gem5Inv /\ RequestsMatchPackets /\ [Gem5Next]_gem5Vars => RequestsMatchPackets'
<1> SUFFICES ASSUME Gem5Inv, RequestsMatchPackets, [Gem5Next]_gem5Vars
             PROVE  RequestsMatchPackets'
  OBVIOUS
<1>1. TypeOK /\ PortTypeOK /\ PeerOK
  BY DEF Gem5Inv
<1>2. \A a \in Addrs : /\ Len(writes[a]) = Count(wpq, a)
                       /\ Len(reads[a]) = Count(rpq, a) + below[a]
  BY DEF RequestsMatchPackets, Count
<1>3. ASSUME NEW pkt \in Packet, NewPacket(pkt) PROVE RequestsMatchPackets'
  BY <1>1, <1>3, MatchRecv DEF NewPacket
<1>4. CASE Resend
  BY <1>1, <1>4, ResendsPacket, MatchRecv DEF Resend
<1>5. ASSUME UNCHANGED <<rpq, wpq, reads, writes, below>> PROVE RequestsMatchPackets'
  BY <1>5 DEF RequestsMatchPackets
<1>6. CASE SendRespEvent \/ RecvRespRetry \/ Drain \/ Resume \/ UNCHANGED gem5Vars
  BY <1>5, <1>6 DEF SendRespEvent, RecvRespRetry, SendResponse, Drain, Resume,
                    gem5Vars, portVars, vars
<1>7. CASE MemoryTakes
  BY <1>5, <1>7 DEF MemoryTakes, NextTakes, portVars
<1>8. CASE WrapperTick \/ EndTick
  BY <1>1, <1>8, MatchTick DEF WrapperTick, EndTick
<1>9. CASE Gem5Cycle
  <2>1. UNCHANGED <<reads, writes, below>> /\ rpq' = Aged(rpq) /\ wpq' = Aged(wpq)
    BY <1>9 DEF Gem5Cycle, NextCycle, portVars
  <2>2. ASSUME NEW q \in Seq(Request), NEW a PROVE Count(Aged(q), a) = Count(q, a)
    <3>1. DOMAIN Aged(q) = DOMAIN q /\ \A i \in DOMAIN q : Aged(q)[i].page = q[i].page
      BY <1>1, AgedFacts
    <3> QED
      BY <3>1, CountSame
  <2>3. \A a \in Addrs : Count(rpq', a) = Count(rpq, a) /\ Count(wpq', a) = Count(wpq, a)
    BY <1>1, <2>1, <2>2 DEF TypeOK
  <2>4. \A a \in Addrs : /\ Len(writes'[a]) = Count(wpq', a)
                         /\ Len(reads'[a]) = Count(rpq', a) + below'[a]
    BY <1>2, <2>1, <2>3
  <2> QED
    BY <2>4 DEF RequestsMatchPackets, Count
<1>10. ASSUME NEW a \in Addrs, ReadComplete(a) PROVE RequestsMatchPackets'
  <2>1. /\ below[a] > 0 /\ reads[a] # <<>>
        /\ below' = [below EXCEPT ![a] = below[a] - 1]
        /\ reads' = [reads EXCEPT ![a] = Popped(reads[a], 1)]
        /\ UNCHANGED <<vars, writes>>
    BY <1>10 DEF ReadComplete
  <2>2. /\ reads \in [Addrs -> Seq(Ids)] /\ below \in [Addrs -> Nat] /\ reads[a] \in Seq(Ids)
    BY <1>1 DEF PortTypeOK
  <2>3. 1 \in 0 .. Len(reads[a]) /\ Len(reads[a]) \in Nat
    BY <2>1, <2>2
  <2>4. Len(Popped(reads[a], 1)) = Len(reads[a]) - 1
    BY <2>2, <2>3, PoppedLength
  <2>5. rpq' = rpq /\ wpq' = wpq
    BY <2>1 DEF vars
  <2>6. ASSUME NEW b \in Addrs PROVE Len(reads'[b]) = Count(rpq', b) + below'[b]
    <3>1. CASE b = a
      <4>1. /\ Len(reads'[a]) = Len(reads[a]) - 1 /\ below'[a] = below[a] - 1 /\ below[a] \in Nat
        BY <2>1, <2>2, <2>4
      <4>2. Len(reads[a]) = Count(rpq, a) + below[a]
        BY <1>2
      <4>3. Count(rpq, a) \in Nat
        BY <1>1, CountTypes DEF TypeOK
      <4> QED
        BY <2>3, <2>5, <3>1, <4>1, <4>2, <4>3
    <3>2. CASE b # a
      <4>1. reads'[b] = reads[b] /\ below'[b] = below[b]
        BY <2>1, <2>2, <3>2
      <4> QED
        BY <1>2, <2>5, <4>1
    <3> QED
      BY <3>1, <3>2
  <2>7. \A b \in Addrs : Len(writes'[b]) = Count(wpq', b)
    BY <1>2, <2>1, <2>5
  <2> QED
    BY <2>6, <2>7 DEF RequestsMatchPackets, Count
<1> QED
  BY <1>3, <1>4, <1>6, <1>7, <1>8, <1>9, <1>10 DEF Gem5Next

\* With one memory below that starts at address 0, every callback finds as many
\* packets filed under its address as there are requests to it.
THEOREM CallbacksMatch ==
  ASSUME Components = 1, StartAddr = 0
  PROVE  Gem5Spec => []RequestsMatchPackets
<1>1. Gem5Init => RequestsMatchPackets
  <2> SUFFICES ASSUME Gem5Init PROVE RequestsMatchPackets
    OBVIOUS
  <2>1. /\ reads = [a \in Addrs |-> <<>>] /\ writes = [a \in Addrs |-> <<>>]
        /\ below = [a \in Addrs |-> 0] /\ rpq = <<>> /\ wpq = <<>>
    BY DEF Gem5Init, Init
  <2>2. DOMAIN rpq = {} /\ DOMAIN wpq = {}
    BY <2>1
  <2>3. \A a : Count(rpq, a) = 0 /\ Count(wpq, a) = 0
    BY <2>2, FS_EmptySet DEF Count
  <2>4. \A a \in Addrs : Len(reads[a]) = 0 /\ Len(writes[a]) = 0 /\ below[a] = 0
    BY <2>1
  <2>5. \A a \in Addrs : /\ Len(writes[a]) = Count(wpq, a)
                         /\ Len(reads[a]) = Count(rpq, a) + below[a]
    BY <2>3, <2>4
  <2> QED
    BY <2>5 DEF RequestsMatchPackets, Count
<1>2. Gem5Inv /\ RequestsMatchPackets /\ [Gem5Next]_gem5Vars => RequestsMatchPackets'
  BY MatchStep
<1> QED
  BY <1>1, <1>2, Gem5Consistent, PTL DEF Gem5Spec

\* So the assertion of readComplete holds in that configuration: a read that is
\* called back is filed.  It fails in others, which a run shows.
THEOREM CallbackFindsPacket ==
  ASSUME Components = 1, StartAddr = 0
  PROVE  Gem5Spec => []AnswerFindsPacket
<1>1. Gem5Inv /\ RequestsMatchPackets => AnswerFindsPacket
  <2> SUFFICES ASSUME Gem5Inv, RequestsMatchPackets, NEW a \in Addrs, below[a] > 0
               PROVE  reads[a] # <<>>
    BY DEF AnswerFindsPacket
  <2>1. Len(reads[a]) = Count(rpq, a) + below[a]
    BY DEF RequestsMatchPackets, Count
  <2>2. Count(rpq, a) \in Nat /\ below[a] \in Nat
    BY CountTypes DEF Gem5Inv, TypeOK, PortTypeOK
  <2>3. Len(reads[a]) > 0
    BY <2>1, <2>2
  <2> QED
    BY <2>3
<1> QED
  BY <1>1, Gem5Consistent, CallbacksMatch, PTL
=============================================================================
