----------------------------- MODULE TraceProofs -----------------------------
(***************************************************************************)
(* Machine-checked proofs about TraceDriver, for every trace and every     *)
(* size of the controller: the driver uses the memory controller as it is  *)
(* specified, issues every line once, and waits for what it has to wait    *)
(* for.                                                                    *)
(***************************************************************************)
EXTENDS TraceDriver, ImcProofs

USE ImcAssumption, TraceAssumption

(***************************************************************************)
(* The invariant                                                           *)
(***************************************************************************)
TraceTypeOK ==
  /\ trace \in Seq(Line) /\ Len(trace) <= MaxLines
  /\ pos \in 0 .. Len(trace)
  /\ stall \in BOOLEAN /\ critical_stall \in BOOLEAN /\ wait_idle_clk \in BOOLEAN
  /\ idle \in Nat \cup {NoIdle}
  /\ stage \in {"trace", "ended", "draining", "done"}
  /\ turn \in {"driver", "model"}
  /\ memory \in {"nvram", "ddr4"}
  /\ owes \subseteq Owed
  /\ sent \in [Ids -> {0, 1}]
  /\ shared \in BOOLEAN

\* The driver runs between two ticks; it waits for a line that it has read, for
\* one thing at a time; past the loop over the trace every line was issued.
StageOK ==
  /\ turn = "driver" => phase = "idle"
  /\ stall => pos > 0 /\ ~critical_stall
  /\ stage # "trace" => pos = Len(trace) /\ ~stall
  /\ stage = "done" => turn = "driver" /\ rpq = <<>> /\ wpq = <<>>

DistinctIds(q) == \A i \in DOMAIN q : \A j \in DOMAIN q : q[i].id = q[j].id => i = j

\* the lines that are queued in the controller
QueuedLines == IdsOf(rpq) \cup IdsOf(wpq)

\* A line that was read and not refused is queued or was sent, and then once.
LinesOK ==
  /\ DistinctIds(rpq) /\ DistinctIds(wpq) /\ IdsOf(rpq) \cap IdsOf(wpq) = {}
  /\ \A l \in Ids : /\ sent[l] = 1 => l \notin QueuedLines
                    /\ l \in QueuedLines \/ sent[l] = 1 <=> l < pos \/ (l = pos /\ ~stall)

\* the lines of the reads below
OwedLines == {x.line : x \in owes}

\* Reads below were sent, each once.  Until nvram has to serve two of an address, a
\* critical one is what the driver waits for.
WaitsOK ==
  /\ \A x \in owes : sent[x.line] = 1
  /\ \A x, y \in owes : x.line = y.line => x = y
  /\ ~shared =>
       /\ memory = "nvram" => \A x, y \in owes : Collide(x, y) => x = y
       /\ \A l \in IdsOf(rpq) \cup OwedLines : trace[l].type = "C" => l = pos /\ critical_stall

TraceInv == TypeOK /\ TraceTypeOK /\ StageOK /\ LinesOK /\ WaitsOK

(***************************************************************************)
(* The lines of a queue                                                    *)
(***************************************************************************)
\* What is queued.
LEMMA IdsDef == \A q, l : l \in IdsOf(q) <=> \E i \in DOMAIN q : q[i].id = l
  BY DEF IdsOf, Queued

\* Queued lines are lines.
LEMMA IdsType ==
  ASSUME NEW q \in Seq(Request)
  PROVE  IdsOf(q) \subseteq Ids
<1>1. \A i \in DOMAIN q : q[i].id \in Ids
  BY RequestTypes
<1> QED
  BY <1>1, IdsDef

\* A line that is not queued may be queued.
LEMMA IdsAppend ==
  ASSUME NEW q \in Seq(Request), NEW x \in Request
  PROVE  /\ IdsOf(Append(q, x)) = IdsOf(q) \cup {x.id}
         /\ DistinctIds(q) /\ x.id \notin IdsOf(q) => DistinctIds(Append(q, x))
<1> DEFINE p == Append(q, x)
<1>1. /\ DOMAIN q = 1 .. Len(q) /\ DOMAIN p = 1 .. Len(q) + 1 /\ Len(q) \in Nat
      /\ p[Len(q) + 1] = x /\ \A n \in 1 .. Len(q) : p[n] = q[n]
      /\ \A n \in 1 .. Len(q) + 1 : n \in 1 .. Len(q) \/ n = Len(q) + 1
      /\ \A n \in 1 .. Len(q) : n \in 1 .. Len(q) + 1
      /\ Len(q) + 1 \in 1 .. Len(q) + 1
  BY AppendFacts
<1> HIDE DEF p
<1>2. IdsOf(p) = IdsOf(q) \cup {x.id}
  <2>1. \A l : l \in IdsOf(p) <=> l \in IdsOf(q) \/ l = x.id
    BY <1>1, IdsDef
  <2> QED
    BY <2>1
<1>3. DistinctIds(q) /\ x.id \notin IdsOf(q) => DistinctIds(p)
  BY <1>1, IdsDef DEF DistinctIds
<1> QED
  BY <1>2, <1>3 DEF p

\* Lines leave from the front.
LEMMA IdsLeave ==
  ASSUME NEW q \in Seq(Request), NEW n \in 0 .. Len(q), NEW p, Leaves(q, n, p)
  PROVE  IdsOf(p) \subseteq IdsOf(q) /\ (DistinctIds(q) => DistinctIds(p))
<1>1. /\ DOMAIN p = 1 .. Len(q) - n /\ \A i \in 1 .. Len(q) - n : p[i] = q[n + i]
      /\ DOMAIN q = 1 .. Len(q)
  BY DEF Leaves
<1>2. \A i \in 1 .. Len(q) - n : n + i \in 1 .. Len(q) /\ i \in Int /\ n \in Int
  OBVIOUS
<1>3. IdsOf(p) \subseteq IdsOf(q)
  BY <1>1, <1>2, IdsDef
<1>4. ASSUME DistinctIds(q), NEW i \in DOMAIN p, NEW j \in DOMAIN p, p[i].id = p[j].id
      PROVE  i = j
  <2>2. /\ n + i \in DOMAIN q /\ n + j \in DOMAIN q /\ p[i] = q[n + i] /\ p[j] = q[n + j]
    BY <1>1, <1>2
  <2>1. n + i = n + j
    BY <1>4, <2>2 DEF DistinctIds
  <2> QED
    BY <1>1, <1>2, <2>1
<1> QED
  BY <1>3, <1>4 DEF DistinctIds

\* Queues with the same lines.
LEMMA IdsSame ==
  ASSUME NEW q, NEW p, DOMAIN p = DOMAIN q, \A i \in DOMAIN q : p[i].id = q[i].id
  PROVE  IdsOf(p) = IdsOf(q) /\ (DistinctIds(q) => DistinctIds(p))
<1>1. \A l : l \in IdsOf(p) <=> l \in IdsOf(q)
  BY IdsDef
<1> QED
  BY <1>1 DEF DistinctIds

\* A step of a tick only takes lines out of the queues.
LEMMA TickShrinks ==
  ASSUME TypeOK, Tick \/ Adr
  PROVE  /\ IdsOf(rpq') \subseteq IdsOf(rpq) /\ IdsOf(wpq') \subseteq IdsOf(wpq)
         /\ DistinctIds(rpq) => DistinctIds(rpq')
         /\ DistinctIds(wpq) => DistinctIds(wpq')
         /\ \/ IdsOf(rpq) \subseteq IdsOf(rpq')
            \/ Len(out') = 1 /\ IdsOf(rpq) \subseteq IdsOf(rpq') \cup {Head(rpq).id}
<1>1. /\ rpq \in Seq(Request) /\ wpq \in Seq(Request) /\ Len(rpq) \in Nat /\ Len(wpq) \in Nat
      /\ DOMAIN rpq = 1 .. Len(rpq)
  BY DEF TypeOK
<1>2. CASE Stays
  <2>1. wpq' = wpq
    BY <1>2 DEF Stays
  <2>2. CASE rpq' = rpq
    BY <2>1, <2>2
  <2>3. CASE rpq # <<>> /\ rpq' = [rpq EXCEPT ![1].page = MapPage(Head(rpq).page)]
    <3>1. 1 \in DOMAIN rpq /\ rpq[1] \in Request
      BY <1>1, <2>3, TailFacts
    <3>2. PICK m : m = MapPage(Head(rpq).page)
      OBVIOUS
    <3>3. rpq' = [rpq EXCEPT ![1].page = m]
      BY <2>3, <3>2
    <3>4. DOMAIN rpq' = DOMAIN rpq /\ \A i \in DOMAIN rpq : rpq'[i].id = rpq[i].id
      BY <1>1, <3>1, <3>3 DEF Request
    <3> QED
      BY <2>1, <3>4, IdsSame
  <2> QED
    BY <1>2, <2>2, <2>3 DEF Stays
<1>3. CASE ReadGoes
  <2>1. rpq # <<>> /\ rpq' = Tail(rpq) /\ wpq' = wpq
    BY <1>3 DEF ReadGoes
  <2>2. 1 \in 0 .. Len(rpq) /\ Leaves(rpq, 1, rpq')
    BY <1>1, <2>1, TailFacts DEF Leaves
  <2>3. IdsOf(rpq) \subseteq IdsOf(rpq') \cup {Head(rpq).id}
    <3>1. ASSUME NEW i \in 1 .. Len(rpq)
          PROVE  i = 1 \/ (i - 1 \in DOMAIN rpq' /\ rpq'[i - 1] = rpq[i])
      BY <1>1, <2>1, TailFacts
    <3>2. rpq[1] = Head(rpq)
      BY <1>1, <2>1, TailFacts
    <3> QED
      BY <1>1, <3>1, <3>2, IdsDef
  <2>4. Len(out') = 1
    BY <1>3 DEF ReadGoes
  <2> QED
    BY <1>1, <2>1, <2>2, <2>3, <2>4, IdsLeave
<1>4. CASE \E n \in 0 .. Len(wpq) : WritesGo(n)
  <2>1. PICK n \in 0 .. Len(wpq) : WritesGo(n)
    BY <1>4
  <2>2. rpq' = rpq /\ wpq' = SubSeq(wpq, n + 1, Len(wpq))
    BY <2>1 DEF WritesGo
  <2>3. Leaves(wpq, n, wpq')
    BY <1>1, <2>2, DropFacts DEF Leaves
  <2> QED
    BY <1>1, <2>2, <2>3, IdsLeave
<1> QED
  BY <1>2, <1>3, <1>4, TickMoves

(***************************************************************************)
(* Steps                                                                   *)
(***************************************************************************)
\* The line that the driver tries.
LEMMA TriedLine ==
  ASSUME TraceTypeOK, NEW l \in Int, 1 <= l, l <= Len(trace)
  PROVE  l \in Ids /\ trace[l] \in Line /\ trace[l].page \in Pages
<1>1. trace \in Seq(Line) /\ Len(trace) \in Nat /\ Len(trace) <= MaxLines
  BY DEF TraceTypeOK
<1>2. l \in Ids /\ trace[l] \in Line
  BY <1>1
<1> QED
  BY <1>2 DEF Line

\* The driver tries a line: a new one, or the one that was refused.
LEMMA TryStep ==
  ASSUME TraceInv, TypeOK', stage = "trace", ~critical_stall, NEW l \in Int,
         \/ l = pos + 1 /\ pos < Len(trace) /\ ~stall
         \/ l = pos /\ stall,
         TryIssue(l), pos' = l, turn' = "model", UNCHANGED <<trace, stage, belowVars>>,
         wait_idle_clk' \in BOOLEAN, idle' \in Nat \cup {NoIdle}
  PROVE  TraceInv'
<1>1. /\ TypeOK /\ TraceTypeOK /\ StageOK /\ LinesOK /\ WaitsOK
      /\ rpq \in Seq(Request) /\ wpq \in Seq(Request)
      /\ trace \in Seq(Line) /\ Len(trace) \in Nat /\ pos \in 0 .. Len(trace)
      /\ stall \in BOOLEAN /\ sent \in [Ids -> {0, 1}]
      /\ UNCHANGED <<memory, owes, sent, shared>>
  BY SMTT(30) DEF TraceInv, TypeOK, TraceTypeOK, belowVars
<1>2. 1 <= l /\ l <= Len(trace) /\ (stall => pos > 0)
  BY <1>1 DEF StageOK
<1>3. l \in Ids /\ trace[l].page \in Pages /\ Ids \subseteq Int
  BY <1>1, <1>2, TriedLine
<1>4. \A m \in Ids : /\ sent[m] = 1 => m \notin QueuedLines
                     /\ m \in QueuedLines \/ sent[m] = 1 <=> m < l
  BY <1>1, <1>3 DEF LinesOK
<1>5. l \notin QueuedLines /\ sent[l] # 1
  BY <1>3, <1>4
<1>6. ~shared => \A m \in IdsOf(rpq) \cup OwedLines : trace[m].type # "C"
  BY <1>1 DEF WaitsOK
<1>7. OwedLines' = OwedLines
  BY <1>1 DEF OwedLines
<1>8. ASSUME stall' \in BOOLEAN, critical_stall' \in BOOLEAN PROVE TraceTypeOK'
  <2>1. pos' \in 0 .. Len(trace')
    BY <1>1, <1>2
  <2> QED
    BY <1>1, <1>8, <2>1 DEF TraceTypeOK
<1>9. CASE Full(l) /\ stall' = TRUE /\ UNCHANGED <<vars, critical_stall>>
  <2>1. rpq' = rpq /\ wpq' = wpq /\ critical_stall' = FALSE
    BY <1>1, <1>9 DEF vars, TraceTypeOK
  <2>2. StageOK'
    BY <1>1, <1>2, <1>9, <2>1 DEF StageOK
  <2>3. IdsOf(rpq)' = IdsOf(rpq) /\ QueuedLines' = QueuedLines /\ IdsOf(wpq)' = IdsOf(wpq)
    BY <2>1 DEF QueuedLines, IdsOf, Queued
  <2>4. LinesOK'
    <3>1. \A m \in Ids : /\ sent'[m] = 1 => m \notin QueuedLines'
                         /\ m \in QueuedLines' \/ sent'[m] = 1 <=> m < pos' \/ (m = pos' /\ ~stall')
      BY <1>1, <1>4, <1>9, <2>3
    <3>2. DistinctIds(rpq)' /\ DistinctIds(wpq)'
      BY <1>1, <2>1 DEF LinesOK, DistinctIds
    <3> QED
      BY <1>1, <2>3, <3>1, <3>2 DEF LinesOK
  <2>5. WaitsOK'
    BY <1>1, <1>6, <1>7, <2>3 DEF WaitsOK, Collide
  <2> QED
    BY <1>8, <1>9, <2>1, <2>2, <2>4, <2>5 DEF TraceInv
<1>10. CASE ~Full(l) /\ Issue(l) /\ stall' = FALSE /\ critical_stall' = (trace[l].type = "C")
  <2> DEFINE x == NewRequest(l, trace[l].page)
  <2>1. /\ phase' = "idle"
        /\ \/ trace[l].type = "W" /\ wpq' = Append(wpq, x) /\ rpq' = rpq
           \/ trace[l].type # "W" /\ rpq' = Append(rpq, x) /\ wpq' = wpq
    BY <1>10 DEF Issue, IssueRead, IssueWrite
  <2>2. x \in Request /\ x.id = l
    BY <1>3, NewRequestType DEF NewRequest
  <2>3. stall' \in BOOLEAN /\ critical_stall' \in BOOLEAN
    BY <1>10
  <2>4. StageOK'
    BY <1>1, <1>10, <2>1 DEF StageOK
  <2>5. l \notin IdsOf(rpq) /\ l \notin IdsOf(wpq)
    BY <1>5 DEF QueuedLines
  <2> HIDE DEF x
  <2>6. /\ IdsOf(rpq') = IF trace[l].type = "W" THEN IdsOf(rpq) ELSE IdsOf(rpq) \cup {l}
        /\ IdsOf(wpq') = IF trace[l].type = "W" THEN IdsOf(wpq) \cup {l} ELSE IdsOf(wpq)
        /\ DistinctIds(rpq') /\ DistinctIds(wpq')
    <3>1. DistinctIds(rpq) /\ DistinctIds(wpq)
      BY <1>1 DEF LinesOK
    <3>2. CASE trace[l].type = "W"
      BY <1>1, <2>1, <2>2, <2>5, <3>1, <3>2, IdsAppend
    <3>3. CASE trace[l].type # "W"
      <4>1. rpq' = Append(rpq, x) /\ wpq' = wpq
        BY <2>1, <3>3
      <4>2. IdsOf(rpq') = IdsOf(rpq) \cup {l} /\ DistinctIds(rpq')
        BY <1>1, <2>2, <2>5, <3>1, <4>1, IdsAppend
      <4> QED
        BY <3>1, <3>3, <4>1, <4>2
    <3> QED
      BY <3>2, <3>3
  <2>7. /\ IdsOf(rpq)' = IdsOf(rpq') /\ IdsOf(wpq)' = IdsOf(wpq')
        /\ QueuedLines' = QueuedLines \cup {l}
    <3>1. IdsOf(rpq)' = IdsOf(rpq') /\ IdsOf(wpq)' = IdsOf(wpq')
      BY DEF IdsOf, Queued
    <3>2. QueuedLines' = IdsOf(rpq') \cup IdsOf(wpq')
      BY <3>1 DEF QueuedLines
    <3> QED
      BY <2>6, <3>1, <3>2 DEF QueuedLines
  <2>8. LinesOK'
    <3>1. ASSUME NEW m \in Ids
          PROVE  /\ sent'[m] = 1 => m \notin QueuedLines'
                 /\ m \in QueuedLines' \/ sent'[m] = 1 <=> m < pos' \/ (m = pos' /\ ~stall')
      <4>1. sent'[m] = sent[m] /\ (m \in QueuedLines' <=> m \in QueuedLines \/ m = l)
        BY <1>1, <2>7
      <4>2. m \in Int /\ ~stall' /\ pos' = l
        BY <1>3, <1>10
      <4> QED
        BY <1>4, <1>5, <4>1, <4>2
    <3>2. IdsOf(rpq)' \cap IdsOf(wpq)' = {}
      BY <1>1, <2>5, <2>6, <2>7 DEF LinesOK
    <3>3. DistinctIds(rpq)' /\ DistinctIds(wpq)'
      BY <2>6 DEF DistinctIds
    <3> QED
      BY <3>1, <3>2, <3>3 DEF LinesOK
  <2>9. WaitsOK'
    <3>1. /\ \A y \in owes' : sent'[y.line] = 1
          /\ \A y, z \in owes' : y.line = z.line => y = z
          /\ ~shared' /\ memory' = "nvram" => \A y, z \in owes' : Collide(y, z) => y = z
      BY <1>1 DEF WaitsOK
    <3>2. ~shared' =>
            \A m \in IdsOf(rpq)' \cup OwedLines' :
              trace'[m].type = "C" => m = pos' /\ critical_stall'
      BY <1>1, <1>6, <1>10, <1>7, <2>6, <2>7
    <3> QED
      BY <3>1, <3>2 DEF WaitsOK, Collide
  <2> QED
    BY <1>8, <2>3, <2>4, <2>8, <2>9 DEF TraceInv
<1> QED
  BY <1>9, <1>10 DEF TryIssue

\* A step of a tick: what leaves the queues was sent.
LEMMA SendsStep ==
  ASSUME TraceInv, TypeOK', Tick \/ Adr, Sends, phase # "idle",
         turn' \in {"driver", "model"}, turn' = "driver" => phase' = "idle",
         UNCHANGED <<trace, pos, stall, critical_stall, wait_idle_clk, idle, stage, memory>>
  PROVE  TraceInv'
<1> DEFINE R == IdsOf(rpq) \ IdsOf(rpq')
           W == IdsOf(wpq) \ IdsOf(wpq')
           At(l) == [line |-> l, page |-> out'[1].page, to |-> out'[1].to]
<1>1. /\ TypeOK /\ TraceTypeOK /\ StageOK /\ LinesOK /\ WaitsOK
      /\ rpq \in Seq(Request) /\ wpq \in Seq(Request)
      /\ sent \in [Ids -> {0, 1}] /\ owes \subseteq Owed
  BY DEF TraceInv, TypeOK, TraceTypeOK
<1>2. /\ owes' = owes \cup {At(l) : l \in R}
      /\ shared' = (shared \/ (memory = "nvram" /\ \E x \in {At(l) : l \in R}, y \in owes :
                                                     Collide(x, y)))
      /\ DOMAIN sent' = Ids
      /\ \A l \in Ids : sent'[l] = sent[l] + IF l \in R \cup W THEN 1 ELSE 0
  BY DEF Sends
<1>3. /\ IdsOf(rpq') \subseteq IdsOf(rpq) /\ IdsOf(wpq') \subseteq IdsOf(wpq)
      /\ DistinctIds(rpq') /\ DistinctIds(wpq')
      /\ R = {} \/ (Len(out') = 1 /\ R \subseteq {Head(rpq).id})
  BY <1>1, TickShrinks DEF LinesOK
<1>4. IdsOf(rpq) \subseteq Ids /\ IdsOf(wpq) \subseteq Ids
  BY <1>1, IdsType
<1>5. /\ IdsOf(rpq)' = IdsOf(rpq') /\ IdsOf(wpq)' = IdsOf(wpq')
      /\ QueuedLines' = IdsOf(rpq') \cup IdsOf(wpq')
      /\ QueuedLines = IdsOf(rpq) \cup IdsOf(wpq)
  <2>1. IdsOf(rpq)' = IdsOf(rpq') /\ IdsOf(wpq)' = IdsOf(wpq')
    BY DEF IdsOf, Queued
  <2> QED
    BY <2>1 DEF QueuedLines
<1>6. IdsOf(rpq) \cap IdsOf(wpq) = {}
  BY <1>1 DEF LinesOK
<1>7. ASSUME NEW l \in Ids
      PROVE  /\ sent'[l] \in {0, 1}
             /\ sent'[l] = 1 <=> sent[l] = 1 \/ l \in R \cup W
             /\ sent'[l] = 1 => l \notin QueuedLines'
             /\ l \in QueuedLines' \/ sent'[l] = 1 <=> l \in QueuedLines \/ sent[l] = 1
  <2>1. sent[l] \in {0, 1} /\ (sent[l] = 1 => l \notin QueuedLines)
    BY <1>1 DEF LinesOK
  <2>2. sent'[l] = sent[l] + IF l \in R \cup W THEN 1 ELSE 0
    BY <1>2
  <2>3. l \in R \cup W => l \in QueuedLines
    BY <1>5
  <2>4. sent'[l] \in {0, 1} /\ (sent'[l] = 1 <=> sent[l] = 1 \/ l \in R \cup W)
    BY <2>1, <2>2, <2>3
  <2>5. l \in R \cup W => l \notin QueuedLines'
    BY <1>3, <1>5, <1>6
  <2>6. l \in QueuedLines <=> l \in QueuedLines' \/ l \in R \cup W
    BY <1>3, <1>5
  <2> QED
    BY <2>1, <2>4, <2>5, <2>6
<1>8. \A l \in R : At(l) \in Owed /\ At(l).line = l /\ sent[l] # 1
  <2>1. ASSUME NEW l \in R PROVE At(l) \in Owed /\ sent[l] # 1
    <3>1. out' \in Seq(Delivery) /\ Len(out') = 1
      BY <1>3, <2>1 DEF TypeOK
    <3>2. out'[1] \in Delivery
      BY <3>1
    <3>3. l \in Ids /\ l \in QueuedLines
      BY <1>4, <1>5, <2>1
    <3>4. At(l) \in Owed
      BY <3>2, <3>3 DEF Delivery, Owed
    <3> QED
      BY <1>1, <3>3, <3>4 DEF LinesOK
  <2> QED
    BY <2>1
<1>9. TraceTypeOK'
  <2>1. owes' \subseteq Owed /\ shared' \in BOOLEAN
    BY <1>1, <1>2, <1>8 DEF TraceTypeOK
  <2>2. sent' \in [Ids -> {0, 1}]
    <3>1. sent' = [l \in Ids |-> sent'[l]]
      BY DEF Sends
    <3> QED
      BY <1>7, <3>1
  <2> QED
    BY <1>1, <2>1, <2>2 DEF TraceTypeOK
<1>10. StageOK'
  <2>1. stage # "done"
    BY <1>1 DEF StageOK
  <2> QED
    BY <1>1, <2>1 DEF StageOK
<1>11. LinesOK'
  <2>1. \A l \in Ids : /\ sent'[l] = 1 => l \notin QueuedLines'
                       /\ l \in QueuedLines' \/ sent'[l] = 1 <=> l < pos' \/ (l = pos' /\ ~stall')
    BY <1>1, <1>7 DEF LinesOK
  <2>2. IdsOf(rpq)' \cap IdsOf(wpq)' = {}
    BY <1>3, <1>5, <1>6
  <2>3. DistinctIds(rpq)' /\ DistinctIds(wpq)'
    BY <1>3 DEF DistinctIds
  <2> QED
    BY <2>1, <2>2, <2>3 DEF LinesOK
<1>12. WaitsOK'
  <2> HIDE DEF R, W, At
  <2>1. /\ \A x \in owes : sent[x.line] = 1 /\ x.line \in Ids
        /\ \A x, y \in owes : x.line = y.line => x = y
    BY <1>1 DEF WaitsOK, Owed
  <2>2. \A x \in owes' : sent'[x.line] = 1
    <3>1. ASSUME NEW l \in R PROVE l \in Ids /\ sent'[l] = 1
      BY <1>4, <1>7, <3>1 DEF R
    <3> QED
      BY <1>2, <1>7, <1>8, <2>1, <3>1
  <2>3. \A x, y \in owes' : x.line = y.line => x = y
    BY <1>2, <1>8, <2>1
  <2>4. ASSUME ~shared', memory' = "nvram", NEW x \in owes', NEW y \in owes', Collide(x, y)
        PROVE  x = y
    <3>1. \A u, v \in owes : Collide(u, v) => u = v
      BY <1>1, <1>2, <2>4 DEF WaitsOK
    <3>2. \A l, m \in R : l = m
      BY <1>3
    <3>3. Collide(y, x)
      BY <2>4 DEF Collide
    <3>4. \A l \in R : \A v \in owes : ~Collide(At(l), v)
      BY <1>2, <2>4
    <3> QED
      BY <1>2, <2>4, <3>1, <3>2, <3>3, <3>4
  <2>5. ASSUME ~shared', NEW l \in IdsOf(rpq)' \cup OwedLines', trace'[l].type = "C"
        PROVE  l = pos' /\ critical_stall'
    <3>1. OwedLines' = OwedLines \cup R
      BY <1>2, <1>8 DEF OwedLines
    <3>2. l \in IdsOf(rpq) \cup OwedLines
      BY <1>3, <1>5, <2>5, <3>1 DEF R
    <3> QED
      BY <1>1, <1>2, <2>5, <3>2 DEF WaitsOK
  <2> QED
    BY <2>2, <2>3, <2>4, <2>5 DEF WaitsOK, Collide
<1> QED
  BY <1>9, <1>10, <1>11, <1>12 DEF TraceInv

\* Every step of the simulation is a step of the memory controller or leaves it
\* alone.
LEMMA TraceImc ==
  ASSUME TraceInv, [TraceNext]_traceVars
  PROVE  [Next]_vars
<1>1. TraceTypeOK /\ StageOK /\ Len(trace) \in Nat /\ pos \in 0 .. Len(trace)
  BY DEF TraceInv, TraceTypeOK
<1>2. ASSUME NEW l \in Int, 1 <= l, l <= Len(trace), TryIssue(l) PROVE [Next]_vars
  <2>1. l \in Ids /\ trace[l].page \in Pages
    BY <1>1, <1>2, TriedLine
  <2> QED
    BY <1>2, <2>1 DEF TryIssue, Issue, Next
<1>3. CASE NextLine
  <2>1. pos + 1 \in Int /\ 1 <= pos + 1 /\ pos + 1 <= Len(trace) /\ TryIssue(pos + 1)
    BY <1>1, <1>3 DEF NextLine
  <2> QED
    BY <1>2, <2>1
<1>4. CASE SameLine
  <2>1. pos \in Int /\ 1 <= pos /\ pos <= Len(trace) /\ TryIssue(pos)
    BY <1>1, <1>4 DEF SameLine, StageOK
  <2> QED
    BY <1>2, <2>1
<1>5. CASE CriticalWait \/ IdleWait \/ TraceEnd \/ Drain \/ DrainLoop
  BY <1>5 DEF CriticalWait, IdleWait, TraceEnd, Drain, DrainLoop
<1>6. CASE StartTick \/ ImcTick \/ EndTick
  BY <1>6 DEF StartTick, ImcTick, EndTick, Next
<1>7. ASSUME NEW c \in Below, MemoryTakes(c) PROVE [Next]_vars
  BY <1>7 DEF MemoryTakes, Next
<1>8. ASSUME NEW x \in owes, MemoryAnswers(x) PROVE [Next]_vars
  BY <1>8 DEF MemoryAnswers
<1>9. CASE Terminated \/ UNCHANGED traceVars
  BY <1>9 DEF Terminated, traceVars
<1> QED
  BY <1>3, <1>4, <1>5, <1>6, <1>7, <1>8, <1>9 DEF TraceNext, Driver

\* Lines stay where they are when nothing touches them.
LEMMA LinesKeep ==
  ASSUME LinesOK, UNCHANGED <<rpq, wpq, pos, stall, sent>>
  PROVE  LinesOK'
<1>1. IdsOf(rpq)' = IdsOf(rpq) /\ IdsOf(wpq)' = IdsOf(wpq)
  BY DEF IdsOf, Queued
<1>2. DistinctIds(rpq)' /\ DistinctIds(wpq)'
  BY DEF LinesOK, DistinctIds
<1> QED
  BY <1>1, <1>2 DEF LinesOK, QueuedLines

\* Every step keeps the invariant.
LEMMA TraceStep == TraceInv /\ [TraceNext]_traceVars => TraceInv'
<1> SUFFICES ASSUME TraceInv, [TraceNext]_traceVars PROVE TraceInv'
  OBVIOUS
<1>1. /\ TypeOK /\ TraceTypeOK /\ StageOK /\ LinesOK /\ WaitsOK
      /\ rpq \in Seq(Request) /\ wpq \in Seq(Request)
      /\ trace \in Seq(Line) /\ Len(trace) \in Nat /\ pos \in 0 .. Len(trace)
      /\ idle \in Nat \cup {NoIdle} /\ wait_idle_clk \in BOOLEAN
  BY DEF TraceInv, TypeOK, TraceTypeOK
<1>2. TypeOK'
  BY <1>1, TraceImc, TypeStep
<1>3. CASE NextLine
  <2>1. /\ stage = "trace" /\ ~stall /\ ~critical_stall /\ pos < Len(trace)
        /\ pos' = pos + 1 /\ idle' = trace[pos + 1].idle /\ wait_idle_clk' = (idle' # NoIdle)
        /\ TryIssue(pos + 1) /\ turn' = "model" /\ UNCHANGED <<trace, stage, belowVars>>
    BY <1>3 DEF NextLine, Driving, ReadsLine
  <2>2. pos + 1 \in Int /\ 1 <= pos + 1 /\ pos + 1 <= Len(trace)
    BY <1>1, <2>1
  <2>3. PICK l \in Int : l = pos + 1
    BY <2>2, Zenon
  <2>4. trace[l] \in Line
    BY <1>1, <2>2, <2>3, TriedLine
  <2>5. idle' \in Nat \cup {NoIdle} /\ wait_idle_clk' \in BOOLEAN
    BY <2>1, <2>3, <2>4 DEF Line
  <2> QED
    BY <1>2, <2>1, <2>3, <2>5, TryStep
<1>4. CASE SameLine
  <2>1. /\ stage = "trace" /\ stall /\ TryIssue(pos) /\ turn' = "model"
        /\ pos' = pos /\ UNCHANGED <<trace, wait_idle_clk, idle, stage, belowVars>>
    BY <1>4 DEF SameLine, Driving
  <2>2. ~critical_stall /\ pos \in Int
    BY <1>1, <2>1 DEF StageOK
  <2>3. wait_idle_clk' \in BOOLEAN /\ idle' \in Nat \cup {NoIdle}
    BY <1>1, <2>1
  <2> QED
    BY <1>2, <2>1, <2>2, <2>3, TryStep
\* steps that leave the queues, the lines and the waits of the driver alone
<1>5. ASSUME UNCHANGED <<rpq, wpq, trace, pos, stall, critical_stall, belowVars>>,
             TraceTypeOK', StageOK'
      PROVE  TraceInv'
  <2>1. LinesOK'
    BY <1>1, <1>5, LinesKeep DEF belowVars
  <2>2. WaitsOK'
    BY <1>1, <1>5 DEF WaitsOK, OwedLines, Collide, IdsOf, Queued, belowVars
  <2> QED
    BY <1>2, <1>5, <2>1, <2>2 DEF TraceInv
<1>6. CASE CriticalWait \/ IdleWait \/ TraceEnd \/ Drain \/ DrainLoop
  <2>1. /\ UNCHANGED <<rpq, wpq, phase, trace, pos, stall, critical_stall, belowVars>>
        /\ turn = "driver"
    BY <1>6 DEF CriticalWait, IdleWait, TraceEnd, Drain, DrainLoop, Driving, vars
  <2>2. /\ idle' \in Nat \cup {NoIdle} /\ wait_idle_clk' \in BOOLEAN
        /\ stage' \in {"trace", "ended", "draining", "done"} /\ turn' \in {"driver", "model"}
    <3>1. CASE IdleWait
      <4>1. /\ stage' = stage /\ turn' = "model"
            /\ \/ idle > 0 /\ idle' = idle - 1 /\ wait_idle_clk' = wait_idle_clk
               \/ wait_idle_clk' = FALSE /\ idle' = idle
        BY <3>1 DEF IdleWait, StillIdle
      <4>2. idle > 0 => idle - 1 \in Nat
        BY <1>1 DEF NoIdle
      <4> QED
        BY <1>1, <4>1, <4>2 DEF TraceTypeOK
    <3>2. CASE CriticalWait \/ TraceEnd \/ Drain \/ DrainLoop
      BY <1>1, <3>2 DEF CriticalWait, TraceEnd, Drain, DrainLoop, TraceTypeOK
    <3> QED
      BY <1>6, <3>1, <3>2
  <2>3. TraceTypeOK'
    BY <1>1, <2>1, <2>2 DEF TraceTypeOK, belowVars
  <2>4. StageOK'
    <3>1. CASE CriticalWait \/ IdleWait
      BY <1>1, <2>1, <3>1 DEF CriticalWait, IdleWait, Driving, StageOK
    <3>2. CASE TraceEnd
      BY <1>1, <2>1, <3>2 DEF TraceEnd, Driving, ReadsLine, StageOK
    <3>3. CASE Drain
      BY <1>1, <2>1, <3>3 DEF Drain, StageOK
    <3>4. CASE DrainLoop
      BY <1>1, <2>1, <3>4 DEF DrainLoop, PendingCurrent, StageOK
    <3> QED
      BY <1>6, <3>1, <3>2, <3>3, <3>4
  <2> QED
    BY <1>5, <2>1, <2>3, <2>4
<1>7. CASE StartTick
  <2>1. /\ rpq' = Aged(rpq) /\ wpq' = Aged(wpq) /\ turn = "model"
        /\ UNCHANGED <<trace, pos, stall, critical_stall, wait_idle_clk, idle, stage, turn,
                       memory, owes, sent, shared>>
    BY <1>7 DEF StartTick, NextCycle, driverVars, belowVars
  <2>2. TraceTypeOK'
    BY <1>1, <2>1 DEF TraceTypeOK
  <2>3. StageOK'
    BY <1>1, <2>1 DEF StageOK
  <2>4. ASSUME NEW q \in Seq(Request)
        PROVE  IdsOf(Aged(q)) = IdsOf(q) /\ (DistinctIds(q) => DistinctIds(Aged(q)))
    <3>1. DOMAIN Aged(q) = DOMAIN q /\ \A i \in DOMAIN q : Aged(q)[i].id = q[i].id
      BY <1>1, AgedFacts
    <3> QED
      BY <3>1, IdsSame
  <2>5. /\ IdsOf(rpq') = IdsOf(rpq) /\ IdsOf(wpq') = IdsOf(wpq)
        /\ DistinctIds(rpq') /\ DistinctIds(wpq')
    BY <1>1, <2>1, <2>4 DEF LinesOK
  <2>6. /\ IdsOf(rpq)' = IdsOf(rpq) /\ IdsOf(wpq)' = IdsOf(wpq)
        /\ DistinctIds(rpq)' /\ DistinctIds(wpq)'
    BY <2>5 DEF IdsOf, Queued, DistinctIds
  <2>7. LinesOK' /\ WaitsOK'
    BY <1>1, <2>1, <2>6 DEF LinesOK, WaitsOK, OwedLines, Collide, QueuedLines
  <2> QED
    BY <1>2, <2>2, <2>3, <2>7 DEF TraceInv
<1>8. CASE ImcTick \/ EndTick
  <2>1. /\ Tick \/ Adr
        /\ Sends
        /\ UNCHANGED <<trace, pos, stall, critical_stall, wait_idle_clk, idle, stage, memory>>
        /\ turn' = turn \/ (turn' = "driver" /\ phase' = "idle")
        /\ phase \in {"tick", "adr"}
    BY <1>8 DEF ImcTick, EndTick, driverVars, Tick, TickRead, TickWrite, TickNone, Adr
  <2>2. /\ turn' \in {"driver", "model"} /\ phase # "idle"
        /\ turn' = "driver" => phase' = "idle"
    BY <1>1, <2>1 DEF TraceTypeOK, StageOK
  <2> QED
    BY <1>2, <2>1, <2>2, SendsStep
<1>9. ASSUME NEW c \in Below, MemoryTakes(c) PROVE TraceInv'
  <2>1. UNCHANGED <<rpq, wpq, phase, trace, pos, stall, critical_stall, wait_idle_clk, idle,
                    stage, turn, belowVars>>
    BY <1>9 DEF MemoryTakes, NextTakes, driverVars
  <2>2. TraceTypeOK' /\ StageOK'
    BY <1>1, <2>1 DEF TraceTypeOK, StageOK, belowVars
  <2> QED
    BY <1>5, <2>1, <2>2
<1>10. ASSUME NEW x \in owes, MemoryAnswers(x) PROVE TraceInv'
  <2>1. /\ owes' = owes \ {x}
        /\ UNCHANGED <<rpq, wpq, phase, trace, pos, stall, wait_idle_clk, idle, stage, turn,
                       memory, sent, shared>>
        /\ \E y \in owes :
             /\ y = x \/ (memory = "nvram" /\ y.line > x.line /\ Collide(x, y))
             /\ critical_stall' = (critical_stall /\ trace[y.line].type # "C")
    BY <1>10 DEF MemoryAnswers, Calls, vars
  <2>2. critical_stall' \in BOOLEAN /\ owes' \subseteq Owed
    BY <1>1, <2>1 DEF TraceTypeOK
  <2>3. TraceTypeOK'
    BY <1>1, <2>1, <2>2 DEF TraceTypeOK
  <2>4. StageOK'
    BY <1>1, <2>1 DEF StageOK, TraceTypeOK
  <2>5. LinesOK'
    BY <1>1, <2>1, LinesKeep
  <2>6. IdsOf(rpq)' = IdsOf(rpq)
    BY <2>1 DEF IdsOf, Queued
  <2>7. /\ \A z \in owes' : sent'[z.line] = 1
        /\ \A y, z \in owes' : y.line = z.line => y = z
        /\ ~shared' /\ memory' = "nvram" => \A y, z \in owes' : Collide(y, z) => y = z
    BY <1>1, <2>1 DEF WaitsOK
  <2>8. x.line \in OwedLines /\ x.line \notin IdsOf(rpq) /\ x.line \notin OwedLines'
    <3>1. x.line \in Ids /\ sent[x.line] = 1
      BY <1>1 DEF TraceTypeOK, Owed, WaitsOK
    <3>2. x.line \notin IdsOf(rpq)
      BY <1>1, <3>1 DEF LinesOK, QueuedLines
    <3>3. x.line \notin OwedLines'
      BY <1>1, <2>1 DEF OwedLines, WaitsOK
    <3> QED
      BY <3>2, <3>3 DEF OwedLines
  <2>9. ASSUME ~shared', NEW m \in IdsOf(rpq)' \cup OwedLines', trace'[m].type = "C"
        PROVE  m = pos' /\ critical_stall'
    <3>1. m # x.line /\ m \in IdsOf(rpq) \cup OwedLines
      BY <2>1, <2>6, <2>8, <2>9 DEF OwedLines
    <3>2. m = pos /\ critical_stall
      BY <1>1, <2>1, <2>9, <3>1 DEF WaitsOK
    <3>3. trace[x.line].type # "C"
      BY <1>1, <2>1, <2>8, <2>9, <3>1, <3>2 DEF WaitsOK
    <3>4. critical_stall' = (critical_stall /\ trace[x.line].type # "C")
      BY <1>1, <2>1, <2>9 DEF WaitsOK
    <3> QED
      BY <2>1, <3>2, <3>3, <3>4
  <2>10. WaitsOK'
    BY <2>7, <2>9 DEF WaitsOK, Collide
  <2> QED
    BY <1>2, <2>3, <2>4, <2>5, <2>10 DEF TraceInv
<1>11. CASE Terminated \/ UNCHANGED traceVars
  <2>1. UNCHANGED <<rpq, wpq, phase, trace, pos, stall, critical_stall, wait_idle_clk, idle,
                    stage, turn, belowVars>>
    BY <1>11 DEF Terminated, traceVars, vars, driverVars
  <2>2. TraceTypeOK' /\ StageOK'
    BY <1>1, <2>1 DEF TraceTypeOK, StageOK, belowVars
  <2> QED
    BY <1>5, <2>1, <2>2
<1> QED
  BY <1>3, <1>4, <1>6, <1>7, <1>8, <1>9, <1>10, <1>11 DEF TraceNext, Driver

(***************************************************************************)
(* Theorems about the driver                                               *)
(***************************************************************************)
\* The invariant at the start.
LEMMA TraceStart == TraceInit => TraceInv
<1> SUFFICES ASSUME TraceInit PROVE TraceInv
  OBVIOUS
<1>1. /\ Init /\ pos = 0 /\ stall = FALSE /\ critical_stall = FALSE
      /\ wait_idle_clk = FALSE /\ idle = NoIdle /\ stage = "trace" /\ turn = "driver"
      /\ owes = {} /\ sent = [l \in Ids |-> 0]
      /\ memory \in {"nvram", "ddr4"} /\ shared = FALSE
      /\ trace \in UNION {[1 .. n -> Lines] : n \in 1 .. MaxLines}
      /\ rpq = <<>> /\ wpq = <<>> /\ phase = "idle"
  BY DEF TraceInit, Init
<1>2. TypeOK
  BY <1>1, ImcInit DEF ImcInv
<1>3. PICK n \in 1 .. MaxLines : trace \in [1 .. n -> Lines]
  BY <1>1
<1>4. trace \in Seq(Line) /\ Len(trace) = n
  <2>1. n \in Nat /\ trace \in [1 .. n -> Line]
    BY <1>3
  <2> QED
    BY <2>1, FunctionFacts
<1>5. TraceTypeOK
  <2>1. Len(trace) <= MaxLines /\ pos \in 0 .. Len(trace)
    BY <1>1, <1>3, <1>4
  <2>2. sent \in [Ids -> {0, 1}] /\ owes \subseteq Owed
    BY <1>1
  <2> QED
    BY <1>1, <1>4, <2>1, <2>2 DEF TraceTypeOK
<1>6. IdsOf(rpq) = {} /\ IdsOf(wpq) = {} /\ DistinctIds(rpq) /\ DistinctIds(wpq)
  BY <1>1 DEF IdsOf, Queued, DistinctIds
<1>7. LinesOK
  <2>1. \A l \in Ids : sent[l] = 0 /\ ~(l < pos) /\ l # pos
    BY <1>1
  <2> QED
    BY <1>6, <2>1 DEF LinesOK, QueuedLines
<1>8. StageOK /\ WaitsOK
  BY <1>1, <1>6 DEF StageOK, WaitsOK, OwedLines
<1> QED
  BY <1>2, <1>5, <1>7, <1>8 DEF TraceInv

\* Types, the stages of the driver and the places of lines, for every trace.
THEOREM TraceConsistent == TraceSpec => []TraceInv
<1>1. TraceInit => TraceInv
  BY TraceStart
<1>2. TraceInv /\ [TraceNext]_traceVars => TraceInv'
  BY TraceStep
<1> QED
  BY <1>1, <1>2, PTL DEF TraceSpec

\* run_trace drives the memory controller as its specification allows.
THEOREM TraceDrivesImc == TraceSpec => Spec
<1>1. TraceInit => Init
  BY DEF TraceInit
<1>2. TraceInv /\ [TraceNext]_traceVars => [Next]_vars
  BY TraceImc
<1> QED
  BY <1>1, <1>2, TraceConsistent, PTL DEF TraceSpec, Spec

\* At most one request of a queue is about a line.
LEMMA CountLine ==
  ASSUME NEW q, DistinctIds(q), NEW l
  PROVE  Cardinality({i \in DOMAIN q : q[i].id = l}) = IF l \in IdsOf(q) THEN 1 ELSE 0
<1> DEFINE S == {i \in DOMAIN q : q[i].id = l}
<1>1. CASE l \in IdsOf(q)
  <2>1. PICK i \in DOMAIN q : q[i].id = l
    BY <1>1, IdsDef
  <2>2. S = {i}
    BY <2>1 DEF DistinctIds
  <2> QED
    BY <1>1, <2>2, FS_Singleton
<1>2. CASE l \notin IdsOf(q)
  <2>1. S = {}
    BY <1>2, IdsDef
  <2> QED
    BY <1>2, <2>1, FS_EmptySet
<1> QED
  BY <1>1, <1>2

\* No line of a trace is skipped and none is issued twice, however often the
\* controller refuses it.
THEOREM LinesKept == TraceSpec => []LinesConserved
<1>1. TraceInv => LinesConserved
  <2> SUFFICES ASSUME TraceInv, NEW l \in Ids
               PROVE  Cardinality({i \in DOMAIN rpq : rpq[i].id = l})
                        + Cardinality({i \in DOMAIN wpq : wpq[i].id = l}) + sent[l]
                      = IF l < pos \/ (l = pos /\ ~stall) THEN 1 ELSE 0
    BY DEF LinesConserved
  <2>1. LinesOK /\ sent[l] \in {0, 1}
    BY DEF TraceInv, TraceTypeOK
  <2>2. /\ Cardinality({i \in DOMAIN rpq : rpq[i].id = l}) = IF l \in IdsOf(rpq) THEN 1 ELSE 0
        /\ Cardinality({i \in DOMAIN wpq : wpq[i].id = l}) = IF l \in IdsOf(wpq) THEN 1 ELSE 0
    BY <2>1, CountLine DEF LinesOK
  <2>3. /\ ~(l \in IdsOf(rpq) /\ l \in IdsOf(wpq))
        /\ sent[l] = 1 => l \notin IdsOf(rpq) /\ l \notin IdsOf(wpq)
        /\ l \in IdsOf(rpq) \/ l \in IdsOf(wpq) \/ sent[l] = 1
             <=> l < pos \/ (l = pos /\ ~stall)
    BY <2>1 DEF LinesOK, QueuedLines
  <2> QED
    BY <2>1, <2>2, <2>3
<1> QED
  BY <1>1, TraceConsistent, PTL

\* For every trace: the driver reads no line past a critical load that was not served,
\* unless nvram had to serve two reads of an address at a time, and run_trace returns
\* only when every line was sent.
THEOREM DriverWaits == TraceSpec => []WaitsUntilServed
<1>1. TraceInv => WaitsUntilServed
  <2> SUFFICES ASSUME TraceInv PROVE WaitsUntilServed
    OBVIOUS
  <2>1. TraceTypeOK /\ StageOK /\ LinesOK /\ WaitsOK
    BY DEF TraceInv
  <2>2. ASSUME stage = "done" PROVE \A l \in 1 .. Len(trace) : sent[l] = 1
    <3>1. rpq = <<>> /\ wpq = <<>> /\ pos = Len(trace) /\ ~stall
      BY <2>1, <2>2 DEF StageOK
    <3>2. QueuedLines = {}
      BY <3>1 DEF QueuedLines, IdsOf, Queued
    <3>3. ASSUME NEW l \in 1 .. Len(trace) PROVE sent[l] = 1
      <4>1. l \in Ids /\ (l < pos \/ l = pos)
        BY <2>1, <3>1 DEF TraceTypeOK
      <4> QED
        BY <2>1, <3>1, <3>2, <4>1 DEF LinesOK
    <3> QED
      BY <3>3
  <2> QED
    BY <2>1, <2>2 DEF WaitsUntilServed, WaitsOK, OwedLines
<1> QED
  BY <1>1, TraceConsistent, PTL
=============================================================================
