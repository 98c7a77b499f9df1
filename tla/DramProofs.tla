----------------------------- MODULE DramProofs -----------------------------
(***************************************************************************)
(* Machine-checked proofs about Dram, for every value of its constants:    *)
(* types, the activated request and the deadline of the refreshes.         *)
(*                                                                         *)
(* Schedule is first taken apart into the commands that it can give, each  *)
(* with the queue it comes from; every proof about the controller is then  *)
(* one step per command.                                                   *)
(***************************************************************************)
EXTENDS Dram, FiniteSetTheorems, FunctionTheorems, SequenceTheorems, WellFoundedInduction, TLAPS

USE DramAssumption

Rows == {RowOf[line] : line \in Lines}

\* The clock of the refreshes restarts when they are queued.
ClockOK == phase \in {"idle", "schedule"} => sinceRef < Refi

QueuesBounded == Len(readq) <= QueueSize /\ Len(writeq) <= QueueSize

\* Commands that are left until all refreshes are done: the access of the
\* activated request, then PREA (unless the banks are closed) and REF of each
\* rank that is queued.
Left ==
  Len(actq) + 2 * Len(miscq)
    - (IF miscq # <<>> /\ FirstCmd(Head(miscq)) = "REF" THEN 1 ELSE 0)

\* Each of them is given at most MaxDelay cycles after the one before.
Deadline ==
  /\ miscq # <<>> => sinceRef + Left * MaxDelay - quiet <= (2 * Ranks + 1) * MaxDelay
  /\ phase = "idle" /\ miscq # <<>> => quiet < MaxDelay

DramInv == TypeOK /\ QueuesBounded /\ ActivatedStaysOpen /\ ClockOK /\ Deadline

(***************************************************************************)
(* Sequences                                                               *)
(***************************************************************************)

\* What is in a queue after its head has left.
LEMMA TailFacts ==
  ASSUME NEW S, NEW q \in Seq(S), q # <<>>
  PROVE  /\ Head(q) \in S /\ Head(q) = q[1] /\ 1 \in DOMAIN q
         /\ Tail(q) \in Seq(S) /\ Len(Tail(q)) = Len(q) - 1 /\ Len(q) \in Nat \ {0}
         /\ DOMAIN q = 1 .. Len(q) /\ DOMAIN Tail(q) = 1 .. Len(q) - 1
         /\ \A i \in 1 .. Len(q) - 1 : Tail(q)[i] = q[i + 1] /\ i + 1 \in 1 .. Len(q)
  BY SMTT(30)

\* What is in a queue after a request was appended.
LEMMA AppendFacts ==
  ASSUME NEW S, NEW q \in Seq(S), NEW x \in S
  PROVE  /\ Append(q, x) \in Seq(S) /\ Len(Append(q, x)) = Len(q) + 1 /\ Len(q) \in Nat
         /\ DOMAIN q = 1 .. Len(q) /\ DOMAIN Append(q, x) = 1 .. Len(q) + 1
         /\ Append(q, x)[Len(q) + 1] = x
         /\ \A i \in 1 .. Len(q) : Append(q, x)[i] = q[i]
         /\ \A i \in 1 .. Len(q) + 1 : i \in 1 .. Len(q) \/ i = Len(q) + 1
  BY SMTT(30)

\* A function on the first n numbers is a sequence.
LEMMA FunctionFacts ==
  ASSUME NEW S, NEW n \in Nat, NEW f \in [1 .. n -> S]
  PROVE  f \in Seq(S) /\ Len(f) = n
<1>1. f \in Seq(S)
  BY ONLY f \in [1 .. n -> S], n \in Nat, SeqDef, SMTT(30)
<1>2. DOMAIN f = 1 .. Len(f) /\ Len(f) \in Nat /\ DOMAIN f = 1 .. n
  BY <1>1
<1>3. Len(f) <= n /\ n <= Len(f)
  BY <1>2
<1> QED
  BY <1>1, <1>2, <1>3

\* A queue with one request.
LEMMA SingleFacts ==
  ASSUME NEW S, NEW q \in Seq(S), q # <<>>, Len(q) <= 1
  PROVE  Len(q) = 1 /\ Head(q) = q[1] /\ Tail(q) = <<>> /\ DOMAIN q = {1}
<1>1. /\ Len(q) \in Nat \ {0} /\ Head(q) = q[1] /\ DOMAIN q = 1 .. Len(q)
      /\ Tail(q) \in Seq(S) /\ Len(Tail(q)) = Len(q) - 1
  BY TailFacts
<1>2. Len(q) = 1 /\ 1 .. Len(q) = {1}
  BY <1>1
<1>3. Len(Tail(q)) = 0
  BY <1>1, <1>2
<1>4. Tail(q) = <<>>
  BY <1>1, <1>3, EmptySeq
<1> QED
  BY <1>1, <1>2, <1>4

(***************************************************************************)
(* The queue that schedule looks at                                        *)
(***************************************************************************)
FromRead == actq = <<>> /\ miscq = <<>> /\ readq # <<>> /\ ~WritePrior
FromWrite == actq = <<>> /\ miscq = <<>> /\ writeq # <<>> /\ WritePrior

\* Activated requests come first, then refreshes, then the older of a read and
\* a write.
LEMMA SourceFacts ==
  /\ actq # <<>> => Source = "act" /\ SourceQueue = actq
  /\ actq = <<>> /\ miscq # <<>> => Source = "misc" /\ SourceQueue = miscq
  /\ actq = <<>> /\ miscq = <<>> /\ WritePrior => Source = "write" /\ SourceQueue = writeq
  /\ actq = <<>> /\ miscq = <<>> /\ ~WritePrior => Source = "read" /\ SourceQueue = readq
<1>1. /\ actq # <<>> => Source = "act"
      /\ actq = <<>> /\ miscq # <<>> => Source = "misc"
      /\ actq = <<>> /\ miscq = <<>> /\ WritePrior => Source = "write"
      /\ actq = <<>> /\ miscq = <<>> /\ ~WritePrior => Source = "read"
  BY DEF Source
<1>2. /\ Source = "act" => SourceQueue = actq
      /\ Source = "misc" => SourceQueue = miscq
      /\ Source = "write" => SourceQueue = writeq
      /\ Source = "read" => SourceQueue = readq
  BY DEF SourceQueue
<1> QED
  BY <1>1, <1>2

(***************************************************************************)
(* The commands                                                            *)
(***************************************************************************)
Found(req) ==
  [line |-> req.line, id |-> req.id, left |-> ReadLatency, val |-> mem[req.line]]

GivesNone ==
  /\ UNCHANGED <<readq, writeq, actq, miscq, pendq, open, quiet, mem>>
  /\ quiet < MaxDelay \/ (actq = <<>> /\ miscq = <<>>)

ReadActivated ==
  /\ actq # <<>> /\ Head(actq) \in Read
  /\ pendq' = Append(pendq, Found(Head(actq)))
  /\ actq' = <<>> /\ quiet' = 0
  /\ UNCHANGED <<readq, writeq, miscq, open, mem>>

WriteActivated ==
  /\ actq # <<>> /\ Head(actq) \in Write
  /\ mem' = [mem EXCEPT ![Head(actq).line] = Head(actq).val]
  /\ actq' = <<>> /\ quiet' = 0
  /\ UNCHANGED <<readq, writeq, miscq, pendq, open>>

ClosesRank ==
  /\ actq = <<>> /\ miscq # <<>> /\ FirstCmd(Head(miscq)) = "PREA"
  /\ open' = [b \in Banks |-> IF RankOf[b] = Head(miscq).rank THEN NoRow ELSE open[b]]
  /\ quiet' = 0
  /\ UNCHANGED <<readq, writeq, actq, miscq, pendq, mem>>

RefreshesRank ==
  /\ actq = <<>> /\ miscq # <<>> /\ FirstCmd(Head(miscq)) = "REF"
  /\ miscq' = Tail(miscq) /\ quiet' = 0
  /\ UNCHANGED <<readq, writeq, actq, pendq, open, mem>>

Opens(req) ==
  /\ open' = [open EXCEPT ![BankOf[req.line]] = RowOf[req.line]]
  /\ actq' = <<req>> /\ quiet' = 0
  /\ UNCHANGED <<miscq, pendq, mem>>

OpensForRead ==
  FromRead /\ Opens(Head(readq)) /\ readq' = Tail(readq) /\ UNCHANGED writeq

OpensForWrite ==
  FromWrite /\ Opens(Head(writeq)) /\ writeq' = Tail(writeq) /\ UNCHANGED readq

ClosesBank ==
  /\ FromRead \/ FromWrite
  /\ \E line \in Lines : open' = [open EXCEPT ![BankOf[line]] = NoRow]
  /\ quiet' = 0
  /\ UNCHANGED <<readq, writeq, actq, miscq, pendq, mem>>

ReadOpen ==
  /\ FromRead
  /\ pendq' = Append(pendq, Found(Head(readq)))
  /\ readq' = Tail(readq) /\ quiet' = 0
  /\ UNCHANGED <<writeq, actq, miscq, open, mem>>

WriteOpen ==
  /\ FromWrite
  /\ mem' = [mem EXCEPT ![Head(writeq).line] = Head(writeq).val]
  /\ writeq' = Tail(writeq) /\ quiet' = 0
  /\ UNCHANGED <<readq, actq, miscq, pendq, open>>

GivesCommand ==
  /\ phase = "schedule" /\ phase' = "idle"
  /\ UNCHANGED <<sinceRef, wanted, latest>>
  /\ \/ GivesNone \/ ReadActivated \/ WriteActivated \/ ClosesRank \/ RefreshesRank
     \/ OpensForRead \/ OpensForWrite \/ ClosesBank \/ ReadOpen \/ WriteOpen

\* Requests of the queues by type.
LEMMA RequestTypes ==
  /\ \A x \in Read : /\ x.op = "read" /\ x.line \in Lines /\ x.id \in ReadIds
                     /\ x.val \in Values /\ x.arrive \in Nat
  /\ \A x \in Write : /\ x.op = "write" /\ x.line \in Lines
                      /\ x.val \in Values /\ x.arrive \in Nat
  /\ \A x \in Refresh : x.op = "refresh" /\ x.rank \in RankIds
  /\ \A x \in Done : /\ x.line \in Lines /\ x.id \in ReadIds
                     /\ x.val \in Values \cup {NoValue}
                     /\ x.left \in -1 .. ReadLatency
  BY DEF Read, Write, Refresh, Done

\* What get_first_cmd returns.
LEMMA FirstCmdFacts ==
  /\ \A req \in Refresh : FirstCmd(req) \in {"REF", "PREA"}
  /\ \A req \in Read \cup Write :
       /\ FirstCmd(req) \in {"ACT", "PRE", req.op}
       /\ open[BankOf[req.line]] = RowOf[req.line] => FirstCmd(req) = req.op
<1>1. \A line \in Lines : RowOf[line] # NoRow
  OBVIOUS
<1> QED
  BY <1>1, RequestTypes DEF FirstCmd

\* schedule gives one of the commands.
LEMMA ScheduleMoves ==
  ASSUME DramInv, Schedule
  PROVE  GivesCommand
<1>1. /\ readq \in Seq(Read) /\ writeq \in Seq(Write) /\ actq \in Seq(Read \cup Write)
      /\ miscq \in Seq(Refresh) /\ pendq \in Seq(Done) /\ ActivatedStaysOpen
      /\ quiet \in 0 .. MaxDelay
  BY DEF DramInv, TypeOK
<1>2. phase = "schedule" /\ phase' = "idle" /\ sinceRef' = sinceRef
  BY DEF Schedule
<1> DEFINE req == Head(SourceQueue)
<1>3. CASE (SourceQueue = <<>> \/ ~Rested) /\ UNCHANGED <<queues, open, quiet, history>>
  <2>1. quiet < MaxDelay \/ SourceQueue = <<>>
    BY <1>1, <1>3 DEF Rested
  <2>2. SourceQueue = <<>> => actq = <<>> /\ miscq = <<>>
    BY SourceFacts
  <2>3. GivesNone /\ UNCHANGED <<wanted, latest>>
    BY <1>3, <2>1, <2>2 DEF GivesNone, queues, history
  <2> QED
    BY <1>2, <2>3 DEF GivesCommand
<1>4. ASSUME SourceQueue # <<>>, UpdateTiming,
             \/ Activate(req) \/ Precharge(req) \/ PrechargeAll(req)
             \/ DoRefresh(req) \/ DoRead(req) \/ DoWrite(req)
      PROVE  GivesCommand
  <2>1. quiet' = 0 /\ UNCHANGED <<wanted, latest>>
    BY <1>4 DEF UpdateTiming, Activate, Precharge, PrechargeAll, DoRefresh, DoRead, DoWrite,
                history
  <2>2. CASE actq # <<>>
    <3>1. Source = "act" /\ req = Head(actq) /\ Head(actq) \in Read \cup Write
      BY <1>1, <2>2, SourceFacts, SMTT(30)
    <3>2. Len(actq) = 1 /\ Head(actq) = actq[1] /\ Tail(actq) = <<>> /\ 1 \in DOMAIN actq
      BY <1>1, <2>2, SingleFacts, SMTT(30) DEF ActivatedStaysOpen
    <3>9. open[BankOf[req.line]] = RowOf[req.line]
      BY <1>1, <3>1, <3>2 DEF ActivatedStaysOpen
    <3>3. FirstCmd(req) = req.op
      BY <3>1, <3>9, FirstCmdFacts
    <3>4. UNCHANGED <<readq, writeq, miscq>> \/ ~(DoRead(req) \/ DoWrite(req))
      BY <3>1 DEF DoRead, DoWrite, Pop
    <3>5. CASE req \in Read
      <4>1. FirstCmd(req) = "read"
        BY <3>3, <3>5, RequestTypes
      <4>2. DoRead(req)
        BY <1>4, <4>1 DEF Activate, Precharge, PrechargeAll, DoRefresh, DoWrite
      <4>3. ReadActivated
        BY <2>1, <2>2, <3>1, <3>2, <3>4, <3>5, <4>2 DEF ReadActivated, DoRead, Found, history
      <4> QED
        BY <1>2, <2>1, <4>3 DEF GivesCommand
    <3>6. CASE req \in Write
      <4>1. FirstCmd(req) = "write"
        BY <3>3, <3>6, RequestTypes
      <4>2. DoWrite(req)
        BY <1>4, <4>1 DEF Activate, Precharge, PrechargeAll, DoRefresh, DoRead
      <4>3. WriteActivated
        BY <2>1, <2>2, <3>1, <3>2, <3>4, <3>6, <4>2 DEF WriteActivated, DoWrite
      <4> QED
        BY <1>2, <2>1, <4>3 DEF GivesCommand
    <3> QED
      BY <3>1, <3>5, <3>6
  <2>3. CASE actq = <<>> /\ miscq # <<>>
    <3>1. Source = "misc" /\ req = Head(miscq) /\ req \in Refresh
      BY <1>1, <2>3, SourceFacts
    <3>2. FirstCmd(req) \in {"REF", "PREA"}
      BY <3>1, FirstCmdFacts
    <3>3. CASE FirstCmd(req) = "PREA"
      <4>1. PrechargeAll(req)
        BY <1>4, <3>1, <3>3, FirstCmdFacts DEF Activate, Precharge, DoRefresh, DoRead, DoWrite
      <4>2. ClosesRank
        BY <2>1, <2>3, <3>1, <3>3, <4>1 DEF ClosesRank, PrechargeAll, queues, history
      <4> QED
        BY <1>2, <2>1, <4>2 DEF GivesCommand
    <3>4. CASE FirstCmd(req) = "REF"
      <4>1. DoRefresh(req)
        BY <1>4, <3>1, <3>4, FirstCmdFacts DEF Activate, Precharge, PrechargeAll, DoRead, DoWrite
      <4>2. RefreshesRank
        BY <2>1, <2>3, <3>1, <3>4, <4>1 DEF RefreshesRank, DoRefresh, Pop, history
      <4> QED
        BY <1>2, <2>1, <4>2 DEF GivesCommand
    <3> QED
      BY <3>2, <3>3, <3>4
  <2>4. CASE actq = <<>> /\ miscq = <<>>
    <3>1. \/ Source = "read" /\ FromRead /\ req = Head(readq) /\ req \in Read
          \/ Source = "write" /\ FromWrite /\ req = Head(writeq) /\ req \in Write
      BY <1>1, <1>4, <2>4, SourceFacts, SMTT(30) DEF FromRead, FromWrite
    <3>2. /\ FirstCmd(req) \in {"ACT", "PRE", req.op} /\ req.op \in {"read", "write"}
          /\ req.op = "read" <=> Source = "read"
          /\ req.line \in Lines
      BY <3>1, FirstCmdFacts, RequestTypes
    <3>3. CASE FirstCmd(req) = "ACT"
      <4>1. Activate(req)
        BY <1>4, <3>2, <3>3 DEF Precharge, PrechargeAll, DoRefresh, DoRead, DoWrite
      <4>2. Opens(req)
        BY <2>1, <2>4, <3>1, <4>1 DEF Activate, Opens, Pop, history
      <4>3. OpensForRead \/ OpensForWrite
        BY <3>1, <4>1, <4>2 DEF Activate, Pop, OpensForRead, OpensForWrite
      <4> QED
        BY <1>2, <2>1, <4>3 DEF GivesCommand
    <3>4. CASE FirstCmd(req) = "PRE"
      <4>1. Precharge(req)
        BY <1>4, <3>2, <3>4 DEF Activate, PrechargeAll, DoRefresh, DoRead, DoWrite
      <4>2. ClosesBank
        BY <2>1, <3>1, <3>2, <4>1 DEF Precharge, ClosesBank, queues, history
      <4> QED
        BY <1>2, <2>1, <4>2 DEF GivesCommand
    <3>5. CASE FirstCmd(req) = "read"
      <4>1. DoRead(req) /\ Source = "read"
        BY <1>4, <3>2, <3>5 DEF Activate, Precharge, PrechargeAll, DoRefresh, DoWrite
      <4>2. ReadOpen
        BY <2>1, <2>4, <3>1, <4>1 DEF DoRead, Pop, ReadOpen, Found, history
      <4> QED
        BY <1>2, <2>1, <4>2 DEF GivesCommand
    <3>6. CASE FirstCmd(req) = "write"
      <4>1. DoWrite(req) /\ Source = "write"
        BY <1>4, <3>1, <3>2, <3>6 DEF Activate, Precharge, PrechargeAll, DoRefresh, DoRead
      <4>2. WriteOpen
        BY <2>1, <2>4, <3>1, <4>1 DEF DoWrite, Pop, WriteOpen
      <4> QED
        BY <1>2, <2>1, <4>2 DEF GivesCommand
    <3> QED
      BY <3>2, <3>3, <3>4, <3>5, <3>6
  <2> QED
    BY <2>2, <2>3, <2>4
<1> QED
  BY <1>3, <1>4 DEF Schedule

(***************************************************************************)
(* Which write a read is forwarded from                                    *)
(***************************************************************************)
\* A nonempty set of naturals has a least element.
LEMMA LeastNatural ==
  ASSUME NEW S \in SUBSET Nat, S # {}
  PROVE  \E m \in S : \A n \in S : m <= n
<1> DEFINE R == {ss \in Nat \X Nat : ss[1] < ss[2]}
<1>1. OpToRel(<, Nat) = R
  BY DEF OpToRel
<1>2. IsWellFoundedOn(R, Nat)
  BY <1>1, NatLessThanWellFounded
<1>3. PICK m \in S : \A n \in S : ~(<<n, m>> \in R)
  BY <1>2, WFMin
<1>4. \A n \in S : n < m => <<n, m>> \in R
  BY <1>3
<1> HIDE DEF R
<1>5. \A n \in S : ~(n < m)
  BY <1>3, <1>4, Zenon
<1>6. \A n \in S : m <= n
  BY <1>3, <1>5
<1> QED
  BY <1>6

\* A set of indices of a queue has a last one.
LEMMA LastIndex ==
  ASSUME NEW n \in Nat, NEW H \in SUBSET (1 .. n), H # {}
  PROVE  \E i \in H : \A j \in H : j <= i
<1> DEFINE S == {n - i : i \in H}
<1>1. S \in SUBSET Nat /\ S # {}
  OBVIOUS
<1>2. PICK m \in S : \A k \in S : m <= k
  BY <1>1, LeastNatural
<1>3. PICK i \in H : m = n - i
  BY <1>2
<1>4. \A j \in H : n - i <= n - j
  BY <1>2, <1>3
<1>5. \A j \in H : j <= i
  BY <1>4
<1> QED
  BY <1>5

(***************************************************************************)
(* The ranks of arrival                                                    *)
(***************************************************************************)
\* Ranks are bounded by the number of queued requests, and keep the order of
\* the arrivals.
LEMMA RankFacts ==
  ASSUME readq \in Seq(Read), writeq \in Seq(Write)
  PROVE  /\ \A a : RankIn(a) \in Nat /\ RankIn(a) <= Len(readq) + Len(writeq)
         /\ \A a \in Nat, b \in Nat : a <= b => RankIn(a) <= RankIn(b)
<1> DEFINE n == Len(readq) + Len(writeq)
           all == {x.arrive : x \in Queued}
           below(a) == {x.arrive : x \in {y \in Queued : y.arrive < a}}
           f == [i \in 1 .. n |-> IF i <= Len(readq) THEN readq[i].arrive
                                  ELSE writeq[i - Len(readq)].arrive]
<1>1. /\ Len(readq) \in Nat /\ Len(writeq) \in Nat /\ n \in Nat
      /\ DOMAIN readq = 1 .. Len(readq) /\ DOMAIN writeq = 1 .. Len(writeq)
  OBVIOUS
<1>2. \A i \in 1 .. n : f[i] \in all
  <2> SUFFICES ASSUME NEW i \in 1 .. n PROVE f[i] \in all
    OBVIOUS
  <2>1. CASE i <= Len(readq)
    <3>1. readq[i] \in Queued /\ f[i] = readq[i].arrive
      BY <1>1, <2>1 DEF Queued
    <3> QED
      BY <3>1
  <2>2. CASE ~(i <= Len(readq))
    <3>1. i - Len(readq) \in DOMAIN writeq
      BY <1>1, <2>2
    <3>2. writeq[i - Len(readq)] \in Queued /\ f[i] = writeq[i - Len(readq)].arrive
      BY <1>1, <2>2, <3>1 DEF Queued
    <3> QED
      BY <3>2
  <2> QED
    BY <2>1, <2>2
<1>3. \A a \in all : \E i \in 1 .. n : f[i] = a
  <2> SUFFICES ASSUME NEW a \in all PROVE \E i \in 1 .. n : f[i] = a
    BY Zenon
  <2>3. PICK x \in Queued : x.arrive = a
    OBVIOUS
  <2>1. CASE \E i \in DOMAIN readq : x = readq[i]
    <3>1. PICK i \in DOMAIN readq : x = readq[i]
      BY <2>1
    <3>2. i \in 1 .. n /\ f[i] = a
      BY <1>1, <2>3, <3>1
    <3> QED
      BY <3>2
  <2>2. CASE \E i \in DOMAIN writeq : x = writeq[i]
    <3>1. PICK i \in DOMAIN writeq : x = writeq[i]
      BY <2>2
    <3>2. i + Len(readq) \in 1 .. n /\ f[i + Len(readq)] = a
      BY <1>1, <2>3, <3>1, SMTT(30)
    <3> QED
      BY <3>2
  <2> QED
    BY <2>1, <2>2, <2>3 DEF Queued
<1>4. f \in Surjection(1 .. n, all)
  <2>1. f \in [1 .. n -> all]
    BY <1>2
  <2> QED
    BY <1>3, <2>1, Fun_IsSurj
<1>5. IsFiniteSet(all) /\ Cardinality(all) <= n
  <2>1. ExistsSurjection(1 .. n, all)
    BY <1>4 DEF ExistsSurjection
  <2> HIDE DEF n, all
  <2> QED
    BY <1>1, <2>1, FS_SurjCardinalityBound, FS_NatSurjection
<1>6. Cardinality(all) \in Nat
  BY <1>5, FS_CardinalityType
<1>7. \A a : below(a) \in SUBSET all /\ RankIn(a) = Cardinality(below(a))
  BY DEF RankIn
<1>8. \A a : IsFiniteSet(below(a)) /\ Cardinality(below(a)) <= Cardinality(all)
  <2> SUFFICES ASSUME NEW a
               PROVE  IsFiniteSet(below(a)) /\ Cardinality(below(a)) <= Cardinality(all)
    BY Zenon
  <2>1. below(a) \in SUBSET all
    BY <1>7
  <2> HIDE DEF all, below
  <2> QED
    BY <1>5, <2>1, FS_Subset
<1>9. \A a : Cardinality(below(a)) \in Nat
  BY <1>8, FS_CardinalityType
<1>10. \A x \in Queued : x.arrive \in Nat
  <2>1. \A i \in DOMAIN readq : readq[i] \in Read
    OBVIOUS
  <2>2. \A i \in DOMAIN writeq : writeq[i] \in Write
    OBVIOUS
  <2> QED
    BY <2>1, <2>2, RequestTypes DEF Queued
<1>11. \A a \in Nat, b \in Nat : a <= b => below(a) \in SUBSET below(b)
  BY <1>10
<1>12. \A a \in Nat, b \in Nat : a <= b => Cardinality(below(a)) <= Cardinality(below(b))
  <2> SUFFICES ASSUME NEW a \in Nat, NEW b \in Nat, a <= b
               PROVE  Cardinality(below(a)) <= Cardinality(below(b))
    BY Zenon
  <2>1. below(a) \in SUBSET below(b) /\ IsFiniteSet(below(b))
    BY <1>8, <1>11
  <2> HIDE DEF below
  <2> QED
    BY <2>1, FS_Subset
<1> HIDE DEF n, all, below
<1>13. \A a : RankIn(a) \in Nat /\ RankIn(a) <= n
  BY <1>1, <1>5, <1>6, <1>7, <1>8, <1>9
<1> QED
  BY <1>7, <1>12, <1>13 DEF n

\* Only the ranks change when the clock moves on.
LEMMA AgedFacts ==
  ASSUME readq \in Seq(Read), writeq \in Seq(Write)
  PROVE  /\ Aged(readq) \in Seq(Read) /\ Len(Aged(readq)) = Len(readq)
         /\ DOMAIN Aged(readq) = 1 .. Len(readq) /\ DOMAIN readq = 1 .. Len(readq)
         /\ \A i \in 1 .. Len(readq) :
              Aged(readq)[i] = [readq[i] EXCEPT !.arrive = RankIn(readq[i].arrive)]
         /\ Aged(writeq) \in Seq(Write) /\ Len(Aged(writeq)) = Len(writeq)
         /\ DOMAIN Aged(writeq) = 1 .. Len(writeq) /\ DOMAIN writeq = 1 .. Len(writeq)
         /\ \A i \in 1 .. Len(writeq) :
              Aged(writeq)[i] = [writeq[i] EXCEPT !.arrive = RankIn(writeq[i].arrive)]
<1>1. \A x \in Read : [x EXCEPT !.arrive = RankIn(x.arrive)] \in Read
  BY RankFacts DEF Read
<1>2. \A x \in Write : [x EXCEPT !.arrive = RankIn(x.arrive)] \in Write
  BY RankFacts DEF Write
<1>3. /\ Len(readq) \in Nat /\ DOMAIN readq = 1 .. Len(readq)
      /\ Len(writeq) \in Nat /\ DOMAIN writeq = 1 .. Len(writeq)
      /\ \A i \in 1 .. Len(readq) : readq[i] \in Read
      /\ \A i \in 1 .. Len(writeq) : writeq[i] \in Write
  OBVIOUS
<1>4. /\ DOMAIN Aged(readq) = 1 .. Len(readq)
      /\ \A i \in 1 .. Len(readq) :
           Aged(readq)[i] = [readq[i] EXCEPT !.arrive = RankIn(readq[i].arrive)]
  BY <1>3 DEF Aged
<1>5. /\ DOMAIN Aged(writeq) = 1 .. Len(writeq)
      /\ \A i \in 1 .. Len(writeq) :
           Aged(writeq)[i] = [writeq[i] EXCEPT !.arrive = RankIn(writeq[i].arrive)]
  BY <1>3 DEF Aged
<1>6. Aged(readq) \in [1 .. Len(readq) -> Read]
  <2>1. Aged(readq) = [i \in 1 .. Len(readq) |->
                         [readq[i] EXCEPT !.arrive = RankIn(readq[i].arrive)]]
    BY <1>3 DEF Aged
  <2> QED
    BY <1>1, <1>3, <2>1
<1>7. Aged(writeq) \in [1 .. Len(writeq) -> Write]
  <2>1. Aged(writeq) = [i \in 1 .. Len(writeq) |->
                         [writeq[i] EXCEPT !.arrive = RankIn(writeq[i].arrive)]]
    BY <1>3 DEF Aged
  <2> QED
    BY <1>2, <1>3, <2>1
<1>8. Aged(readq) \in Seq(Read) /\ Len(Aged(readq)) = Len(readq)
  BY <1>3, <1>6, FunctionFacts
<1>9. Aged(writeq) \in Seq(Write) /\ Len(Aged(writeq)) = Len(writeq)
  BY <1>3, <1>7, FunctionFacts
<1> QED
  BY <1>3, <1>4, <1>5, <1>8, <1>9

(***************************************************************************)
(* The deadline                                                            *)
(***************************************************************************)
\* More commands to give are more cycles to wait.
LEMMA NotMore ==
  ASSUME NEW m \in Int, NEW n \in Int, n <= m
  PROVE  n * MaxDelay <= m * MaxDelay
<1>1. MaxDelay \in Nat
  OBVIOUS
<1> QED
  BY ONLY <1>1, n \in Int, m \in Int, n <= m

\* A command less to give is MaxDelay cycles less to wait.
LEMMA OneLess ==
  ASSUME NEW m \in Int, NEW n \in Int, n <= m - 1
  PROVE  n * MaxDelay <= m * MaxDelay - MaxDelay /\ n * MaxDelay \in Int
<1>1. MaxDelay \in Nat
  OBVIOUS
<1>2. n * MaxDelay <= (m - 1) * MaxDelay
  BY ONLY <1>1, n \in Int, m \in Int, n <= m - 1
<1>3. (m - 1) * MaxDelay = m * MaxDelay - MaxDelay
  BY ONLY <1>1, m \in Int
<1> QED
  BY ONLY <1>1, <1>2, <1>3, n \in Int, m \in Int

\* The number of commands left is a number, at least 1 while a rank is queued.
LEMMA LeftFacts ==
  ASSUME TypeOK
  PROVE  /\ Left \in Int /\ Left * MaxDelay \in Int
         /\ miscq # <<>> => Left >= 1
<1>1. Len(actq) \in Nat /\ Len(miscq) \in Nat /\ (miscq # <<>> => Len(miscq) >= 1)
  BY SMTT(30) DEF TypeOK
<1>2. Left \in Int /\ (miscq # <<>> => Left >= 1)
  BY <1>1 DEF Left
<1> QED
  BY <1>2

\* When a refresh is due, the ranks of the last interval are refreshed.
LEMMA DeadlineMet ==
  ASSUME DramInv
  PROVE  RefreshInTime
<1> SUFFICES ASSUME sinceRef >= Refi, miscq # <<>> PROVE FALSE
  BY DEF RefreshInTime, RefreshDue
<1> DEFINE K == (2 * Ranks + 1) * MaxDelay
<1>1. sinceRef \in Int /\ quiet \in Int /\ quiet <= MaxDelay /\ MaxDelay \in Nat /\ Refi \in Nat
  BY DEF DramInv, TypeOK
<1>2. Left \in Int /\ Left >= 1 /\ Left * MaxDelay \in Int
  BY LeftFacts DEF DramInv
<1>3. Left * MaxDelay >= MaxDelay
  BY ONLY <1>2, MaxDelay \in Nat
<1>4. sinceRef + Left * MaxDelay - quiet <= K /\ K \in Int /\ Refi > K
  BY DEF DramInv, Deadline
<1> HIDE DEF K
<1> QED
  BY ONLY <1>1, <1>2, <1>3, <1>4, sinceRef >= Refi

\* Steps that leave the commands alone keep the deadline.
LEMMA DeadlineKept ==
  ASSUME Deadline, UNCHANGED <<actq, miscq, open, quiet, sinceRef>>,
         phase' = "idle" => phase = "idle" \/ miscq = <<>> \/ quiet < MaxDelay
  PROVE  Deadline'
<1>1. Left' = Left
  BY DEF Left, FirstCmd
<1> QED
  BY <1>1 DEF Deadline

\* A command brings the refreshes nearer.
LEMMA DeadlineNearer ==
  ASSUME DramInv, TypeOK', sinceRef' = sinceRef, quiet' = 0,
         miscq' # <<>> => miscq # <<>> /\ Left' <= Left - 1
  PROVE  Deadline'
<1> SUFFICES ASSUME miscq' # <<>>
             PROVE  sinceRef' + Left' * MaxDelay - quiet' <= (2 * Ranks + 1) * MaxDelay
  BY DEF Deadline
<1> DEFINE K == (2 * Ranks + 1) * MaxDelay
<1>7. TypeOK /\ MaxDelay \in Nat /\ K \in Int
  BY DEF DramInv
<1>1. sinceRef \in Int /\ quiet \in Int /\ quiet <= MaxDelay
  BY <1>7 DEF TypeOK
<1>2. Left \in Int /\ Left * MaxDelay \in Int
  BY LeftFacts DEF DramInv
<1>3. Left' \in Int /\ Left' * MaxDelay \in Int
  <2>1. Len(actq)' \in Nat /\ Len(miscq)' \in Nat
    BY DEF TypeOK
  <2>2. Left' \in Int
    BY <2>1 DEF Left
  <2> QED
    BY <2>2
<1>4. Left' * MaxDelay <= Left * MaxDelay - MaxDelay
  BY <1>2, <1>3, OneLess
<1>5. sinceRef + Left * MaxDelay - quiet <= K
  BY DEF DramInv, Deadline
<1> HIDE DEF K
<1>6. sinceRef + Left' * MaxDelay <= K
  <2> DEFINE l == Left * MaxDelay
             n == Left' * MaxDelay
  <2>1. l \in Int /\ n \in Int /\ n <= l - MaxDelay /\ sinceRef + l - quiet <= K
    BY <1>2, <1>3, <1>4, <1>5
  <2> HIDE DEF l, n
  <2>2. sinceRef + n <= K
    BY ONLY <1>1, <1>7, <2>1
  <2> QED
    BY <2>2 DEF n
<1> QED
  BY <1>1, <1>3, <1>6, sinceRef' = sinceRef, quiet' = 0 DEF K

(***************************************************************************)
(* Every step keeps the invariant                                          *)
(***************************************************************************)
\* issue_request of a read.
LEMMA IssueReadKeeps ==
  ASSUME DramInv, NEW line \in Lines, NEW r \in ReadIds, IssueRead(line, r)
  PROVE  DramInv'
<1>1. TypeOK /\ QueuesBounded /\ ActivatedStaysOpen /\ ClockOK /\ Deadline
  BY DEF DramInv
<1>2. /\ phase = "idle" /\ Len(readq) < QueueSize
      /\ UNCHANGED <<writeq, actq, miscq, open, quiet, sinceRef, phase, mem, latest>>
      /\ wanted' = [wanted EXCEPT ![r] = line]
  BY DEF IssueRead
<1> DEFINE read == [op |-> "read", line |-> line, id |-> r, val |-> latest[line], arrive |-> Now]
<1>12. latest[line] \in Values
  BY <1>1 DEF TypeOK
<1>13. Now \in Nat
  BY DEF Now
<1>3. read \in Read
  BY <1>12, <1>13 DEF Read
<1>4. readq' = readq \/ readq' = Append(readq, read)
  BY DEF IssueRead, ReadQueued
<1>5. readq' \in Seq(Read) /\ Len(readq') <= QueueSize
  <2>1. readq \in Seq(Read) /\ Len(readq) \in Nat
    BY <1>1 DEF TypeOK
  <2>2. CASE readq' = readq
    BY <1>2, <2>1, <2>2
  <2> HIDE DEF read
  <2>3. CASE readq' = Append(readq, read)
    BY <1>2, <1>3, <2>1, <2>3, AppendFacts
  <2> QED
    BY <1>4, <2>2, <2>3
<1>6. pendq' \in Seq(Done)
  <2>1. pendq \in Seq(Done) /\ writeq \in Seq(Write)
    BY <1>1 DEF TypeOK
  <2>2. CASE ~Forwards(line)
    BY <2>1, <2>2 DEF IssueRead
  <2>3. CASE Forwards(line)
    <3> DEFINE done == [line |-> line, id |-> r, left |-> 1, val |-> NoValue]
    <3>1. pendq' = Append(pendq, done)
      BY <2>3 DEF IssueRead
    <3>3. done \in Done
      BY <1>1, DramAssumption DEF Done
    <3> HIDE DEF done
    <3> QED
      BY <2>1, <3>1, <3>3, AppendFacts
  <2> QED
    BY <2>2, <2>3
<1>7. wanted' \in [ReadIds -> Lines \cup {NoLine}]
  BY <1>1, <1>2 DEF TypeOK
<1>8. TypeOK'
  BY <1>1, <1>2, <1>5, <1>6, <1>7 DEF TypeOK
<1>9. QueuesBounded'
  BY <1>1, <1>2, <1>5 DEF QueuesBounded
<1>10. ActivatedStaysOpen' /\ ClockOK'
  BY <1>1, <1>2 DEF ActivatedStaysOpen, ClockOK
<1>11. Deadline'
  BY <1>1, <1>2, DeadlineKept
<1> QED
  BY <1>8, <1>9, <1>10, <1>11 DEF DramInv

\* issue_request of a write.
LEMMA IssueWriteKeeps ==
  ASSUME DramInv, NEW line \in Lines, NEW v \in Values, IssueWrite(line, v)
  PROVE  DramInv'
<1>1. TypeOK /\ QueuesBounded /\ ActivatedStaysOpen /\ ClockOK /\ Deadline
  BY DEF DramInv
<1> DEFINE write == [op |-> "write", line |-> line, val |-> v, arrive |-> Now]
<1>2. /\ phase = "idle" /\ Len(writeq) < QueueSize
      /\ UNCHANGED <<readq, actq, miscq, pendq, open, quiet, sinceRef, phase, wanted, mem>>
      /\ latest' = [latest EXCEPT ![line] = v]
      /\ writeq' = Append(writeq, write)
  BY DEF IssueWrite
<1>3. write \in Write
  BY DEF Write, Now
<1>4. writeq' \in Seq(Write) /\ Len(writeq') <= QueueSize
  <2>1. writeq \in Seq(Write) /\ Len(writeq) \in Nat
    BY <1>1 DEF TypeOK
  <2> HIDE DEF write
  <2> QED
    BY <1>2, <1>3, <2>1, AppendFacts
<1>5. latest' \in [Lines -> Values]
  BY <1>1, <1>2 DEF TypeOK
<1>6. TypeOK'
  BY <1>1, <1>2, <1>4, <1>5 DEF TypeOK
<1>7. QueuesBounded'
  BY <1>1, <1>2, <1>4 DEF QueuesBounded
<1>8. ActivatedStaysOpen' /\ ClockOK'
  BY <1>1, <1>2 DEF ActivatedStaysOpen, ClockOK
<1>9. Deadline'
  BY <1>1, <1>2, DeadlineKept
<1> QED
  BY <1>6, <1>7, <1>8, <1>9 DEF DramInv

\* The clock moves on.
LEMMA NextCycleKeeps ==
  ASSUME DramInv, NextCycle
  PROVE  DramInv'
<1>1. TypeOK /\ QueuesBounded /\ ActivatedStaysOpen /\ ClockOK /\ Deadline
  BY DEF DramInv
<1>2. /\ phase = "idle" /\ phase' = "answer" /\ UNCHANGED <<actq, miscq, open, wanted, mem, latest>>
      /\ readq' = Aged(readq) /\ writeq' = Aged(writeq)
      /\ quiet' = (IF quiet < MaxDelay THEN quiet + 1 ELSE quiet)
      /\ sinceRef' = sinceRef + 1
  BY DEF NextCycle, history
<1>3. /\ readq' \in Seq(Read) /\ Len(readq') = Len(readq)
      /\ writeq' \in Seq(Write) /\ Len(writeq') = Len(writeq)
  BY <1>1, <1>2, AgedFacts DEF TypeOK
<1>4. pendq' \in Seq(Done)
  <2>1. pendq \in Seq(Done) /\ Len(pendq) \in Nat /\ DOMAIN pendq = 1 .. Len(pendq)
    BY <1>1 DEF TypeOK
  <2>2. \A x \in Done : [x EXCEPT !.left = IF x.left >= 0 THEN x.left - 1 ELSE x.left] \in Done
    BY DEF Done
  <2>3. pendq' \in [1 .. Len(pendq) -> Done]
    BY <2>1, <2>2 DEF NextCycle
  <2> QED
    BY <2>1, <2>3, FunctionFacts
<1>5. sinceRef < Refi /\ sinceRef \in Nat /\ quiet \in 0 .. MaxDelay
  BY <1>1, <1>2 DEF TypeOK, ClockOK
<1>6. sinceRef' \in 0 .. Refi /\ quiet' \in 0 .. MaxDelay
  BY <1>2, <1>5
<1>7. TypeOK'
  BY <1>1, <1>2, <1>3, <1>4, <1>6 DEF TypeOK
<1>8. QueuesBounded'
  BY <1>1, <1>3 DEF QueuesBounded
<1>9. ActivatedStaysOpen' /\ ClockOK'
  BY <1>1, <1>2 DEF ActivatedStaysOpen, ClockOK
<1>10. Deadline'
  <2> DEFINE l == Left * MaxDelay
             K == (2 * Ranks + 1) * MaxDelay
  <2>1. Left' = Left
    BY <1>2 DEF Left, FirstCmd
  <2>2. l \in Int /\ K \in Int
    BY <1>1, LeftFacts
  <2>3. miscq # <<>> => sinceRef + l - quiet <= K /\ quiet < MaxDelay
    BY <1>1, <1>2 DEF Deadline
  <2> SUFFICES ASSUME miscq # <<>> PROVE sinceRef' + l - quiet' <= K
    BY <1>2, <2>1 DEF Deadline
  <2> HIDE DEF l, K
  <2> QED
    BY <1>2, <1>5, <2>2, <2>3
<1> QED
  BY <1>7, <1>8, <1>9, <1>10 DEF DramInv

\* The callback of the read at the head of the pending queue.
LEMMA AnswerKeeps ==
  ASSUME DramInv, Answer
  PROVE  DramInv'
<1>1. TypeOK /\ QueuesBounded /\ ActivatedStaysOpen /\ ClockOK /\ Deadline
  BY DEF DramInv
<1>2. /\ phase' = "refresh"
      /\ UNCHANGED <<readq, writeq, actq, miscq, open, quiet, sinceRef, mem, latest>>
  BY DEF Answer
<1>3. pendq' \in Seq(Done) /\ wanted' \in [ReadIds -> Lines \cup {NoLine}]
  <2>1. pendq \in Seq(Done) /\ wanted \in [ReadIds -> Lines \cup {NoLine}]
    BY <1>1 DEF TypeOK
  <2>2. CASE ~AnswerDue
    BY <2>1, <2>2 DEF Answer
  <2>3. CASE AnswerDue
    <3>1. pendq # <<>> /\ pendq' = Tail(pendq)
          /\ wanted' = [wanted EXCEPT ![Head(pendq).id] = NoLine]
      BY <2>3 DEF Answer, AnswerDue
    <3> QED
      BY <2>1, <3>1, TailFacts
  <2> QED
    BY <2>2, <2>3
<1>4. TypeOK'
  BY <1>1, <1>2, <1>3 DEF TypeOK
<1>5. QueuesBounded' /\ ActivatedStaysOpen' /\ ClockOK'
  BY <1>1, <1>2 DEF QueuesBounded, ActivatedStaysOpen, ClockOK
<1>6. Deadline'
  BY <1>1, <1>2, DeadlineKept
<1> QED
  BY <1>4, <1>5, <1>6 DEF DramInv

\* The refreshes of all ranks are queued.
LEMMA QueueRefreshKeeps ==
  ASSUME DramInv, QueueRefresh
  PROVE  DramInv'
<1>1. TypeOK /\ QueuesBounded /\ ActivatedStaysOpen /\ ClockOK /\ Deadline
  BY DEF DramInv
<1>2. /\ phase = "refresh" /\ phase' = "schedule"
      /\ UNCHANGED <<readq, writeq, actq, pendq, open, quiet, wanted, mem, latest>>
  BY DEF QueueRefresh, history
<1>3. QueuesBounded' /\ ActivatedStaysOpen'
  BY <1>1, <1>2 DEF QueuesBounded, ActivatedStaysOpen
<1>4. CASE ~RefreshDue
  <2>1. UNCHANGED <<miscq, sinceRef>> /\ sinceRef < Refi
    BY <1>1, <1>4 DEF QueueRefresh, RefreshDue, TypeOK
  <2>2. TypeOK' /\ ClockOK'
    BY <1>1, <1>2, <2>1 DEF TypeOK, ClockOK
  <2>3. Deadline'
    BY <1>1, <1>2, <2>1, DeadlineKept
  <2> QED
    BY <1>3, <2>2, <2>3 DEF DramInv
<1>5. CASE RefreshDue
  <2> DEFINE refs == [k \in RankIds |-> [op |-> "refresh", rank |-> k]]
  <2>1. sinceRef' = 0 /\ miscq' = miscq \o refs
    BY <1>5 DEF QueueRefresh
  <2>2. miscq = <<>>
    BY <1>2, <1>5, DeadlineMet DEF RefreshInTime
  <2>3. refs \in [1 .. Ranks -> Refresh]
    BY DEF RankIds, Refresh
  <2> HIDE DEF refs
  <2>4. refs \in Seq(Refresh) /\ Len(refs) = Ranks
    BY <2>3, FunctionFacts
  <2>5. miscq' = refs
    BY <2>1, <2>2, <2>4, ConcatEmptySeq
  <2>6. TypeOK'
    BY <1>1, <1>2, <2>1, <2>4, <2>5, SMTT(30) DEF TypeOK
  <2>7. ClockOK'
    <3> DEFINE K == (2 * Ranks + 1) * MaxDelay
    <3>1. 2 * Ranks + 1 \in Nat /\ MaxDelay \in Nat /\ Refi \in Nat /\ Refi > K
      OBVIOUS
    <3>2. K \in Nat
      BY <3>1
    <3>3. 0 < Refi
      <4> HIDE DEF K
      <4> QED
        BY <3>1, <3>2
    <3> QED
      BY <2>1, <3>3 DEF ClockOK
  <2>8. Left' \in Int /\ Left' <= 2 * Ranks + 1
    <3>1. Len(actq') \in Nat /\ Len(actq') <= 1 /\ Len(miscq') = Ranks
      BY <1>1, <1>2, <2>4, <2>5 DEF ActivatedStaysOpen, TypeOK
    <3> QED
      BY <3>1 DEF Left
  <2>9. Left' * MaxDelay <= (2 * Ranks + 1) * MaxDelay
    <3> DEFINE k == 2 * Ranks + 1
    <3>1. k \in Int /\ MaxDelay \in Nat /\ Left' \in Int /\ Left' <= k
      BY <2>8
    <3> HIDE DEF k
    <3>2. Left' * MaxDelay <= k * MaxDelay
      BY <3>1, NotMore
    <3> QED
      BY <3>2 DEF k
  <2>10. Deadline'
    <3> DEFINE l == Left' * MaxDelay
               K == (2 * Ranks + 1) * MaxDelay
    <3>1. l \in Int /\ K \in Int /\ l <= K
      BY <2>8, <2>9
    <3>2. quiet' \in Nat /\ phase' # "idle"
      BY <1>2, <2>6 DEF TypeOK
    <3> SUFFICES 0 + l - quiet' <= K
      BY <2>1, <3>2 DEF Deadline
    <3> HIDE DEF l, K
    <3> QED
      BY <3>1, <3>2
  <2> QED
    BY <1>3, <2>6, <2>7, <2>10 DEF DramInv
<1> QED
  BY <1>4, <1>5

\* What a read finds in its bank.
LEMMA FoundType ==
  ASSUME TypeOK, NEW x \in Read
  PROVE  Found(x) \in Done
<1>1. mem[x.line] \in Values
  BY RequestTypes DEF TypeOK
<1>2. ReadLatency \in -1 .. ReadLatency
  OBVIOUS
<1> QED
  BY <1>1, <1>2, RequestTypes DEF Found, Done

\* The queues after a command.
LEMMA CommandTypes ==
  ASSUME DramInv, GivesCommand
  PROVE  TypeOK' /\ QueuesBounded' /\ ActivatedStaysOpen' /\ ClockOK'
<1>1. TypeOK /\ QueuesBounded /\ ActivatedStaysOpen /\ ClockOK /\ Deadline
  BY DEF DramInv
<1>2. phase = "schedule" /\ phase' = "idle" /\ UNCHANGED <<sinceRef, wanted, latest>>
  BY DEF GivesCommand
<1>3. ClockOK'
  BY <1>1, <1>2 DEF ClockOK
<1>4. 0 \in 0 .. MaxDelay
  OBVIOUS
<1>5. /\ readq \in Seq(Read) /\ writeq \in Seq(Write) /\ actq \in Seq(Read \cup Write)
      /\ miscq \in Seq(Refresh) /\ pendq \in Seq(Done)
      /\ open \in [Banks -> Rows \cup {NoRow}] /\ mem \in [Lines -> Values]
  BY <1>1 DEF TypeOK, Rows
<1>6. <<>> \in Seq(Read \cup Write)
  OBVIOUS
<1>7. CASE GivesNone
  <2>1. TypeOK' /\ QueuesBounded' /\ ActivatedStaysOpen'
    BY <1>1, <1>2, <1>7 DEF GivesNone, TypeOK, QueuesBounded, ActivatedStaysOpen
  <2> QED
    BY <1>3, <2>1
<1>8. CASE ReadActivated
  <2>1. pendq' \in Seq(Done)
    <3>1. Found(Head(actq)) \in Done
      BY <1>1, <1>8, FoundType DEF ReadActivated
    <3> QED
      BY <1>5, <1>8, <3>1, AppendFacts DEF ReadActivated
  <2>2. TypeOK'
    BY <1>1, <1>2, <1>4, <1>6, <1>8, <2>1 DEF ReadActivated, TypeOK
  <2>3. QueuesBounded' /\ ActivatedStaysOpen'
    BY <1>1, <1>8 DEF ReadActivated, QueuesBounded, ActivatedStaysOpen
  <2> QED
    BY <1>3, <2>2, <2>3
<1>9. CASE WriteActivated
  <2>1. mem' \in [Lines -> Values]
    BY <1>5, <1>9, RequestTypes DEF WriteActivated
  <2>2. TypeOK'
    BY <1>1, <1>2, <1>4, <1>6, <1>9, <2>1 DEF WriteActivated, TypeOK
  <2>3. QueuesBounded' /\ ActivatedStaysOpen'
    BY <1>1, <1>9 DEF WriteActivated, QueuesBounded, ActivatedStaysOpen
  <2> QED
    BY <1>3, <2>2, <2>3
<1>10. CASE ClosesRank
  <2>1. open' \in [Banks -> Rows \cup {NoRow}]
    BY <1>5, <1>10 DEF ClosesRank
  <2>2. TypeOK'
    BY <1>1, <1>2, <1>4, <1>10, <2>1 DEF ClosesRank, TypeOK, Rows
  <2>3. QueuesBounded' /\ ActivatedStaysOpen'
    BY <1>1, <1>10 DEF ClosesRank, QueuesBounded, ActivatedStaysOpen
  <2> QED
    BY <1>3, <2>2, <2>3
<1>11. CASE RefreshesRank
  <2>1. miscq' \in Seq(Refresh)
    BY <1>5, <1>11, TailFacts DEF RefreshesRank
  <2>2. TypeOK'
    BY <1>1, <1>2, <1>4, <1>11, <2>1 DEF RefreshesRank, TypeOK
  <2>3. QueuesBounded' /\ ActivatedStaysOpen'
    BY <1>1, <1>11 DEF RefreshesRank, QueuesBounded, ActivatedStaysOpen
  <2> QED
    BY <1>3, <2>2, <2>3
<1>12. ASSUME NEW req \in Read \cup Write, Opens(req)
       PROVE  /\ open' \in [Banks -> Rows \cup {NoRow}] /\ actq' \in Seq(Read \cup Write)
              /\ ActivatedStaysOpen'
  <2>1. req.line \in Lines /\ BankOf[req.line] \in Banks /\ RowOf[req.line] \in Rows
    BY RequestTypes DEF Rows
  <2>2. open' = [open EXCEPT ![BankOf[req.line]] = RowOf[req.line]] /\ actq' = <<req>>
    BY <1>12 DEF Opens
  <2>3. open' \in [Banks -> Rows \cup {NoRow}] /\ open'[BankOf[req.line]] = RowOf[req.line]
    BY <1>5, <2>1, <2>2
  <2>4. Len(actq') = 1 /\ DOMAIN actq' = {1} /\ actq'[1] = req /\ actq' \in Seq(Read \cup Write)
    BY <2>2
  <2>5. ActivatedStaysOpen'
    BY <2>3, <2>4 DEF ActivatedStaysOpen
  <2> QED
    BY <2>3, <2>4, <2>5
<1>13. CASE OpensForRead
  <2>1. Head(readq) \in Read /\ Opens(Head(readq)) /\ readq' \in Seq(Read)
        /\ Len(readq') = Len(readq) - 1 /\ Len(readq) \in Nat
    BY <1>5, <1>13, TailFacts DEF OpensForRead, FromRead
  <2>2. /\ open' \in [Banks -> Rows \cup {NoRow}] /\ actq' \in Seq(Read \cup Write)
        /\ ActivatedStaysOpen'
    BY <1>12, <2>1
  <2>5. UNCHANGED <<miscq, pendq, mem, writeq>> /\ quiet' = 0
    BY <1>13 DEF OpensForRead, Opens
  <2>3. TypeOK'
    BY <1>1, <1>2, <1>4, <2>1, <2>2, <2>5 DEF TypeOK, Rows
  <2>4. QueuesBounded'
    BY <1>1, <1>13, <2>1 DEF OpensForRead, QueuesBounded
  <2> QED
    BY <1>3, <2>2, <2>3, <2>4
<1>14. CASE OpensForWrite
  <2>1. Head(writeq) \in Write /\ Opens(Head(writeq)) /\ writeq' \in Seq(Write)
        /\ Len(writeq') = Len(writeq) - 1 /\ Len(writeq) \in Nat
    BY <1>5, <1>14, TailFacts DEF OpensForWrite, FromWrite
  <2>2. /\ open' \in [Banks -> Rows \cup {NoRow}] /\ actq' \in Seq(Read \cup Write)
        /\ ActivatedStaysOpen'
    BY <1>12, <2>1
  <2>5. UNCHANGED <<miscq, pendq, mem, readq>> /\ quiet' = 0
    BY <1>14 DEF OpensForWrite, Opens
  <2>3. TypeOK'
    BY <1>1, <1>2, <1>4, <2>1, <2>2, <2>5 DEF TypeOK, Rows
  <2>4. QueuesBounded'
    BY <1>1, <1>14, <2>1 DEF OpensForWrite, QueuesBounded
  <2> QED
    BY <1>3, <2>2, <2>3, <2>4
<1>15. CASE ClosesBank
  <2>1. open' \in [Banks -> Rows \cup {NoRow}]
    BY <1>5, <1>15 DEF ClosesBank
  <2>2. TypeOK'
    BY <1>1, <1>2, <1>4, <1>15, <2>1 DEF ClosesBank, TypeOK, Rows
  <2>3. QueuesBounded' /\ ActivatedStaysOpen'
    BY <1>1, <1>15 DEF ClosesBank, FromRead, FromWrite, QueuesBounded, ActivatedStaysOpen
  <2> QED
    BY <1>3, <2>2, <2>3
<1>16. CASE ReadOpen
  <2>1. Head(readq) \in Read /\ readq' \in Seq(Read)
        /\ Len(readq') = Len(readq) - 1 /\ Len(readq) \in Nat
    BY <1>5, <1>16, TailFacts DEF ReadOpen, FromRead
  <2>2. pendq' \in Seq(Done)
    <3>1. Found(Head(readq)) \in Done
      BY <1>1, <2>1, FoundType
    <3> QED
      BY <1>5, <1>16, <3>1, AppendFacts DEF ReadOpen
  <2>3. TypeOK'
    BY <1>1, <1>2, <1>4, <1>16, <2>1, <2>2 DEF ReadOpen, TypeOK
  <2>4. QueuesBounded' /\ ActivatedStaysOpen'
    BY <1>1, <1>16, <2>1 DEF ReadOpen, QueuesBounded, ActivatedStaysOpen
  <2> QED
    BY <1>3, <2>3, <2>4
<1>17. CASE WriteOpen
  <2>1. Head(writeq) \in Write /\ writeq' \in Seq(Write)
        /\ Len(writeq') = Len(writeq) - 1 /\ Len(writeq) \in Nat
    BY <1>5, <1>17, TailFacts DEF WriteOpen, FromWrite
  <2>2. mem' \in [Lines -> Values]
    BY <1>5, <1>17, <2>1, RequestTypes DEF WriteOpen
  <2>3. TypeOK'
    BY <1>1, <1>2, <1>4, <1>17, <2>1, <2>2 DEF WriteOpen, TypeOK
  <2>4. QueuesBounded' /\ ActivatedStaysOpen'
    BY <1>1, <1>17, <2>1 DEF WriteOpen, QueuesBounded, ActivatedStaysOpen
  <2> QED
    BY <1>3, <2>3, <2>4
<1> QED
  BY <1>7, <1>8, <1>9, <1>10, <1>11, <1>13, <1>14, <1>15, <1>16, <1>17 DEF GivesCommand

\* A command keeps the deadline: it is one that a refresh waits for, or no rank
\* is queued.
LEMMA CommandDeadline ==
  ASSUME DramInv, GivesCommand, TypeOK'
  PROVE  Deadline'
<1>1. TypeOK /\ ActivatedStaysOpen /\ Deadline
  BY DEF DramInv
<1>2. phase' = "idle" /\ sinceRef' = sinceRef
  BY DEF GivesCommand
<1>9. actq \in Seq(Read \cup Write) /\ miscq \in Seq(Refresh)
  BY ONLY <1>1 DEF TypeOK
<1>3. Len(actq) \in Nat /\ Len(miscq) \in Nat /\ Len(actq) <= 1
  BY ONLY <1>1, <1>9 DEF ActivatedStaysOpen
<1>4. CASE GivesNone
  <2>1. UNCHANGED <<actq, miscq, open, quiet, sinceRef>> /\ (miscq = <<>> \/ quiet < MaxDelay)
    BY <1>2, <1>4 DEF GivesNone
  <2> QED
    BY <1>1, <2>1, DeadlineKept
<1>5. CASE ReadActivated \/ WriteActivated
  <2>1. actq # <<>> /\ actq' = <<>> /\ quiet' = 0 /\ UNCHANGED <<miscq, open>>
    BY <1>5 DEF ReadActivated, WriteActivated
  <2>2. Len(actq) = 1 /\ Len(actq') = 0
    BY <1>1, <1>3, <2>1, SingleFacts DEF TypeOK
  <2>3. Left' = Left - 1
    BY <1>3, <2>1, <2>2 DEF Left, FirstCmd
  <2>4. Left \in Int
    BY <1>1, LeftFacts
  <2> QED
    BY <1>2, <2>1, <2>3, <2>4, DeadlineNearer
<1>6. CASE ClosesRank
  <2>1. /\ miscq # <<>> /\ quiet' = 0 /\ UNCHANGED <<actq, miscq>>
        /\ FirstCmd(Head(miscq)) = "PREA" /\ Head(miscq) \in Refresh
    BY <1>1, <1>6, TailFacts DEF ClosesRank, TypeOK
  <2>2. Head(miscq).op = "refresh" /\ Head(miscq') = Head(miscq)
    BY <2>1, RequestTypes
  <2>3. \A b \in Banks : RankOf[b] = Head(miscq).rank => open'[b] = NoRow
    BY <1>6 DEF ClosesRank
  <2>4. FirstCmd(Head(miscq))' = "REF"
    BY <2>2, <2>3 DEF FirstCmd
  <2>6. Left = Len(actq) + 2 * Len(miscq)
    BY ONLY <1>3, <2>1 DEF Left
  <2>7. Left' = Len(actq) + 2 * Len(miscq) - 1
    <3>1. miscq' # <<>> /\ FirstCmd(Head(miscq))' = "REF"
      BY <2>1, <2>4
    <3> QED
      BY ONLY <1>3, <2>1, <3>1 DEF Left
  <2>5. Left' = Left - 1 /\ Left \in Int
    BY <1>3, <2>6, <2>7
  <2> QED
    BY <1>2, <2>1, <2>5, DeadlineNearer
<1>7. CASE RefreshesRank
  <2>1. /\ miscq # <<>> /\ quiet' = 0 /\ actq' = actq /\ miscq' = Tail(miscq)
        /\ FirstCmd(Head(miscq)) = "REF"
    BY <1>7 DEF RefreshesRank
  <2>2. Len(miscq') = Len(miscq) - 1
    BY <1>1, <2>1, TailFacts DEF TypeOK
  <2>3. Left \in Int /\ Left' \in Int /\ Left' <= Left - 1
    BY <1>3, <2>1, <2>2 DEF Left
  <2> QED
    BY <1>2, <2>1, <2>3, DeadlineNearer
<1>8. CASE OpensForRead \/ OpensForWrite \/ ClosesBank \/ ReadOpen \/ WriteOpen
  <2>1. miscq' = <<>>
    BY <1>8 DEF OpensForRead, OpensForWrite, ClosesBank, ReadOpen, WriteOpen, Opens,
                FromRead, FromWrite
  <2> QED
    BY <2>1 DEF Deadline
<1> QED
  BY <1>4, <1>5, <1>6, <1>7, <1>8 DEF GivesCommand

(***************************************************************************)
(* Theorems                                                                *)
(***************************************************************************)
\* The controller starts with empty queues and closed banks.
LEMMA InitInv == Init => DramInv
<1> SUFFICES ASSUME Init PROVE DramInv
  OBVIOUS
<1>1. TypeOK
  <2>1. readq \in Seq(Read) /\ writeq \in Seq(Write)
    BY DEF Init
  <2>2. actq \in Seq(Read \cup Write) /\ miscq \in Seq(Refresh) /\ pendq \in Seq(Done)
    BY DEF Init
  <2>3. open \in [Banks -> {RowOf[line] : line \in Lines} \cup {NoRow}]
    BY DEF Init
  <2>4. wanted \in [ReadIds -> Lines \cup {NoLine}] /\ mem \in [Lines -> Values]
        /\ latest \in [Lines -> Values]
    BY DEF Init
  <2>5. quiet \in 0 .. MaxDelay /\ sinceRef \in 0 .. Refi
    BY DEF Init
  <2>6. phase \in {"idle", "answer", "refresh", "schedule"}
    BY DEF Init
  <2> QED
    BY <2>1, <2>2, <2>3, <2>4, <2>5, <2>6 DEF TypeOK
<1>2. QueuesBounded /\ ActivatedStaysOpen /\ Deadline
  BY DEF Init, QueuesBounded, ActivatedStaysOpen, Deadline
<1>3. ClockOK
  <2> DEFINE K == (2 * Ranks + 1) * MaxDelay
  <2>1. 2 * Ranks + 1 \in Nat /\ MaxDelay \in Nat /\ Refi \in Nat /\ Refi > K
    OBVIOUS
  <2>2. K \in Nat
    BY <2>1
  <2>3. 0 < Refi
    <3> HIDE DEF K
    <3> QED
      BY <2>1, <2>2
  <2> QED
    BY <2>3 DEF Init, ClockOK
<1> QED
  BY <1>1, <1>2, <1>3 DEF DramInv

\* Every step keeps the invariant.
LEMMA StepInv == DramInv /\ [Next]_vars => DramInv'
<1> SUFFICES ASSUME DramInv, [Next]_vars PROVE DramInv'
  OBVIOUS
<1>1. CASE \E line \in Lines, r \in ReadIds : IssueRead(line, r)
  BY <1>1, IssueReadKeeps
<1>2. CASE \E line \in Lines, v \in Values : IssueWrite(line, v)
  BY <1>2, IssueWriteKeeps
<1>3. CASE NextCycle
  BY <1>3, NextCycleKeeps
<1>4. CASE Answer
  BY <1>4, AnswerKeeps
<1>5. CASE QueueRefresh
  BY <1>5, QueueRefreshKeeps
<1>6. CASE Schedule
  <2>1. GivesCommand
    BY <1>6, ScheduleMoves
  <2>2. TypeOK' /\ QueuesBounded' /\ ActivatedStaysOpen' /\ ClockOK'
    BY <2>1, CommandTypes
  <2>3. Deadline'
    BY <2>1, <2>2, CommandDeadline
  <2> QED
    BY <2>2, <2>3 DEF DramInv
<1>7. CASE UNCHANGED vars
  <2>1. /\ UNCHANGED <<readq, writeq, actq, miscq, pendq, open, quiet, sinceRef, phase>>
        /\ UNCHANGED <<wanted, mem, latest>>
    BY <1>7 DEF vars, queues, history
  <2>2. TypeOK' /\ QueuesBounded' /\ ActivatedStaysOpen' /\ ClockOK'
    BY <2>1 DEF DramInv, TypeOK, QueuesBounded, ActivatedStaysOpen, ClockOK
  <2>3. Deadline'
    BY <2>1, DeadlineKept DEF DramInv
  <2> QED
    BY <2>2, <2>3 DEF DramInv
<1> QED
  BY <1>1, <1>2, <1>3, <1>4, <1>5, <1>6, <1>7 DEF Next, Tick

\* The invariant of the DRAM controller: types, bounds, the activated request,
\* and the commands that the refreshes still wait for.
THEOREM DramConsistent == Spec => []DramInv
<1>1. Init => DramInv
  BY InitInv
<1>2. DramInv /\ [Next]_vars => DramInv'
  BY StepInv
<1> QED
  BY <1>1, <1>2, PTL DEF Spec

\* Every variable has its type.
THEOREM TypeCorrect == Spec => []TypeOK
<1>1. DramInv => TypeOK
  BY DEF DramInv
<1> QED
  BY <1>1, DramConsistent, PTL

\* The row of the activated request stays open until its access.
THEOREM RowsStayOpen == Spec => []ActivatedStaysOpen
<1>1. DramInv => ActivatedStaysOpen
  BY DEF DramInv
<1> QED
  BY <1>1, DramConsistent, PTL

\* The refreshes of one interval are done when those of the next are queued:
\* the exception "Queue full" of issue_refresh is not reachable, for any
\* number of ranks and any timing table that DramAssumption allows.
THEOREM RefreshesDone == Spec => []RefreshInTime
<1>1. DramInv => RefreshInTime
  BY DeadlineMet
<1> QED
  BY <1>1, DramConsistent, PTL
=============================================================================
