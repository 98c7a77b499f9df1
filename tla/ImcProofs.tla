------------------------------ MODULE ImcProofs ------------------------------
(***************************************************************************)
(* Machine-checked proofs about Imc, for every number of memories below,   *)
(* every size of the queues and every ADR epoch: types, and the order in   *)
(* which requests are served when the driver stamps them.                  *)
(*                                                                         *)
(* First come first serve rests on the order of both queues: requests      *)
(* enter at the end with the latest clock, and the ranks that stand for    *)
(* clocks are made dense by a monotone function.                           *)
(***************************************************************************)
EXTENDS Imc, FiniteSetTheorems, FunctionTheorems, SequenceTheorems, WellFoundedInduction, TLAPS

USE ImcAssumption

(***************************************************************************)
(* The invariant                                                           *)
(***************************************************************************)
InOrder(q) == \A i \in DOMAIN q, j \in DOMAIN q : i <= j => q[i].born <= q[j].born

\* A queue in order of arrival, which is what a driver that stamps its requests
\* tells the controller.
Ordered(q) ==
  InOrder(q) /\ \A i \in DOMAIN q : q[i].born <= Now /\ (Stamped => q[i].arrive = q[i].born)

OrderOK == Ordered(rpq) /\ Ordered(wpq)

ImcInv == TypeOK /\ OrderOK

(***************************************************************************)
(* Sequences and numbers                                                   *)
(***************************************************************************)
\* What is in a queue after its head has left.
LEMMA TailFacts ==
  ASSUME NEW S, NEW q \in Seq(S), q # <<>>
  PROVE  /\ Head(q) \in S /\ Head(q) = q[1] /\ 1 \in DOMAIN q
         /\ Tail(q) \in Seq(S) /\ Len(Tail(q)) = Len(q) - 1 /\ Len(q) \in Nat \ {0}
         /\ DOMAIN q = 1 .. Len(q) /\ DOMAIN Tail(q) = 1 .. Len(q) - 1
         /\ \A i \in 1 .. Len(q) - 1 : Tail(q)[i] = q[i + 1] /\ i + 1 \in 1 .. Len(q)
  OBVIOUS

\* What is in a queue after a request was appended.
LEMMA AppendFacts ==
  ASSUME NEW S, NEW q \in Seq(S), NEW x \in S
  PROVE  /\ Append(q, x) \in Seq(S) /\ Len(Append(q, x)) = Len(q) + 1 /\ Len(q) \in Nat
         /\ DOMAIN q = 1 .. Len(q) /\ DOMAIN Append(q, x) = 1 .. Len(q) + 1
         /\ Append(q, x)[Len(q) + 1] = x
         /\ \A i \in 1 .. Len(q) : Append(q, x)[i] = q[i]
         /\ \A i \in 1 .. Len(q) + 1 : i \in 1 .. Len(q) \/ i = Len(q) + 1
  OBVIOUS

\* What is in a queue after its first n requests have left.
LEMMA DropFacts ==
  ASSUME NEW S, NEW q \in Seq(S), NEW n \in 0 .. Len(q)
  PROVE  /\ SubSeq(q, n + 1, Len(q)) \in Seq(S) /\ Len(SubSeq(q, n + 1, Len(q))) = Len(q) - n
         /\ DOMAIN SubSeq(q, n + 1, Len(q)) = 1 .. Len(q) - n
         /\ \A i \in 1 .. Len(q) - n :
              SubSeq(q, n + 1, Len(q))[i] = q[n + i] /\ n + i \in 1 .. Len(q)
         /\ Len(q) \in Nat /\ DOMAIN q = 1 .. Len(q)
<1>1. Len(q) \in Nat /\ DOMAIN q = 1 .. Len(q) /\ n \in Nat /\ n <= Len(q)
  OBVIOUS
<1> DEFINE s == SubSeq(q, n + 1, Len(q))
<1>10. n + 1 \in Int /\ Len(q) \in Int
  BY <1>1
<1>2. PICK m \in Int, k \in Int : m = n + 1 /\ k = Len(q)
  BY <1>10, Zenon
<1>8. \A i \in m .. k : q[i] \in S
  BY <1>1, <1>2
<1>9. /\ SubSeq(q, m, k) \in Seq(S)
      /\ Len(SubSeq(q, m, k)) = IF m <= k THEN k - m + 1 ELSE 0
      /\ \A i \in 1 .. k - m + 1 : SubSeq(q, m, k)[i] = q[m + i - 1]
  BY <1>8, SubSeqProperties
<1>3. s \in Seq(S) /\ Len(s) = IF n + 1 <= Len(q) THEN Len(q) - (n + 1) + 1 ELSE 0
  BY <1>2, <1>9
<1> HIDE DEF s
<1>4. Len(s) = Len(q) - n
  <2>1. CASE n + 1 <= Len(q)
    <3>1. Len(s) = Len(q) - (n + 1) + 1
      BY <1>3, <2>1
    <3>2. Len(q) - (n + 1) + 1 = Len(q) - n
      BY <1>1
    <3> QED
      BY <3>1, <3>2
  <2>2. CASE n = Len(q)
    <3>1. ~(n + 1 <= Len(q)) /\ Len(q) - n = 0
      BY <1>1, <2>2
    <3> QED
      BY <1>3, <3>1
  <2>3. \A x \in Nat, y \in Nat : x <= y => x + 1 <= y \/ x = y
    OBVIOUS
  <2>4. n \in Nat /\ Len(q) \in Nat /\ n <= Len(q)
    BY <1>1
  <2> QED
    BY ONLY <2>1, <2>2, <2>3, <2>4
<1>5. DOMAIN s = 1 .. Len(q) - n
  BY <1>3, <1>4
<1>6. \A i \in 1 .. Len(q) - n : s[i] = q[(n + 1) + i - 1]
  <2>1. k - m + 1 = Len(q) - n
    BY <1>1, <1>2
  <2> QED
    BY <1>2, <1>9, <2>1 DEF s
<1>7. \A i \in 1 .. Len(q) - n : s[i] = q[n + i] /\ n + i \in 1 .. Len(q)
  <2> TAKE i \in 1 .. Len(q) - n
  <2>1. (n + 1) + i - 1 = n + i /\ n + i \in 1 .. Len(q)
    BY <1>1
  <2> QED
    BY <1>6, <2>1
<1> QED
  BY <1>1, <1>3, <1>4, <1>5, <1>7 DEF s

\* A function on the first n numbers is a sequence.
LEMMA FunctionFacts ==
  ASSUME NEW S, NEW n \in Nat, NEW f \in [1 .. n -> S]
  PROVE  f \in Seq(S) /\ Len(f) = n
<1>1. f \in Seq(S)
  BY SeqDef
<1>2. DOMAIN f = 1 .. Len(f) /\ Len(f) \in Nat /\ DOMAIN f = 1 .. n
  BY <1>1
<1>3. Len(f) <= n /\ n <= Len(f)
  BY <1>2
<1> QED
  BY <1>1, <1>2, <1>3

\* A nonempty set of naturals has a least element.
LEMMA LeastNatural ==
  ASSUME NEW S \in SUBSET Nat, S # {}
  PROVE  \E m \in S : \A n \in S : m <= n
<1> DEFINE R == {ss \in Nat \X Nat : ss[1] < ss[2]}
<1>1. OpToRel(<, Nat) = R
  BY DEF OpToRel
<1>2. IsWellFoundedOn(R, Nat)
  BY <1>1, NatLessThanWellFounded
<1>3. PICK m \in S : \A n \in S : ~(<<n, m>> \in R)
  BY <1>2, WFMin
<1>4. \A n \in S : n < m => <<n, m>> \in R
  BY <1>3
<1> HIDE DEF R
<1>5. \A n \in S : ~(n < m)
  BY <1>3, <1>4, Zenon
<1>6. \A n \in S : m <= n
  BY <1>3, <1>5
<1> QED
  BY <1>6

\* A set of indices of a queue has a last one.
LEMMA LastIndex ==
  ASSUME NEW n \in Nat, NEW H \in SUBSET (1 .. n), H # {}
  PROVE  \E i \in H : \A j \in H : j <= i
<1> DEFINE S == {n - i : i \in H}
<1>6. \A i \in H : i \in Int /\ n - i \in Nat
  OBVIOUS
<1>1. S \in SUBSET Nat /\ S # {}
  BY <1>6
<1>2. PICK m \in S : \A k \in S : m <= k
  BY <1>1, LeastNatural
<1>3. PICK i \in H : m = n - i
  BY <1>2
<1>4. \A j \in H : n - i <= n - j
  BY <1>2, <1>3
<1>5. \A j \in H : j <= i
  BY <1>4
<1> QED
  BY <1>5

\* The mapping of a page.
LEMMA MapTypes ==
  ASSUME NEW page \in Nat
  PROVE  MapPage(page) \in Nat /\ MapComponent(page) \in Below
  BY DEF MapPage, MapComponent, Below

\* The ADR counter.
LEMMA ClockType ==
  ASSUME NEW n \in Nat, AdrEpoch # 0
  PROVE  (n + 1) % AdrEpoch \in Nat
  OBVIOUS

(***************************************************************************)
(* Ranks                                                                   *)
(***************************************************************************)
\* Requests have their fields.
LEMMA RequestTypes ==
  ASSUME NEW req \in Request
  PROVE  /\ req.id \in Ids /\ req.page \in Nat /\ req.orig \in Pages
         /\ req.arrive \in Nat /\ req.born \in Nat
  BY DEF Request

\* A new request has its type.
LEMMA NewRequestType ==
  ASSUME NEW i \in Ids, NEW page \in Pages
  PROVE  /\ NewRequest(i, page) \in Request
         /\ NewRequest(i, page).born = Now /\ Now \in Nat
         /\ (Stamped => NewRequest(i, page).arrive = Now)
<1>1. Now \in Nat /\ page \in Nat
  BY DEF Now
<1> HIDE DEF Now
<1> QED
  BY <1>1 DEF NewRequest, Request

\* There are no more birth clocks than queued requests.
LEMMA BornFinite ==
  ASSUME TypeOK
  PROVE  LET B == {req.born : req \in Waiting}
         IN  IsFiniteSet(B) /\ Cardinality(B) \in Nat /\ Cardinality(B) <= Now
<1> DEFINE B == {req.born : req \in Waiting}
           R == Len(rpq)
           N == Len(rpq) + Len(wpq)
           f == [k \in 1 .. N |-> IF k <= R THEN rpq[k].born ELSE wpq[k - R].born]
<1>1. /\ rpq \in Seq(Request) /\ wpq \in Seq(Request)
      /\ DOMAIN rpq = 1 .. Len(rpq) /\ DOMAIN wpq = 1 .. Len(wpq)
      /\ Len(rpq) \in Nat /\ Len(wpq) \in Nat /\ N \in Nat
      /\ Len(rpq) <= RpqEntries /\ Len(wpq) <= WpqEntries
  BY DEF TypeOK
<1>2. N <= Now
  BY <1>1 DEF Now
<1>3. \A k \in 1 .. N : f[k] \in B
  <2> TAKE k \in 1 .. N
  <2>1. CASE k <= R
    <3>1. k \in DOMAIN rpq
      BY <1>1, <2>1
    <3> QED
      BY <2>1, <3>1 DEF Waiting, Queued
  <2>2. CASE ~(k <= R)
    <3>1. k - R \in DOMAIN wpq
      BY <1>1, <2>2
    <3> QED
      BY <2>2, <3>1 DEF Waiting, Queued
  <2> QED
    BY <2>1, <2>2
<1>4. \A b \in B : \E k \in 1 .. N : f[k] = b
  <2> TAKE b \in B
  <2>1. CASE \E i \in DOMAIN rpq : rpq[i].born = b
    <3>1. PICK i \in DOMAIN rpq : rpq[i].born = b
      BY <2>1
    <3>2. i \in 1 .. N /\ i <= R
      BY <1>1
    <3> QED
      BY <3>1, <3>2
  <2>2. CASE \E i \in DOMAIN wpq : wpq[i].born = b
    <3>1. PICK i \in DOMAIN wpq : wpq[i].born = b
      BY <2>2
    <3>2. i + R \in 1 .. N /\ ~(i + R <= R) /\ (i + R) - R = i
      BY <1>1
    <3> QED
      BY <3>1, <3>2
  <2> QED
    BY <2>1, <2>2 DEF Waiting, Queued
<1>5. f \in Surjection(1 .. N, B)
  <2>1. f \in [1 .. N -> B]
    BY <1>3
  <2> HIDE DEF f, B, N
  <2> QED
    BY <1>4, <2>1 DEF Surjection
<1> HIDE DEF f, B
<1>6. IsFiniteSet(1 .. N) /\ Cardinality(1 .. N) = N
  BY <1>1, FS_Interval
<1>7. IsFiniteSet(B) /\ Cardinality(B) <= N
  BY <1>5, <1>6, FS_Surjection
<1>8. Cardinality(B) \in Nat
  BY <1>7, FS_CardinalityType
<1>9. Cardinality(B) <= Now
  BY <1>1, <1>2, <1>7, <1>8 DEF Now
<1> QED
  BY <1>7, <1>8, <1>9 DEF B

\* Ranks are numbers up to Now, and follow the order of the clocks.
LEMMA RankFacts ==
  ASSUME TypeOK
  PROVE  /\ \A b \in Nat : RankOf(b) \in Nat /\ RankOf(b) <= Now
         /\ \A b \in Nat, c \in Nat : b <= c => RankOf(b) <= RankOf(c)
<1> DEFINE B == {req.born : req \in Waiting}
           E(b) == {req.born : req \in {x \in Waiting : x.born < b}}
<1>1. IsFiniteSet(B) /\ Cardinality(B) \in Nat /\ Cardinality(B) <= Now
  BY BornFinite
<1>2. \A req \in Waiting : req.born \in Nat
  BY RequestTypes DEF TypeOK, Waiting, Queued
<1>3. \A b : E(b) \in SUBSET B
  OBVIOUS
<1>4. \A b \in Nat, c \in Nat : b <= c => E(b) \in SUBSET E(c)
  BY <1>2
<1>5. \A b : RankOf(b) = Cardinality(E(b))
  BY DEF RankOf
<1> HIDE DEF B, E
<1>6. \A b : /\ IsFiniteSet(E(b)) /\ Cardinality(E(b)) \in Nat
             /\ Cardinality(E(b)) <= Cardinality(B)
  BY <1>1, <1>3, FS_Subset, FS_CardinalityType
<1>7. \A b \in Nat, c \in Nat : b <= c => Cardinality(E(b)) <= Cardinality(E(c))
  BY <1>4, <1>6, FS_Subset
<1>8. Now \in Nat
  BY DEF Now
<1> HIDE DEF Now
<1>9. \A b : Cardinality(E(b)) <= Now
  BY <1>1, <1>6, <1>8
<1> QED
  BY <1>5, <1>6, <1>7, <1>9

(***************************************************************************)
(* Types                                                                   *)
(***************************************************************************)
\* What is sent down has its type.
LEMMA SendType ==
  ASSUME NEW op \in {"read", "write"}, NEW req \in Request, NEW page \in Nat
  PROVE  /\ Send(op, req, page) \in Delivery /\ Send(op, req, page).op = op
         /\ Send(op, req, page).page = page /\ Send(op, req, page).born = req.born
<1>1. req.orig \in Pages /\ req.born \in Nat /\ MapComponent(req.page) \in Below
  BY RequestTypes, MapTypes
<1> HIDE DEF MapComponent
<1> QED
  BY <1>1 DEF Send, Delivery

\* flush_wpq sends the first writes, for which the memories below have room.
LEMMA FlushMoves ==
  ASSUME TypeOK, FlushWpq
  PROVE  \E n \in 0 .. Len(wpq) :
           /\ \A i \in 1 .. n : CanFlush(i)
           /\ wpq' = SubSeq(wpq, n + 1, Len(wpq))
           /\ free' \in [Below -> 0 .. NextEntries]
           /\ out' = [i \in 1 .. n |-> Send("write", wpq[i], wpq[i].page)]
           /\ out' \in Seq(Delivery) /\ Len(out') = n
<1>1. PICK n \in 0 .. Len(wpq) :
        /\ \A i \in 1 .. n : CanFlush(i)
        /\ wpq' = SubSeq(wpq, n + 1, Len(wpq))
        /\ free' = [c \in Below |->
                      free[c] - Cardinality({i \in 1 .. n : MapComponent(wpq[i].page) = c})]
        /\ out' = [i \in 1 .. n |-> Send("write", wpq[i], wpq[i].page)]
  BY DEF FlushWpq
<1>2. /\ wpq \in Seq(Request) /\ Len(wpq) \in Nat /\ DOMAIN wpq = 1 .. Len(wpq)
      /\ free \in [Below -> 0 .. NextEntries] /\ n \in Nat /\ n <= Len(wpq)
  BY <1>1 DEF TypeOK
<1>3. \A i \in 1 .. n : wpq[i] \in Request
  BY <1>2
<1>4. out' \in [1 .. n -> Delivery]
  <2>1. \A i \in 1 .. n : Send("write", wpq[i], wpq[i].page) \in Delivery
    BY <1>3, RequestTypes, SendType
  <2> HIDE DEF Send, Delivery
  <2> QED
    BY <1>1, <2>1
<1>5. out' \in Seq(Delivery) /\ Len(out') = n
  BY <1>2, <1>4, FunctionFacts
<1>6. ASSUME NEW c \in Below
      PROVE  free[c] - Cardinality({i \in 1 .. n : MapComponent(wpq[i].page) = c})
               \in 0 .. NextEntries
  <2> DEFINE H == {i \in 1 .. n : MapComponent(wpq[i].page) = c}
  <2>1. H \in SUBSET (1 .. n) /\ IsFiniteSet(1 .. n)
    BY <1>2, FS_Interval
  <2>2. IsFiniteSet(H) /\ Cardinality(H) \in Nat
    BY <2>1, FS_Subset, FS_CardinalityType
  <2>3. free[c] \in 0 .. NextEntries
    BY <1>2
  <2>4. CASE H = {}
    <3>1. Cardinality(H) = 0
      BY <2>4, FS_EmptySet
    <3> QED
      BY <2>2, <2>3, <3>1
  <2>5. CASE H # {}
    <3> HIDE DEF H
    <3>1. PICK i \in H : \A j \in H : j <= i
      BY <1>2, <2>1, <2>5, LastIndex
    <3>2. i \in 1 .. n /\ MapComponent(wpq[i].page) = c
      BY <3>1 DEF H
    <3>3. Cardinality({j \in 1 .. i : MapComponent(wpq[j].page) = c}) <= free[c]
      BY <1>1, <3>2 DEF CanFlush
    <3>4. {j \in 1 .. i : MapComponent(wpq[j].page) = c} = H
      <4>1. \A j \in 1 .. n : MapComponent(wpq[j].page) = c => j \in 1 .. i
        BY <1>2, <3>1, <3>2 DEF H
      <4>2. 1 .. i \subseteq 1 .. n
        BY <1>2, <3>2
      <4> QED
        BY <4>1, <4>2 DEF H
    <3>5. Cardinality(H) <= free[c]
      BY <3>3, <3>4
    <3> QED
      BY <2>2, <2>3, <3>5 DEF H
  <2> QED
    BY <2>4, <2>5
<1>7. free' \in [Below -> 0 .. NextEntries]
  BY <1>1, <1>6
<1> QED
  BY <1>1, <1>5, <1>7

\* Making ranks dense keeps the requests and their order.
LEMMA AgedFacts ==
  ASSUME TypeOK, NEW q \in Seq(Request)
  PROVE  /\ Aged(q) \in Seq(Request) /\ Len(Aged(q)) = Len(q)
         /\ DOMAIN Aged(q) = DOMAIN q
         /\ \A i \in DOMAIN q :
              /\ Aged(q)[i].id = q[i].id /\ Aged(q)[i].page = q[i].page
              /\ Aged(q)[i].orig = q[i].orig
              /\ Aged(q)[i].born = RankOf(q[i].born)
              /\ Stamped => Aged(q)[i].arrive = RankOf(q[i].born)
<1>1. \A b \in Nat : RankOf(b) \in Nat
  BY RankFacts
<1>2. DOMAIN q = 1 .. Len(q) /\ Len(q) \in Nat /\ \A i \in DOMAIN q : q[i] \in Request
  OBVIOUS
<1>3. ASSUME NEW i \in DOMAIN q
      PROVE  /\ Aged(q)[i] \in Request
             /\ Aged(q)[i].id = q[i].id /\ Aged(q)[i].page = q[i].page
             /\ Aged(q)[i].orig = q[i].orig
             /\ Aged(q)[i].born = RankOf(q[i].born)
             /\ Stamped => Aged(q)[i].arrive = RankOf(q[i].born)
  <2>1. q[i] \in Request /\ RankOf(q[i].born) \in Nat
    BY <1>1, <1>2, RequestTypes
  <2>2. Aged(q)[i] = [q[i] EXCEPT !.born = RankOf(@),
                                  !.arrive = IF Stamped THEN RankOf(q[i].born) ELSE 0]
    BY DEF Aged
  <2>3. PICK k \in Nat, a \in Nat : /\ k = RankOf(q[i].born)
                                    /\ a = IF Stamped THEN RankOf(q[i].born) ELSE 0
    BY <2>1
  <2>4. Aged(q)[i] = [q[i] EXCEPT !.born = k, !.arrive = a]
    BY <2>1, <2>2, <2>3 DEF Request
  <2>5. /\ Aged(q)[i] \in Request
        /\ Aged(q)[i].id = q[i].id /\ Aged(q)[i].page = q[i].page
        /\ Aged(q)[i].orig = q[i].orig /\ Aged(q)[i].born = k /\ Aged(q)[i].arrive = a
    BY <2>1, <2>4 DEF Request
  <2> QED
    BY <2>3, <2>5
<1>4. DOMAIN Aged(q) = DOMAIN q
  BY DEF Aged
<1>5. Aged(q) \in [1 .. Len(q) -> Request]
  BY <1>2, <1>3 DEF Aged
<1>6. Aged(q) \in Seq(Request) /\ Len(Aged(q)) = Len(q)
  BY <1>2, <1>5, FunctionFacts
<1> QED
  BY <1>3, <1>4, <1>6

\* Every step keeps the types.
LEMMA TypeStep == TypeOK /\ [Next]_vars => TypeOK'
<1> SUFFICES ASSUME TypeOK, [Next]_vars PROVE TypeOK'
  OBVIOUS
<1>1. /\ rpq \in Seq(Request) /\ Len(rpq) <= RpqEntries /\ Len(rpq) \in Nat
      /\ wpq \in Seq(Request) /\ Len(wpq) <= WpqEntries /\ Len(wpq) \in Nat
      /\ free \in [Below -> 0 .. NextEntries] /\ clk \in Nat
      /\ phase \in {"tick", "adr", "idle"} /\ out \in Seq(Delivery) /\ <<>> \in Seq(Delivery)
  BY DEF TypeOK
<1>2. ASSUME NEW i \in Ids, NEW page \in Pages, IssueRead(i, page) \/ IssueWrite(i, page)
      PROVE  TypeOK'
  <2>1. NewRequest(i, page) \in Request
    BY NewRequestType
  <2>2. CASE IssueRead(i, page)
    <3>1. /\ rpq' = Append(rpq, NewRequest(i, page)) /\ out' = <<>> /\ Len(rpq) < RpqEntries
          /\ UNCHANGED <<wpq, free, clk, phase>>
      BY <2>2 DEF IssueRead
    <3>2. rpq' \in Seq(Request) /\ Len(rpq') = Len(rpq) + 1
      BY <1>1, <2>1, <3>1, AppendFacts
    <3> QED
      BY <1>1, <3>1, <3>2 DEF TypeOK
  <2>3. CASE IssueWrite(i, page)
    <3>1. /\ wpq' = Append(wpq, NewRequest(i, page)) /\ out' = <<>> /\ Len(wpq) < WpqEntries
          /\ UNCHANGED <<rpq, free, clk, phase>>
      BY <2>3 DEF IssueWrite
    <3>2. wpq' \in Seq(Request) /\ Len(wpq') = Len(wpq) + 1
      BY <1>1, <2>1, <3>1, AppendFacts
    <3> QED
      BY <1>1, <3>1, <3>2 DEF TypeOK
  <2> QED
    BY <1>2, <2>2, <2>3
<1>3. ASSUME NEW c \in Below, NextTakes(c) PROVE TypeOK'
  <2>1. /\ free[c] < NextEntries /\ free' = [free EXCEPT ![c] = free[c] + 1]
        /\ out' = <<>> /\ UNCHANGED <<rpq, wpq, clk, phase>>
    BY <1>3 DEF NextTakes
  <2>2. free' \in [Below -> 0 .. NextEntries]
    BY <1>1, <2>1
  <2> QED
    BY <1>1, <2>1, <2>2 DEF TypeOK
<1>4. CASE NextCycle
  <2>1. /\ phase' = "tick" /\ rpq' = Aged(rpq) /\ wpq' = Aged(wpq) /\ out' = <<>>
        /\ UNCHANGED <<free, clk>>
    BY <1>4 DEF NextCycle
  <2>2. /\ rpq' \in Seq(Request) /\ Len(rpq') = Len(rpq)
        /\ wpq' \in Seq(Request) /\ Len(wpq') = Len(wpq)
    BY <1>1, <2>1, AgedFacts
  <2> QED
    BY <1>1, <2>1, <2>2 DEF TypeOK
<1>5. CASE TickRead
  <2> DEFINE req == Head(rpq)
             to == MapComponent(req.page)
             mapped == MapPage(req.page)
  <2>1. /\ rpq # <<>> /\ phase' = "adr" /\ UNCHANGED <<wpq, clk>>
        /\ \/ /\ free[to] > 0 /\ rpq' = Tail(rpq)
              /\ free' = [free EXCEPT ![to] = free[to] - 1]
              /\ out' = <<Send("read", req, mapped)>>
           \/ rpq' = [rpq EXCEPT ![1].page = mapped] /\ out' = <<>> /\ UNCHANGED free
    BY <1>5 DEF TickRead, ReadChosen
  <2>2. /\ req \in Request /\ req = rpq[1] /\ 1 \in DOMAIN rpq /\ DOMAIN rpq = 1 .. Len(rpq)
        /\ Tail(rpq) \in Seq(Request) /\ Len(Tail(rpq)) = Len(rpq) - 1
    BY <1>1, <2>1, TailFacts
  <2>3. to \in Below /\ mapped \in Nat
    BY <2>2, RequestTypes, MapTypes
  <2>4. Send("read", req, mapped) \in Delivery
    BY <2>2, <2>3, SendType
  <2> HIDE DEF req, to, mapped
  <2>5. CASE /\ free[to] > 0 /\ rpq' = Tail(rpq)
             /\ free' = [free EXCEPT ![to] = free[to] - 1]
             /\ out' = <<Send("read", req, mapped)>>
    <3>1. free' \in [Below -> 0 .. NextEntries]
      BY <1>1, <2>3, <2>5
    <3>2. out' \in Seq(Delivery)
      BY <2>4, <2>5
    <3>3. rpq' \in Seq(Request) /\ Len(rpq') <= RpqEntries
      BY <1>1, <2>2, <2>5
    <3> QED
      BY <1>1, <2>1, <3>1, <3>2, <3>3 DEF TypeOK
  <2>6. CASE rpq' = [rpq EXCEPT ![1].page = mapped] /\ out' = <<>> /\ UNCHANGED free
    <3>1. [rpq[1] EXCEPT !.page = mapped] \in Request
      BY <2>2, <2>3 DEF Request
    <3>2. rpq' \in [1 .. Len(rpq) -> Request]
      BY <1>1, <2>2, <2>6, <3>1
    <3>3. rpq' \in Seq(Request) /\ Len(rpq') = Len(rpq)
      BY <1>1, <3>2, FunctionFacts
    <3> QED
      BY <1>1, <2>1, <2>6, <3>3 DEF TypeOK
  <2> QED
    BY <2>1, <2>5, <2>6
<1>6. ASSUME FlushWpq
      PROVE  /\ wpq' \in Seq(Request) /\ Len(wpq') <= WpqEntries
             /\ free' \in [Below -> 0 .. NextEntries] /\ out' \in Seq(Delivery)
  <2>1. PICK n \in 0 .. Len(wpq) :
          /\ wpq' = SubSeq(wpq, n + 1, Len(wpq))
          /\ free' \in [Below -> 0 .. NextEntries] /\ out' \in Seq(Delivery)
    BY <1>6, FlushMoves
  <2>2. wpq' \in Seq(Request) /\ Len(wpq') = Len(wpq) - n
    BY <1>1, <2>1, DropFacts
  <2>3. Len(wpq') <= WpqEntries
    BY <1>1, <2>1, <2>2
  <2> QED
    BY <2>1, <2>2, <2>3
<1>7. CASE TickWrite
  <2>1. /\ phase' = "adr" /\ UNCHANGED <<rpq, clk>>
        /\ FlushWpq \/ (out' = <<>> /\ UNCHANGED <<wpq, free>>)
    BY <1>7 DEF TickWrite
  <2>2. CASE FlushWpq
    BY <1>1, <1>6, <2>1, <2>2 DEF TypeOK
  <2>3. CASE out' = <<>> /\ UNCHANGED <<wpq, free>>
    BY <1>1, <2>1, <2>3 DEF TypeOK
  <2> QED
    BY <2>1, <2>2, <2>3
<1>8. CASE TickNone
  BY <1>1, <1>8 DEF TypeOK, TickNone
<1>9. CASE Adr
  <2>1. /\ phase' = "idle" /\ UNCHANGED rpq
        /\ clk' = (IF AdrEpoch = 0 THEN 0 ELSE (clk + 1) % AdrEpoch)
        /\ FlushWpq \/ (out' = <<>> /\ UNCHANGED <<wpq, free>>)
    BY <1>9 DEF Adr
  <2>2. clk' \in Nat
    BY <1>1, <2>1, ClockType
  <2>3. CASE FlushWpq
    BY <1>1, <1>6, <2>1, <2>2, <2>3 DEF TypeOK
  <2>4. CASE out' = <<>> /\ UNCHANGED <<wpq, free>>
    BY <1>1, <2>1, <2>2, <2>4 DEF TypeOK
  <2> QED
    BY <2>1, <2>3, <2>4
<1>10. CASE UNCHANGED vars
  BY <1>1, <1>10 DEF TypeOK, vars
<1> QED
  BY <1>2, <1>3, <1>4, <1>5, <1>7, <1>8, <1>9, <1>10 DEF Next, Tick

(***************************************************************************)
(* The order of the queues                                                 *)
(***************************************************************************)
\* A queue stays in order when the newest request enters.
LEMMA OrderedAppend ==
  ASSUME NEW q \in Seq(Request), Ordered(q), NEW i \in Ids, NEW page \in Pages
  PROVE  Ordered(Append(q, NewRequest(i, page)))
<1> DEFINE x == NewRequest(i, page)
           p == Append(q, x)
<1>1. x \in Request /\ x.born = Now /\ Now \in Nat /\ (Stamped => x.arrive = Now)
  BY NewRequestType
<1>2. /\ DOMAIN q = 1 .. Len(q) /\ DOMAIN p = 1 .. Len(q) + 1 /\ Len(q) \in Nat
      /\ p[Len(q) + 1] = x /\ \A k \in 1 .. Len(q) : p[k] = q[k]
      /\ \A k \in 1 .. Len(q) + 1 : k \in 1 .. Len(q) \/ k = Len(q) + 1
  BY <1>1, AppendFacts
<1>3. /\ \A k \in 1 .. Len(q), l \in 1 .. Len(q) : k <= l => q[k].born <= q[l].born
      /\ \A k \in 1 .. Len(q) : q[k].born <= Now /\ (Stamped => q[k].arrive = q[k].born)
  BY <1>2 DEF Ordered, InOrder
<1> HIDE DEF x, p, Now
<1>4. \A k \in 1 .. Len(q) + 1 : p[k].born <= Now /\ (Stamped => p[k].arrive = p[k].born)
  BY <1>1, <1>2, <1>3
<1>5. ASSUME NEW k \in 1 .. Len(q) + 1, NEW l \in 1 .. Len(q) + 1, k <= l
      PROVE  p[k].born <= p[l].born
  <2>1. CASE l = Len(q) + 1
    BY <1>1, <1>2, <1>4, <2>1
  <2>2. CASE l \in 1 .. Len(q)
    <3>1. k \in 1 .. Len(q)
      BY <1>2, <1>5, <2>2
    <3> QED
      BY <1>2, <1>3, <1>5, <2>2, <3>1
  <2> QED
    BY <1>2, <2>1, <2>2
<1>6. InOrder(p)
  BY <1>2, <1>5 DEF InOrder
<1>7. Ordered(p)
  BY <1>2, <1>4, <1>6 DEF Ordered
<1> QED
  BY <1>7 DEF p, x

\* A queue stays in order when its first requests leave.
LEMMA OrderedDrop ==
  ASSUME NEW q \in Seq(Request), Ordered(q), NEW n \in 0 .. Len(q), NEW p,
         DOMAIN p = 1 .. Len(q) - n,
         \A i \in 1 .. Len(q) - n : p[i] = q[n + i] /\ n + i \in 1 .. Len(q)
  PROVE  Ordered(p)
<1>1. DOMAIN q = 1 .. Len(q) /\ Len(q) \in Nat /\ n \in Nat
  OBVIOUS
<1>2. /\ \A k \in 1 .. Len(q), l \in 1 .. Len(q) : k <= l => q[k].born <= q[l].born
      /\ \A k \in 1 .. Len(q) : q[k].born <= Now /\ (Stamped => q[k].arrive = q[k].born)
  BY <1>1 DEF Ordered, InOrder
<1>3. \A k \in DOMAIN p : p[k].born <= Now /\ (Stamped => p[k].arrive = p[k].born)
  BY <1>2
<1>4. ASSUME NEW k \in DOMAIN p, NEW l \in DOMAIN p, k <= l
      PROVE  p[k].born <= p[l].born
  <2>1. n + k \in 1 .. Len(q) /\ n + l \in 1 .. Len(q) /\ p[k] = q[n + k] /\ p[l] = q[n + l]
    OBVIOUS
  <2>2. n + k <= n + l
    BY <1>1, <1>4
  <2> QED
    BY <1>2, <2>1, <2>2
<1> QED
  BY <1>3, <1>4 DEF Ordered, InOrder

\* A queue stays in order when clocks are ranked again.
LEMMA OrderedAged ==
  ASSUME TypeOK, NEW q \in Seq(Request), Ordered(q)
  PROVE  Ordered(Aged(q))
<1>1. /\ DOMAIN Aged(q) = DOMAIN q
      /\ \A i \in DOMAIN q : /\ Aged(q)[i].born = RankOf(q[i].born)
                             /\ Stamped => Aged(q)[i].arrive = RankOf(q[i].born)
  BY AgedFacts
<1>2. /\ \A b \in Nat : RankOf(b) \in Nat /\ RankOf(b) <= Now
      /\ \A b \in Nat, c \in Nat : b <= c => RankOf(b) <= RankOf(c)
  BY RankFacts
<1>3. \A i \in DOMAIN q : q[i].born \in Nat
  BY RequestTypes
<1>4. \A i \in DOMAIN q, j \in DOMAIN q : i <= j => q[i].born <= q[j].born
  BY DEF Ordered, InOrder
<1>5. InOrder(Aged(q))
  BY <1>1, <1>2, <1>3, <1>4 DEF InOrder
<1> QED
  BY <1>1, <1>2, <1>3, <1>5 DEF Ordered

\* A queue stays in order when a page is mapped.
LEMMA OrderedMapped ==
  ASSUME NEW q \in Seq(Request), Ordered(q), q # <<>>, NEW page \in Nat
  PROVE  Ordered([q EXCEPT ![1].page = page])
<1> DEFINE p == [q EXCEPT ![1].page = page]
<1>1. DOMAIN p = DOMAIN q
  OBVIOUS
<1>2. \A i \in DOMAIN q : p[i].born = q[i].born /\ p[i].arrive = q[i].arrive
  <2> TAKE i \in DOMAIN q
  <2>1. q[i] \in Request
    OBVIOUS
  <2>2. CASE i = 1
    <3>1. p[i] = [q[i] EXCEPT !.page = page]
      BY <2>2
    <3> QED
      BY <2>1, <3>1 DEF Request
  <2>3. CASE i # 1
    BY <2>3
  <2> QED
    BY <2>2, <2>3
<1> HIDE DEF p
<1>3. Ordered(p)
  BY <1>1, <1>2 DEF Ordered, InOrder
<1> QED
  BY <1>3 DEF p

\* Every step keeps both queues in order.
LEMMA OrderStep == ImcInv /\ [Next]_vars => OrderOK'
<1> SUFFICES ASSUME ImcInv, [Next]_vars PROVE OrderOK'
  OBVIOUS
<1>1. /\ TypeOK /\ rpq \in Seq(Request) /\ wpq \in Seq(Request)
      /\ Ordered(rpq) /\ Ordered(wpq)
  BY DEF ImcInv, TypeOK, OrderOK
<1> SUFFICES Ordered(rpq') /\ Ordered(wpq')
  BY DEF OrderOK, Ordered, InOrder, Now
<1>2. ASSUME NEW i \in Ids, NEW page \in Pages, IssueRead(i, page) \/ IssueWrite(i, page)
      PROVE  Ordered(rpq') /\ Ordered(wpq')
  <2>1. \/ rpq' = Append(rpq, NewRequest(i, page)) /\ wpq' = wpq
        \/ rpq' = rpq /\ wpq' = Append(wpq, NewRequest(i, page))
    BY <1>2 DEF IssueRead, IssueWrite
  <2> QED
    BY <1>1, <2>1, OrderedAppend
<1>3. CASE NextCycle
  BY <1>1, <1>3, OrderedAged DEF NextCycle
<1>4. CASE TickRead
  <2> DEFINE mapped == MapPage(Head(rpq).page)
  <2>1. /\ rpq # <<>> /\ wpq' = wpq
        /\ rpq' = Tail(rpq) \/ rpq' = [rpq EXCEPT ![1].page = mapped]
    BY <1>4 DEF TickRead, ReadChosen
  <2>2. /\ DOMAIN Tail(rpq) = 1 .. Len(rpq) - 1 /\ Len(rpq) \in Nat \ {0}
        /\ \A i \in 1 .. Len(rpq) - 1 : Tail(rpq)[i] = rpq[i + 1] /\ i + 1 \in 1 .. Len(rpq)
        /\ Head(rpq) \in Request
    BY <1>1, <2>1, TailFacts
  <2>3. \A i \in 1 .. Len(rpq) - 1 : Tail(rpq)[i] = rpq[1 + i] /\ 1 + i \in 1 .. Len(rpq)
    BY <2>2
  <2>4. Ordered(Tail(rpq))
    <3>1. 1 \in 0 .. Len(rpq)
      BY <2>2
    <3> QED
      BY <1>1, <2>2, <2>3, <3>1, OrderedDrop
  <2>5. mapped \in Nat
    BY <2>2, RequestTypes, MapTypes
  <2> HIDE DEF mapped
  <2>6. Ordered([rpq EXCEPT ![1].page = mapped])
    BY <1>1, <2>1, <2>5, OrderedMapped
  <2> QED
    BY <1>1, <2>1, <2>4, <2>6
<1>5. ASSUME FlushWpq PROVE Ordered(wpq')
  <2>1. PICK n \in 0 .. Len(wpq) : wpq' = SubSeq(wpq, n + 1, Len(wpq))
    BY <1>1, <1>5, FlushMoves
  <2>2. /\ DOMAIN wpq' = 1 .. Len(wpq) - n
        /\ \A i \in 1 .. Len(wpq) - n : wpq'[i] = wpq[n + i] /\ n + i \in 1 .. Len(wpq)
    BY <1>1, <2>1, DropFacts
  <2> QED
    BY <1>1, <2>2, OrderedDrop
<1>6. CASE TickWrite \/ Adr
  <2>1. rpq' = rpq /\ (FlushWpq \/ wpq' = wpq)
    BY <1>6 DEF TickWrite, Adr
  <2> QED
    BY <1>1, <1>5, <2>1
<1>7. CASE UNCHANGED <<rpq, wpq>>
  BY <1>1, <1>7
<1>8. ASSUME NEW c \in Below, NextTakes(c) PROVE UNCHANGED <<rpq, wpq>>
  BY <1>8 DEF NextTakes
<1> QED
  BY <1>2, <1>3, <1>4, <1>6, <1>7, <1>8 DEF Next, Tick, TickNone, vars

\* The first requests of the queues are the oldest.
LEMMA OldestFirst ==
  ASSUME NEW q \in Seq(Request), Ordered(q), q # <<>>
  PROVE  \A req \in Queued(q) : Head(q).born <= req.born
<1>1. Head(q) = q[1] /\ 1 \in DOMAIN q /\ DOMAIN q = 1 .. Len(q)
  BY TailFacts
<1>2. \A i \in DOMAIN q : 1 <= i
  BY <1>1
<1> QED
  BY <1>1, <1>2 DEF Ordered, InOrder, Queued

\* What a step sends is not younger than what it leaves.
LEMMA ServeStep ==
  ASSUME Stamped, ImcInv, FirstComeFirstServe, [Next]_vars
  PROVE  FirstComeFirstServe'
<1>1. /\ TypeOK /\ rpq \in Seq(Request) /\ wpq \in Seq(Request)
      /\ Ordered(rpq) /\ Ordered(wpq)
  BY DEF ImcInv, TypeOK, OrderOK
<1>2. /\ \A i \in DOMAIN rpq : rpq[i].arrive = rpq[i].born /\ rpq[i].born \in Nat
      /\ \A i \in DOMAIN wpq : wpq[i].arrive = wpq[i].born /\ wpq[i].born \in Nat
  BY <1>1, RequestTypes DEF Ordered
<1>3. CASE out' = <<>>
  BY <1>3 DEF FirstComeFirstServe
<1>4. CASE TickRead
  <2> DEFINE req == Head(rpq)
             mapped == MapPage(req.page)
  <2>1. /\ rpq # <<>> /\ (wpq # <<>> => req.arrive < Head(wpq).arrive) /\ wpq' = wpq
        /\ \/ rpq' = Tail(rpq) /\ out' = <<Send("read", req, mapped)>>
           \/ out' = <<>>
    BY <1>4 DEF TickRead, ReadChosen
  <2>2. /\ DOMAIN Tail(rpq) = 1 .. Len(rpq) - 1 /\ DOMAIN rpq = 1 .. Len(rpq)
        /\ \A i \in 1 .. Len(rpq) - 1 : Tail(rpq)[i] = rpq[i + 1] /\ i + 1 \in 1 .. Len(rpq)
        /\ req \in Request /\ req = rpq[1] /\ 1 \in DOMAIN rpq
    BY <1>1, <2>1, TailFacts
  <2>3. Send("read", req, mapped).born = req.born
    BY DEF Send
  <2> HIDE DEF req, mapped
  <2>4. CASE rpq' = Tail(rpq) /\ out' = <<Send("read", req, mapped)>>
    <3>1. \A i \in DOMAIN out' : out'[i].born = req.born
      BY <2>3, <2>4
    <3>2. \A x \in Queued(rpq') : req.born <= x.born
      <4>1. Queued(rpq') \subseteq Queued(rpq)
        BY <2>2, <2>4 DEF Queued
      <4> QED
        BY <1>1, <2>1, <4>1, OldestFirst DEF req
    <3>3. \A x \in Queued(wpq) : req.born <= x.born
      <4> SUFFICES ASSUME NEW x \in Queued(wpq) PROVE req.born <= x.born
        OBVIOUS
      <4>1. PICK k \in DOMAIN wpq : x = wpq[k]
        BY DEF Queued
      <4>2. wpq # <<>>
        BY <1>1, <4>1
      <4>3. Head(wpq) = wpq[1] /\ 1 \in DOMAIN wpq
        BY <1>1, <4>2, TailFacts
      <4>4. req.born < Head(wpq).born
        BY <1>2, <2>1, <2>2, <4>2, <4>3
      <4>5. Head(wpq).born <= x.born
        BY <1>1, <4>2, OldestFirst
      <4> QED
        BY <1>2, <2>2, <4>1, <4>3, <4>4, <4>5
    <3> QED
      BY <2>1, <3>1, <3>2, <3>3 DEF FirstComeFirstServe, Waiting, Queued
  <2> QED
    BY <1>3, <2>1, <2>4
<1>5. ASSUME FlushWpq, rpq' = rpq PROVE FirstComeFirstServe'
  <2>1. PICK n \in 0 .. Len(wpq) :
          /\ \A i \in 1 .. n : CanFlush(i)
          /\ wpq' = SubSeq(wpq, n + 1, Len(wpq))
          /\ out' = [i \in 1 .. n |-> Send("write", wpq[i], wpq[i].page)]
    BY <1>1, <1>5, FlushMoves
  <2>2. /\ DOMAIN wpq' = 1 .. Len(wpq) - n /\ Len(wpq) \in Nat /\ DOMAIN wpq = 1 .. Len(wpq)
        /\ \A i \in 1 .. Len(wpq) - n : wpq'[i] = wpq[n + i] /\ n + i \in 1 .. Len(wpq)
    BY <1>1, <2>1, DropFacts
  <2>3. ASSUME NEW i \in DOMAIN out'
        PROVE  i \in 1 .. n /\ i \in DOMAIN wpq /\ out'[i].born = wpq[i].born
    <3>1. i \in 1 .. n /\ out'[i] = Send("write", wpq[i], wpq[i].page)
      BY <2>1
    <3>2. i \in DOMAIN wpq
      BY <2>2, <3>1
    <3> QED
      BY <3>1, <3>2 DEF Send
  <2>4. ASSUME NEW i \in DOMAIN out', NEW x \in Queued(wpq')
        PROVE  out'[i].born <= x.born
    <3>1. PICK k \in 1 .. Len(wpq) - n : x = wpq[n + k] /\ n + k \in DOMAIN wpq
      BY <2>2 DEF Queued
    <3>2. i <= n + k
      BY <2>2, <2>3, <3>1
    <3> QED
      BY <1>1, <2>3, <3>1, <3>2 DEF Ordered, InOrder
  <2>5. ASSUME NEW i \in DOMAIN out', NEW x \in Queued(rpq)
        PROVE  out'[i].born <= x.born
    <3>1. PICK k \in DOMAIN rpq : x = rpq[k]
      BY DEF Queued
    <3>2. rpq # <<>>
      BY <1>1, <3>1
    <3>3. Head(rpq) = rpq[1] /\ 1 \in DOMAIN rpq
      BY <1>1, <3>2, TailFacts
    <3>4. Head(rpq).arrive >= wpq[i].arrive
      BY <2>1, <2>3, <3>2 DEF CanFlush
    <3>5. wpq[i].born <= Head(rpq).born
      BY <1>2, <2>3, <3>3, <3>4
    <3>6. Head(rpq).born <= x.born
      BY <1>1, <3>2, OldestFirst
    <3> QED
      BY <1>2, <2>3, <3>1, <3>3, <3>5, <3>6
  <2> QED
    BY <1>5, <2>4, <2>5 DEF FirstComeFirstServe, Waiting, Queued
<1>6. CASE TickWrite \/ Adr
  BY <1>3, <1>5, <1>6 DEF TickWrite, Adr
<1>7. CASE UNCHANGED vars
  BY <1>7 DEF FirstComeFirstServe, Waiting, Queued, vars
<1>8. ASSUME NEW i \in Ids, NEW page \in Pages, IssueRead(i, page) \/ IssueWrite(i, page)
      PROVE  out' = <<>>
  BY <1>8 DEF IssueRead, IssueWrite
<1>9. ASSUME NEW c \in Below, NextTakes(c) PROVE out' = <<>>
  BY <1>9 DEF NextTakes
<1> QED
  BY <1>3, <1>4, <1>6, <1>7, <1>8, <1>9 DEF Next, Tick, TickNone, NextCycle

\* The invariant at the start.
LEMMA ImcInit == Init => ImcInv /\ FirstComeFirstServe
<1> SUFFICES ASSUME Init PROVE ImcInv /\ FirstComeFirstServe
  OBVIOUS
<1>1. /\ rpq = <<>> /\ wpq = <<>> /\ free = [c \in Below |-> NextEntries]
      /\ clk = 0 /\ phase = "idle" /\ out = <<>>
  BY DEF Init
<1>2. TypeOK
  BY <1>1 DEF TypeOK
<1>3. OrderOK /\ FirstComeFirstServe
  BY <1>1 DEF OrderOK, Ordered, InOrder, FirstComeFirstServe
<1> QED
  BY <1>2, <1>3 DEF ImcInv

\* Types and the order of the queues, for every size of the controller.
THEOREM ImcConsistent == Spec => []ImcInv
<1>1. Init => ImcInv
  BY ImcInit
<1>2. ImcInv /\ [Next]_vars => ImcInv'
  BY TypeStep, OrderStep DEF ImcInv
<1> QED
  BY <1>1, <1>2, PTL DEF Spec

\* With stamped requests the controller serves first what came first, among
\* reads and writes together.
THEOREM ServedInOrder ==
  ASSUME Stamped
  PROVE  Spec => []FirstComeFirstServe
<1>1. Init => FirstComeFirstServe
  BY ImcInit
<1>2. ImcInv /\ FirstComeFirstServe /\ [Next]_vars => FirstComeFirstServe'
  BY ServeStep
<1> QED
  BY <1>1, <1>2, ImcConsistent, PTL DEF Spec

(***************************************************************************)
(* What a tick sends                                                       *)
(***************************************************************************)
\* p is what is left of q when the first n have left
Leaves(q, n, p) ==
  DOMAIN p = 1 .. Len(q) - n /\ \A i \in 1 .. Len(q) - n : p[i] = q[n + i]

Stays ==
  /\ out' = <<>> /\ wpq' = wpq
  /\ \/ rpq' = rpq
     \/ rpq # <<>> /\ rpq' = [rpq EXCEPT ![1].page = MapPage(Head(rpq).page)]

ReadGoes ==
  /\ rpq # <<>> /\ rpq' = Tail(rpq) /\ wpq' = wpq
  /\ out' = <<Send("read", Head(rpq), MapPage(Head(rpq).page))>>

WritesGo(n) ==
  /\ rpq' = rpq /\ wpq' = SubSeq(wpq, n + 1, Len(wpq))
  /\ out' = [i \in 1 .. n |-> Send("write", wpq[i], wpq[i].page)]

\* A step of a tick sends nothing, one read, or the first writes.
LEMMA TickMoves ==
  ASSUME TypeOK, Tick \/ Adr
  PROVE  Stays \/ ReadGoes \/ \E n \in 0 .. Len(wpq) : WritesGo(n)
<1>1. CASE TickRead
  BY <1>1 DEF TickRead, ReadChosen, Stays, ReadGoes
<1>2. CASE TickNone
  BY <1>2 DEF TickNone, Stays
<1>3. ASSUME FlushWpq, rpq' = rpq PROVE \E n \in 0 .. Len(wpq) : WritesGo(n)
  BY <1>3 DEF FlushWpq, WritesGo
<1>4. CASE TickWrite \/ Adr
  BY <1>3, <1>4 DEF TickWrite, Adr, Stays
<1> QED
  BY <1>1, <1>2, <1>4 DEF Tick
=============================================================================
