------------------------ MODULE DramCoherenceProofs ------------------------
(***************************************************************************)
(* Machine-checked proofs that the DRAM controller loses no read, gives    *)
(* each one that reaches a bank the value of the last write before it and  *)
(* leaves the banks with the last writes: that Dram implements             *)
(* CoherentMemory, for every value of its constants.                       *)
(*                                                                         *)
(* The reads under way are kept as a set of keys (callback, line, value);  *)
(* the commands of schedule move a key between queues and never change it. *)
(* The order of arrivals makes that true: a write never reaches the banks  *)
(* before a read of its line that was queued first.                        *)
(***************************************************************************)
EXTENDS DramProofs

(***************************************************************************)
(* The invariant                                                           *)
(***************************************************************************)
Key(x) == <<x.id, x.line, x.val>>

Keys(q) == {Key(q[i]) : i \in DOMAIN q}

Distinct(q) == \A i \in DOMAIN q, j \in DOMAIN q : q[i].id = q[j].id => i = j

ActRead == actq # <<>> /\ Head(actq).op = "read"

ActKeys == IF ActRead THEN {Key(Head(actq))} ELSE {}

AllKeys == Keys(readq) \cup ActKeys \cup Keys(pendq)

\* A read is in one place, for the line that its callback waits for.
OnePlace ==
  /\ Distinct(readq) /\ Distinct(pendq)
  /\ \A k \in Keys(readq), m \in ActKeys : k[1] # m[1]
  /\ \A k \in Keys(readq), m \in Keys(pendq) : k[1] # m[1]
  /\ \A k \in ActKeys, m \in Keys(pendq) : k[1] # m[1]
  /\ \A k \in AllKeys : wanted[k[1]] = k[2]
  /\ \A r \in ReadIds : wanted[r] # NoLine => \E k \in AllKeys : k[1] = r

Sorted(q) == \A i \in DOMAIN q, j \in DOMAIN q : i <= j => q[i].arrive <= q[j].arrive

\* Queues are in the order of arrival, and a queued write of a line is not
\* older than a queued read of it (the read would have been forwarded).
Arrivals ==
  /\ Sorted(readq) /\ Sorted(writeq)
  /\ \A i \in DOMAIN readq : readq[i].arrive <= Now
  /\ \A i \in DOMAIN writeq : writeq[i].arrive <= Now
  /\ \A i \in DOMAIN readq, j \in DOMAIN writeq :
       readq[i].line = writeq[j].line => readq[i].arrive <= writeq[j].arrive

\* The value a line has once the activated request is done.
Held(line) ==
  IF actq # <<>> /\ Head(actq).op = "write" /\ Head(actq).line = line
  THEN Head(actq).val ELSE mem[line]

\* Reads expect what they will find, and the last write of a line that is
\* queued, if any, is the last that was issued.
ReadsExpect ==
  /\ \A i \in DOMAIN readq : readq[i].val = Held(readq[i].line)
  /\ ActRead => Head(actq).val = mem[Head(actq).line]

WritesLast ==
  /\ \A i \in DOMAIN writeq :
       (\A j \in DOMAIN writeq : writeq[j].line = writeq[i].line => j <= i)
         => latest[writeq[i].line] = writeq[i].val
  /\ \A line \in Lines : ~Forwards(line) => latest[line] = Held(line)

CoherenceInv == OnePlace /\ Arrivals /\ ReadsExpect /\ WritesLast

(***************************************************************************)
(* Keys of a queue                                                         *)
(***************************************************************************)
\* The head leaves the queue and takes its key with it.
LEMMA KeysTail ==
  ASSUME NEW S, NEW q \in Seq(S), q # <<>>, Distinct(q)
  PROVE  /\ Distinct(Tail(q)) /\ Key(Head(q)) \in Keys(q)
         /\ Keys(Tail(q)) = Keys(q) \ {Key(Head(q))}
         /\ \A k \in Keys(q) : k[1] = Head(q).id => k = Key(Head(q))
<1>1. /\ Head(q) = q[1] /\ DOMAIN q = 1 .. Len(q) /\ 1 \in DOMAIN q
      /\ DOMAIN Tail(q) = 1 .. Len(q) - 1 /\ Len(q) \in Nat \ {0}
      /\ \A i \in 1 .. Len(q) - 1 : Tail(q)[i] = q[i + 1] /\ i + 1 \in 1 .. Len(q)
  BY TailFacts
<1>2. \A i \in DOMAIN q, j \in DOMAIN q : q[i].id = q[j].id => i = j
  BY DEF Distinct
<1>3. Distinct(Tail(q))
  <2> SUFFICES ASSUME NEW i \in DOMAIN Tail(q), NEW j \in DOMAIN Tail(q),
                      Tail(q)[i].id = Tail(q)[j].id
               PROVE  i = j
    BY DEF Distinct
  <2>1. i + 1 \in DOMAIN q /\ j + 1 \in DOMAIN q /\ Tail(q)[i] = q[i + 1] /\ Tail(q)[j] = q[j + 1]
    BY <1>1
  <2>2. i + 1 = j + 1
    BY <1>2, <2>1
  <2> QED
    BY <1>1, <2>2
<1>4. Key(Head(q)) \in Keys(q)
  BY <1>1 DEF Keys
<1>5. \A k \in Keys(q) : k[1] = Head(q).id => k = Key(Head(q))
  <2> SUFFICES ASSUME NEW i \in DOMAIN q, Key(q[i])[1] = Head(q).id
               PROVE  Key(q[i]) = Key(Head(q))
    BY DEF Keys
  <2>1. q[i].id = q[1].id
    BY <1>1 DEF Key
  <2>2. i = 1
    BY <1>1, <1>2, <2>1
  <2> QED
    BY <1>1, <2>2
<1>6. Keys(Tail(q)) \subseteq Keys(q) \ {Key(Head(q))}
  <2> SUFFICES ASSUME NEW i \in DOMAIN Tail(q)
               PROVE  Key(Tail(q)[i]) \in Keys(q) /\ Key(Tail(q)[i]) # Key(Head(q))
    BY DEF Keys
  <2>1. i + 1 \in DOMAIN q /\ Tail(q)[i] = q[i + 1] /\ i + 1 # 1
    BY <1>1
  <2>2. q[i + 1].id # q[1].id
    BY <1>1, <1>2, <2>1
  <2>3. Key(q[i + 1]) # Key(q[1])
    BY <2>2 DEF Key
  <2> QED
    BY <1>1, <2>1, <2>3 DEF Keys
<1>7. Keys(q) \ {Key(Head(q))} \subseteq Keys(Tail(q))
  <2> SUFFICES ASSUME NEW i \in DOMAIN q, Key(q[i]) # Key(Head(q))
               PROVE  Key(q[i]) \in Keys(Tail(q))
    BY DEF Keys
  <2>1. i # 1
    BY <1>1
  <2>2. i - 1 \in DOMAIN Tail(q) /\ i - 1 + 1 = i
    BY <1>1, <2>1
  <2>3. Tail(q)[i - 1] = q[i]
    BY <1>1, <2>2
  <2> QED
    BY <2>2, <2>3 DEF Keys
<1> QED
  BY <1>3, <1>4, <1>5, <1>6, <1>7

\* A read joins the queue with its key.
LEMMA KeysAppend ==
  ASSUME NEW S, NEW q \in Seq(S), NEW x \in S, Distinct(q), \A k \in Keys(q) : k[1] # x.id
  PROVE  Distinct(Append(q, x)) /\ Keys(Append(q, x)) = Keys(q) \cup {Key(x)}
<1> DEFINE qx == Append(q, x)
           n == Len(q) + 1
<1>1. /\ Len(q) \in Nat /\ DOMAIN q = 1 .. Len(q) /\ DOMAIN qx = 1 .. n /\ qx[n] = x
      /\ \A i \in 1 .. Len(q) : qx[i] = q[i]
      /\ \A i \in 1 .. n : i \in 1 .. Len(q) \/ i = n
  BY AppendFacts
<1>2. \A i \in 1 .. Len(q) : q[i].id # x.id
  <2>1. \A i \in 1 .. Len(q) : Key(q[i]) \in Keys(q)
    BY <1>1 DEF Keys
  <2>2. \A i \in 1 .. Len(q) : Key(q[i])[1] = q[i].id
    BY DEF Key
  <2> QED
    BY <2>1, <2>2
<1> HIDE DEF qx
<1>3. Distinct(qx)
  <2> SUFFICES ASSUME NEW i \in 1 .. n, NEW j \in 1 .. n, qx[i].id = qx[j].id
               PROVE  i = j
    BY <1>1 DEF Distinct
  <2>1. CASE i \in 1 .. Len(q) /\ j \in 1 .. Len(q)
    BY <1>1, <2>1 DEF Distinct
  <2>2. CASE i \in 1 .. Len(q) /\ j = n
    BY <1>1, <1>2, <2>2
  <2>3. CASE i = n /\ j \in 1 .. Len(q)
    BY <1>1, <1>2, <2>3
  <2> QED
    BY <1>1, <2>1, <2>2, <2>3
<1>4. Keys(qx) \subseteq Keys(q) \cup {Key(x)}
  BY <1>1 DEF Keys
<1>5. \A i \in 1 .. Len(q) : i \in 1 .. n
  BY <1>1
<1>6. Keys(q) \subseteq Keys(qx)
  BY <1>1, <1>5 DEF Keys
<1>7. Key(x) \in Keys(qx)
  <2>1. n \in DOMAIN qx
    BY <1>1
  <2> QED
    BY <1>1, <2>1 DEF Keys
<1> QED
  BY <1>3, <1>4, <1>6, <1>7 DEF qx

\* Fields other than these do not matter.
LEMMA KeysSame ==
  ASSUME NEW q, NEW p, DOMAIN p = DOMAIN q,
         \A i \in DOMAIN q : p[i].id = q[i].id /\ p[i].line = q[i].line /\ p[i].val = q[i].val
  PROVE  Keys(p) = Keys(q) /\ (Distinct(q) => Distinct(p))
<1>1. \A i \in DOMAIN q : Key(p[i]) = Key(q[i])
  BY DEF Key
<1>2. Keys(p) = Keys(q)
  BY <1>1 DEF Keys
<1>3. Distinct(q) => Distinct(p)
  BY DEF Distinct
<1> QED
  BY <1>2, <1>3

(***************************************************************************)
(* The order of arrivals                                                   *)
(***************************************************************************)
Shorter(p, q) == p = q \/ (q # <<>> /\ p = Tail(q))

\* A queue that may have lost its head.
LEMMA ShorterFacts ==
  ASSUME NEW S, NEW q \in Seq(S), NEW p, Shorter(p, q)
  PROVE  \E d \in {0, 1} :
           /\ \A i \in DOMAIN p : i \in Nat /\ i + d \in DOMAIN q /\ p[i] = q[i + d]
           /\ \A i \in DOMAIN q : i \in Nat /\ (i - d \in DOMAIN p \/ i = d)
<1>1. CASE p = q
  <2>1. DOMAIN q = 1 .. Len(q) /\ Len(q) \in Nat
    OBVIOUS
  <2>2. \A i \in DOMAIN p : i \in Nat /\ i + 0 \in DOMAIN q /\ p[i] = q[i + 0]
    BY <1>1, <2>1
  <2>3. \A i \in DOMAIN q : i \in Nat /\ i - 0 \in DOMAIN p
    BY <1>1, <2>1
  <2> QED
    BY <2>2, <2>3
<1>2. CASE q # <<>> /\ p = Tail(q)
  <2>1. /\ DOMAIN q = 1 .. Len(q) /\ Len(q) \in Nat \ {0} /\ DOMAIN p = 1 .. Len(q) - 1
        /\ \A i \in 1 .. Len(q) - 1 : p[i] = q[i + 1] /\ i + 1 \in 1 .. Len(q)
    BY <1>2, TailFacts
  <2>2. \A i \in DOMAIN p : i \in Nat /\ i + 1 \in DOMAIN q /\ p[i] = q[i + 1]
    BY <2>1
  <2>3. \A i \in DOMAIN q : i \in Nat /\ (i - 1 \in DOMAIN p \/ i = 1)
    BY <2>1
  <2> QED
    BY <2>2, <2>3
<1> QED
  BY <1>1, <1>2 DEF Shorter

\* Commands take requests from the front of their queues.
LEMMA ArrivalsKept ==
  ASSUME TypeOK, Arrivals, Shorter(readq', readq), Shorter(writeq', writeq)
  PROVE  Arrivals'
<1>1. PICK d \in {0, 1} :
         \A i \in DOMAIN readq' : i \in Nat /\ i + d \in DOMAIN readq /\ readq'[i] = readq[i + d]
  BY ShorterFacts DEF TypeOK
<1>2. PICK e \in {0, 1} :
         \A i \in DOMAIN writeq' : i \in Nat /\ i + e \in DOMAIN writeq /\ writeq'[i] = writeq[i + e]
  BY ShorterFacts DEF TypeOK
<1>3. Sorted(readq')
  <2> SUFFICES ASSUME NEW i \in DOMAIN readq', NEW j \in DOMAIN readq', i <= j
               PROVE  readq'[i].arrive <= readq'[j].arrive
    BY DEF Sorted
  <2>1. i + d <= j + d
    BY <1>1
  <2> QED
    BY <1>1, <2>1 DEF Arrivals, Sorted
<1>4. Sorted(writeq')
  <2> SUFFICES ASSUME NEW i \in DOMAIN writeq', NEW j \in DOMAIN writeq', i <= j
               PROVE  writeq'[i].arrive <= writeq'[j].arrive
    BY DEF Sorted
  <2>1. i + e <= j + e
    BY <1>2
  <2> QED
    BY <1>2, <2>1 DEF Arrivals, Sorted
<1>5. /\ \A i \in DOMAIN readq' : readq'[i].arrive <= Now
      /\ \A i \in DOMAIN writeq' : writeq'[i].arrive <= Now
  BY <1>1, <1>2 DEF Arrivals
<1>6. \A i \in DOMAIN readq', j \in DOMAIN writeq' :
        readq'[i].line = writeq'[j].line => readq'[i].arrive <= writeq'[j].arrive
  BY <1>1, <1>2 DEF Arrivals
<1>7. Sorted(readq)' /\ Sorted(writeq)' /\ Now' = Now
  BY <1>3, <1>4 DEF Sorted, Now
<1> QED
  BY <1>5, <1>6, <1>7 DEF Arrivals

\* The arrival of a read whose line has no queued write.
LEMMA ArrivalsRead ==
  ASSUME TypeOK, Arrivals, NEW line \in Lines, ~Forwards(line), NEW x \in Read,
         x.line = line, x.arrive = Now, readq' = Append(readq, x), writeq' = writeq
  PROVE  Arrivals'
<1> DEFINE n == Len(readq) + 1
<1>1. /\ Len(readq) \in Nat /\ DOMAIN readq = 1 .. Len(readq) /\ DOMAIN readq' = 1 .. n
      /\ readq'[n] = x /\ \A i \in 1 .. Len(readq) : readq'[i] = readq[i]
      /\ \A i \in 1 .. n : i \in 1 .. Len(readq) \/ i = n
  BY AppendFacts DEF TypeOK
<1>7. Now \in Nat
  BY DramAssumption DEF Now
<1>8. Now' = Now
  BY DEF Now
<1>2. Now \in Nat /\ Now' = Now
  BY <1>7, <1>8
<1>3. Sorted(readq')
  <2> SUFFICES ASSUME NEW i \in 1 .. n, NEW j \in 1 .. n, i <= j
               PROVE  readq'[i].arrive <= readq'[j].arrive
    BY <1>1 DEF Sorted
  <2>1. CASE j = n
    BY <1>1, <1>2, <2>1 DEF Arrivals
  <2>2. CASE j \in 1 .. Len(readq)
    <3>1. i \in 1 .. Len(readq)
      BY <1>1, <2>2
    <3> QED
      BY <1>1, <2>2, <3>1 DEF Arrivals, Sorted
  <2> QED
    BY <1>1, <2>1, <2>2
<1>4. \A i \in 1 .. n : readq'[i].arrive <= Now
  BY <1>1, <1>2 DEF Arrivals
<1>5. \A i \in 1 .. n, j \in DOMAIN writeq :
        readq'[i].line = writeq[j].line => readq'[i].arrive <= writeq[j].arrive
  BY <1>1 DEF Arrivals, Forwards
<1>6. Sorted(readq)' /\ Sorted(writeq)'
  BY <1>3 DEF Arrivals, Sorted
<1> QED
  BY <1>1, <1>2, <1>4, <1>5, <1>6 DEF Arrivals

\* The arrival of a write.
LEMMA ArrivalsWrite ==
  ASSUME TypeOK, Arrivals, NEW x \in Write, x.arrive = Now,
         writeq' = Append(writeq, x), readq' = readq
  PROVE  Arrivals'
<1> DEFINE n == Len(writeq) + 1
<1>1. /\ Len(writeq) \in Nat /\ DOMAIN writeq = 1 .. Len(writeq) /\ DOMAIN writeq' = 1 .. n
      /\ writeq'[n] = x /\ \A i \in 1 .. Len(writeq) : writeq'[i] = writeq[i]
      /\ \A i \in 1 .. n : i \in 1 .. Len(writeq) \/ i = n
  BY AppendFacts DEF TypeOK
<1>7. Now \in Nat
  BY DramAssumption DEF Now
<1>8. Now' = Now
  BY DEF Now
<1>2. Now \in Nat /\ Now' = Now
  BY <1>7, <1>8
<1>3. Sorted(writeq')
  <2> SUFFICES ASSUME NEW i \in 1 .. n, NEW j \in 1 .. n, i <= j
               PROVE  writeq'[i].arrive <= writeq'[j].arrive
    BY <1>1 DEF Sorted
  <2>1. CASE j = n
    BY <1>1, <1>2, <2>1 DEF Arrivals
  <2>2. CASE j \in 1 .. Len(writeq)
    <3>1. i \in 1 .. Len(writeq)
      BY <1>1, <2>2
    <3> QED
      BY <1>1, <2>2, <3>1 DEF Arrivals, Sorted
  <2> QED
    BY <1>1, <2>1, <2>2
<1>4. \A i \in 1 .. n : writeq'[i].arrive <= Now
  BY <1>1, <1>2 DEF Arrivals
<1>5. \A i \in DOMAIN readq, j \in 1 .. n :
        readq[i].line = writeq'[j].line => readq[i].arrive <= writeq'[j].arrive
  BY <1>1 DEF Arrivals
<1>6. Sorted(readq)' /\ Sorted(writeq)'
  BY <1>3 DEF Arrivals, Sorted
<1> QED
  BY <1>1, <1>2, <1>4, <1>5, <1>6 DEF Arrivals

\* Ageing keeps the order.
LEMMA ArrivalsAged ==
  ASSUME TypeOK, QueuesBounded, Arrivals, readq' = Aged(readq), writeq' = Aged(writeq)
  PROVE  Arrivals'
<1>1. readq \in Seq(Read) /\ writeq \in Seq(Write) /\ Len(readq) \in Nat /\ Len(writeq) \in Nat
  BY DEF TypeOK
<1>2. /\ DOMAIN readq' = 1 .. Len(readq) /\ DOMAIN readq = 1 .. Len(readq)
      /\ DOMAIN writeq' = 1 .. Len(writeq) /\ DOMAIN writeq = 1 .. Len(writeq)
      /\ \A i \in 1 .. Len(readq) :
           readq'[i] = [readq[i] EXCEPT !.arrive = RankIn(readq[i].arrive)]
      /\ \A i \in 1 .. Len(writeq) :
           writeq'[i] = [writeq[i] EXCEPT !.arrive = RankIn(writeq[i].arrive)]
  BY <1>1, AgedFacts
<1>3. \A i \in 1 .. Len(readq) : readq[i] \in Read /\ readq[i].arrive \in Nat
  BY <1>1, RequestTypes
<1>4. \A i \in 1 .. Len(writeq) : writeq[i] \in Write /\ writeq[i].arrive \in Nat
  BY <1>1, RequestTypes
<1>5. \A i \in 1 .. Len(readq) :
        readq'[i].line = readq[i].line /\ readq'[i].arrive = RankIn(readq[i].arrive)
  BY <1>2, <1>3 DEF Read
<1>6. \A i \in 1 .. Len(writeq) :
        writeq'[i].line = writeq[i].line /\ writeq'[i].arrive = RankIn(writeq[i].arrive)
  BY <1>2, <1>4 DEF Write
<1>7. /\ \A a : RankIn(a) \in Nat /\ RankIn(a) <= Len(readq) + Len(writeq)
      /\ \A a \in Nat, b \in Nat : a <= b => RankIn(a) <= RankIn(b)
  BY <1>1, RankFacts
<1>14. Len(readq) + Len(writeq) <= Now /\ Now \in Nat
  BY <1>1, DramAssumption DEF QueuesBounded, Now
<1>8. \A a : RankIn(a) <= Now
  BY <1>1, <1>7, <1>14
<1>9. Sorted(readq)'
  BY <1>2, <1>3, <1>5, <1>7 DEF Arrivals, Sorted
<1>10. Sorted(writeq)'
  BY <1>2, <1>4, <1>6, <1>7 DEF Arrivals, Sorted
<1>11. /\ \A i \in 1 .. Len(readq) : readq'[i].arrive <= Now
       /\ \A i \in 1 .. Len(writeq) : writeq'[i].arrive <= Now
  BY <1>5, <1>6, <1>8
<1>12. \A i \in 1 .. Len(readq), j \in 1 .. Len(writeq) :
         readq'[i].line = writeq'[j].line => readq'[i].arrive <= writeq'[j].arrive
  BY <1>2, <1>3, <1>4, <1>5, <1>6, <1>7 DEF Arrivals
<1>13. Now' = Now
  BY DEF Now
<1> QED
  BY <1>2, <1>9, <1>10, <1>11, <1>12, <1>13 DEF Arrivals

(***************************************************************************)
(* The values                                                              *)
(***************************************************************************)
ValuesOK == ReadsExpect /\ WritesLast

\* Steps that change neither the writes nor the value that a line will have.
LEMMA ValuesKept ==
  ASSUME TypeOK, ValuesOK, Shorter(readq', readq), UNCHANGED <<writeq, latest>>,
         \A line \in Lines : Held(line)' = Held(line),
         ActRead' => Head(actq').val = mem'[Head(actq').line]
  PROVE  ValuesOK'
<1>1. readq \in Seq(Read) /\ writeq \in Seq(Write)
  BY DEF TypeOK
<1>2. PICK d \in {0, 1} :
         \A i \in DOMAIN readq' : i + d \in DOMAIN readq /\ readq'[i] = readq[i + d]
  BY <1>1, ShorterFacts
<1>3. \A i \in DOMAIN readq : readq[i].val = Held(readq[i].line) /\ readq[i].line \in Lines
  BY <1>1, RequestTypes DEF ValuesOK, ReadsExpect
<1>4. \A i \in DOMAIN readq' : readq'[i].val = Held(readq[i].line)'
  <2> SUFFICES ASSUME NEW i \in DOMAIN readq' PROVE readq'[i].val = Held(readq[i].line)'
    OBVIOUS
  <2>1. PICK line \in Lines : line = readq'[i].line
    BY <1>2, <1>3
  <2>2. readq'[i].val = Held(line)
    BY <1>2, <1>3, <2>1
  <2>3. readq'[i].val = Held(line)'
    BY <2>2
  <2> QED
    BY <2>1, <2>3 DEF Held
<1>5. ReadsExpect'
  BY <1>4 DEF ReadsExpect
<1>6. WritesLast'
  BY DEF ValuesOK, WritesLast, Forwards
<1> QED
  BY <1>5, <1>6 DEF ValuesOK

\* A write leaves the queue for its bank: no read of its line waits, since the
\* write is older than the oldest read.
LEMMA ValuesTaken ==
  ASSUME TypeOK, Arrivals, ValuesOK, FromWrite, writeq' = Tail(writeq),
         UNCHANGED <<readq, latest>>, ~ActRead',
         \A line \in Lines :
           Held(line)' = IF line = Head(writeq).line THEN Head(writeq).val ELSE Held(line)
  PROVE  ValuesOK'
<1> DEFINE w == Head(writeq)
<1>1. readq \in Seq(Read) /\ writeq \in Seq(Write) /\ writeq # <<>> /\ WritePrior
  BY DEF TypeOK, FromWrite
<1>2. /\ w = writeq[1] /\ w \in Write /\ 1 \in DOMAIN writeq
      /\ DOMAIN writeq = 1 .. Len(writeq) /\ DOMAIN writeq' = 1 .. Len(writeq) - 1
      /\ Len(writeq) \in Nat \ {0}
      /\ \A i \in 1 .. Len(writeq) - 1 : writeq'[i] = writeq[i + 1] /\ i + 1 \in 1 .. Len(writeq)
  BY <1>1, TailFacts
<1>3. \A i \in DOMAIN readq : readq[i] \in Read /\ readq[i].line \in Lines /\ readq[i].arrive \in Nat
  BY <1>1, RequestTypes
<1>4. \A i \in DOMAIN readq : readq[i].line # w.line
  <2> SUFFICES ASSUME NEW i \in DOMAIN readq, readq[i].line = w.line PROVE FALSE
    OBVIOUS
  <2>1. readq # <<>> /\ Head(readq) = readq[1] /\ 1 \in DOMAIN readq /\ i >= 1 /\ i \in Nat
    BY <1>1, TailFacts
  <2>2. readq[1].arrive <= readq[i].arrive
    BY <2>1 DEF Arrivals, Sorted
  <2>3. w.arrive < readq[1].arrive
    BY <1>1, <2>1 DEF WritePrior
  <2>4. readq[i].arrive <= w.arrive
    BY <1>2 DEF Arrivals
  <2>5. readq[1].arrive \in Nat /\ readq[i].arrive \in Nat /\ w.arrive \in Nat
    BY <1>2, <1>3, <2>1, RequestTypes
  <2> QED
    BY <2>2, <2>3, <2>4, <2>5
<1>5. ReadsExpect'
  <2>1. \A i \in DOMAIN readq : readq[i].val = Held(readq[i].line)'
    BY <1>3, <1>4 DEF ValuesOK, ReadsExpect
  <2> QED
    BY <2>1 DEF ReadsExpect
<1>6. \A i \in DOMAIN writeq' :
        (\A j \in DOMAIN writeq' : writeq'[j].line = writeq'[i].line => j <= i)
          => latest[writeq'[i].line] = writeq'[i].val
  <2> SUFFICES ASSUME NEW i \in DOMAIN writeq',
                      \A j \in DOMAIN writeq' : writeq'[j].line = writeq'[i].line => j <= i
               PROVE  latest[writeq'[i].line] = writeq'[i].val
    OBVIOUS
  <2>1. i + 1 \in DOMAIN writeq /\ writeq'[i] = writeq[i + 1] /\ i \in Nat
    BY <1>2
  <2>2. \A j \in DOMAIN writeq : writeq[j].line = writeq[i + 1].line => j <= i + 1
    <3> SUFFICES ASSUME NEW j \in DOMAIN writeq, writeq[j].line = writeq[i + 1].line
                 PROVE  j <= i + 1
      OBVIOUS
    <3>1. CASE j = 1
      BY <2>1, <3>1
    <3>2. CASE j # 1
      <4>1. j - 1 \in DOMAIN writeq' /\ j \in Nat /\ j - 1 + 1 = j
        BY <1>2, <3>2
      <4>2. writeq'[j - 1] = writeq[j]
        BY <1>2, <4>1
      <4>3. j - 1 <= i
        BY <2>1, <4>1, <4>2
      <4> QED
        BY <2>1, <4>1, <4>3
    <3> QED
      BY <3>1, <3>2
  <2> QED
    BY <2>1, <2>2 DEF ValuesOK, WritesLast
<1>7. \A line \in Lines : ~Forwards(line)' => latest[line] = Held(line)'
  <2> SUFFICES ASSUME NEW line \in Lines, ~Forwards(line)' PROVE latest[line] = Held(line)'
    OBVIOUS
  <2>1. \A j \in DOMAIN writeq : writeq[j].line = line => j = 1
    <3> SUFFICES ASSUME NEW j \in DOMAIN writeq, writeq[j].line = line, j # 1 PROVE FALSE
      OBVIOUS
    <3>1. j - 1 \in DOMAIN writeq' /\ j \in Nat /\ j - 1 + 1 = j
      BY <1>2
    <3>2. writeq'[j - 1] = writeq[j]
      BY <1>2, <3>1
    <3> QED
      BY <3>1, <3>2 DEF Forwards
  <2>2. CASE line = w.line
    <3>1. \A j \in DOMAIN writeq : writeq[j].line = writeq[1].line => j <= 1
      BY <1>2, <2>1, <2>2
    <3>2. latest[writeq[1].line] = writeq[1].val
      BY <1>2, <3>1 DEF ValuesOK, WritesLast
    <3> QED
      BY <1>2, <2>2, <3>2
  <2>3. CASE line # w.line
    <3>1. ~Forwards(line)
      BY <1>2, <2>1, <2>3 DEF Forwards
    <3> QED
      BY <2>3, <3>1 DEF ValuesOK, WritesLast
  <2> QED
    BY <2>2, <2>3
<1>8. WritesLast'
  BY <1>6, <1>7 DEF WritesLast
<1> QED
  BY <1>5, <1>8 DEF ValuesOK

\* A read that is not forwarded expects what its line will hold.
LEMMA ValuesRead ==
  ASSUME TypeOK, ValuesOK, NEW line \in Lines, NEW r \in ReadIds, IssueRead(line, r)
  PROVE  ValuesOK'
<1> DEFINE x == [op |-> "read", line |-> line, id |-> r, val |-> latest[line], arrive |-> Now]
<1>1. UNCHANGED <<writeq, actq, mem, latest>> /\ \A l : Held(l)' = Held(l)
  BY DEF IssueRead, Held
<1>2. WritesLast'
  BY <1>1 DEF ValuesOK, WritesLast, Forwards
<1>3. ActRead' => Head(actq').val = mem'[Head(actq').line]
  BY <1>1 DEF ActRead, ValuesOK, ReadsExpect
<1>4. CASE readq' = readq
  BY <1>1, <1>2, <1>3, <1>4 DEF ValuesOK, ReadsExpect
<1>5. CASE readq' = Append(readq, x) /\ ~Forwards(line)
  <2>1. x.val = Held(x.line)
    BY <1>5 DEF ValuesOK, WritesLast
  <2>2. readq \in Seq(Read)
    BY DEF TypeOK
  <2>3. /\ DOMAIN readq = 1 .. Len(readq) /\ DOMAIN readq' = 1 .. Len(readq) + 1
        /\ readq'[Len(readq) + 1] = x
        /\ \A i \in 1 .. Len(readq) : readq'[i] = readq[i]
        /\ \A i \in 1 .. Len(readq) + 1 : i \in 1 .. Len(readq) \/ i = Len(readq) + 1
    <3> HIDE DEF x
    <3> QED
      BY <1>5, <2>2
  <2> HIDE DEF x
  <2>4. \A i \in DOMAIN readq' : readq'[i].val = Held(readq'[i].line)
    BY <2>1, <2>3 DEF ValuesOK, ReadsExpect
  <2> QED
    BY <1>1, <1>2, <1>3, <2>4 DEF ValuesOK, ReadsExpect
<1> QED
  BY <1>4, <1>5 DEF IssueRead, ReadQueued

\* A write that is issued is the last of its line.
LEMMA ValuesWrite ==
  ASSUME TypeOK, ValuesOK, NEW line \in Lines, NEW v \in Values, IssueWrite(line, v)
  PROVE  ValuesOK'
<1> DEFINE x == [op |-> "write", line |-> line, val |-> v, arrive |-> Now]
           n == Len(writeq) + 1
<1>1. UNCHANGED <<readq, actq, mem>> /\ \A l : Held(l)' = Held(l)
  BY DEF IssueWrite, Held
<1>2. ReadsExpect'
  BY <1>1 DEF ValuesOK, ReadsExpect, ActRead
<1>3. writeq \in Seq(Write) /\ latest \in [Lines -> Values]
  BY DEF TypeOK
<1>4. x \in Write
  BY DramAssumption DEF Write, Now
<1>5. /\ DOMAIN writeq = 1 .. Len(writeq) /\ DOMAIN writeq' = 1 .. n /\ Len(writeq) \in Nat
      /\ writeq'[n] = x /\ \A i \in 1 .. Len(writeq) : writeq'[i] = writeq[i]
      /\ \A i \in 1 .. n : i \in 1 .. Len(writeq) \/ i = n
  <2>1. writeq' = Append(writeq, x)
    BY DEF IssueWrite
  <2> HIDE DEF x
  <2> QED
    BY <1>3, <1>4, <2>1, AppendFacts
<1>6. x.line = line /\ x.val = v
  OBVIOUS
<1>7. latest' = [latest EXCEPT ![line] = v]
  BY DEF IssueWrite
<1>8. latest'[line] = v /\ \A l \in Lines : l # line => latest'[l] = latest[l]
  BY <1>3, <1>7
<1>9. \A i \in 1 .. Len(writeq) : writeq[i].line \in Lines
  BY <1>3, RequestTypes
<1> HIDE DEF x
<1>10. \A i \in 1 .. n :
         (\A j \in 1 .. n : writeq'[j].line = writeq'[i].line => j <= i)
           => latest'[writeq'[i].line] = writeq'[i].val
  <2> SUFFICES ASSUME NEW i \in 1 .. n,
                      \A j \in 1 .. n : writeq'[j].line = writeq'[i].line => j <= i
               PROVE  latest'[writeq'[i].line] = writeq'[i].val
    OBVIOUS
  <2>1. CASE i = n
    BY <1>5, <1>6, <1>8, <2>1
  <2>2. CASE i \in 1 .. Len(writeq)
    <3>1. n \in 1 .. n /\ ~(n <= i)
      BY <1>5, <2>2
    <3>2. writeq[i].line # line
      BY <1>5, <1>6, <2>2, <3>1
    <3>3. \A j \in 1 .. Len(writeq) : writeq[j].line = writeq[i].line => j <= i
      BY <1>5, <2>2
    <3>4. latest[writeq[i].line] = writeq[i].val
      BY <1>5, <2>2, <3>3 DEF ValuesOK, WritesLast
    <3> QED
      BY <1>5, <1>8, <1>9, <2>2, <3>2, <3>4
  <2> QED
    BY <1>5, <2>1, <2>2
<1>11. \A l \in Lines : ~Forwards(l)' => latest'[l] = Held(l)'
  <2> SUFFICES ASSUME NEW l \in Lines, ~Forwards(l)' PROVE latest'[l] = Held(l)
    BY <1>1
  <2>1. \A j \in 1 .. n : writeq'[j].line # l
    BY <1>5 DEF Forwards
  <2>2. l # line /\ n \in 1 .. n
    BY <1>5, <1>6, <2>1
  <2>3. \A j \in 1 .. Len(writeq) : j \in 1 .. n
    BY <1>5
  <2>4. ~Forwards(l)
    BY <1>5, <2>1, <2>3 DEF Forwards
  <2> QED
    BY <1>8, <2>2, <2>4 DEF ValuesOK, WritesLast
<1>12. WritesLast'
  BY <1>5, <1>10, <1>11 DEF WritesLast
<1> QED
  BY <1>2, <1>12 DEF ValuesOK

\* Ageing changes no value.
LEMMA ValuesAged ==
  ASSUME TypeOK, ValuesOK, readq' = Aged(readq), writeq' = Aged(writeq),
         UNCHANGED <<actq, mem, latest>>
  PROVE  ValuesOK'
<1>1. readq \in Seq(Read) /\ writeq \in Seq(Write)
  BY DEF TypeOK
<1>2. /\ DOMAIN readq' = 1 .. Len(readq) /\ DOMAIN readq = 1 .. Len(readq)
      /\ DOMAIN writeq' = 1 .. Len(writeq) /\ DOMAIN writeq = 1 .. Len(writeq)
      /\ \A i \in 1 .. Len(readq) :
           readq'[i] = [readq[i] EXCEPT !.arrive = RankIn(readq[i].arrive)]
      /\ \A i \in 1 .. Len(writeq) :
           writeq'[i] = [writeq[i] EXCEPT !.arrive = RankIn(writeq[i].arrive)]
  BY <1>1, AgedFacts
<1>9. /\ \A i \in DOMAIN readq : readq[i] \in Read
      /\ \A i \in DOMAIN writeq : writeq[i] \in Write
  BY <1>1
<1>3. \A i \in DOMAIN readq : readq'[i].line = readq[i].line /\ readq'[i].val = readq[i].val
  BY <1>2, <1>9 DEF Read
<1>4. \A i \in DOMAIN writeq : writeq'[i].line = writeq[i].line /\ writeq'[i].val = writeq[i].val
  BY <1>2, <1>9 DEF Write
<1>5. DOMAIN readq' = DOMAIN readq /\ DOMAIN writeq' = DOMAIN writeq
  BY <1>2
<1>6. \A l : Held(l)' = Held(l) /\ (Forwards(l)' <=> Forwards(l))
  BY <1>4, <1>5 DEF Held, Forwards
<1>7. ReadsExpect'
  BY <1>3, <1>5, <1>6 DEF ValuesOK, ReadsExpect, ActRead
<1>8. WritesLast'
  BY <1>4, <1>5, <1>6 DEF ValuesOK, WritesLast
<1> QED
  BY <1>7, <1>8 DEF ValuesOK

(***************************************************************************)
(* The reads under way                                                     *)
(***************************************************************************)
\* The activated request, by its kind.
LEMMA ActFacts ==
  ASSUME TypeOK, actq # <<>>
  PROVE  /\ Head(actq) \in Read \cup Write
         /\ Head(actq) \in Read <=> Head(actq).op = "read"
         /\ Head(actq) \in Write <=> Head(actq).op = "write"
<1>1. Head(actq) \in Read \cup Write
  BY TailFacts DEF TypeOK
<1> QED
  BY <1>1, RequestTypes

\* Keys by type.
LEMMA KeyTypes ==
  ASSUME TypeOK
  PROVE  \A k \in AllKeys : /\ k[1] \in ReadIds /\ k[2] \in Lines /\ k[3] \in Values \cup {NoValue}
                            /\ k = <<k[1], k[2], k[3]>>
<1>1. \A x \in Read \cup Done :
        /\ Key(x)[1] \in ReadIds /\ Key(x)[2] \in Lines /\ Key(x)[3] \in Values \cup {NoValue}
        /\ Key(x) = <<Key(x)[1], Key(x)[2], Key(x)[3]>>
  BY RequestTypes DEF Key
<1>2. \A k \in Keys(readq) : \E x \in Read : k = Key(x)
  BY DEF Keys, TypeOK
<1>3. \A k \in Keys(pendq) : \E x \in Done : k = Key(x)
  BY DEF Keys, TypeOK
<1>4. \A k \in ActKeys : \E x \in Read : k = Key(x)
  BY ActFacts DEF ActKeys, ActRead
<1> QED
  BY <1>1, <1>2, <1>3, <1>4 DEF AllKeys

\* Keys in the same places.
LEMMA PlacesKept ==
  ASSUME OnePlace, Keys(readq)' = Keys(readq), Keys(pendq)' = Keys(pendq), ActKeys' = ActKeys,
         Distinct(readq)', Distinct(pendq)', wanted' = wanted
  PROVE  OnePlace' /\ AllKeys' = AllKeys
<1>1. AllKeys' = AllKeys
  BY DEF AllKeys
<1> QED
  BY <1>1 DEF OnePlace

\* The activated read is done.
LEMMA PlacesActDone ==
  ASSUME TypeOK, OnePlace, ActRead, NEW x \in Done, Key(x) = Key(Head(actq)),
         actq' = <<>>, pendq' = Append(pendq, x), readq' = readq, wanted' = wanted
  PROVE  OnePlace' /\ AllKeys' = AllKeys
<1> DEFINE h == Key(Head(actq))
<1>1. ActKeys = {h} /\ h[1] = x.id
  <2>1. Key(x)[1] = x.id
    BY DEF Key
  <2> QED
    BY <2>1 DEF ActKeys
<1>2. ActKeys' = {}
  BY DEF ActKeys, ActRead
<1>3. Distinct(pendq)' /\ Keys(pendq)' = Keys(pendq) \cup {h}
  <2>1. pendq \in Seq(Done) /\ Distinct(pendq) /\ \A k \in Keys(pendq) : k[1] # x.id
    BY <1>1 DEF TypeOK, OnePlace
  <2>2. Distinct(pendq') /\ Keys(pendq') = Keys(pendq) \cup {Key(x)}
    BY <2>1, KeysAppend
  <2> QED
    BY <2>2 DEF Distinct, Keys
<1>4. Distinct(readq)' /\ Keys(readq)' = Keys(readq)
  BY DEF OnePlace, Distinct, Keys
<1> HIDE DEF h
<1>5. AllKeys' = AllKeys
  BY <1>1, <1>2, <1>3, <1>4 DEF AllKeys
<1>6. /\ \A k \in Keys(readq)', m \in ActKeys' : k[1] # m[1]
      /\ \A k \in ActKeys', m \in Keys(pendq)' : k[1] # m[1]
  BY <1>2
<1>7. \A k \in Keys(readq)', m \in Keys(pendq)' : k[1] # m[1]
  BY <1>1, <1>3, <1>4 DEF OnePlace
<1>8. /\ \A k \in AllKeys' : wanted'[k[1]] = k[2]
      /\ \A r \in ReadIds : wanted'[r] # NoLine => \E k \in AllKeys' : k[1] = r
  BY <1>5 DEF OnePlace
<1> QED
  BY <1>3, <1>4, <1>5, <1>6, <1>7, <1>8 DEF OnePlace

\* A queued read is activated.
LEMMA PlacesActivated ==
  ASSUME TypeOK, OnePlace, actq = <<>>, readq # <<>>,
         actq' = <<Head(readq)>>, readq' = Tail(readq), pendq' = pendq, wanted' = wanted
  PROVE  OnePlace' /\ AllKeys' = AllKeys
<1> DEFINE h == Key(Head(readq))
<1>1. readq \in Seq(Read) /\ Distinct(readq) /\ Head(readq) \in Read
  BY TailFacts DEF TypeOK, OnePlace
<1>2. /\ Distinct(Tail(readq)) /\ h \in Keys(readq) /\ Keys(Tail(readq)) = Keys(readq) \ {h}
      /\ \A k \in Keys(readq) : k[1] = Head(readq).id => k = h
  BY <1>1, KeysTail
<1>3. h[1] = Head(readq).id
  BY DEF Key
<1>4. Distinct(readq)' /\ Keys(readq)' = Keys(readq) \ {h}
  BY <1>2 DEF Distinct, Keys
<1>5. Distinct(pendq)' /\ Keys(pendq)' = Keys(pendq)
  BY DEF OnePlace, Distinct, Keys
<1>6. ActKeys = {} /\ ActKeys' = {h}
  <2>1. Head(actq').op = "read" /\ actq' # <<>> /\ Head(actq') = Head(readq)
    BY <1>1, RequestTypes
  <2>2. ActRead' /\ ~ActRead
    BY <2>1 DEF ActRead
  <2> QED
    BY <2>1, <2>2 DEF ActKeys, Key
<1> HIDE DEF h
<1>7. AllKeys' = AllKeys
  BY <1>2, <1>4, <1>5, <1>6 DEF AllKeys
<1>8. \A k \in Keys(readq)', m \in ActKeys' : k[1] # m[1]
  BY <1>2, <1>3, <1>4, <1>6
<1>9. /\ \A k \in ActKeys', m \in Keys(pendq)' : k[1] # m[1]
      /\ \A k \in Keys(readq)', m \in Keys(pendq)' : k[1] # m[1]
  BY <1>2, <1>4, <1>5, <1>6 DEF OnePlace
<1>10. /\ \A k \in AllKeys' : wanted'[k[1]] = k[2]
       /\ \A r \in ReadIds : wanted'[r] # NoLine => \E k \in AllKeys' : k[1] = r
  BY <1>7 DEF OnePlace
<1> QED
  BY <1>4, <1>5, <1>7, <1>8, <1>9, <1>10 DEF OnePlace

\* A queued read is done without activation: its row was open.
LEMMA PlacesReadDone ==
  ASSUME TypeOK, OnePlace, readq # <<>>, NEW x \in Done, Key(x) = Key(Head(readq)),
         actq' = actq, readq' = Tail(readq), pendq' = Append(pendq, x), wanted' = wanted
  PROVE  OnePlace' /\ AllKeys' = AllKeys
<1> DEFINE h == Key(Head(readq))
<1>1. readq \in Seq(Read) /\ Distinct(readq)
  BY DEF TypeOK, OnePlace
<1>2. /\ Distinct(Tail(readq)) /\ h \in Keys(readq) /\ Keys(Tail(readq)) = Keys(readq) \ {h}
      /\ \A k \in Keys(readq) : k[1] = Head(readq).id => k = h
  BY <1>1, KeysTail
<1>3. h[1] = Head(readq).id /\ h[1] = x.id
  <2>1. Key(x)[1] = x.id /\ Key(Head(readq))[1] = Head(readq).id
    BY DEF Key
  <2> QED
    BY <2>1
<1>4. Distinct(readq)' /\ Keys(readq)' = Keys(readq) \ {h}
  BY <1>2 DEF Distinct, Keys
<1>5. Distinct(pendq)' /\ Keys(pendq)' = Keys(pendq) \cup {h}
  <2>1. pendq \in Seq(Done) /\ Distinct(pendq) /\ \A k \in Keys(pendq) : k[1] # x.id
    BY <1>2, <1>3 DEF TypeOK, OnePlace
  <2>2. Distinct(pendq') /\ Keys(pendq') = Keys(pendq) \cup {Key(x)}
    BY <2>1, KeysAppend
  <2> QED
    BY <2>2 DEF Distinct, Keys
<1>6. ActKeys' = ActKeys
  BY DEF ActKeys, ActRead, Key
<1> HIDE DEF h
<1>7. AllKeys' = AllKeys
  BY <1>2, <1>4, <1>5, <1>6 DEF AllKeys
<1>8. \A k \in Keys(readq)', m \in Keys(pendq)' : k[1] # m[1]
  BY <1>2, <1>3, <1>4, <1>5 DEF OnePlace
<1>9. /\ \A k \in ActKeys', m \in Keys(pendq)' : k[1] # m[1]
      /\ \A k \in Keys(readq)', m \in ActKeys' : k[1] # m[1]
  BY <1>2, <1>4, <1>5, <1>6 DEF OnePlace
<1>10. /\ \A k \in AllKeys' : wanted'[k[1]] = k[2]
       /\ \A r \in ReadIds : wanted'[r] # NoLine => \E k \in AllKeys' : k[1] = r
  BY <1>7 DEF OnePlace
<1> QED
  BY <1>4, <1>5, <1>7, <1>8, <1>9, <1>10 DEF OnePlace

\* A callback that waits for nothing has no key.
LEMMA NoKey ==
  ASSUME TypeOK, OnePlace, NEW r \in ReadIds, wanted[r] = NoLine
  PROVE  \A k \in AllKeys : k[1] # r
<1>1. NoLine \notin Lines
  BY DramAssumption
<1>2. \A k \in AllKeys : k[2] \in Lines /\ wanted[k[1]] = k[2]
  BY KeyTypes DEF OnePlace
<1> QED
  BY <1>1, <1>2

\* The value that a read is promised when it is accepted.
Promised(line) == IF Forwards(line) THEN NoValue ELSE latest[line]

\* A read is accepted: into the read queue, or it is forwarded.
LEMMA PlacesRead ==
  ASSUME TypeOK, OnePlace, NEW line \in Lines, NEW r \in ReadIds, IssueRead(line, r)
  PROVE  OnePlace' /\ AllKeys' = AllKeys \cup {<<r, line, Promised(line)>>}
<1> DEFINE x == [op |-> "read", line |-> line, id |-> r, val |-> latest[line], arrive |-> Now]
           d == [line |-> line, id |-> r, left |-> 1, val |-> NoValue]
           h == <<r, line, Promised(line)>>
<1>1. /\ wanted[r] = NoLine /\ actq' = actq /\ wanted' = [wanted EXCEPT ![r] = line]
      /\ readq' = (IF Forwards(line) THEN readq ELSE Append(readq, x))
      /\ pendq' = (IF Forwards(line) THEN Append(pendq, d) ELSE pendq)
  BY DEF IssueRead, ReadQueued
<1>2. /\ readq \in Seq(Read) /\ pendq \in Seq(Done) /\ writeq \in Seq(Write)
      /\ wanted \in [ReadIds -> Lines \cup {NoLine}] /\ latest[line] \in Values
  BY DEF TypeOK
<1>3. \A k \in AllKeys : k[1] # r /\ k[1] \in ReadIds
  BY <1>1, NoKey, KeyTypes
<1>4. ActKeys' = ActKeys
  BY <1>1 DEF ActKeys, ActRead, Key
<1>5. wanted'[r] = line /\ \A s \in ReadIds : s # r => wanted'[s] = wanted[s]
  BY <1>1, <1>2
<1>6. h[1] = r /\ h[2] = line
  OBVIOUS
<1>7. CASE ~Forwards(line)
  <2>1. x \in Read
    <3>1. Now \in Nat
      BY DramAssumption DEF Now
    <3> QED
      BY <1>2, <3>1 DEF Read
  <2>2. Key(x) = h /\ x.id = r
    BY <1>7 DEF Key, Promised
  <2>3. readq' = Append(readq, x) /\ pendq' = pendq
    BY <1>1, <1>7
  <2>4. \A k \in Keys(readq) : k[1] # x.id
    BY <1>3, <2>2 DEF AllKeys
  <2> HIDE DEF x, h
  <2>5. Distinct(readq') /\ Keys(readq') = Keys(readq) \cup {h}
    BY <1>2, <2>1, <2>2, <2>3, <2>4, KeysAppend DEF OnePlace
  <2>6. /\ Distinct(readq)' /\ Keys(readq)' = Keys(readq) \cup {h}
        /\ Distinct(pendq)' /\ Keys(pendq)' = Keys(pendq)
    <3>1. Distinct(readq)' /\ Keys(readq)' = Keys(readq) \cup {h}
      BY <2>5 DEF Distinct, Keys
    <3>2. Distinct(pendq)' /\ Keys(pendq)' = Keys(pendq)
      BY <2>3 DEF Distinct, Keys, OnePlace
    <3> QED
      BY <3>1, <3>2
  <2>7. AllKeys' = AllKeys \cup {h}
    BY <1>4, <2>6 DEF AllKeys
  <2>8. /\ \A k \in Keys(readq)', m \in ActKeys' : k[1] # m[1]
        /\ \A k \in Keys(readq)', m \in Keys(pendq)' : k[1] # m[1]
        /\ \A k \in ActKeys', m \in Keys(pendq)' : k[1] # m[1]
    BY <1>3, <1>4, <1>6, <2>6 DEF OnePlace, AllKeys
  <2>9. \A k \in AllKeys' : wanted'[k[1]] = k[2]
    BY <1>3, <1>5, <1>6, <2>7 DEF OnePlace
  <2>10. \A s \in ReadIds : wanted'[s] # NoLine => \E k \in AllKeys' : k[1] = s
    BY <1>5, <1>6, <2>7 DEF OnePlace
  <2> QED
    BY <2>6, <2>7, <2>8, <2>9, <2>10 DEF OnePlace, h
<1>8. CASE Forwards(line)
  <2>2. d \in Done
    <3>1. 1 \in -1 .. ReadLatency
      BY DramAssumption
    <3> QED
      BY <3>1 DEF Done
  <2>3. Key(d) = h /\ d.id = r
    BY <1>8 DEF Key, Promised
  <2>4. readq' = readq /\ pendq' = Append(pendq, d)
    BY <1>1, <1>8
  <2>5. \A k \in Keys(pendq) : k[1] # d.id
    BY <1>3, <2>3 DEF AllKeys
  <2> HIDE DEF d, h
  <2>6. Distinct(pendq') /\ Keys(pendq') = Keys(pendq) \cup {h}
    BY <1>2, <2>2, <2>3, <2>4, <2>5, KeysAppend DEF OnePlace
  <2>7. /\ Distinct(readq)' /\ Keys(readq)' = Keys(readq)
        /\ Distinct(pendq)' /\ Keys(pendq)' = Keys(pendq) \cup {h}
    <3>1. Distinct(readq)' /\ Keys(readq)' = Keys(readq)
      BY <2>4 DEF Distinct, Keys, OnePlace
    <3>2. Distinct(pendq)' /\ Keys(pendq)' = Keys(pendq) \cup {h}
      BY <2>6 DEF Distinct, Keys
    <3> QED
      BY <3>1, <3>2
  <2>8. AllKeys' = AllKeys \cup {h}
    BY <1>4, <2>7 DEF AllKeys
  <2>9. /\ \A k \in Keys(readq)', m \in ActKeys' : k[1] # m[1]
        /\ \A k \in Keys(readq)', m \in Keys(pendq)' : k[1] # m[1]
        /\ \A k \in ActKeys', m \in Keys(pendq)' : k[1] # m[1]
    BY <1>3, <1>4, <1>6, <2>7 DEF OnePlace, AllKeys
  <2>10. \A k \in AllKeys' : wanted'[k[1]] = k[2]
    BY <1>3, <1>5, <1>6, <2>8 DEF OnePlace
  <2>11. \A s \in ReadIds : wanted'[s] # NoLine => \E k \in AllKeys' : k[1] = s
    BY <1>5, <1>6, <2>8 DEF OnePlace
  <2> QED
    BY <2>7, <2>8, <2>9, <2>10, <2>11 DEF OnePlace, h
<1> QED
  BY <1>7, <1>8

\* A read is answered and its key is gone.
LEMMA PlacesAnswer ==
  ASSUME TypeOK, OnePlace, AnswerDue, wanted' = [wanted EXCEPT ![Head(pendq).id] = NoLine],
         pendq' = Tail(pendq), UNCHANGED <<readq, actq>>
  PROVE  /\ OnePlace' /\ Key(Head(pendq)) \in AllKeys
         /\ AllKeys' = {k \in AllKeys : k[1] # Head(pendq).id}
<1> DEFINE h == Key(Head(pendq))
           r == Head(pendq).id
<1>1. /\ pendq \in Seq(Done) /\ pendq # <<>> /\ Distinct(pendq)
      /\ wanted \in [ReadIds -> Lines \cup {NoLine}]
  BY DEF TypeOK, AnswerDue, OnePlace
<1>2. r \in ReadIds
  BY <1>1, TailFacts, RequestTypes
<1>3. /\ Distinct(Tail(pendq)) /\ h \in Keys(pendq) /\ Keys(Tail(pendq)) = Keys(pendq) \ {h}
      /\ \A k \in Keys(pendq) : k[1] = r => k = h
  BY <1>1, KeysTail
<1>4. h[1] = r
  BY DEF Key
<1>5. /\ Distinct(pendq)' /\ Keys(pendq)' = Keys(pendq) \ {h}
      /\ Distinct(readq)' /\ Keys(readq)' = Keys(readq)
  <2>1. Distinct(pendq)' /\ Keys(pendq)' = Keys(pendq) \ {h}
    BY <1>3 DEF Distinct, Keys
  <2>2. Distinct(readq)' /\ Keys(readq)' = Keys(readq)
    BY DEF Distinct, Keys, OnePlace
  <2> QED
    BY <2>1, <2>2
<1>6. ActKeys' = ActKeys
  BY DEF ActKeys, ActRead, Key
<1>7. wanted'[r] = NoLine /\ \A s \in ReadIds : s # r => wanted'[s] = wanted[s]
  BY <1>1, <1>2
<1>8. \A k \in AllKeys : k[1] \in ReadIds
  BY KeyTypes
<1> HIDE DEF h, r
<1>9. AllKeys' = {k \in AllKeys : k[1] # r}
  <2>1. \A k \in Keys(readq) \cup ActKeys : k[1] # r
    BY <1>3, <1>4 DEF OnePlace
  <2> QED
    BY <1>3, <1>4, <1>5, <1>6, <2>1 DEF AllKeys
<1>10. /\ \A k \in Keys(readq)', m \in ActKeys' : k[1] # m[1]
       /\ \A k \in Keys(readq)', m \in Keys(pendq)' : k[1] # m[1]
       /\ \A k \in ActKeys', m \in Keys(pendq)' : k[1] # m[1]
  BY <1>5, <1>6 DEF OnePlace
<1>11. \A k \in AllKeys' : wanted'[k[1]] = k[2]
  BY <1>7, <1>8, <1>9 DEF OnePlace
<1>12. \A s \in ReadIds : wanted'[s] # NoLine => \E k \in AllKeys' : k[1] = s
  BY <1>7, <1>9 DEF OnePlace
<1> QED
  BY <1>3, <1>5, <1>9, <1>10, <1>11, <1>12 DEF OnePlace, AllKeys, h, r

\* Ageing moves no key.
LEMMA PlacesAged ==
  ASSUME TypeOK, OnePlace, NextCycle
  PROVE  OnePlace' /\ AllKeys' = AllKeys
<1>1. /\ readq \in Seq(Read) /\ writeq \in Seq(Write) /\ pendq \in Seq(Done)
      /\ readq' = Aged(readq) /\ UNCHANGED <<actq, wanted>>
  BY DEF TypeOK, NextCycle, history
<1>2. \A i \in DOMAIN readq : readq[i] \in Read
  BY <1>1
<1>3. \A i \in DOMAIN pendq : pendq[i] \in Done
  BY <1>1
<1>4. /\ DOMAIN readq' = DOMAIN readq
      /\ \A i \in DOMAIN readq :
           readq'[i] = [readq[i] EXCEPT !.arrive = RankIn(readq[i].arrive)]
  BY <1>1, AgedFacts
<1>5. \A i \in DOMAIN readq : readq'[i].id = readq[i].id /\ readq'[i].line = readq[i].line
                              /\ readq'[i].val = readq[i].val
  BY <1>2, <1>4 DEF Read
<1>6. /\ DOMAIN pendq' = DOMAIN pendq
      /\ \A i \in DOMAIN pendq :
           pendq'[i] = [pendq[i] EXCEPT !.left = IF pendq[i].left >= 0 THEN pendq[i].left - 1
                                                 ELSE pendq[i].left]
  BY DEF NextCycle
<1>7. \A i \in DOMAIN pendq : pendq'[i].id = pendq[i].id /\ pendq'[i].line = pendq[i].line
                              /\ pendq'[i].val = pendq[i].val
  BY <1>3, <1>6 DEF Done
<1>8. Keys(readq') = Keys(readq) /\ Distinct(readq')
  BY <1>4, <1>5, KeysSame DEF OnePlace
<1>9. Keys(pendq') = Keys(pendq) /\ Distinct(pendq')
  BY <1>6, <1>7, KeysSame DEF OnePlace
<1>10. /\ Keys(readq)' = Keys(readq) /\ Distinct(readq)'
       /\ Keys(pendq)' = Keys(pendq) /\ Distinct(pendq)'
  BY <1>8, <1>9 DEF Keys, Distinct
<1>11. ActKeys' = ActKeys
  BY <1>1 DEF ActKeys, ActRead, Key
<1> QED
  BY <1>1, <1>10, <1>11, PlacesKept

(***************************************************************************)
(* Every step keeps the invariant                                          *)
(***************************************************************************)
\* Steps that leave the requests alone.
LEMMA CoherenceKept ==
  ASSUME TypeOK, CoherenceInv, UNCHANGED <<readq, writeq, actq, pendq, wanted, mem, latest>>
  PROVE  CoherenceInv' /\ AllKeys' = AllKeys
<1>1. Arrivals'
  BY ArrivalsKept DEF CoherenceInv, Shorter
<1>2. ReadsExpect' /\ WritesLast'
  BY DEF CoherenceInv, ReadsExpect, WritesLast, Held, Forwards, ActRead
<1>3. OnePlace' /\ AllKeys' = AllKeys
  BY DEF CoherenceInv, OnePlace, AllKeys, ActKeys, ActRead, Keys, Key, Distinct
<1> QED
  BY <1>1, <1>2, <1>3 DEF CoherenceInv

\* A command moves keys and changes none.
LEMMA CommandCoherent ==
  ASSUME DramInv, CoherenceInv, GivesCommand
  PROVE  CoherenceInv' /\ AllKeys' = AllKeys
<1>1. TypeOK /\ ActivatedStaysOpen /\ OnePlace /\ Arrivals /\ ValuesOK /\ ReadsExpect /\ WritesLast
  BY DEF DramInv, CoherenceInv, ValuesOK
<1>2. UNCHANGED <<wanted, latest>>
  BY DEF GivesCommand
<1>3. /\ readq \in Seq(Read) /\ writeq \in Seq(Write) /\ actq \in Seq(Read \cup Write)
      /\ mem \in [Lines -> Values]
  BY <1>1 DEF TypeOK
<1>4. ASSUME Arrivals', ValuesOK', OnePlace' /\ AllKeys' = AllKeys
      PROVE  CoherenceInv' /\ AllKeys' = AllKeys
  BY <1>4 DEF CoherenceInv, ValuesOK
<1>5. \A x \in Read : Key(Found(x)) = <<x.id, x.line, mem[x.line]>>
  BY DEF Key, Found
<1>6. CASE GivesNone \/ ClosesRank \/ RefreshesRank \/ ClosesBank
  <2>1. UNCHANGED <<readq, writeq, actq, pendq, wanted, mem, latest>>
    BY <1>2, <1>6 DEF GivesNone, ClosesRank, RefreshesRank, ClosesBank
  <2> QED
    BY <1>1, <2>1, CoherenceKept
<1>7. CASE ReadActivated
  <2> DEFINE x == Head(actq)
  <2>1. /\ actq # <<>> /\ x \in Read /\ pendq' = Append(pendq, Found(x)) /\ actq' = <<>>
        /\ UNCHANGED <<readq, writeq, mem>>
    BY <1>7 DEF ReadActivated
  <2>2. ActRead /\ x.op = "read"
    BY <2>1, RequestTypes DEF ActRead
  <2>3. Key(Found(x)) = Key(x) /\ Found(x) \in Done
    <3>1. Key(Found(x)) = Key(x)
      BY <1>1, <1>5, <2>1, <2>2 DEF ReadsExpect, Key
    <3> QED
      BY <1>1, <2>1, <3>1, FoundType
  <2>4. OnePlace' /\ AllKeys' = AllKeys
    BY <1>1, <1>2, <2>1, <2>2, <2>3, PlacesActDone
  <2>5. Arrivals'
    BY <1>1, <2>1, ArrivalsKept DEF Shorter
  <2>6. \A line \in Lines : Held(line)' = Held(line)
    BY <2>1, <2>2 DEF Held
  <2>7. ~ActRead'
    BY <2>1 DEF ActRead
  <2>8. ValuesOK'
    BY <1>1, <1>2, <2>1, <2>6, <2>7, ValuesKept DEF Shorter
  <2> QED
    BY <1>4, <2>4, <2>5, <2>8
<1>8. CASE WriteActivated
  <2> DEFINE x == Head(actq)
  <2>1. /\ actq # <<>> /\ x \in Write /\ mem' = [mem EXCEPT ![x.line] = x.val] /\ actq' = <<>>
        /\ UNCHANGED <<readq, writeq, pendq>>
    BY <1>8 DEF WriteActivated
  <2>2. x.op = "write" /\ x.line \in Lines
    BY <2>1, RequestTypes
  <2>3. ~ActRead /\ ~ActRead'
    BY <2>1, <2>2 DEF ActRead
  <2>4. /\ ActKeys' = ActKeys /\ Keys(readq)' = Keys(readq) /\ Keys(pendq)' = Keys(pendq)
        /\ Distinct(readq)' /\ Distinct(pendq)'
    BY <1>1, <2>1, <2>3 DEF ActKeys, Keys, Key, Distinct, OnePlace
  <2>5. OnePlace' /\ AllKeys' = AllKeys
    BY <1>1, <1>2, <2>4, PlacesKept
  <2>6. Arrivals'
    BY <1>1, <2>1, ArrivalsKept DEF Shorter
  <2>7. \A line \in Lines : Held(line)' = Held(line)
    BY <1>3, <2>1, <2>2 DEF Held
  <2>8. ValuesOK'
    BY <1>1, <1>2, <2>1, <2>3, <2>7, ValuesKept DEF Shorter
  <2> QED
    BY <1>4, <2>5, <2>6, <2>8
<1>9. CASE OpensForRead
  <2> DEFINE x == Head(readq)
  <2>1. /\ actq = <<>> /\ readq # <<>> /\ readq' = Tail(readq) /\ actq' = <<x>>
        /\ UNCHANGED <<writeq, pendq, mem>>
    BY <1>9 DEF OpensForRead, Opens, FromRead
  <2>2. x \in Read /\ x = readq[1] /\ 1 \in DOMAIN readq
    BY <1>3, <2>1, TailFacts
  <2>3. x.op = "read" /\ Head(actq') = x /\ actq' # <<>>
    BY <2>1, <2>2, RequestTypes
  <2>4. OnePlace' /\ AllKeys' = AllKeys
    BY <1>1, <1>2, <2>1, PlacesActivated
  <2>5. Arrivals'
    BY <1>1, <2>1, ArrivalsKept DEF Shorter
  <2>6. \A line \in Lines : Held(line)' = Held(line)
    BY <2>1, <2>3 DEF Held
  <2>7. x.val = mem[x.line]
    BY <1>1, <2>1, <2>2 DEF ReadsExpect, Held
  <2>8. ValuesOK'
    BY <1>1, <1>2, <2>1, <2>3, <2>6, <2>7, ValuesKept DEF Shorter
  <2> QED
    BY <1>4, <2>4, <2>5, <2>8
<1>10. CASE ReadOpen
  <2> DEFINE x == Head(readq)
  <2>1. /\ actq = <<>> /\ readq # <<>> /\ readq' = Tail(readq)
        /\ pendq' = Append(pendq, Found(x)) /\ UNCHANGED <<writeq, actq, mem>>
    BY <1>10 DEF ReadOpen, FromRead
  <2>2. x \in Read /\ x = readq[1] /\ 1 \in DOMAIN readq
    BY <1>3, <2>1, TailFacts
  <2>3. x.val = mem[x.line]
    BY <1>1, <2>1, <2>2 DEF ReadsExpect, Held
  <2>4. Key(Found(x)) = Key(x) /\ Found(x) \in Done
    <3>1. Key(Found(x)) = Key(x)
      BY <1>5, <2>2, <2>3 DEF Key
    <3> QED
      BY <1>1, <2>2, <3>1, FoundType
  <2>5. OnePlace' /\ AllKeys' = AllKeys
    BY <1>1, <1>2, <2>1, <2>4, PlacesReadDone
  <2>6. Arrivals'
    BY <1>1, <2>1, ArrivalsKept DEF Shorter
  <2>7. (\A line \in Lines : Held(line)' = Held(line)) /\ ~ActRead'
    BY <2>1 DEF Held, ActRead
  <2>8. ValuesOK'
    BY <1>1, <1>2, <2>1, <2>7, ValuesKept DEF Shorter
  <2> QED
    BY <1>4, <2>5, <2>6, <2>8
<1>11. CASE OpensForWrite \/ WriteOpen
  <2> DEFINE x == Head(writeq)
  <2>1. /\ FromWrite /\ actq = <<>> /\ writeq # <<>> /\ writeq' = Tail(writeq)
        /\ UNCHANGED <<readq, pendq>>
        /\ \/ actq' = <<x>> /\ mem' = mem
           \/ actq' = <<>> /\ mem' = [mem EXCEPT ![x.line] = x.val]
    BY <1>11 DEF OpensForWrite, WriteOpen, Opens, FromWrite
  <2>2. x \in Write
    BY <1>3, <2>1, TailFacts
  <2>3. x.op = "write" /\ x.line \in Lines
    BY <2>2, RequestTypes
  <2>4. /\ ~ActRead /\ ~ActRead'
        /\ \A line \in Lines : Held(line)' = IF line = x.line THEN x.val ELSE Held(line)
    <3>1. CASE actq' = <<x>> /\ mem' = mem
      <4>1. Head(actq') = x /\ actq' # <<>>
        BY <3>1
      <4> QED
        BY <2>1, <2>3, <3>1, <4>1 DEF ActRead, Held
    <3>2. CASE actq' = <<>> /\ mem' = [mem EXCEPT ![x.line] = x.val]
      BY <1>3, <2>1, <2>3, <3>2 DEF ActRead, Held
    <3> QED
      BY <2>1, <3>1, <3>2
  <2>5. /\ ActKeys' = ActKeys /\ Keys(readq)' = Keys(readq) /\ Keys(pendq)' = Keys(pendq)
        /\ Distinct(readq)' /\ Distinct(pendq)'
    BY <1>1, <2>1, <2>4 DEF ActKeys, Keys, Key, Distinct, OnePlace
  <2>6. OnePlace' /\ AllKeys' = AllKeys
    BY <1>1, <1>2, <2>5, PlacesKept
  <2>7. Arrivals'
    BY <1>1, <2>1, ArrivalsKept DEF Shorter
  <2>8. ValuesOK'
    BY <1>1, <1>2, <2>1, <2>4, ValuesTaken
  <2> QED
    BY <1>4, <2>6, <2>7, <2>8
<1> QED
  BY <1>6, <1>7, <1>8, <1>9, <1>10, <1>11 DEF GivesCommand

\* A write of the line is activated, or is queued.
Activated(line) == actq # <<>> /\ Head(actq).op = "write" /\ Head(actq).line = line

Waits(line) == Forwards(line) \/ Activated(line)

BanksKept == mem' = mem /\ \A line \in Lines : Waits(line)' <=> Waits(line)

\* What a step does to the keys, to the last writes and to the banks.
KeysStep ==
  \/ \E line \in Lines, r \in ReadIds :
       /\ \A k \in AllKeys : k[1] # r
       /\ AllKeys' = AllKeys \cup {<<r, line, Promised(line)>>}
       /\ latest' = latest /\ BanksKept
  \/ \E line \in Lines, v \in Values :
       /\ AllKeys' = AllKeys
       /\ latest' = [latest EXCEPT ![line] = v] /\ mem' = mem
       /\ \A l \in Lines : Waits(l)' <=> Waits(l) \/ l = line
  \/ \E r \in ReadIds :
       /\ \E k \in AllKeys : k[1] = r
       /\ AllKeys' = {k \in AllKeys : k[1] # r}
       /\ latest' = latest /\ BanksKept
  \/ \E line \in Lines, v \in Values :
       /\ AllKeys' = AllKeys /\ latest' = latest
       /\ Waits(line) /\ mem' = [mem EXCEPT ![line] = v]
       /\ \A l \in Lines : l # line => (Waits(l)' <=> Waits(l))
       /\ Waits(line)' \/ v = latest[line]
  \/ AllKeys' = AllKeys /\ latest' = latest /\ BanksKept

\* The head of the write queue leaves it.
LEMMA ForwardsTail ==
  ASSUME writeq \in Seq(Write), writeq # <<>>, writeq' = Tail(writeq), NEW line
  PROVE  Forwards(line) <=> Forwards(line)' \/ line = Head(writeq).line
<1>1. /\ Head(writeq) = writeq[1] /\ DOMAIN writeq = 1 .. Len(writeq)
      /\ DOMAIN writeq' = 1 .. Len(writeq) - 1 /\ Len(writeq) \in Nat \ {0}
      /\ \A i \in 1 .. Len(writeq) - 1 : writeq'[i] = writeq[i + 1] /\ i + 1 \in 1 .. Len(writeq)
  BY TailFacts
<1>2. \A i \in DOMAIN writeq : i # 1 => i - 1 \in DOMAIN writeq' /\ writeq'[i - 1] = writeq[i]
  BY <1>1
<1>3. ASSUME Forwards(line), line # Head(writeq).line PROVE Forwards(line)'
  BY <1>1, <1>2, <1>3 DEF Forwards
<1>4. Forwards(line)' => Forwards(line)
  BY <1>1 DEF Forwards
<1>5. line = Head(writeq).line => Forwards(line)
  <2>1. 1 \in DOMAIN writeq
    BY <1>1
  <2> QED
    BY <1>1, <2>1 DEF Forwards
<1> QED
  BY <1>3, <1>4, <1>5

\* A command leaves the banks alone, or gives one of them the write that was
\* activated or that heads the queue.
LEMMA CommandBanks ==
  ASSUME DramInv, CoherenceInv, CoherenceInv', GivesCommand, AllKeys' = AllKeys
  PROVE  KeysStep
<1>1. /\ writeq \in Seq(Write) /\ mem \in [Lines -> Values] /\ latest' = latest
      /\ readq \in Seq(Read) /\ actq \in Seq(Read \cup Write)
  BY DEF DramInv, TypeOK, GivesCommand
<1>2. ASSUME BanksKept PROVE KeysStep
  BY <1>1, <1>2 DEF KeysStep
<1>3. ASSUME NEW x \in Write, Waits(x.line), actq' = <<>>,
             mem' = [mem EXCEPT ![x.line] = x.val],
             \A l \in Lines : l # x.line => (Waits(l)' <=> Waits(l))
      PROVE  KeysStep
  <2>1. x.line \in Lines /\ x.val \in Values
    BY RequestTypes
  <2>2. ~Forwards(x.line)' => x.val = latest[x.line]
    <3>1. ~Forwards(x.line)' => latest'[x.line] = mem'[x.line]
      BY <1>3, <2>1 DEF CoherenceInv, WritesLast, Held
    <3>2. mem'[x.line] = x.val
      BY <1>1, <1>3, <2>1
    <3> QED
      BY <1>1, <3>1, <3>2
  <2>3. Waits(x.line)' \/ x.val = latest[x.line]
    BY <2>2 DEF Waits
  <2>4. PICK line \in Lines, v \in Values : line = x.line /\ v = x.val
    BY <2>1
  <2>5. /\ AllKeys' = AllKeys /\ latest' = latest
        /\ Waits(line) /\ mem' = [mem EXCEPT ![line] = v]
        /\ \A l \in Lines : l # line => (Waits(l)' <=> Waits(l))
        /\ Waits(line)' \/ v = latest[line]
    BY <1>1, <1>3, <2>3, <2>4 DEF Waits, Forwards, Activated
  <2> QED
    BY <2>5 DEF KeysStep
<1>4. CASE GivesNone \/ ClosesRank \/ RefreshesRank \/ ClosesBank \/ ReadOpen
  <2>1. UNCHANGED <<writeq, actq, mem>>
    BY <1>4 DEF GivesNone, ClosesRank, RefreshesRank, ClosesBank, ReadOpen
  <2> QED
    BY <1>2, <2>1 DEF BanksKept, Waits, Forwards, Activated
<1>5. CASE ReadActivated
  <2>1. actq' = <<>> /\ Head(actq).op = "read" /\ UNCHANGED <<writeq, mem>>
    BY <1>5, RequestTypes DEF ReadActivated
  <2> QED
    BY <1>2, <2>1 DEF BanksKept, Waits, Forwards, Activated
<1>6. CASE OpensForRead
  <2>1. actq = <<>> /\ actq' = <<Head(readq)>> /\ Head(readq).op = "read" /\ UNCHANGED <<writeq, mem>>
    BY <1>1, <1>6, TailFacts, RequestTypes DEF OpensForRead, Opens, FromRead
  <2>2. Head(actq') = Head(readq)
    BY <2>1
  <2> QED
    BY <1>2, <2>1, <2>2 DEF BanksKept, Waits, Forwards, Activated
<1>7. CASE WriteActivated
  <2>1. /\ actq # <<>> /\ Head(actq) \in Write /\ actq' = <<>> /\ writeq' = writeq
        /\ mem' = [mem EXCEPT ![Head(actq).line] = Head(actq).val]
    BY <1>7 DEF WriteActivated
  <2>2. Head(actq).op = "write"
    BY <2>1, RequestTypes
  <2>3. Waits(Head(actq).line)
    BY <2>1, <2>2 DEF Waits, Activated
  <2>4. \A l \in Lines : l # Head(actq).line => (Waits(l)' <=> Waits(l))
    BY <2>1 DEF Waits, Activated, Forwards
  <2> QED
    BY <1>3, <2>1, <2>3, <2>4
<1>8. CASE OpensForWrite
  <2> DEFINE x == Head(writeq)
  <2>1. actq = <<>> /\ writeq # <<>> /\ writeq' = Tail(writeq) /\ actq' = <<x>> /\ mem' = mem
    BY <1>8 DEF OpensForWrite, Opens, FromWrite
  <2>2. x.op = "write" /\ Head(actq') = x /\ actq' # <<>>
    BY <1>1, <2>1, TailFacts, RequestTypes
  <2>3. \A l \in Lines : Forwards(l) <=> Forwards(l)' \/ l = x.line
    BY <1>1, <2>1, ForwardsTail
  <2>4. \A l \in Lines : Activated(l)' <=> l = x.line
    BY <2>2 DEF Activated
  <2>5. \A l \in Lines : ~Activated(l)
    BY <2>1 DEF Activated
  <2>6. BanksKept
    BY <2>1, <2>3, <2>4, <2>5 DEF BanksKept, Waits
  <2> QED
    BY <1>2, <2>6
<1>9. CASE WriteOpen
  <2> DEFINE x == Head(writeq)
  <2>1. /\ actq = <<>> /\ writeq # <<>> /\ writeq' = Tail(writeq) /\ actq' = <<>>
        /\ mem' = [mem EXCEPT ![x.line] = x.val]
    BY <1>9 DEF WriteOpen, FromWrite
  <2>2. x \in Write
    BY <1>1, <2>1, TailFacts
  <2>3. \A l : Forwards(l) <=> Forwards(l)' \/ l = x.line
    BY <1>1, <2>1, ForwardsTail
  <2>4. \A l \in Lines : ~Activated(l) /\ ~Activated(l)'
    BY <2>1 DEF Activated
  <2>5. Waits(x.line)
    BY <2>3 DEF Waits
  <2>6. \A l \in Lines : l # x.line => (Waits(l)' <=> Waits(l))
    BY <2>3, <2>4 DEF Waits
  <2> QED
    BY <1>3, <2>1, <2>2, <2>5, <2>6
<1> QED
  BY <1>4, <1>5, <1>6, <1>7, <1>8, <1>9 DEF GivesCommand

\* The invariant holds at the start.
LEMMA CoherenceInit == Init => CoherenceInv
<1> SUFFICES ASSUME Init PROVE CoherenceInv
  OBVIOUS
<1>1. DOMAIN readq = {} /\ DOMAIN writeq = {} /\ DOMAIN pendq = {} /\ actq = <<>> /\ latest = mem
  BY DEF Init
<1>2. \A r \in ReadIds : wanted[r] = NoLine
  BY DEF Init
<1>3. Keys(readq) = {} /\ Keys(pendq) = {} /\ ActKeys = {} /\ AllKeys = {}
  BY <1>1 DEF Keys, ActKeys, ActRead, AllKeys
<1>4. OnePlace
  BY <1>1, <1>2, <1>3 DEF OnePlace, Distinct
<1>5. Arrivals
  BY <1>1 DEF Arrivals, Sorted
<1>6. ReadsExpect /\ WritesLast
  BY <1>1 DEF ReadsExpect, WritesLast, ActRead, Held
<1> QED
  BY <1>4, <1>5, <1>6 DEF CoherenceInv

\* Every step keeps the invariant, and changes the keys in one of these ways.
LEMMA CoherenceStep == DramInv /\ CoherenceInv /\ [Next]_vars => CoherenceInv' /\ KeysStep
<1> SUFFICES ASSUME DramInv, CoherenceInv, [Next]_vars PROVE CoherenceInv' /\ KeysStep
  OBVIOUS
<1>1. /\ TypeOK /\ QueuesBounded /\ OnePlace /\ Arrivals /\ ValuesOK
  BY DEF DramInv, CoherenceInv, ValuesOK
<1>2. ASSUME NEW line \in Lines, NEW r \in ReadIds, IssueRead(line, r)
      PROVE  CoherenceInv' /\ KeysStep
  <2> DEFINE x == [op |-> "read", line |-> line, id |-> r, val |-> latest[line], arrive |-> Now]
  <2>1. wanted[r] = NoLine /\ UNCHANGED <<latest, writeq, actq, mem>>
    BY <1>2 DEF IssueRead
  <2>2. OnePlace' /\ AllKeys' = AllKeys \cup {<<r, line, Promised(line)>>}
    BY <1>1, <1>2, PlacesRead
  <2>3. ValuesOK'
    BY <1>1, <1>2, ValuesRead
  <2>4. x \in Read /\ x.line = line /\ x.arrive = Now
    <3>1. Now \in Nat
      BY DramAssumption DEF Now
    <3>2. latest[line] \in Values
      BY <1>1 DEF TypeOK
    <3> QED
      BY <3>1, <3>2 DEF Read
  <2>5. readq' = (IF Forwards(line) THEN readq ELSE Append(readq, x))
    BY <1>2 DEF IssueRead, ReadQueued
  <2> HIDE DEF x
  <2>6. Arrivals'
    <3>1. CASE Forwards(line)
      BY <1>1, <2>1, <2>5, <3>1, ArrivalsKept DEF Shorter
    <3>2. CASE ~Forwards(line)
      BY <1>1, <2>1, <2>4, <2>5, <3>2, ArrivalsRead
    <3> QED
      BY <3>1, <3>2
  <2>7. \A k \in AllKeys : k[1] # r
    BY <1>1, <2>1, NoKey
  <2>9. BanksKept
    BY <2>1 DEF BanksKept, Waits, Forwards, Activated
  <2>8. KeysStep
    BY <2>1, <2>2, <2>7, <2>9 DEF KeysStep
  <2> QED
    BY <2>2, <2>3, <2>6, <2>8 DEF CoherenceInv, ValuesOK
<1>3. ASSUME NEW line \in Lines, NEW v \in Values, IssueWrite(line, v)
      PROVE  CoherenceInv' /\ KeysStep
  <2> DEFINE x == [op |-> "write", line |-> line, val |-> v, arrive |-> Now]
  <2>1. /\ UNCHANGED <<readq, actq, pendq, wanted, mem>> /\ latest' = [latest EXCEPT ![line] = v]
        /\ writeq' = Append(writeq, x)
    BY <1>3 DEF IssueWrite
  <2>2. OnePlace' /\ AllKeys' = AllKeys
    <3>1. /\ ActKeys' = ActKeys /\ Keys(readq)' = Keys(readq) /\ Keys(pendq)' = Keys(pendq)
          /\ Distinct(readq)' /\ Distinct(pendq)'
      BY <1>1, <2>1 DEF ActKeys, ActRead, Keys, Key, Distinct, OnePlace
    <3> QED
      BY <1>1, <2>1, <3>1, PlacesKept
  <2>3. ValuesOK'
    BY <1>1, <1>3, ValuesWrite
  <2>4. x \in Write /\ x.arrive = Now
    <3>1. Now \in Nat
      BY DramAssumption DEF Now
    <3> QED
      BY <3>1 DEF Write
  <2> HIDE DEF x
  <2>5. Arrivals'
    BY <1>1, <2>1, <2>4, ArrivalsWrite
  <2>7. \A l \in Lines : Waits(l)' <=> Waits(l) \/ l = line
    <3>1. x.line = line
      BY DEF x
    <3>2. writeq \in Seq(Write)
      BY <1>1 DEF TypeOK
    <3>3. /\ DOMAIN writeq = 1 .. Len(writeq) /\ DOMAIN writeq' = 1 .. Len(writeq) + 1
          /\ writeq'[Len(writeq) + 1] = x /\ Len(writeq) \in Nat
          /\ \A i \in 1 .. Len(writeq) : writeq'[i] = writeq[i]
          /\ \A i \in 1 .. Len(writeq) + 1 : i \in 1 .. Len(writeq) \/ i = Len(writeq) + 1
      BY <2>1, <2>4, <3>2, AppendFacts
    <3>4. /\ Len(writeq) + 1 \in DOMAIN writeq' /\ \A i \in DOMAIN writeq : i \in DOMAIN writeq'
      BY <3>3
    <3>5. \A l \in Lines : Forwards(l)' <=> Forwards(l) \/ l = line
      BY <3>1, <3>3, <3>4 DEF Forwards
    <3>6. \A l \in Lines : Activated(l)' <=> Activated(l)
      BY <2>1 DEF Activated
    <3> QED
      BY <3>5, <3>6 DEF Waits
  <2>6. KeysStep
    BY <2>1, <2>2, <2>7 DEF KeysStep
  <2> QED
    BY <2>2, <2>3, <2>5, <2>6 DEF CoherenceInv, ValuesOK
<1>4. CASE NextCycle
  <2>1. readq' = Aged(readq) /\ writeq' = Aged(writeq) /\ UNCHANGED <<actq, mem, latest>>
    BY <1>4 DEF NextCycle, history
  <2>2. Arrivals'
    BY <1>1, <2>1, ArrivalsAged
  <2>3. ValuesOK'
    BY <1>1, <2>1, ValuesAged
  <2>4. OnePlace' /\ AllKeys' = AllKeys
    BY <1>1, <1>4, PlacesAged
  <2>5. BanksKept
    <3>1. readq \in Seq(Read) /\ writeq \in Seq(Write)
      BY <1>1 DEF TypeOK
    <3>2. /\ DOMAIN writeq' = 1 .. Len(writeq) /\ DOMAIN writeq = 1 .. Len(writeq)
          /\ \A i \in 1 .. Len(writeq) :
               writeq'[i] = [writeq[i] EXCEPT !.arrive = RankIn(writeq[i].arrive)]
      BY <2>1, <3>1, AgedFacts
    <3>3. \A i \in DOMAIN writeq : writeq[i] \in Write
      BY <3>1
    <3>4. \A i \in DOMAIN writeq : writeq'[i].line = writeq[i].line
      BY <3>2, <3>3 DEF Write
    <3>5. \A l \in Lines : Forwards(l)' <=> Forwards(l)
      BY <3>2, <3>4 DEF Forwards
    <3> QED
      BY <2>1, <3>5 DEF BanksKept, Waits, Activated
  <2> QED
    BY <2>1, <2>2, <2>3, <2>4, <2>5 DEF CoherenceInv, ValuesOK, KeysStep
<1>5. CASE Answer
  <2>1. UNCHANGED <<readq, writeq, actq, mem, latest>>
    BY <1>5 DEF Answer
  <2>4. BanksKept
    BY <2>1 DEF BanksKept, Waits, Forwards, Activated
  <2>2. CASE ~AnswerDue
    <3>1. UNCHANGED <<readq, writeq, actq, pendq, wanted, mem, latest>>
      BY <1>5, <2>1, <2>2 DEF Answer
    <3>2. CoherenceInv' /\ AllKeys' = AllKeys
      BY <1>1, <3>1, CoherenceKept
    <3> QED
      BY <2>1, <2>4, <3>2 DEF KeysStep
  <2>3. CASE AnswerDue
    <3> DEFINE r == Head(pendq).id
    <3>1. pendq' = Tail(pendq) /\ wanted' = [wanted EXCEPT ![Head(pendq).id] = NoLine]
      BY <1>5, <2>3 DEF Answer
    <3>2. /\ OnePlace' /\ Key(Head(pendq)) \in AllKeys
          /\ AllKeys' = {k \in AllKeys : k[1] # r}
      BY <1>1, <2>1, <2>3, <3>1, PlacesAnswer
    <3>3. Key(Head(pendq))[1] = r /\ r \in ReadIds
      <4>1. Head(pendq) \in Done
        BY <1>1, <2>3, TailFacts DEF TypeOK, AnswerDue
      <4> QED
        BY <4>1, RequestTypes DEF Key
    <3>4. Arrivals'
      BY <1>1, <2>1, ArrivalsKept DEF Shorter
    <3>5. ReadsExpect' /\ WritesLast'
      BY <1>1, <2>1 DEF ValuesOK, ReadsExpect, WritesLast, Held, Forwards, ActRead
    <3>6. KeysStep
      <4> HIDE DEF r
      <4>1. \E k \in AllKeys : k[1] = r
        BY <3>2, <3>3
      <4> QED
        BY <2>1, <2>4, <3>2, <3>3, <4>1 DEF KeysStep
    <3> QED
      BY <3>2, <3>4, <3>5, <3>6 DEF CoherenceInv
  <2> QED
    BY <2>2, <2>3
<1>6. CASE QueueRefresh \/ UNCHANGED vars
  <2>1. UNCHANGED <<readq, writeq, actq, pendq, wanted, mem, latest>>
    BY <1>6 DEF QueueRefresh, history, vars, queues
  <2>2. CoherenceInv' /\ AllKeys' = AllKeys
    BY <1>1, <2>1, CoherenceKept
  <2>3. BanksKept
    BY <2>1 DEF BanksKept, Waits, Forwards, Activated
  <2> QED
    BY <2>1, <2>2, <2>3 DEF KeysStep
<1>7. CASE Schedule
  <2>1. GivesCommand
    BY <1>7, ScheduleMoves
  <2>2. CoherenceInv' /\ AllKeys' = AllKeys
    BY <2>1, CommandCoherent
  <2> QED
    BY <2>1, <2>2, CommandBanks
<1> QED
  BY <1>2, <1>3, <1>4, <1>5, <1>6, <1>7 DEF Next, Tick

\* The coherence invariant: reads in one place, queues in the order of arrival,
\* reads that expect what they find and writes that are the last of their line.
THEOREM DramCoherent == Spec => []CoherenceInv
<1>1. Init => CoherenceInv
  BY CoherenceInit
<1>2. DramInv /\ CoherenceInv /\ [Next]_vars => CoherenceInv'
  BY CoherenceStep
<1> QED
  BY <1>1, <1>2, DramConsistent, PTL DEF Spec

(***************************************************************************)
(* No read is lost                                                         *)
(***************************************************************************)
\* The places of a read in the queues.
LEMMA PlacesUnique ==
  ASSUME DramInv, CoherenceInv
  PROVE  ReadsConserved
<1>1. TypeOK /\ OnePlace /\ ActivatedStaysOpen
  BY DEF DramInv, CoherenceInv
<1>2. /\ \A i \in DOMAIN readq : Key(readq[i]) \in Keys(readq)
      /\ \A i \in DOMAIN pendq : Key(pendq[i]) \in Keys(pendq)
  BY DEF Keys
<1>3. \A x : Key(x)[1] = x.id /\ Key(x)[2] = x.line
  BY DEF Key
<1>4. actq # <<>> => DOMAIN actq = {1} /\ Head(actq) = actq[1]
  BY <1>1, SingleFacts DEF TypeOK, ActivatedStaysOpen
<1>5. \A i \in DOMAIN actq : actq[i].op = "read" => i = 1 /\ Key(actq[1]) \in ActKeys
  BY <1>4 DEF ActKeys, ActRead
<1> SUFFICES ASSUME NEW r \in ReadIds
             PROVE  IF wanted[r] = NoLine THEN Places(r) = {}
                    ELSE \E p \in Places(r) : Places(r) = {p} /\ p[3] = wanted[r]
  BY DEF ReadsConserved
<1> DEFINE R == {j \in DOMAIN readq : readq[j].id = r}
           A == {j \in DOMAIN actq : actq[j].op = "read" /\ actq[j].id = r}
           P == {j \in DOMAIN pendq : pendq[j].id = r}
<1>6. Places(r) = {<<"read", i, readq[i].line>> : i \in R}
                    \cup {<<"act", i, actq[i].line>> : i \in A}
                    \cup {<<"pend", i, pendq[i].line>> : i \in P}
  BY DEF Places
<1>7. CASE wanted[r] = NoLine
  <2>1. \A k \in AllKeys : k[1] # r
    BY <1>1, <1>7, NoKey
  <2>2. R = {} /\ A = {} /\ P = {}
    BY <1>2, <1>3, <1>5, <2>1 DEF AllKeys
  <2> HIDE DEF R, A, P
  <2>3. Places(r) = {}
    BY <1>6, <2>2
  <2> QED
    BY <1>7, <2>3
<1>8. CASE wanted[r] # NoLine
  <2>1. PICK k \in AllKeys : k[1] = r
    BY <1>1, <1>8 DEF OnePlace
  <2>2. CASE k \in Keys(readq)
    <3>1. PICK i \in DOMAIN readq : k = Key(readq[i])
      BY <2>2 DEF Keys
    <3>2. R = {i}
      BY <1>1, <1>3, <2>1, <3>1 DEF OnePlace, Distinct
    <3>3. A = {} /\ P = {}
      BY <1>1, <1>2, <1>3, <1>5, <2>1, <2>2 DEF OnePlace
    <3>4. wanted[r] = readq[i].line
      BY <1>1, <1>3, <2>1, <3>1 DEF OnePlace
    <3> HIDE DEF R, A, P
    <3>5. Places(r) = {<<"read", i, readq[i].line>>}
      BY <1>6, <3>2, <3>3
    <3> QED
      BY <1>8, <3>4, <3>5
  <2>3. CASE k \in ActKeys
    <3>1. ActRead /\ k = Key(actq[1]) /\ actq[1].op = "read" /\ DOMAIN actq = {1}
      BY <1>4, <2>3 DEF ActKeys, ActRead
    <3>2. A = {1}
      BY <1>3, <2>1, <3>1
    <3>3. R = {} /\ P = {}
      BY <1>1, <1>2, <1>3, <2>1, <2>3 DEF OnePlace
    <3>4. wanted[r] = actq[1].line
      BY <1>1, <1>3, <2>1, <3>1 DEF OnePlace
    <3> HIDE DEF R, A, P
    <3>5. Places(r) = {<<"act", 1, actq[1].line>>}
      BY <1>6, <3>2, <3>3
    <3> QED
      BY <1>8, <3>4, <3>5
  <2>4. CASE k \in Keys(pendq)
    <3>1. PICK i \in DOMAIN pendq : k = Key(pendq[i])
      BY <2>4 DEF Keys
    <3>2. P = {i}
      BY <1>1, <1>3, <2>1, <3>1 DEF OnePlace, Distinct
    <3>3. A = {} /\ R = {}
      BY <1>1, <1>2, <1>3, <1>5, <2>1, <2>4 DEF OnePlace
    <3>4. wanted[r] = pendq[i].line
      BY <1>1, <1>3, <2>1, <3>1 DEF OnePlace
    <3> HIDE DEF R, A, P
    <3>5. Places(r) = {<<"pend", i, pendq[i].line>>}
      BY <1>6, <3>2, <3>3
    <3> QED
      BY <1>8, <3>4, <3>5
  <2> QED
    BY <2>2, <2>3, <2>4 DEF AllKeys
<1> QED
  BY <1>7, <1>8

\* A read that was accepted is in exactly one queue until its callback is
\* called, for the line it asked for.
THEOREM ReadsKept == Spec => []ReadsConserved
<1>1. DramInv /\ CoherenceInv => ReadsConserved
  BY PlacesUnique
<1> QED
  BY <1>1, DramConsistent, DramCoherent, PTL

(***************************************************************************)
(* The controller implements a memory without queues                       *)
(***************************************************************************)
\* The key of a read is what the memory has promised to its callback.
AskedByKey ==
  \A r \in ReadIds :
    /\ \A k \in AllKeys : k[1] = r => Asked(r) = [line |-> k[2], val |-> k[3]]
    /\ (\A k \in AllKeys : k[1] # r) => Asked(r) = NoLine

\* What Asked chooses is determined by the keys.
LEMMA AskedFacts == DramInv /\ CoherenceInv => AskedByKey
<1> SUFFICES ASSUME DramInv, CoherenceInv, NEW r \in ReadIds
             PROVE  /\ \A k \in AllKeys : k[1] = r => Asked(r) = [line |-> k[2], val |-> k[3]]
                    /\ (\A k \in AllKeys : k[1] # r) => Asked(r) = NoLine
  BY DEF AskedByKey
<1> DEFINE activated == {x \in {actq[i] : i \in DOMAIN actq} : x.op = "read"}
           all == {readq[i] : i \in DOMAIN readq} \cup activated
                    \cup {pendq[i] : i \in DOMAIN pendq}
           reads == {x \in all : x.id = r}
           read == CHOOSE x \in reads : TRUE
<1>1. Asked(r) = IF reads = {} THEN NoLine ELSE [line |-> read.line, val |-> read.val]
  BY DEF Asked
<1>2. TypeOK /\ OnePlace /\ ActivatedStaysOpen
  BY DEF DramInv, CoherenceInv
<1>3. \A x : Key(x)[1] = x.id /\ Key(x)[2] = x.line /\ Key(x)[3] = x.val
  BY DEF Key
<1>4. actq # <<>> => DOMAIN actq = {1} /\ Head(actq) = actq[1]
  BY <1>2, SingleFacts DEF TypeOK, ActivatedStaysOpen
<1>5. \A x \in activated : Key(x) \in ActKeys
  BY <1>4 DEF ActKeys, ActRead
<1>6. \A k \in ActKeys : \E x \in activated : k = Key(x)
  <2> SUFFICES ASSUME ActRead PROVE Head(actq) \in activated
    BY DEF ActKeys
  <2> QED
    BY <1>4 DEF ActRead
<1>7. \A x \in all : Key(x) \in AllKeys
  BY <1>5 DEF AllKeys, Keys
<1>8. \A k \in AllKeys : \E x \in all : k = Key(x)
  BY <1>6 DEF AllKeys, Keys
<1>9. \A k \in AllKeys, m \in AllKeys : k[1] = m[1] => k = m
  <2>1. \A k \in Keys(readq), m \in Keys(readq) : k[1] = m[1] => k = m
    BY <1>2, <1>3 DEF Keys, OnePlace, Distinct
  <2>2. \A k \in Keys(pendq), m \in Keys(pendq) : k[1] = m[1] => k = m
    BY <1>2, <1>3 DEF Keys, OnePlace, Distinct
  <2>3. \A k \in ActKeys, m \in ActKeys : k = m
    BY DEF ActKeys
  <2> QED
    BY <1>2, <2>1, <2>2, <2>3 DEF AllKeys, OnePlace
<1> HIDE DEF all
<1>10. ASSUME NEW k \in AllKeys, k[1] = r
       PROVE  Asked(r) = [line |-> k[2], val |-> k[3]]
  <2>1. reads # {}
    BY <1>3, <1>8, <1>10
  <2>2. read \in reads
    BY <2>1
  <2>3. Key(read) \in AllKeys /\ Key(read)[1] = r
    BY <1>3, <1>7, <2>2
  <2>4. Key(read) = k
    BY <1>9, <1>10, <2>3
  <2>5. read.line = k[2] /\ read.val = k[3]
    BY <1>3, <2>4
  <2> HIDE DEF reads, read
  <2> QED
    BY <1>1, <2>1, <2>5
<1>11. ASSUME \A k \in AllKeys : k[1] # r
       PROVE  Asked(r) = NoLine
  <2>1. reads = {}
    BY <1>3, <1>7, <1>11
  <2> QED
    BY <1>1, <2>1
<1> QED
  BY <1>10, <1>11

\* The lines that have a write under way.
WaitsKnown == Unwritten \subseteq Lines /\ \A line \in Lines : line \in Unwritten <=> Waits(line)

LEMMA WaitsFacts == DramInv => WaitsKnown
<1> SUFFICES ASSUME DramInv PROVE WaitsKnown
  OBVIOUS
<1>1. writeq \in Seq(Write) /\ actq \in Seq(Read \cup Write) /\ Len(actq) <= 1
  BY DEF DramInv, TypeOK, ActivatedStaysOpen
<1>2. actq # <<>> => DOMAIN actq = {1} /\ Head(actq) = actq[1]
  BY <1>1, SingleFacts
<1>3. actq = <<>> => DOMAIN actq = {}
  OBVIOUS
<1>4. \A i \in DOMAIN writeq : writeq[i].line \in Lines
  BY <1>1, RequestTypes
<1>5. \A i \in DOMAIN actq : actq[i] \in Read \cup Write
  BY <1>1
<1>6. \A i \in DOMAIN actq : actq[i].line \in Lines
  BY <1>5, RequestTypes
<1>7. Unwritten \subseteq Lines
  BY <1>4, <1>6 DEF Unwritten
<1>8. ASSUME NEW line \in Lines PROVE line \in Unwritten <=> Waits(line)
  <2>1. (\E i \in DOMAIN actq : actq[i].op = "write" /\ actq[i].line = line) <=> Activated(line)
    BY <1>2, <1>3 DEF Activated
  <2> QED
    BY <2>1 DEF Unwritten, Waits, Forwards
<1> QED
  BY <1>7, <1>8 DEF WaitsKnown

\* Every step of the controller is a step of the memory, or changes nothing
\* that the memory shows.
LEMMA MemoryStep ==
  ASSUME TypeOK, KeysStep, AskedByKey, AskedByKey', WaitsKnown, WaitsKnown',
         \A k \in AllKeys : k[1] \in ReadIds,
         \A k \in AllKeys : [line |-> k[2], val |-> k[3]] # NoLine
  PROVE  [Memory!Next]_(Memory!vars)
<1> DEFINE asked == [r \in ReadIds |-> Asked(r)]
<1>1. \A r \in ReadIds :
        /\ \A k \in AllKeys : k[1] = r => Asked(r) = [line |-> k[2], val |-> k[3]]
        /\ (\A k \in AllKeys : k[1] # r) => Asked(r) = NoLine
  BY DEF AskedByKey
<1>2. \A r \in ReadIds :
        /\ \A k \in AllKeys' : k[1] = r => Asked(r)' = [line |-> k[2], val |-> k[3]]
        /\ (\A k \in AllKeys' : k[1] # r) => Asked(r)' = NoLine
  BY DEF AskedByKey
<1>3. asked' = [r \in ReadIds |-> Asked(r)']
  OBVIOUS
<1>4. ASSUME AllKeys' = AllKeys
      PROVE  asked' = asked
  <2>1. \A r \in ReadIds : Asked(r)' = Asked(r)
    BY <1>1, <1>2, <1>4
  <2> QED
    BY <1>3, <2>1
<1>5. /\ Unwritten \subseteq Lines /\ \A l \in Lines : l \in Unwritten <=> Waits(l)
      /\ Unwritten' \subseteq Lines /\ \A l \in Lines : l \in Unwritten' <=> Waits(l)'
  BY DEF WaitsKnown
<1>6. BanksKept => mem' = mem /\ Unwritten' = Unwritten
  BY <1>5 DEF BanksKept
<1>7. ASSUME NEW line \in Lines, NEW r \in ReadIds, \A k \in AllKeys : k[1] # r,
             AllKeys' = AllKeys \cup {<<r, line, Promised(line)>>}, latest' = latest, BanksKept
      PROVE  Memory!AcceptRead(r, line) \/ Memory!ForwardRead(r, line)
  <2> DEFINE h == <<r, line, Promised(line)>>
  <2>1. h[1] = r /\ h[2] = line /\ h[3] = Promised(line) /\ h \in AllKeys'
    BY <1>7
  <2> HIDE DEF h
  <2>2. Asked(r) = NoLine
    BY <1>1, <1>7
  <2>3. Asked(r)' = [line |-> line, val |-> Promised(line)]
    BY <1>2, <2>1
  <2>4. \A s \in ReadIds : s # r => Asked(s)' = Asked(s)
    <3> SUFFICES ASSUME NEW s \in ReadIds, s # r PROVE Asked(s)' = Asked(s)
      OBVIOUS
    <3>1. \A k : k \in AllKeys' /\ k[1] = s <=> k \in AllKeys /\ k[1] = s
      BY <1>7, <2>1 DEF h
    <3> QED
      BY <1>1, <1>2, <3>1
  <2>5. asked[r] = NoLine /\ asked' = [asked EXCEPT ![r] = [line |-> line, val |-> Promised(line)]]
    BY <1>3, <2>2, <2>3, <2>4
  <2>6. CASE Forwards(line)
    <3>1. line \in Unwritten /\ Promised(line) = NoValue
      BY <1>5, <2>6 DEF Waits, Promised
    <3> QED
      BY <1>6, <1>7, <2>5, <3>1 DEF Memory!ForwardRead
  <2>7. CASE ~Forwards(line)
    <3>1. Promised(line) = latest[line]
      BY <2>7 DEF Promised
    <3> QED
      BY <1>6, <1>7, <2>5, <3>1 DEF Memory!AcceptRead
  <2> QED
    BY <2>6, <2>7
<1>8. ASSUME NEW r \in ReadIds, \E k \in AllKeys : k[1] = r,
             AllKeys' = {k \in AllKeys : k[1] # r}, latest' = latest, BanksKept
      PROVE  Memory!Answer(r)
  <2>1. Asked(r) # NoLine
    BY <1>1, <1>8
  <2>2. Asked(r)' = NoLine
    BY <1>2, <1>8
  <2>3. \A s \in ReadIds : s # r => Asked(s)' = Asked(s)
    <3> SUFFICES ASSUME NEW s \in ReadIds, s # r PROVE Asked(s)' = Asked(s)
      OBVIOUS
    <3>1. \A k : k \in AllKeys' /\ k[1] = s <=> k \in AllKeys /\ k[1] = s
      BY <1>8
    <3> QED
      BY <1>1, <1>2, <3>1
  <2>4. asked[r] # NoLine /\ asked' = [asked EXCEPT ![r] = NoLine]
    BY <1>3, <2>1, <2>2, <2>3
  <2> QED
    BY <1>6, <1>8, <2>4 DEF Memory!Answer
<1>9. ASSUME NEW line \in Lines, NEW v \in Values, AllKeys' = AllKeys,
             latest' = [latest EXCEPT ![line] = v], mem' = mem,
             \A l \in Lines : Waits(l)' <=> Waits(l) \/ l = line
      PROVE  Memory!AcceptWrite(line, v)
  <2>1. Unwritten' = Unwritten \cup {line}
    BY <1>5, <1>9
  <2> QED
    BY <1>4, <1>9, <2>1 DEF Memory!AcceptWrite
<1>10. ASSUME NEW line \in Lines, NEW v \in Values, AllKeys' = AllKeys, latest' = latest,
              Waits(line), mem' = [mem EXCEPT ![line] = v],
              \A l \in Lines : l # line => (Waits(l)' <=> Waits(l)),
              Waits(line)' \/ v = latest[line]
       PROVE  Memory!WriteBank(line, v)
  <2>1. line \in Unwritten
    BY <1>5, <1>10
  <2>2. CASE Waits(line)'
    <3>1. Unwritten' = Unwritten
      BY <1>5, <1>10, <2>2
    <3> QED
      BY <1>4, <1>10, <2>1, <3>1 DEF Memory!WriteBank
  <2>3. CASE ~Waits(line)'
    <3>1. Unwritten' = Unwritten \ {line}
      BY <1>5, <1>10, <2>3
    <3> QED
      BY <1>4, <1>10, <2>1, <2>3, <3>1 DEF Memory!WriteBank
  <2> QED
    BY <2>2, <2>3
<1>11. ASSUME AllKeys' = AllKeys, latest' = latest, BanksKept
       PROVE  UNCHANGED Memory!vars
  BY <1>4, <1>6, <1>11 DEF Memory!vars
<1> QED
  BY <1>7, <1>8, <1>9, <1>10, <1>11 DEF KeysStep, Memory!Next

\* The controller implements CoherentMemory: a read of a bank sees the last
\* write that was issued before it, and no later one, whether it waits in the
\* read queue or behind an activated request; a line without a write under way
\* holds the last write; only a read of a line with one is forwarded.
THEOREM DramImplementsMemory == Spec => ReadsCoherent
<1>1. Init => Memory!Init
  <2> SUFFICES ASSUME Init PROVE Memory!Init
    OBVIOUS
  <2>1. latest \in [Lines -> Values] /\ mem = latest
    BY DEF Init
  <2>2. DramInv /\ CoherenceInv
    BY InitInv, CoherenceInit
  <2>3. AskedByKey
    BY <2>2, AskedFacts
  <2>4. AllKeys = {}
    BY DEF Init, AllKeys, Keys, ActKeys, ActRead
  <2>5. \A r \in ReadIds : Asked(r) = NoLine
    BY <2>3, <2>4 DEF AskedByKey
  <2>6. Unwritten = {}
    BY DEF Init, Unwritten
  <2> QED
    BY <2>1, <2>5, <2>6 DEF Memory!Init
<1>2. /\ DramInv /\ CoherenceInv /\ AskedByKey /\ AskedByKey' /\ WaitsKnown /\ WaitsKnown'
      /\ [Next]_vars
      => [Memory!Next]_(Memory!vars)
  <2> SUFFICES ASSUME DramInv, CoherenceInv, AskedByKey, AskedByKey', WaitsKnown, WaitsKnown',
                      [Next]_vars
               PROVE  [Memory!Next]_(Memory!vars)
    OBVIOUS
  <2>1. TypeOK /\ KeysStep
    BY CoherenceStep DEF DramInv
  <2>2. \A k \in AllKeys :
          k[1] \in ReadIds /\ k[2] \in Lines /\ k[3] \in Values \cup {NoValue}
    BY <2>1, KeyTypes
  <2>3. \A k \in AllKeys : [line |-> k[2], val |-> k[3]] # NoLine
    BY <2>2, DramAssumption
  <2> QED
    BY <2>1, <2>2, <2>3, MemoryStep
<1>3. DramInv /\ CoherenceInv => AskedByKey /\ WaitsKnown
  BY AskedFacts, WaitsFacts
<1> QED
  BY <1>1, <1>2, <1>3, DramConsistent, DramCoherent, PTL DEF Spec, ReadsCoherent, Memory!Spec
=============================================================================
