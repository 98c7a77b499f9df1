---------------------------- MODULE RmwProofs ----------------------------
(***************************************************************************)
(* Machine-checked proofs about Rmw, for every value of its constants.     *)
(*                                                                         *)
(* First the types.  Then EntryInv, which is inductive: each way in which  *)
(* an action changes an entry keeps EntryOK, and that is lifted to the     *)
(* buffer, action by action.  The safety properties of the buffer follow   *)
(* from it, the last of them with a bound on what is queued.               *)
(*                                                                         *)
(* Then CallsInv, which says where the callback of each read is.  It is    *)
(* inductive while no line has two reads in flight, and no read is lost    *)
(* or answered twice because of it.                                        *)
(***************************************************************************)
EXTENDS Rmw, FiniteSetTheorems, FunctionTheorems, SequenceTheorems, TLAPS

USE SizesAssumption, LatencyAssumption

(***************************************************************************)
(* Types of the operators that the actions are built from                  *)
(***************************************************************************)

\* NoEntry, the value of a block without an entry, is an Entry.
LEMMA NoEntryType == NoEntry \in Entry
  BY DEF NoEntry, Entry, States, NoCallbacks, Callbacks, ClkInvalid

\* The constructor of buffer_entry makes an Entry.
LEMMA NewEntryType ==
  ASSUME NEW type \in Types, NEW lines \in SUBSET CL
  PROVE  NewEntry(type, lines) \in Entry
<1>1. NoEntry \in Entry /\ Now \in Nat
  BY NoEntryType DEF Now
<1> QED
  BY <1>1 DEF NewEntry, Entry, States

\* assign_new_request keeps an Entry an Entry.
LEMMA AssignNewRequestType ==
  ASSUME NEW e \in Entry, NEW type \in Types, NEW lines \in SUBSET CL
  PROVE  AssignNewRequest(e, type, lines) \in Entry
  BY DEF AssignNewRequest, Entry, States, Types

\* assign_callback keeps an Entry an Entry.
LEMMA AssignCallbackType ==
  ASSUME NEW e \in Entry, NEW c \in CL, NEW cb \in Callbacks
  PROVE  AssignCallback(e, c, cb) \in Entry
<1>1. [e.cbs EXCEPT ![c] = cb] \in [CL -> Callbacks]
  BY DEF Entry
<1>2. Append(e.cbq, c) \in Seq(CL)
  BY DEF Entry
<1> QED
  BY <1>1, <1>2 DEF AssignCallback, Entry

\* reset_callback keeps an Entry an Entry.
LEMMA ResetCallbackType ==
  ASSUME NEW e \in Entry
  PROVE  ResetCallback(e) \in Entry
  BY DEF ResetCallback, Entry, NoCallbacks, Callbacks

\* A subsequence of a queue is a queue.
LEMMA PickType ==
  ASSUME NEW S, NEW q \in Seq(S), NEW K \in SUBSET DOMAIN q, NEW s \in Pick(q, K)
  PROVE  s \in Seq(S)
<1>1. IsFiniteSet(DOMAIN q)
  BY FS_Interval
<1>2. Cardinality(K) \in Nat
  BY <1>1, FS_Subset, FS_CardinalityType
<1>3. PICK f \in [1 .. Cardinality(K) -> K] : s = [k \in 1 .. Cardinality(K) |-> q[f[k]]]
  BY DEF Pick
<1>4. \A k \in 1 .. Cardinality(K) : q[f[k]] \in S
  BY <1>2, <1>3
<1>5. s \in [1 .. Cardinality(K) -> S]
  BY <1>3, <1>4
<1> QED
  BY <1>2, <1>5

\* A rank is a number.
LEMMA RankType ==
  ASSUME TypeOK, NEW b \in Blocks
  PROVE  Rank(b) \in Nat
<1> DEFINE younger == {x \in Cached : ent[x].used < ent[b].used}
<1>1. IsFiniteSet(younger)
  BY FS_Subset DEF Cached
<1> DEFINE stamps == {ent[c].used : c \in younger}
           stamp == [c \in younger |-> ent[c].used]
<1>2. stamp \in Surjection(younger, stamps)
  BY DEF Surjection
<1>3. IsFiniteSet(stamps)
  BY <1>1, <1>2, FS_Surjection
<1> QED
  BY <1>3, FS_CardinalityType DEF Rank

\* The updates of an entry that the state transitions are made of.
LEMMA UpdateType ==
  ASSUME NEW e \in Entry, NEW state \in States, NEW n \in Nat \cup {ClkInvalid},
         NEW pending \in BOOLEAN, NEW waiting \in BOOLEAN,
         NEW valid \in BOOLEAN, NEW dirty \in BOOLEAN
  PROVE  /\ [e EXCEPT !.state = state, !.used = Now, !.wait = n] \in Entry
         /\ [e EXCEPT !.state = state, !.used = Now, !.wait = n, !.waiting = waiting] \in Entry
         /\ [e EXCEPT !.state = state, !.pending = pending, !.dirty = dirty,
                      !.valid = valid, !.used = Now, !.waiting = waiting, !.wait = n] \in Entry
         /\ [e EXCEPT !.state = state, !.pending = pending, !.valid = valid, !.used = Now,
                      !.waiting = waiting, !.wait = n] \in Entry
         /\ [e EXCEPT !.state = state, !.pending = pending, !.dirty = dirty,
                      !.used = Now] \in Entry
         /\ [e EXCEPT !.state = state, !.valid = valid, !.used = Now, !.waiting = waiting,
                      !.wait = n] \in Entry
         /\ [e EXCEPT !.waiting = waiting, !.wait = n] \in Entry
<1>1. Now \in Nat
  BY DEF Now
<1>2. [e EXCEPT !.state = state, !.used = Now, !.wait = n] \in Entry
  BY <1>1 DEF Entry
<1>3. [e EXCEPT !.state = state, !.used = Now, !.wait = n, !.waiting = waiting] \in Entry
  BY <1>1 DEF Entry
<1>4. [e EXCEPT !.state = state, !.pending = pending, !.dirty = dirty,
                !.valid = valid, !.used = Now, !.waiting = waiting, !.wait = n] \in Entry
  BY <1>1 DEF Entry
<1>5. [e EXCEPT !.state = state, !.pending = pending, !.valid = valid, !.used = Now,
                !.waiting = waiting, !.wait = n] \in Entry
  BY <1>1 DEF Entry
<1>6. [e EXCEPT !.state = state, !.pending = pending, !.dirty = dirty, !.used = Now] \in Entry
  BY <1>1 DEF Entry
<1>7. [e EXCEPT !.state = state, !.valid = valid, !.used = Now, !.waiting = waiting,
                !.wait = n] \in Entry
  BY <1>1 DEF Entry
<1>8. [e EXCEPT !.waiting = waiting, !.wait = n] \in Entry
  BY <1>1 DEF Entry
<1> QED
  BY <1>2, <1>3, <1>4, <1>5, <1>6, <1>7, <1>8

\* A change of the lines of an entry.
LEMMA LinesType ==
  ASSUME NEW e \in Entry, NEW lines \in SUBSET CL
  PROVE  [e EXCEPT !.cl = lines] \in Entry
  BY DEF Entry

\* A change of the reads that are left to read out.
LEMMA ReadoutType ==
  ASSUME NEW e \in Entry, NEW rest \in Seq(CL), NEW state \in States, NEW pending \in BOOLEAN
  PROVE  [e EXCEPT !.cbq = rest, !.used = Now, !.state = state, !.pending = pending] \in Entry
<1>1. Now \in Nat
  BY DEF Now
<1> QED
  BY <1>1 DEF Entry

\* Eviction leaves a buffer.
LEMMA CheckAndEvictType ==
  ASSUME TypeOK, NEW m \in CheckAndEvict
  PROVE  m \in [Blocks -> Entry]
  BY NoEntryType, SMTT(30) DEF TypeOK, CheckAndEvict, Oldest, Cached

(***************************************************************************)
(* Type correctness                                                        *)
(***************************************************************************)

\* Every part of tick_lsq leaves a buffer of entries.
LEMMA TickLsqType ==
  ASSUME TypeOK, TickLsq
  PROVE  TypeOK'
<1> USE DEF TypeOK, LsqDone
<1>1. ASSUME lsq # <<>>
      PROVE  Front \in Request /\ Tail(lsq) \in Seq(Request)
  BY <1>1 DEF Front
<1>2. CASE TickLsqRead
  <2> USE <1>2 DEF TickLsqRead
  <2>1. Front \in Request /\ Front.blk \in Blocks /\ Front.cl \in CL /\ Front.cb \in Callbacks
    BY <1>1 DEF Request
  <2>2. CASE LsqReadMiss /\ lsq' = Tail(lsq)
    <3>1. PICK m \in CheckAndEvict :
            ent' = [m EXCEPT ![Front.blk] =
                      AssignCallback(ResetCallback(NewEntry("read_cold", {Front.cl})),
                                     Front.cl, Front.cb)]
      BY <2>2 DEF LsqReadMiss
    <3>2. AssignCallback(ResetCallback(NewEntry("read_cold", {Front.cl})), Front.cl, Front.cb)
            \in Entry
      BY <2>1, NewEntryType, ResetCallbackType, AssignCallbackType DEF Types, ReadTypes
    <3>3. ent' \in [Blocks -> Entry]
      BY <3>1, <3>2, CheckAndEvictType
    <3> QED
      BY <1>1, <2>2, <3>3
  <2>3. CASE LsqReadPatch /\ lsq' = Tail(lsq)
    <3>1. AssignCallback(ent[Front.blk], Front.cl, Front.cb) \in Entry
      BY <2>1, AssignCallbackType
    <3> QED
      BY <1>1, <2>3, <3>1 DEF LsqReadPatch
  <2>4. CASE LsqReadForward /\ lsq' = Tail(lsq)
    <3>1. AssignCallback(ResetCallback(AssignNewRequest(ent[Front.blk], "read_ff", {Front.cl})),
                         Front.cl, Front.cb) \in Entry
      BY <2>1, AssignNewRequestType, ResetCallbackType, AssignCallbackType DEF Types, ReadTypes
    <3> QED
      BY <1>1, <2>4, <3>1 DEF LsqReadForward
  <2>5. CASE ~ReadServed /\ UNCHANGED <<lsq, ent>>
    BY <2>5
  <2> QED
    BY <2>2, <2>3, <2>4, <2>5
<1>3. CASE TickLsqWrite
  <2> USE <1>3 DEF TickLsqWrite
  <2>1. Front \in Request /\ Front.blk \in Blocks /\ LinesHit \in SUBSET CL
    <3>1. Front \in Request /\ Front.blk \in Blocks
      BY <1>1 DEF Request
    <3>2. \A i \in Combined : lsq[i] \in Request
      BY DEF Combined
    <3>3. \A i \in Combined : lsq[i].cl \in CL
      BY <3>2 DEF Request
    <3> QED
      BY <3>1, <3>3 DEF LinesHit
  <2>2. ASSUME TakeWrites
        PROVE  lsq' \in Seq(Request) /\ owed' \in [Blocks -> SUBSET CL]
    <3>1. PICK s \in Pick(lsq, DOMAIN lsq \ Combined) : lsq' = s
      BY <2>2 DEF TakeWrites
    <3>2. s \in Seq(Request)
      BY PickType
    <3> QED
      BY <2>1, <2>2, <3>1, <3>2 DEF TakeWrites
  <2>3. CASE LsqWriteMiss /\ TakeWrites
    <3>1. PICK m \in CheckAndEvict :
            ent' = [m EXCEPT ![Front.blk] = NewEntry(WriteTypeFor(LinesHit), LinesHit)]
      BY <2>3 DEF LsqWriteMiss
    <3>2. NewEntry(WriteTypeFor(LinesHit), LinesHit) \in Entry
      BY <2>1, NewEntryType DEF Types, WriteTypes, WriteTypeFor
    <3>3. ent' \in [Blocks -> Entry]
      BY <3>1, <3>2, CheckAndEvictType
    <3> QED
      BY <2>2, <2>3, <3>3
  <2>4. CASE LsqWritePatchRmw /\ TakeWrites
    <3> DEFINE lines == MergedLines(ent[Front.blk])
    <3>1. lines \in SUBSET CL
      BY <2>1 DEF MergedLines, Entry
    <3>2. AssignNewRequest(ent[Front.blk], "write_comb", lines) \in Entry
      BY <2>1, <3>1, AssignNewRequestType DEF Types, WriteTypes
    <3>3. [ent[Front.blk] EXCEPT !.cl = lines] \in Entry
      BY <2>1, <3>1, LinesType
    <3>4. ent' \in [Blocks -> Entry]
      BY <2>1, <2>4, <3>2, <3>3 DEF LsqWritePatchRmw
    <3> QED
      BY <2>2, <2>4, <3>4
  <2>5. CASE LsqWritePatch /\ TakeWrites
    <3>1. AssignNewRequest(ent[Front.blk], "write_patch", LinesHit) \in Entry
      BY <2>1, AssignNewRequestType DEF Types, WriteTypes
    <3>2. ent' \in [Blocks -> Entry]
      BY <2>1, <2>5, <3>1 DEF LsqWritePatch
    <3> QED
      BY <2>2, <2>5, <3>2
  <2>6. CASE ~WriteServed /\ UNCHANGED <<lsq, ent, owed>>
    BY <2>6
  <2> QED
    BY <2>3, <2>4, <2>5, <2>6
<1>4. CASE TickLsqIdle
  BY <1>4 DEF TickLsqIdle
<1> QED
  BY <1>2, <1>3, <1>4 DEF TickLsq

\* Every state transition leaves an entry.
LEMMA TickBufferType ==
  ASSUME TypeOK, NEW b \in Blocks,
         WriteRmw(b) \/ WriteComb(b) \/ WritePatch(b) \/ ReadCold(b) \/ ReadFf(b)
  PROVE  TypeOK'
<1> DEFINE Others == /\ lsq' \in Seq(Request) /\ drained' \in BOOLEAN
                     /\ phase' \in {"roq", "lsq", "buf"} /\ todo' \in SUBSET Blocks
                     /\ wanted' \in [ReadIds -> (Blocks \X CL) \cup {NoLine}]
           Rest == /\ roq' \in Seq(Readout) /\ room' \in 0 .. AitEntries
                   /\ asked' \in [Blocks -> Nat] /\ owed' \in [Blocks -> SUBSET CL]
           Becomes(e) == ent' = [ent EXCEPT ![b] = e]
<1>1. ent[b] \in Entry
  BY DEF TypeOK
<1>2. ASSUME NEW type, NEW state, At(b, type, state)
      PROVE  Others
  BY <1>2 DEF At, TypeOK
<1>3. ASSUME UNCHANGED <<roq, room, asked, owed>>
      PROVE  Rest
  BY <1>3 DEF TypeOK
<1>4. ASSUME NEW e \in Entry, Becomes(e)
      PROVE  ent' \in [Blocks -> Entry]
  BY <1>4 DEF TypeOK
<1>5. ASSUME Others, Rest, ent' \in [Blocks -> Entry]
      PROVE  TypeOK'
  BY <1>5 DEF TypeOK
<1> HIDE DEF Others, Rest
<1>6. ASSUME NEW state \in States, NEW n \in Nat, Move(b, state, n) \/ MoveLocal(b, state, n)
      PROVE  Rest /\ ent' \in [Blocks -> Entry]
  BY <1>1, <1>3, <1>4, <1>6, UpdateType DEF Move, MoveLocal
<1>7. ASSUME NEW dirty \in BOOLEAN, AskAit(b, dirty)
      PROVE  Rest /\ ent' \in [Blocks -> Entry]
  <2>1. CASE AitHasRoom
    <3> DEFINE e == [ent[b] EXCEPT !.state = "pending_ait_r", !.pending = TRUE,
                                   !.dirty = dirty, !.valid = FALSE, !.used = Now,
                                   !.waiting = TRUE, !.wait = ClkInvalid]
    <3>0. e \in Entry
      BY <1>1, <1>7, UpdateType, ZenonT(40) DEF States
    <3>1. ent' \in [Blocks -> Entry]
      BY <1>4, <1>7, <2>1, <3>0 DEF AskAit, TypeOK
    <3>2. room' = room - 1 /\ asked' = [asked EXCEPT ![b] = @ + 1]
      BY <1>7, <2>1 DEF AskAit
    <3>3. room \in 0 .. AitEntries /\ room > 0 /\ asked \in [Blocks -> Nat] /\ AitEntries \in Nat
      BY <2>1, SizesAssumption DEF AitHasRoom, TypeOK
    <3>4. room' \in 0 .. AitEntries
      BY ONLY <3>2, <3>3
    <3>5. asked' \in [Blocks -> Nat]
      BY ONLY <3>2, <3>3
    <3> QED
      BY <1>7, <2>1, <3>1, <3>4, <3>5 DEF AskAit, TypeOK, Rest
  <2>2. CASE ~AitHasRoom
    BY <1>3, <1>7, <2>2 DEF AskAit, TypeOK
  <2> QED
    BY <2>1, <2>2
<1>8. ASSUME SendAit(b)
      PROVE  Rest /\ ent' \in [Blocks -> Entry]
  <2>1. CASE AitHasRoom
    <3> DEFINE e == [ent[b] EXCEPT !.state = "pending_write", !.pending = TRUE,
                                   !.valid = TRUE, !.used = Now,
                                   !.waiting = FALSE, !.wait = 1]
    <3>0. e \in Entry
      BY <1>1, UpdateType DEF States
    <3>1. ent' \in [Blocks -> Entry]
      BY <1>4, <1>8, <2>1, <3>0 DEF SendAit, TypeOK
    <3>2. room' \in 0 .. AitEntries
      <4>1. room' = room - 1 /\ room \in 0 .. AitEntries /\ room > 0
        BY <1>8, <2>1 DEF SendAit, AitHasRoom, TypeOK
      <4> QED
        BY ONLY <4>1, SizesAssumption
    <3>3. owed' \in [Blocks -> SUBSET CL]
      BY <1>8, <2>1 DEF SendAit, TypeOK
    <3> QED
      BY <1>8, <2>1, <3>1, <3>2, <3>3 DEF SendAit, TypeOK, Rest
  <2>2. CASE ~AitHasRoom
    BY <1>3, <1>8, <2>2 DEF SendAit, TypeOK
  <2> QED
    BY <2>1, <2>2
<1>9. ASSUME NEW type, WriteTail(b, type)
      PROVE  TypeOK'
  <2>1. CASE At(b, type, "pending_ait_w") /\ Move(b, "pending_modify", RmwToAit)
    BY <1>2, <1>5, <1>6, <2>1 DEF States
  <2>2. CASE At(b, type, "pending_modify") /\ SendAit(b)
    BY <1>2, <1>5, <1>8, <2>2
  <2>3. CASE /\ At(b, type, "pending_write")
             /\ ent' = [ent EXCEPT ![b] = [@ EXCEPT !.state = "end", !.pending = FALSE,
                                                    !.dirty = FALSE, !.used = Now]]
             /\ UNCHANGED <<roq, room, asked, owed>>
    <3>1. ent' \in [Blocks -> Entry]
      BY <1>1, <1>4, <2>3, UpdateType DEF States
    <3> QED
      BY <1>2, <1>3, <1>5, <2>3, <3>1
  <2> QED
    BY <1>9, <2>1, <2>2, <2>3 DEF WriteTail
<1>10. ASSUME WriteLocal(b)
       PROVE  Rest /\ ent' \in [Blocks -> Entry]
  BY <1>1, <1>3, <1>4, <1>10, UpdateType DEF WriteLocal, States
<1>11. ASSUME NEW again \in States, IssueRoq(b, again)
       PROVE  Rest /\ ent' \in [Blocks -> Entry]
  <2>1. CASE Len(roq) >= RoqEntries /\ UNCHANGED <<ent, room, asked, roq, owed>>
    BY <1>3, <2>1 DEF TypeOK
  <2>2. CASE Len(roq) < RoqEntries /\ ent[b].cbq # <<>>
    <3> DEFINE c == Head(ent[b].cbq)
               rest == Tail(ent[b].cbq)
               out == [blk |-> b, cl |-> c, cb |-> ent[b].cbs[c]]
               state == IF rest # <<>> THEN again ELSE "end"
    <3>1. ent[b].cbq \in Seq(CL) /\ ent[b].cbs \in [CL -> Callbacks]
      BY <1>1 DEF Entry
    <3>2. c \in CL /\ rest \in Seq(CL)
      BY <2>2, <3>1
    <3>3. out \in Readout
      BY <3>1, <3>2 DEF Readout
    <3>4. /\ roq' = Append(roq, out)
          /\ ent' = [ent EXCEPT ![b] = [@ EXCEPT !.cbq = rest, !.used = Now,
                                                 !.state = state, !.pending = rest # <<>>]]
          /\ UNCHANGED <<room, asked, owed>>
      BY <1>11, <2>2 DEF IssueRoq, TypeOK
    <3>5. state \in States
      BY <1>11 DEF States
    <3> HIDE DEF c, rest, out, state
    <3>6. ent' \in [Blocks -> Entry]
      BY <1>1, <1>4, <3>2, <3>4, <3>5, ReadoutType
    <3>7. roq' \in Seq(Readout)
      BY <3>3, <3>4 DEF TypeOK
    <3> QED
      BY <3>4, <3>6, <3>7 DEF TypeOK, Rest
  <2> QED
    BY <1>11, <2>1, <2>2 DEF IssueRoq
<1>12. CASE WriteRmw(b)
  <2>1. CASE At(b, "write_rmw", "init") /\ AskAit(b, TRUE)
    BY <1>2, <1>5, <1>7, <2>1
  <2>2. CASE At(b, "write_rmw", "pending_ait_r") /\ Move(b, "pending_read", AitToRmw)
    BY <1>2, <1>5, <1>6, <2>2 DEF States
  <2>3. CASE At(b, "write_rmw", "pending_read") /\ MoveLocal(b, "pending_ait_w", LocalWrite)
    BY <1>2, <1>5, <1>6, <2>3 DEF States
  <2> QED
    BY <1>9, <1>12, <2>1, <2>2, <2>3 DEF WriteRmw
<1>13. CASE WriteComb(b)
  BY <1>2, <1>5, <1>9, <1>10, <1>13 DEF WriteComb
<1>14. CASE WritePatch(b)
  BY <1>2, <1>5, <1>9, <1>10, <1>14 DEF WritePatch
<1>15. CASE ReadCold(b)
  <2>1. CASE At(b, "read_cold", "init") /\ AskAit(b, FALSE)
    BY <1>2, <1>5, <1>7, <2>1
  <2>2. CASE At(b, "read_cold", "pending_ait_r") /\ Move(b, "pending_read", AitToRmw)
    BY <1>2, <1>5, <1>6, <2>2 DEF States
  <2>3. CASE /\ At(b, "read_cold", "pending_read")
             /\ ent' = [ent EXCEPT ![b] =
                          [@ EXCEPT !.state = "pending_readout", !.valid = TRUE,
                                    !.used = Now, !.waiting = FALSE, !.wait = LocalRead]]
             /\ UNCHANGED <<roq, room, asked, owed>>
    <3>1. ent' \in [Blocks -> Entry]
      BY <1>1, <1>4, <2>3, UpdateType DEF States
    <3> QED
      BY <1>2, <1>3, <1>5, <2>3, <3>1
  <2>4. CASE At(b, "read_cold", "pending_readout") /\ IssueRoq(b, "pending_read")
    BY <1>2, <1>5, <1>11, <2>4 DEF States
  <2> QED
    BY <1>15, <2>1, <2>2, <2>3, <2>4 DEF ReadCold
<1>16. CASE ReadFf(b)
  <2>1. CASE /\ At(b, "read_ff", "init")
             /\ ent' = [ent EXCEPT ![b] =
                          [@ EXCEPT !.state = "pending_readout", !.pending = TRUE,
                                    !.dirty = FALSE, !.valid = TRUE, !.used = Now,
                                    !.waiting = FALSE, !.wait = LocalRead]]
             /\ UNCHANGED <<roq, room, asked, owed>>
    <3>1. ent' \in [Blocks -> Entry]
      BY <1>1, <1>4, <2>1, UpdateType DEF States
    <3> QED
      BY <1>2, <1>3, <1>5, <2>1, <3>1
  <2>2. CASE At(b, "read_ff", "pending_readout") /\ IssueRoq(b, "init")
    BY <1>2, <1>5, <1>11, <2>2 DEF States
  <2> QED
    BY <1>16, <2>1, <2>2 DEF ReadFf
<1> QED
  BY <1>12, <1>13, <1>14, <1>15, <1>16

\* Every step that is not a part of the tick of the buffer.
LEMMA OtherType ==
  ASSUME TypeOK,
         \/ TickRoq \/ Upstream \/ AitTake \/ EndCycle
         \/ \E b \in Blocks : AitAnswer(b)
  PROVE  TypeOK'
<1>1. CASE TickRoq
  <2>1. roq # <<>> => Head(roq) \in Readout /\ Tail(roq) \in Seq(Readout)
    BY DEF TypeOK
  <2>2. roq # <<>> /\ Head(roq).cb # NoCb => Head(roq).cb \in ReadIds
    BY <2>1 DEF Readout, Callbacks
  <2> QED
    BY <1>1, <2>1, <2>2 DEF TypeOK, TickRoq
<1>2. ASSUME NEW b \in Blocks, NEW c \in CL, NEW r \in Callbacks, IssueRead(b, c, r)
      PROVE  TypeOK'
  <2>1. [op |-> "read", blk |-> b, cl |-> c, cb |-> r] \in Request
    BY DEF Request
  <2> QED
    BY <1>2, <2>1 DEF TypeOK, IssueRead, Callbacks
<1>3. ASSUME NEW b \in Blocks, NEW c \in CL, IssueWrite(b, c)
      PROVE  TypeOK'
  <2>1. [op |-> "write", blk |-> b, cl |-> c, cb |-> NoCb] \in Request
    BY DEF Request, Callbacks
  <2> QED
    BY <1>3, <2>1 DEF TypeOK, IssueWrite
<1>4. CASE Drain
  <2>1. \A e \in Entry : [e EXCEPT !.type = "flush_back", !.state = "init"] \in Entry
    BY DEF Entry, Types, States
  <2>2. \A b \in Blocks : [ent[b] EXCEPT !.type = "flush_back", !.state = "init"] \in Entry
    BY <2>1 DEF TypeOK
  <2>3. ent' \in [Blocks -> Entry]
    BY <1>4, <2>2 DEF TypeOK, Drain
  <2> QED
    BY <1>4, <2>3 DEF TypeOK, Drain
<1>5. CASE AitTake
  BY <1>5 DEF TypeOK, AitTake
<1>6. ASSUME NEW b \in Blocks, AitAnswer(b)
      PROVE  TypeOK'
  <2>1. ent[b] \in Entry
    BY DEF TypeOK
  <2>2. [ent[b] EXCEPT !.waiting = FALSE, !.wait = 1] \in Entry
    BY <2>1, UpdateType DEF States
  <2>3. ent' \in [Blocks -> Entry]
    BY <1>6, <2>2 DEF TypeOK, AitAnswer
  <2>4. asked[b] - 1 \in Nat
    <3>1. asked[b] \in Nat
      BY DEF TypeOK
    <3>2. asked[b] > 0
      BY <1>6 DEF AitAnswer
    <3> QED
      BY <3>1, <3>2
  <2>5. asked' \in [Blocks -> Nat]
    BY <1>6, <2>4 DEF TypeOK, AitAnswer
  <2> QED
    BY <1>6, <2>3, <2>5 DEF TypeOK, AitAnswer
<1>7. CASE EndCycle
  <2> DEFINE w(e) == IF e.wait > 0 THEN e.wait - 1 ELSE e.wait
  <2>1. \A e \in Entry : w(e) \in Nat \cup {ClkInvalid}
    BY DEF Entry, ClkInvalid
  <2>2. \A e \in Entry, n \in Nat : [e EXCEPT !.wait = w(e), !.used = n] \in Entry
    BY <2>1 DEF Entry
  <2>3. \A b \in Blocks : [ent[b] EXCEPT !.wait = w(ent[b]), !.used = Rank(b)] \in Entry
    BY <2>2, RankType DEF TypeOK
  <2>4. ent' = [b \in Blocks |->
                  IF b \in Cached THEN [ent[b] EXCEPT !.wait = w(ent[b]), !.used = Rank(b)]
                  ELSE ent[b]]
    BY <1>7 DEF EndCycle
  <2> HIDE DEF w
  <2>5. ent' \in [Blocks -> Entry]
    BY <2>3, <2>4 DEF TypeOK
  <2> QED
    BY <1>7, <2>5 DEF TypeOK, EndCycle
<1> QED
  BY <1>1, <1>2, <1>3, <1>4, <1>5, <1>6, <1>7 DEF Upstream

\* The type invariant holds in every state, for every size of the buffer, its
\* queues, the AIT's queue and for all latencies.
THEOREM TypeCorrect == Spec => []TypeOK
<1>1. Init => TypeOK
  <2>1. ASSUME Init
        PROVE  ent \in [Blocks -> Entry]
    BY <2>1, NoEntryType DEF Init
  <2>2. ASSUME Init
        PROVE  /\ wanted \in [ReadIds -> (Blocks \X CL) \cup {NoLine}]
               /\ owed \in [Blocks -> SUBSET CL] /\ asked \in [Blocks -> Nat]
    BY <2>2 DEF Init
  <2>3. ASSUME Init
        PROVE  lsq \in Seq(Request) /\ roq \in Seq(Readout) /\ room \in 0 .. AitEntries
    BY <2>3 DEF Init
  <2> QED
    BY <2>1, <2>2, <2>3 DEF Init, TypeOK
<1>2. TypeOK /\ [Next]_vars => TypeOK'
  <2>1. ASSUME TypeOK, Next
        PROVE  TypeOK'
    BY <2>1, TickLsqType, TickBufferType, OtherType DEF Next, TickInternalBuffer
  <2>2. ASSUME TypeOK, UNCHANGED vars
        PROVE  TypeOK'
    BY <2>2 DEF TypeOK, vars
  <2> QED
    BY <2>1, <2>2
<1> QED
  BY <1>1, <1>2, PTL DEF Spec


(***************************************************************************)
(* The requests that tick_lsq puts in an entry                             *)
(***************************************************************************)

\* A block without an entry is consistent.
LEMMA NoEntryOK == EntryOK(NoEntry, 0, {})
  BY DEF EntryOK, NoEntry, ReadTypes, WriteTypes

\* An entry at rest owes nothing and is owed nothing, so it can be evicted.
LEMMA RestOwesNothing ==
  ASSUME NEW e \in Entry, NEW a \in Nat, NEW o \in SUBSET CL, EntryOK(e, a, o),
         e.state = "end"
  PROVE  a = 0 /\ o = {}
  BY DEF EntryOK

\* A read that misses makes a consistent entry.
LEMMA ReadMissOK ==
  ASSUME NEW c \in CL, NEW cb \in Callbacks
  PROVE  EntryOK(AssignCallback(ResetCallback(NewEntry("read_cold", {c})), c, cb), 0, {})
<1> DEFINE e == AssignCallback(ResetCallback(NewEntry("read_cold", {c})), c, cb)
<1>1. e.cbq = Append(<<>>, c)
  BY DEF AssignCallback, ResetCallback, NewEntry, NoEntry
<1>2. /\ e.type = "read_cold" /\ e.state = "init" /\ e.pending /\ e.waiting
      /\ ~e.dirty /\ ~e.valid
  BY DEF AssignCallback, ResetCallback, NewEntry, NoEntry
<1> HIDE DEF e
<1>3. e.cbq # <<>>
  BY <1>1
<1>4. <<e.type, e.state>> \in Handled
  BY <1>2 DEF Handled
<1>5. EntryOK(e, 0, {})
  BY <1>2, <1>3, <1>4 DEF EntryOK, ReadTypes, WriteTypes
<1> QED
  BY <1>5 DEF e

\* A write that misses makes a consistent entry, which owes its lines.
LEMMA WriteMissOK ==
  ASSUME NEW lines \in SUBSET CL
  PROVE  EntryOK(NewEntry(WriteTypeFor(lines), lines), 0, lines)
<1> DEFINE e == NewEntry(WriteTypeFor(lines), lines)
<1>1. /\ e.type \in {"write_comb", "write_rmw"} /\ e.state = "init" /\ e.pending
      /\ e.waiting /\ ~e.dirty /\ ~e.valid /\ e.cbq = <<>> /\ e.cl = lines
  BY DEF NewEntry, NoEntry, WriteTypeFor
<1> HIDE DEF e
<1>2. <<e.type, e.state>> \in Handled
  BY <1>1 DEF Handled
<1>3. EntryOK(e, 0, lines)
  BY <1>1, <1>2 DEF EntryOK, ReadTypes, WriteTypes
<1> QED
  BY <1>3 DEF e

\* A read may join an entry that has reads to serve.
LEMMA ReadPatchOK ==
  ASSUME NEW e \in Entry, NEW a \in Nat, NEW o \in SUBSET CL, EntryOK(e, a, o),
         NEW c \in CL, NEW cb \in Callbacks, ReadPending(e)
  PROVE  EntryOK(AssignCallback(e, c, cb), a, o)
<1> DEFINE f == AssignCallback(e, c, cb)
<1>1. e.cbq \in Seq(CL)
  BY DEF Entry
<1>2. f.cbq = Append(e.cbq, c)
  BY DEF AssignCallback, Entry
<1>3. f.cbq # <<>>
  BY <1>1, <1>2
<1>4. /\ f.type = e.type /\ f.state = e.state /\ f.pending = e.pending
      /\ f.waiting = e.waiting /\ f.dirty = e.dirty /\ f.valid = e.valid
      /\ f.wait = e.wait /\ f.cl = e.cl
  BY DEF AssignCallback, Entry
<1> HIDE DEF f
<1>5. EntryOK(f, a, o)
  BY <1>3, <1>4 DEF EntryOK, ReadPending
<1> QED
  BY <1>5 DEF f

\* A read takes over an entry that is readable and has no reads to serve: a
\* write that owns it was sent already.
LEMMA ReadForwardOK ==
  ASSUME NEW e \in Entry, NEW a \in Nat, NEW o \in SUBSET CL, EntryOK(e, a, o),
         NEW c \in CL, NEW cb \in Callbacks, Forwardable(e)
  PROVE  EntryOK(AssignCallback(ResetCallback(AssignNewRequest(e, "read_ff", {c})), c, cb), a, o)
<1> DEFINE f == AssignCallback(ResetCallback(AssignNewRequest(e, "read_ff", {c})), c, cb)
<1>1. e.cbq \in Seq(CL)
  BY DEF Entry
<1>2. f.cbq = Append(e.cbq, c)
  BY DEF AssignCallback, ResetCallback, AssignNewRequest, Entry
<1>3. f.cbq # <<>>
  BY <1>1, <1>2
<1>4. /\ f.type = "read_ff" /\ f.state = "init" /\ f.pending /\ f.waiting
      /\ ~f.valid /\ f.wait = e.wait
  BY DEF AssignCallback, ResetCallback, AssignNewRequest, Entry
<1> HIDE DEF f
<1>5. a = 0
  BY DEF EntryOK, Forwardable, ReadPending, Entry, Types, ReadTypes, WriteTypes
<1>6. o = {}
  BY DEF EntryOK, Forwardable, ReadPending, Entry, Types, ReadTypes, WriteTypes
<1>7. <<f.type, f.state>> \in Handled
  BY <1>4 DEF Handled
<1>8. EntryOK(f, a, o)
  BY <1>3, <1>4, <1>5, <1>6, <1>7 DEF EntryOK, ReadTypes, WriteTypes
<1> QED
  BY <1>8 DEF f

\* A write may start anew in an entry that is not waiting for the AIT and has
\* no reads to serve, if it keeps the lines that are owed.
LEMMA WriteAgainOK ==
  ASSUME NEW e \in Entry, NEW a \in Nat, NEW o \in SUBSET CL, EntryOK(e, a, o),
         NEW lines \in SUBSET CL, NEW type \in {"write_comb", "write_patch"},
         e.state # "pending_ait_r", e.cbq = <<>>,
         NEW more \in SUBSET lines, o \subseteq lines
  PROVE  EntryOK(AssignNewRequest(e, type, lines), a, o \cup more)
<1> DEFINE f == AssignNewRequest(e, type, lines)
<1>1. /\ f.type = type /\ f.state = "init" /\ f.pending /\ f.waiting
      /\ ~f.valid /\ f.wait = e.wait /\ f.cbq = <<>> /\ f.cl = lines
  BY DEF AssignNewRequest, Entry
<1> HIDE DEF f
<1>2. a = 0
  BY DEF EntryOK
<1>3. <<f.type, f.state>> \in Handled
  BY <1>1 DEF Handled
<1>4. EntryOK(f, a, o \cup more)
  BY <1>1, <1>2, <1>3 DEF EntryOK, ReadTypes, WriteTypes
<1> QED
  BY <1>4 DEF f

\* More lines may join a write that has not been sent yet.
LEMMA LinesOK ==
  ASSUME NEW e \in Entry, NEW a \in Nat, NEW o \in SUBSET CL, EntryOK(e, a, o),
         NEW lines \in SUBSET CL, PatchRmw(e),
         NEW more \in SUBSET lines, e.cl \subseteq lines
  PROVE  EntryOK([e EXCEPT !.cl = lines], a, o \cup more)
<1> DEFINE f == [e EXCEPT !.cl = lines]
<1>1. /\ f.type = e.type /\ f.state = e.state /\ f.pending = e.pending
      /\ f.waiting = e.waiting /\ f.dirty = e.dirty /\ f.valid = e.valid
      /\ f.wait = e.wait /\ f.cl = lines /\ f.cbq = e.cbq
  BY DEF Entry
<1> HIDE DEF f
<1>2. EntryOK(f, a, o \cup more)
  BY <1>1 DEF EntryOK, PatchRmw, WriteTypes
<1> QED
  BY <1>2 DEF f

(***************************************************************************)
(* The transitions of tick_internal_buffer                                 *)
(***************************************************************************)

\* issue_read_next_level puts the entry to sleep, with one read owed to it.
LEMMA AskOK ==
  ASSUME NEW e \in Entry, NEW a \in Nat, NEW o \in SUBSET CL, EntryOK(e, a, o),
         e.state = "init", NEW dirty \in BOOLEAN,
         e.type = "write_rmw" \/ (e.type = "read_cold" /\ ~dirty)
  PROVE  EntryOK([e EXCEPT !.state = "pending_ait_r", !.pending = TRUE, !.dirty = dirty,
                            !.valid = FALSE, !.used = Now, !.waiting = TRUE,
                            !.wait = ClkInvalid], a + 1, o)
<1> DEFINE f == [e EXCEPT !.state = "pending_ait_r", !.pending = TRUE, !.dirty = dirty,
                            !.valid = FALSE, !.used = Now, !.waiting = TRUE,
                            !.wait = ClkInvalid]
<1>1. /\ f.type = e.type /\ f.state = "pending_ait_r" /\ f.pending /\ f.waiting
      /\ f.dirty = dirty /\ ~f.valid /\ f.cl = e.cl /\ f.cbq = e.cbq
  BY DEF Entry
<1> HIDE DEF f
<1>2. f.state # "end" => <<f.type, f.state>> \in Handled
  BY <1>1 DEF EntryOK, Handled, ReadTypes, WriteTypes
<1>3. EntryOK(f, a + 1, o)
  BY <1>1, <1>2 DEF EntryOK, ReadTypes, WriteTypes, ClkInvalid
<1> QED
  BY <1>3 DEF f

\* The block has come from the AIT.
LEMMA FetchedOK ==
  ASSUME NEW e \in Entry, NEW a \in Nat, NEW o \in SUBSET CL, EntryOK(e, a, o),
         e.state = "pending_ait_r", ~e.waiting, NEW n \in Nat
  PROVE  EntryOK([e EXCEPT !.state = "pending_read", !.used = Now, !.wait = n], a, o)
<1> DEFINE f == [e EXCEPT !.state = "pending_read", !.used = Now, !.wait = n]
<1>1. /\ f.type = e.type /\ f.state = "pending_read" /\ f.pending = e.pending
      /\ f.waiting = e.waiting /\ f.dirty = e.dirty /\ f.valid = e.valid
      /\ f.wait = n /\ f.cl = e.cl /\ f.cbq = e.cbq
  BY DEF Entry
<1> HIDE DEF f
<1>2. f.state # "end" => <<f.type, f.state>> \in Handled
  BY <1>1 DEF EntryOK, Handled, ReadTypes, WriteTypes
<1>3. EntryOK(f, a, o)
  BY <1>1, <1>2 DEF EntryOK, ReadTypes, WriteTypes, ClkInvalid
<1> QED
  BY <1>3 DEF f

\* The block is modified in the local memory.
LEMMA ModifiedOK ==
  ASSUME NEW e \in Entry, NEW a \in Nat, NEW o \in SUBSET CL, EntryOK(e, a, o),
         e.type = "write_rmw", e.state = "pending_read", NEW n \in Nat
  PROVE  EntryOK([e EXCEPT !.state = "pending_ait_w", !.used = Now, !.wait = n,
                            !.waiting = FALSE], a, o)
<1> DEFINE f == [e EXCEPT !.state = "pending_ait_w", !.used = Now, !.wait = n,
                            !.waiting = FALSE]
<1>1. /\ f.type = e.type /\ f.state = "pending_ait_w" /\ f.pending = e.pending
      /\ ~f.waiting /\ f.dirty = e.dirty /\ f.valid = e.valid
      /\ f.wait = n /\ f.cl = e.cl /\ f.cbq = e.cbq
  BY DEF Entry
<1> HIDE DEF f
<1>2. f.state # "end" => <<f.type, f.state>> \in Handled
  BY <1>1 DEF EntryOK, Handled, ReadTypes, WriteTypes
<1>3. EntryOK(f, a, o)
  BY <1>1, <1>2 DEF EntryOK, ReadTypes, WriteTypes, ClkInvalid
<1> QED
  BY <1>3 DEF f

\* A write that needs no read of the block goes to the local memory.
LEMMA LocalOK ==
  ASSUME NEW e \in Entry, NEW a \in Nat, NEW o \in SUBSET CL, EntryOK(e, a, o),
         e.type \in {"write_comb", "write_patch"}, e.state = "init", NEW n \in Nat
  PROVE  EntryOK([e EXCEPT !.state = "pending_ait_w", !.pending = TRUE, !.dirty = TRUE,
                            !.valid = FALSE, !.used = Now, !.waiting = FALSE,
                            !.wait = n], a, o)
<1> DEFINE f == [e EXCEPT !.state = "pending_ait_w", !.pending = TRUE, !.dirty = TRUE,
                            !.valid = FALSE, !.used = Now, !.waiting = FALSE,
                            !.wait = n]
<1>1. /\ f.type = e.type /\ f.state = "pending_ait_w" /\ f.pending
      /\ ~f.waiting /\ f.dirty /\ ~f.valid
      /\ f.wait = n /\ f.cl = e.cl /\ f.cbq = e.cbq
  BY DEF Entry
<1> HIDE DEF f
<1>2. f.state # "end" => <<f.type, f.state>> \in Handled
  BY <1>1 DEF EntryOK, Handled, ReadTypes, WriteTypes
<1>3. EntryOK(f, a, o)
  BY <1>1, <1>2 DEF EntryOK, ReadTypes, WriteTypes, ClkInvalid
<1> QED
  BY <1>3 DEF f

\* The block is on its way to the AIT.
LEMMA ReadyOK ==
  ASSUME NEW e \in Entry, NEW a \in Nat, NEW o \in SUBSET CL, EntryOK(e, a, o),
         e.type \in WriteTypes, e.state = "pending_ait_w", NEW n \in Nat
  PROVE  EntryOK([e EXCEPT !.state = "pending_modify", !.used = Now, !.wait = n], a, o)
<1> DEFINE f == [e EXCEPT !.state = "pending_modify", !.used = Now, !.wait = n]
<1>1. /\ f.type = e.type /\ f.state = "pending_modify" /\ f.pending = e.pending
      /\ f.waiting = e.waiting /\ f.dirty = e.dirty /\ f.valid = e.valid
      /\ f.wait = n /\ f.cl = e.cl /\ f.cbq = e.cbq
  BY DEF Entry
<1> HIDE DEF f
<1>2. f.state # "end" => <<f.type, f.state>> \in Handled
  BY <1>1 DEF EntryOK, Handled, ReadTypes, WriteTypes
<1>3. EntryOK(f, a, o)
  BY <1>1, <1>2 DEF EntryOK, ReadTypes, WriteTypes, ClkInvalid
<1> QED
  BY <1>3 DEF f

\* issue_write_next_level: nothing is owed any more.
LEMMA SentOK ==
  ASSUME NEW e \in Entry, NEW a \in Nat, NEW o \in SUBSET CL, EntryOK(e, a, o),
         e.type \in WriteTypes, e.state = "pending_modify"
  PROVE  EntryOK([e EXCEPT !.state = "pending_write", !.pending = TRUE, !.valid = TRUE,
                            !.used = Now, !.waiting = FALSE, !.wait = 1], a, {})
<1> DEFINE f == [e EXCEPT !.state = "pending_write", !.pending = TRUE, !.valid = TRUE,
                            !.used = Now, !.waiting = FALSE, !.wait = 1]
<1>1. /\ f.type = e.type /\ f.state = "pending_write" /\ f.pending
      /\ ~f.waiting /\ f.dirty = e.dirty /\ f.valid
      /\ f.wait = 1 /\ f.cl = e.cl /\ f.cbq = e.cbq
  BY DEF Entry
<1> HIDE DEF f
<1>2. f.state # "end" => <<f.type, f.state>> \in Handled
  BY <1>1 DEF EntryOK, Handled, ReadTypes, WriteTypes
<1>3. EntryOK(f, a, {})
  BY <1>1, <1>2 DEF EntryOK, ReadTypes, WriteTypes, ClkInvalid
<1> QED
  BY <1>3 DEF f

\* A write that was sent comes to rest.
LEMMA WrittenOK ==
  ASSUME NEW e \in Entry, NEW a \in Nat, NEW o \in SUBSET CL, EntryOK(e, a, o),
         e.type \in WriteTypes, e.state = "pending_write"
  PROVE  EntryOK([e EXCEPT !.state = "end", !.pending = FALSE, !.dirty = FALSE,
                            !.used = Now], a, o)
<1> DEFINE f == [e EXCEPT !.state = "end", !.pending = FALSE, !.dirty = FALSE,
                            !.used = Now]
<1>1. /\ f.type = e.type /\ f.state = "end" /\ ~f.pending
      /\ f.waiting = e.waiting /\ ~f.dirty /\ f.valid = e.valid
      /\ f.wait = e.wait /\ f.cl = e.cl /\ f.cbq = e.cbq
  BY DEF Entry
<1> HIDE DEF f
<1>2. f.state # "end" => <<f.type, f.state>> \in Handled
  BY <1>1 DEF EntryOK, Handled, ReadTypes, WriteTypes
<1>3. EntryOK(f, a, o)
  BY <1>1, <1>2 DEF EntryOK, ReadTypes, WriteTypes, ClkInvalid
<1> QED
  BY <1>3 DEF f

\* The block of a read is read from the local memory.
LEMMA ReadableOK ==
  ASSUME NEW e \in Entry, NEW a \in Nat, NEW o \in SUBSET CL, EntryOK(e, a, o),
         e.type = "read_cold", e.state = "pending_read", NEW n \in Nat
  PROVE  EntryOK([e EXCEPT !.state = "pending_readout", !.valid = TRUE, !.used = Now,
                            !.waiting = FALSE, !.wait = n], a, o)
<1> DEFINE f == [e EXCEPT !.state = "pending_readout", !.valid = TRUE, !.used = Now,
                            !.waiting = FALSE, !.wait = n]
<1>1. /\ f.type = e.type /\ f.state = "pending_readout" /\ f.pending = e.pending
      /\ ~f.waiting /\ f.dirty = e.dirty /\ f.valid
      /\ f.wait = n /\ f.cl = e.cl /\ f.cbq = e.cbq
  BY DEF Entry
<1> HIDE DEF f
<1>2. f.state # "end" => <<f.type, f.state>> \in Handled
  BY <1>1 DEF EntryOK, Handled, ReadTypes, WriteTypes
<1>3. EntryOK(f, a, o)
  BY <1>1, <1>2 DEF EntryOK, ReadTypes, WriteTypes, ClkInvalid
<1> QED
  BY <1>3 DEF f

\* The same for a read of a block that was in the buffer.
LEMMA ForwardedOK ==
  ASSUME NEW e \in Entry, NEW a \in Nat, NEW o \in SUBSET CL, EntryOK(e, a, o),
         e.type = "read_ff", e.state = "init", NEW n \in Nat
  PROVE  EntryOK([e EXCEPT !.state = "pending_readout", !.pending = TRUE, !.dirty = FALSE,
                            !.valid = TRUE, !.used = Now, !.waiting = FALSE, !.wait = n], a, o)
<1> DEFINE f == [e EXCEPT !.state = "pending_readout", !.pending = TRUE, !.dirty = FALSE,
                            !.valid = TRUE, !.used = Now, !.waiting = FALSE, !.wait = n]
<1>1. /\ f.type = e.type /\ f.state = "pending_readout" /\ f.pending
      /\ ~f.waiting /\ ~f.dirty /\ f.valid
      /\ f.wait = n /\ f.cl = e.cl /\ f.cbq = e.cbq
  BY DEF Entry
<1> HIDE DEF f
<1>2. f.state # "end" => <<f.type, f.state>> \in Handled
  BY <1>1 DEF EntryOK, Handled, ReadTypes, WriteTypes
<1>3. EntryOK(f, a, o)
  BY <1>1, <1>2 DEF EntryOK, ReadTypes, WriteTypes, ClkInvalid
<1> QED
  BY <1>3 DEF f

\* issue_roq: a read leaves, and the entry goes on while others are left.
LEMMA ReadOutOK ==
  ASSUME NEW e \in Entry, NEW a \in Nat, NEW o \in SUBSET CL, EntryOK(e, a, o),
         e.type \in {"read_cold", "read_ff"}, e.state = "pending_readout", ~e.waiting,
         NEW rest \in Seq(CL),
         NEW state, NEW pending \in BOOLEAN, pending <=> rest # <<>>,
         \/ ~pending /\ state = "end"
         \/ pending /\ e.type = "read_cold" /\ state = "pending_read"
         \/ pending /\ e.type = "read_ff" /\ state = "init"
  PROVE  EntryOK([e EXCEPT !.cbq = rest, !.used = Now, !.state = state,
                            !.pending = pending], a, o)
<1> DEFINE f == [e EXCEPT !.cbq = rest, !.used = Now, !.state = state,
                            !.pending = pending]
<1>1. /\ f.type = e.type /\ f.state = state
      /\ f.pending = pending /\ f.waiting = e.waiting /\ f.dirty = e.dirty
      /\ f.valid = e.valid /\ f.wait = e.wait /\ f.cl = e.cl /\ f.cbq = rest
  BY DEF Entry
<1> HIDE DEF f
<1>2. f.state # "end" => <<f.type, f.state>> \in Handled
  BY <1>1 DEF EntryOK, Handled, ReadTypes, WriteTypes
<1>3. EntryOK(f, a, o)
  BY <1>1, <1>2 DEF EntryOK, ReadTypes, WriteTypes, ClkInvalid
<1> QED
  BY <1>3 DEF f

(***************************************************************************)
(* The AIT's answer and the clock                                          *)
(***************************************************************************)

\* next_level_read_callback finds the entry asleep and wakes it.
LEMMA AnsweredOK ==
  ASSUME NEW e \in Entry, NEW a \in Nat, NEW o \in SUBSET CL, EntryOK(e, a, o),
         a > 0
  PROVE  EntryOK([e EXCEPT !.waiting = FALSE, !.wait = 1], a - 1, o)
<1> DEFINE f == [e EXCEPT !.waiting = FALSE, !.wait = 1]
<1>1. /\ f.type = e.type /\ f.state = e.state /\ f.pending = e.pending
      /\ ~f.waiting /\ f.dirty = e.dirty /\ f.valid = e.valid
      /\ f.wait = 1 /\ f.cl = e.cl /\ f.cbq = e.cbq
  BY DEF Entry
<1> HIDE DEF f
<1>2. f.state # "end" => <<f.type, f.state>> \in Handled
  BY <1>1 DEF EntryOK, Handled, ReadTypes, WriteTypes
<1>3. EntryOK(f, a - 1, o)
  BY <1>1, <1>2 DEF EntryOK, ReadTypes, WriteTypes, ClkInvalid
<1> QED
  BY <1>3 DEF f

\* A cycle passes.
LEMMA AgedOK ==
  ASSUME NEW e \in Entry, NEW a \in Nat, NEW o \in SUBSET CL, EntryOK(e, a, o),
         NEW n \in Nat
  PROVE  EntryOK([e EXCEPT !.wait = IF @ > 0 THEN @ - 1 ELSE @, !.used = n], a, o)
<1> DEFINE f == [e EXCEPT !.wait = IF @ > 0 THEN @ - 1 ELSE @, !.used = n]
<1>1. /\ f.type = e.type /\ f.state = e.state /\ f.pending = e.pending
      /\ f.waiting = e.waiting /\ f.dirty = e.dirty /\ f.valid = e.valid
      /\ f.wait = (IF e.wait > 0 THEN e.wait - 1 ELSE e.wait)
      /\ f.cl = e.cl /\ f.cbq = e.cbq
  BY DEF Entry
<1> HIDE DEF f
<1>2. f.state # "end" => <<f.type, f.state>> \in Handled
  BY <1>1 DEF EntryOK, Handled, ReadTypes, WriteTypes
<1>3. EntryOK(f, a, o)
  BY <1>1, <1>2 DEF EntryOK, ReadTypes, WriteTypes, ClkInvalid
<1> QED
  BY <1>3 DEF f

(***************************************************************************)
(* The whole buffer, action by action                                      *)
(***************************************************************************)
IInv == TypeOK /\ EntryInv

\* tick_internal_buffer
LEMMA BufferStep ==
  ASSUME IInv, NEW b \in Blocks,
         WriteRmw(b) \/ WriteComb(b) \/ WritePatch(b) \/ ReadCold(b) \/ ReadFf(b)
  PROVE  EntryInv'
<1> DEFINE Step == phase = "buf" /\ b \in todo /\ phase' = phase /\ todo' = todo \ {b}
<1>1. /\ ent \in [Blocks -> Entry] /\ ent[b] \in Entry
      /\ asked \in [Blocks -> Nat] /\ asked[b] \in Nat
      /\ owed \in [Blocks -> SUBSET CL] /\ owed[b] \in SUBSET CL
      /\ room \in Nat
  BY DEF IInv, TypeOK
<1>2. /\ \A c \in Blocks : EntryOK(ent[c], asked[c], owed[c])
      /\ EntryOK(ent[b], asked[b], owed[b])
  BY DEF IInv, EntryInv
<1>3. ASSUME NEW type, NEW state, At(b, type, state)
      PROVE  /\ Step /\ ent[b].type = type /\ ent[b].state = state
             /\ state # "init" => ~ent[b].waiting
  BY <1>3 DEF At, IInv, EntryInv, TodoActs, Acts
<1>4. ASSUME Step,
             \A c \in Blocks \ {b} : /\ ent'[c] = ent[c]
                                     /\ asked'[c] = asked[c]
                                     /\ owed'[c] = owed[c],
             EntryOK(ent'[b], asked'[b], owed'[b])
      PROVE  EntryInv'
  <2>1. \A c \in Blocks : EntryOK(ent'[c], asked'[c], owed'[c])
    BY <1>2, <1>4
  <2>2. \A c \in todo \ {b} : Acts(ent'[c])
    <3> SUFFICES ASSUME NEW c \in todo \ {b}
                 PROVE  Acts(ent'[c])
      OBVIOUS
    <3>1. c \in Blocks /\ Acts(ent[c])
      BY <1>4 DEF IInv, EntryInv, TodoActs, TypeOK
    <3> QED
      BY <1>4, <3>1
  <2> QED
    BY <1>4, <2>1, <2>2 DEF EntryInv, TodoActs
<1> HIDE DEF Step
<1>5. ASSUME Step, UNCHANGED <<ent, asked, owed>>
      PROVE  EntryInv'
  BY <1>2, <1>4, <1>5
<1>6. ASSUME Step, NEW e, ent' = [ent EXCEPT ![b] = e], UNCHANGED <<asked, owed>>,
             EntryOK(e, asked[b], owed[b])
      PROVE  EntryInv'
  BY <1>1, <1>4, <1>6
<1>7. ASSUME Step, NEW dirty \in BOOLEAN, AskAit(b, dirty), ent[b].state = "init",
             ent[b].type = "write_rmw" \/ (ent[b].type = "read_cold" /\ ~dirty)
      PROVE  EntryInv'
  <2> DEFINE e == [ent[b] EXCEPT !.state = "pending_ait_r", !.pending = TRUE,
                                 !.dirty = dirty, !.valid = FALSE, !.used = Now,
                                 !.waiting = TRUE, !.wait = ClkInvalid]
  <2>1. EntryOK(e, asked[b] + 1, owed[b])
    BY <1>1, <1>2, <1>7, AskOK
  <2>2. CASE AitHasRoom
    <3>1. /\ ent' = [ent EXCEPT ![b] = e] /\ asked' = [asked EXCEPT ![b] = @ + 1]
          /\ owed' = owed
      BY <1>7, <2>2 DEF AskAit
    <3> HIDE DEF e
    <3> QED
      BY <1>1, <1>4, <1>7, <2>1, <3>1
  <2>3. CASE ~AitHasRoom
    BY <1>5, <1>7, <2>3 DEF AskAit
  <2> QED
    BY <2>2, <2>3
<1>8. ASSUME Step, SendAit(b), ent[b].state = "pending_modify", ent[b].type \in WriteTypes
      PROVE  EntryInv'
  <2> DEFINE e == [ent[b] EXCEPT !.state = "pending_write", !.pending = TRUE,
                                 !.valid = TRUE, !.used = Now,
                                 !.waiting = FALSE, !.wait = 1]
  <2>1. EntryOK(e, asked[b], {})
    BY <1>1, <1>2, <1>8, SentOK
  <2>2. CASE AitHasRoom
    <3>1. /\ ent' = [ent EXCEPT ![b] = e] /\ owed' = [owed EXCEPT ![b] = {}]
          /\ asked' = asked
      BY <1>8, <2>2 DEF SendAit
    <3> HIDE DEF e
    <3> QED
      BY <1>1, <1>4, <1>8, <2>1, <3>1
  <2>3. CASE ~AitHasRoom
    BY <1>5, <1>8, <2>3 DEF SendAit
  <2> QED
    BY <2>2, <2>3
<1>9. ASSUME NEW type \in WriteTypes, WriteTail(b, type)
      PROVE  EntryInv'
  <2>1. CASE At(b, type, "pending_ait_w") /\ Move(b, "pending_modify", RmwToAit)
    <3>1. EntryOK([ent[b] EXCEPT !.state = "pending_modify", !.used = Now, !.wait = RmwToAit],
                  asked[b], owed[b])
      BY <1>1, <1>2, <1>3, <1>9, <2>1, ReadyOK
    <3> QED
      BY <1>3, <1>6, <2>1, <3>1 DEF Move
  <2>2. CASE At(b, type, "pending_modify") /\ SendAit(b)
    BY <1>3, <1>8, <1>9, <2>2
  <2>3. CASE /\ At(b, type, "pending_write")
             /\ ent' = [ent EXCEPT ![b] = [@ EXCEPT !.state = "end", !.pending = FALSE,
                                                    !.dirty = FALSE, !.used = Now]]
             /\ UNCHANGED <<roq, room, asked, owed>>
    <3>1. EntryOK([ent[b] EXCEPT !.state = "end", !.pending = FALSE, !.dirty = FALSE,
                                 !.used = Now], asked[b], owed[b])
      BY <1>1, <1>2, <1>3, <1>9, <2>3, WrittenOK
    <3> QED
      BY <1>3, <1>6, <2>3, <3>1
  <2> QED
    BY <1>9, <2>1, <2>2, <2>3 DEF WriteTail
<1>10. ASSUME NEW type \in {"write_comb", "write_patch"}, At(b, type, "init"), WriteLocal(b)
       PROVE  EntryInv'
  <2>1. EntryOK([ent[b] EXCEPT !.state = "pending_ait_w", !.pending = TRUE, !.dirty = TRUE,
                               !.valid = FALSE, !.used = Now, !.waiting = FALSE,
                               !.wait = LocalWrite], asked[b], owed[b])
    BY <1>1, <1>2, <1>3, <1>10, LocalOK
  <2> QED
    BY <1>3, <1>6, <1>10, <2>1 DEF WriteLocal
<1>11. ASSUME Step, NEW again, IssueRoq(b, again), ent[b].state = "pending_readout",
              ~ent[b].waiting,
              \/ ent[b].type = "read_cold" /\ again = "pending_read"
              \/ ent[b].type = "read_ff" /\ again = "init"
       PROVE  EntryInv'
  <2>1. CASE Len(roq) < RoqEntries /\ ent[b].cbq # <<>>
    <3> DEFINE rest == Tail(ent[b].cbq)
               state == IF rest # <<>> THEN again ELSE "end"
               pending == rest # <<>>
               e == [ent[b] EXCEPT !.cbq = rest, !.used = Now, !.state = state,
                                   !.pending = pending]
    <3>1. ent[b].cbq \in Seq(CL)
      BY <1>1 DEF Entry
    <3>2. rest \in Seq(CL)
      BY <2>1, <3>1
    <3>3. ent' = [ent EXCEPT ![b] = e] /\ UNCHANGED <<asked, owed>>
      BY <1>11, <2>1 DEF IssueRoq, IInv, TypeOK
    <3>4. /\ pending \in BOOLEAN /\ (pending <=> rest # <<>>)
          /\ ent[b].type \in {"read_cold", "read_ff"}
          /\ \/ ~pending /\ state = "end"
             \/ pending /\ ent[b].type = "read_cold" /\ state = "pending_read"
             \/ pending /\ ent[b].type = "read_ff" /\ state = "init"
      BY <1>11
    <3> HIDE DEF rest, state, pending
    <3>5. EntryOK(e, asked[b], owed[b])
      BY <1>1, <1>2, <1>11, <3>2, <3>4, ReadOutOK
    <3> HIDE DEF e
    <3> QED
      BY <1>6, <1>11, <3>3, <3>5
  <2>2. CASE Len(roq) >= RoqEntries /\ UNCHANGED <<ent, room, asked, roq, owed>>
    BY <1>5, <1>11, <2>2
  <2> QED
    BY <1>11, <2>1, <2>2 DEF IssueRoq
<1>12. ASSUME NEW type \in {"write_rmw", "read_cold"}, At(b, type, "pending_ait_r"),
              Move(b, "pending_read", AitToRmw)
       PROVE  EntryInv'
  <2>1. EntryOK([ent[b] EXCEPT !.state = "pending_read", !.used = Now, !.wait = AitToRmw],
                asked[b], owed[b])
    <3>1. ent[b].state = "pending_ait_r" /\ ~ent[b].waiting
      BY <1>3, <1>12
    <3> QED
      BY <1>1, <1>2, <3>1, FetchedOK
  <2> QED
    BY <1>3, <1>6, <1>12, <2>1 DEF Move
<1>13. CASE WriteRmw(b)
  <2>1. CASE At(b, "write_rmw", "init") /\ AskAit(b, TRUE)
    BY <1>3, <1>7, <2>1
  <2>2. CASE At(b, "write_rmw", "pending_ait_r") /\ Move(b, "pending_read", AitToRmw)
    BY <1>12, <2>2
  <2>3. CASE At(b, "write_rmw", "pending_read") /\ MoveLocal(b, "pending_ait_w", LocalWrite)
    <3>1. EntryOK([ent[b] EXCEPT !.state = "pending_ait_w", !.used = Now,
                                 !.wait = LocalWrite, !.waiting = FALSE], asked[b], owed[b])
      BY <1>1, <1>2, <1>3, <2>3, ModifiedOK
    <3> QED
      BY <1>3, <1>6, <2>3, <3>1 DEF MoveLocal
  <2>4. CASE WriteTail(b, "write_rmw")
    BY <1>9, <2>4 DEF WriteTypes
  <2> QED
    BY <1>13, <2>1, <2>2, <2>3, <2>4 DEF WriteRmw
<1>14. CASE WriteComb(b)
  BY <1>9, <1>10, <1>14 DEF WriteComb, WriteTypes
<1>15. CASE WritePatch(b)
  BY <1>9, <1>10, <1>15 DEF WritePatch, WriteTypes
<1>16. CASE ReadCold(b)
  <2>1. CASE At(b, "read_cold", "init") /\ AskAit(b, FALSE)
    BY <1>3, <1>7, <2>1
  <2>2. CASE At(b, "read_cold", "pending_ait_r") /\ Move(b, "pending_read", AitToRmw)
    BY <1>12, <2>2
  <2>3. CASE /\ At(b, "read_cold", "pending_read")
             /\ ent' = [ent EXCEPT ![b] =
                          [@ EXCEPT !.state = "pending_readout", !.valid = TRUE,
                                    !.used = Now, !.waiting = FALSE, !.wait = LocalRead]]
             /\ UNCHANGED <<roq, room, asked, owed>>
    <3>1. EntryOK([ent[b] EXCEPT !.state = "pending_readout", !.valid = TRUE, !.used = Now,
                                 !.waiting = FALSE, !.wait = LocalRead], asked[b], owed[b])
      BY <1>1, <1>2, <1>3, <2>3, ReadableOK
    <3> QED
      BY <1>3, <1>6, <2>3, <3>1
  <2>4. CASE At(b, "read_cold", "pending_readout") /\ IssueRoq(b, "pending_read")
    BY <1>3, <1>11, <2>4
  <2> QED
    BY <1>16, <2>1, <2>2, <2>3, <2>4 DEF ReadCold
<1>17. CASE ReadFf(b)
  <2>1. CASE /\ At(b, "read_ff", "init")
             /\ ent' = [ent EXCEPT ![b] =
                          [@ EXCEPT !.state = "pending_readout", !.pending = TRUE,
                                    !.dirty = FALSE, !.valid = TRUE, !.used = Now,
                                    !.waiting = FALSE, !.wait = LocalRead]]
             /\ UNCHANGED <<roq, room, asked, owed>>
    <3>1. EntryOK([ent[b] EXCEPT !.state = "pending_readout", !.pending = TRUE,
                                 !.dirty = FALSE, !.valid = TRUE, !.used = Now,
                                 !.waiting = FALSE, !.wait = LocalRead], asked[b], owed[b])
      BY <1>1, <1>2, <1>3, <2>1, ForwardedOK
    <3> QED
      BY <1>3, <1>6, <2>1, <3>1
  <2>2. CASE At(b, "read_ff", "pending_readout") /\ IssueRoq(b, "init")
    BY <1>3, <1>11, <2>2
  <2> QED
    BY <1>17, <2>1, <2>2 DEF ReadFf
<1> QED
  BY <1>13, <1>14, <1>15, <1>16, <1>17

\* tick_lsq
LEMMA LsqStep ==
  ASSUME IInv, TickLsq
  PROVE  EntryInv'
<1>1. /\ ent \in [Blocks -> Entry] /\ asked \in [Blocks -> Nat]
      /\ owed \in [Blocks -> SUBSET CL] /\ lsq \in Seq(Request)
  BY DEF IInv, TypeOK
<1>2. \A c \in Blocks : EntryOK(ent[c], asked[c], owed[c])
  BY DEF IInv, EntryInv
<1>3. ASSUME \A c \in Blocks : EntryOK(ent'[c], asked'[c], owed'[c])
      PROVE  EntryInv'
  BY <1>3 DEF TickLsq, TickLsqRead, TickLsqWrite, TickLsqIdle, LsqDone, EntryInv, TodoActs
<1>4. ASSUME lsq # <<>>
      PROVE  /\ Front \in Request /\ Front.blk \in Blocks /\ Front.cl \in CL
             /\ Front.cb \in Callbacks
  <2>1. Front \in Request
    BY <1>1, <1>4 DEF Front
  <2> QED
    BY <2>1 DEF Request
\* eviction takes an entry at rest
<1>5. ASSUME NEW m \in CheckAndEvict
      PROVE  /\ m \in [Blocks -> Entry]
             /\ \A c \in Blocks : EntryOK(m[c], asked[c], owed[c])
  <2>1. m \in [Blocks -> Entry]
    BY CheckAndEvictType DEF IInv
  <2>2. CASE m = ent
    BY <1>2, <2>1, <2>2
  <2>3. CASE m # ent
    <3>1. PICK v \in Oldest : m = [ent EXCEPT ![v] = NoEntry]
      BY <2>3 DEF CheckAndEvict
    <3>2. v \in Blocks /\ ent[v].state = "end"
      BY <3>1 DEF Oldest, Cached
    <3>3. asked[v] = 0 /\ owed[v] = {}
      BY <1>1, <1>2, <3>2, RestOwesNothing
    <3> QED
      BY <1>1, <1>2, <2>1, <3>1, <3>2, <3>3, NoEntryOK
  <2> QED
    BY <2>2, <2>3
<1>6. ASSUME NEW b \in Blocks, ent[b].type = "none"
      PROVE  asked[b] = 0 /\ owed[b] = {}
  <2>1. ent[b].state = "end"
    BY <1>2, <1>6 DEF EntryOK
  <2> QED
    BY <1>1, <1>2, <2>1, RestOwesNothing
<1>7. CASE TickLsqRead
  <2> DEFINE b == Front.blk
  <2>1. /\ b \in Blocks /\ Front.cl \in CL /\ Front.cb \in Callbacks
        /\ UNCHANGED <<asked, owed>>
    BY <1>4, <1>7 DEF TickLsqRead
  <2>2. /\ ent[b] \in Entry /\ asked[b] \in Nat /\ owed[b] \in SUBSET CL
        /\ EntryOK(ent[b], asked[b], owed[b])
    BY <1>1, <1>2, <2>1
  <2>3. CASE LsqReadMiss
    <3> DEFINE e == AssignCallback(ResetCallback(NewEntry("read_cold", {Front.cl})),
                                   Front.cl, Front.cb)
    <3>1. EntryOK(e, 0, {})
      BY <2>1, ReadMissOK
    <3>2. asked[b] = 0 /\ owed[b] = {}
      BY <1>6, <2>1, <2>3 DEF LsqReadMiss
    <3>3. PICK m \in CheckAndEvict : ent' = [m EXCEPT ![b] = e]
      BY <2>3 DEF LsqReadMiss
    <3> HIDE DEF e, b
    <3> QED
      BY <1>3, <1>5, <2>1, <3>1, <3>2, <3>3
  <2>4. CASE LsqReadPatch
    <3> DEFINE e == AssignCallback(ent[b], Front.cl, Front.cb)
    <3>1. EntryOK(e, asked[b], owed[b])
      BY <2>1, <2>2, <2>4, ReadPatchOK DEF LsqReadPatch, Patchable
    <3>2. ent' = [ent EXCEPT ![b] = e]
      BY <2>4 DEF LsqReadPatch
    <3> HIDE DEF e, b
    <3> QED
      BY <1>1, <1>2, <1>3, <2>1, <3>1, <3>2
  <2>5. CASE LsqReadForward
    <3> DEFINE e == AssignCallback(ResetCallback(AssignNewRequest(ent[b], "read_ff", {Front.cl})),
                                   Front.cl, Front.cb)
    <3>1. EntryOK(e, asked[b], owed[b])
      BY <2>1, <2>2, <2>5, ReadForwardOK DEF LsqReadForward
    <3>2. ent' = [ent EXCEPT ![b] = e]
      BY <2>5 DEF LsqReadForward
    <3> HIDE DEF e, b
    <3> QED
      BY <1>1, <1>2, <1>3, <2>1, <3>1, <3>2
  <2>6. CASE UNCHANGED ent
    BY <1>2, <1>3, <2>1, <2>6
  <2> QED
    BY <1>7, <2>3, <2>4, <2>5, <2>6 DEF TickLsqRead
<1>8. CASE TickLsqWrite
  <2> DEFINE b == Front.blk
  <2>1. b \in Blocks /\ UNCHANGED asked
    BY <1>4, <1>8 DEF TickLsqWrite
  <2>2. /\ ent[b] \in Entry /\ asked[b] \in Nat /\ owed[b] \in SUBSET CL
        /\ EntryOK(ent[b], asked[b], owed[b])
    BY <1>1, <1>2, <2>1
  <2>3. LinesHit \in SUBSET CL
    <3>1. \A i \in Combined : lsq[i] \in Request
      BY <1>1 DEF Combined
    <3>2. \A i \in Combined : lsq[i].cl \in CL
      BY <3>1 DEF Request
    <3> QED
      BY <3>2 DEF LinesHit
  <2>4. TakeWrites => owed' = [owed EXCEPT ![b] = owed[b] \cup LinesHit]
    BY DEF TakeWrites
  <2>5. CASE LsqWriteMiss /\ TakeWrites
    <3> DEFINE e == NewEntry(WriteTypeFor(LinesHit), LinesHit)
    <3>1. EntryOK(e, 0, LinesHit)
      BY <2>3, WriteMissOK
    <3>2. asked[b] = 0 /\ owed[b] = {}
      BY <1>6, <2>1, <2>5 DEF LsqWriteMiss
    <3>3. PICK m \in CheckAndEvict : ent' = [m EXCEPT ![b] = e]
      BY <2>5 DEF LsqWriteMiss
    <3> HIDE DEF e, b
    <3>4. owed' = [owed EXCEPT ![b] = LinesHit]
      BY <2>4, <2>5, <3>2
    <3> QED
      BY <1>1, <1>3, <1>5, <2>1, <3>1, <3>2, <3>3, <3>4
  <2>6. CASE LsqWritePatchRmw /\ TakeWrites
    <3> DEFINE lines == MergedLines(ent[b])
               e == IF WriteTypeFor(lines) = "write_comb"
                    THEN AssignNewRequest(ent[b], "write_comb", lines)
                    ELSE [ent[b] EXCEPT !.cl = lines]
    <3>1. PatchRmw(ent[b]) /\ ent' = [ent EXCEPT ![b] = e]
      BY <2>6 DEF LsqWritePatchRmw
    <3>2. lines \in SUBSET CL /\ LinesHit \in SUBSET lines /\ ent[b].cl \subseteq lines
      BY <2>2, <2>3 DEF MergedLines, Entry
    <3>3. /\ ent[b].state # "pending_ait_r" /\ ent[b].cbq = <<>>
          /\ owed[b] \subseteq lines
      BY <2>2, <3>1, <3>2 DEF EntryOK, PatchRmw, ReadTypes
    <3> HIDE DEF lines
    <3>4. EntryOK(AssignNewRequest(ent[b], "write_comb", lines), asked[b], owed[b] \cup LinesHit)
      BY <2>2, <3>2, <3>3, WriteAgainOK
    <3>5. EntryOK([ent[b] EXCEPT !.cl = lines], asked[b], owed[b] \cup LinesHit)
      BY <2>2, <3>1, <3>2, LinesOK
    <3>6. EntryOK(e, asked[b], owed[b] \cup LinesHit)
      BY <3>4, <3>5
    <3> HIDE DEF e, b
    <3> QED
      BY <1>1, <1>2, <1>3, <2>1, <2>4, <2>6, <3>1, <3>6
  <2>7. CASE LsqWritePatch /\ TakeWrites
    <3> DEFINE e == AssignNewRequest(ent[b], "write_patch", LinesHit)
    <3>1. ~ent[b].pending /\ ent' = [ent EXCEPT ![b] = e]
      BY <2>7 DEF LsqWritePatch
    <3>2. ent[b].state = "end" /\ ent[b].cbq = <<>>
      BY <2>2, <3>1 DEF EntryOK
    <3>3. owed[b] = {}
      BY <2>2, <3>2, RestOwesNothing
    <3>4. EntryOK(e, asked[b], owed[b] \cup LinesHit)
      BY <2>2, <2>3, <3>2, <3>3, WriteAgainOK
    <3> HIDE DEF e, b
    <3> QED
      BY <1>1, <1>2, <1>3, <2>1, <2>4, <2>7, <3>1, <3>4
  <2>8. CASE UNCHANGED <<ent, owed>>
    BY <1>2, <1>3, <2>1, <2>8
  <2> QED
    BY <1>8, <2>5, <2>6, <2>7, <2>8 DEF TickLsqWrite
<1>9. CASE TickLsqIdle
  BY <1>2, <1>3, <1>9 DEF TickLsqIdle
<1> QED
  BY <1>7, <1>8, <1>9 DEF TickLsq

\* Everything outside of the tick of the buffer.
LEMMA OtherStep ==
  ASSUME IInv,
         \/ TickRoq \/ Upstream \/ AitTake \/ EndCycle
         \/ \E b \in Blocks : AitAnswer(b)
  PROVE  EntryInv'
<1>1. /\ ent \in [Blocks -> Entry] /\ asked \in [Blocks -> Nat]
      /\ owed \in [Blocks -> SUBSET CL]
  BY DEF IInv, TypeOK
<1>2. (\A c \in Blocks : EntryOK(ent[c], asked[c], owed[c])) /\ TodoActs
  BY DEF IInv, EntryInv
<1>3. CASE TickRoq
  BY <1>2, <1>3 DEF TickRoq, EntryInv, TodoActs
<1>4. ASSUME UNCHANGED <<ent, asked, owed, phase, todo>>
      PROVE  EntryInv'
  BY <1>2, <1>4 DEF EntryInv, TodoActs
<1>5. CASE Upstream
  <2>1. CASE Drain
    <3>1. \A c \in Blocks : ~(ent[c].dirty /\ ent[c].state = "end")
      BY <1>2 DEF EntryOK
    <3>2. ent' = ent
      BY <1>1, <2>1, <3>1 DEF Drain
    <3> QED
      BY <1>4, <2>1, <3>2 DEF Drain
  <2> QED
    BY <1>4, <1>5, <2>1 DEF Upstream, IssueRead, IssueWrite
<1>6. CASE AitTake
  BY <1>4, <1>6 DEF AitTake
<1>7. ASSUME NEW b \in Blocks, AitAnswer(b)
      PROVE  EntryInv'
  <2> DEFINE e == [ent[b] EXCEPT !.waiting = FALSE, !.wait = 1]
  <2>1. EntryOK(e, asked[b] - 1, owed[b])
    BY <1>1, <1>2, <1>7, AnsweredOK DEF AitAnswer
  <2>2. /\ ent' = [ent EXCEPT ![b] = e] /\ asked' = [asked EXCEPT ![b] = @ - 1]
        /\ owed' = owed /\ todo' = {}
    BY <1>7 DEF AitAnswer, Settled
  <2> HIDE DEF e
  <2>3. \A c \in Blocks : EntryOK(ent'[c], asked'[c], owed'[c])
    BY <1>1, <1>2, <2>1, <2>2
  <2> QED
    BY <2>2, <2>3 DEF EntryInv, TodoActs
<1>8. CASE EndCycle
  <2>1. \A c \in Blocks : Rank(c) \in Nat
    BY RankType DEF IInv
  <2>2. \A c \in Blocks :
          EntryOK([ent[c] EXCEPT !.wait = IF @ > 0 THEN @ - 1 ELSE @, !.used = Rank(c)],
                  asked[c], owed[c])
    BY <1>1, <1>2, <2>1, AgedOK
  <2>3. \A c \in Blocks : EntryOK(ent'[c], asked'[c], owed'[c])
    BY <1>2, <1>8, <2>2 DEF EndCycle
  <2> QED
    BY <1>8, <2>3 DEF EndCycle, EntryInv, TodoActs
<1> QED
  BY <1>3, <1>5, <1>6, <1>7, <1>8

\* EntryInv holds in every state of every instance of the buffer: the fields
\* of an entry, the AIT's debts to it and its debts to the AIT always agree.
THEOREM EntriesConsistent == Spec => []EntryInv
<1>1. Init => EntryInv
  BY NoEntryOK DEF Init, EntryInv, TodoActs
<1>2. TypeOK /\ EntryInv /\ [Next]_vars => EntryInv'
  <2>1. ASSUME IInv, Next
        PROVE  EntryInv'
    BY <2>1, LsqStep, BufferStep, OtherStep DEF Next, TickInternalBuffer
  <2>2. ASSUME EntryInv, UNCHANGED vars
        PROVE  EntryInv'
    BY <2>2 DEF EntryInv, TodoActs, vars
  <2> QED
    BY <2>1, <2>2 DEF IInv
<1> QED
  BY <1>1, <1>2, TypeCorrect, PTL DEF Spec

(***************************************************************************)
(* The queues and the buffer never exceed their capacity                   *)
(***************************************************************************)
Bounded ==
  /\ Cardinality(Cached) <= BufferEntries
  /\ \A b \in Blocks : Len(ent[b].cbq) <= Cardinality(CL)
  /\ Len(lsq) <= LsqEntries /\ Len(roq) <= RoqEntries

\* The blocks that have an entry in buffer m.
Used(m) == {b \in Blocks : m[b].type # "none"}

\* The set of used blocks is finite.
LEMMA UsedFinite ==
  ASSUME NEW m
  PROVE  IsFiniteSet(Used(m)) /\ Cardinality(Used(m)) \in Nat
  BY FS_Subset, FS_CardinalityType DEF Used

\* check_and_evict leaves room for one more entry.
LEMMA EvictionMakesRoom ==
  ASSUME TypeOK, Cardinality(Cached) <= BufferEntries, NEW m \in CheckAndEvict
  PROVE  Cardinality(Used(m)) < BufferEntries
<1>1. Cached = Used(ent)
  BY DEF Cached, Used
<1>2. Cardinality(Cached) \in Nat /\ IsFiniteSet(Cached)
  BY <1>1, UsedFinite
<1>3. CASE BufferFull
  <2>1. PICK v \in Oldest : m = [ent EXCEPT ![v] = NoEntry]
    BY <1>3 DEF CheckAndEvict
  <2>2. v \in Cached /\ v \in Blocks
    BY <2>1 DEF Oldest, Cached
  <2>3. NoEntry.type = "none"
    BY DEF NoEntry
  <2>4. Used(m) = Cached \ {v}
    BY <2>1, <2>2, <2>3 DEF Used, Cached, TypeOK
  <2>5. Cardinality(Cached \ {v}) = Cardinality(Cached) - 1
    BY <1>2, <2>2, FS_RemoveElement
  <2> QED
    BY <1>2, <2>4, <2>5
<1>4. CASE ~BufferFull
  BY <1>1, <1>2, <1>4 DEF CheckAndEvict, BufferFull
<1> QED
  BY <1>3, <1>4

\* One more entry fits in where there is room.
LEMMA InsertFits ==
  ASSUME NEW m, NEW n, NEW b \in Blocks,
         \A c \in Blocks \ {b} : n[c] = m[c], Cardinality(Used(m)) < BufferEntries
  PROVE  Cardinality(Used(n)) <= BufferEntries
<1>1. Used(n) \subseteq Used(m) \cup {b}
  BY DEF Used
<1>2. IsFiniteSet(Used(m)) /\ Cardinality(Used(m)) \in Nat /\ Cardinality(Used(n)) \in Nat
  BY UsedFinite
<1>3. /\ IsFiniteSet(Used(m) \cup {b})
      /\ Cardinality(Used(m) \cup {b}) \in Nat
      /\ Cardinality(Used(m) \cup {b}) <= Cardinality(Used(m)) + 1
  <2> DEFINE U == Used(m)
  <2>1. /\ IsFiniteSet(U \cup {b})
        /\ Cardinality(U \cup {b}) = IF b \in U THEN Cardinality(U) ELSE Cardinality(U) + 1
    BY <1>2, FS_AddElement
  <2> HIDE DEF U
  <2>2. Cardinality(U) \in Nat
    BY <1>2 DEF U
  <2>3. Cardinality(U \cup {b}) \in Nat /\ Cardinality(U \cup {b}) <= Cardinality(U) + 1
    BY <2>1, <2>2
  <2> QED
    BY <2>1, <2>3 DEF U
<1>4. Cardinality(Used(n)) <= Cardinality(Used(m) \cup {b})
  BY <1>1, <1>3, FS_Subset
<1> QED
  BY <1>2, <1>3, <1>4

\* What stays in a queue is not longer than the queue.
LEMMA PickShorter ==
  ASSUME NEW S, NEW q \in Seq(S), NEW K \in SUBSET DOMAIN q, NEW s \in Pick(q, K)
  PROVE  Len(s) <= Len(q)
<1>1. IsFiniteSet(DOMAIN q) /\ Cardinality(DOMAIN q) = Len(q)
  <2>1. Len(q) \in Nat /\ DOMAIN q = 1 .. Len(q)
    OBVIOUS
  <2>2. /\ IsFiniteSet(1 .. Len(q))
        /\ Cardinality(1 .. Len(q)) = IF 1 > Len(q) THEN 0 ELSE Len(q) - 1 + 1
    BY <2>1, FS_Interval, SMTT(30)
  <2>3. Cardinality(1 .. Len(q)) = Len(q)
    BY <2>1, <2>2
  <2> QED
    BY <2>1, <2>2, <2>3
<1>2. Cardinality(K) \in Nat /\ Cardinality(K) <= Len(q)
  BY <1>1, FS_Subset, FS_CardinalityType
<1>3. PICK f \in [1 .. Cardinality(K) -> K] : s = [k \in 1 .. Cardinality(K) |-> q[f[k]]]
  BY DEF Pick
<1>4. \A k \in 1 .. Cardinality(K) : q[f[k]] \in S
  BY <1>2, <1>3
<1>5. s \in [1 .. Cardinality(K) -> S]
  BY <1>3, <1>4
<1>6. s \in Seq(S) /\ Len(s) = Cardinality(K)
  BY <1>2, <1>5
<1> QED
  BY <1>2, <1>6

\* A step keeps the bounds if it keeps the types of all entries, makes no
\* callback queue too long and no other queue either.
LEMMA SameTypes ==
  ASSUME TypeOK, Bounded,
         \A c \in Blocks : /\ ent'[c].type = ent[c].type
                           /\ Len(ent'[c].cbq) <= Cardinality(CL),
         Len(lsq') <= LsqEntries, Len(roq') <= RoqEntries
  PROVE  Bounded'
<1>1. Cached' = Cached
  BY DEF Cached
<1>2. Cardinality(Cached') <= BufferEntries
  BY <1>1 DEF Bounded
<1> QED
  BY <1>2 DEF Bounded

\* The same, for steps that leave the callback queues alone.
LEMMA SameEntries ==
  ASSUME TypeOK, Bounded,
         \A c \in Blocks : ent'[c].type = ent[c].type /\ ent'[c].cbq = ent[c].cbq,
         Len(lsq') <= LsqEntries, Len(roq') <= RoqEntries
  PROVE  Bounded'
<1>1. \A c \in Blocks : Len(ent'[c].cbq) <= Cardinality(CL)
  BY DEF Bounded
<1> QED
  BY <1>1, SameTypes

\* tick_internal_buffer appends to the roq only below its capacity.
LEMMA BufferBounded ==
  ASSUME TypeOK, Bounded, NEW b \in Blocks,
         WriteRmw(b) \/ WriteComb(b) \/ WritePatch(b) \/ ReadCold(b) \/ ReadFf(b)
  PROVE  Bounded'
<1> DEFINE Same == \A c \in Blocks : ent'[c].type = ent[c].type /\ ent'[c].cbq = ent[c].cbq
           Quiet == lsq' = lsq /\ roq' = roq
<1>1. ent \in [Blocks -> Entry] /\ ent[b] \in Entry /\ room \in Nat
  BY DEF TypeOK
<1>2. ASSUME Same, Quiet
      PROVE  Bounded'
  BY <1>2, SameEntries DEF Bounded
<1>3. ASSUME NEW type, NEW state, At(b, type, state)
      PROVE  lsq' = lsq
  BY <1>3 DEF At
<1>4. ASSUME NEW e, ent' = [ent EXCEPT ![b] = e], e.type = ent[b].type, e.cbq = ent[b].cbq
      PROVE  Same
  BY <1>1, <1>4
<1> HIDE DEF Same
<1>5. ASSUME ent' = ent
      PROVE  Same
  BY <1>5 DEF Same
<1>6. ASSUME NEW state, NEW n, Move(b, state, n) \/ MoveLocal(b, state, n)
      PROVE  Same /\ roq' = roq
  BY <1>1, <1>4, <1>6 DEF Move, MoveLocal, Entry
<1>7. ASSUME NEW dirty, AskAit(b, dirty)
      PROVE  Same /\ roq' = roq
  BY <1>1, <1>4, <1>5, <1>7 DEF AskAit, Entry
<1>8. ASSUME SendAit(b)
      PROVE  Same /\ roq' = roq
  BY <1>1, <1>4, <1>5, <1>8 DEF SendAit, Entry
<1>9. ASSUME NEW type, WriteTail(b, type)
      PROVE  Bounded'
  <2>1. CASE At(b, type, "pending_ait_w") /\ Move(b, "pending_modify", RmwToAit)
    BY <1>2, <1>3, <1>6, <2>1
  <2>2. CASE At(b, type, "pending_modify") /\ SendAit(b)
    BY <1>2, <1>3, <1>8, <2>2
  <2>3. CASE /\ At(b, type, "pending_write")
             /\ ent' = [ent EXCEPT ![b] = [@ EXCEPT !.state = "end", !.pending = FALSE,
                                                    !.dirty = FALSE, !.used = Now]]
             /\ UNCHANGED <<roq, room, asked, owed>>
    <3>1. Same
      BY <1>1, <1>4, <2>3 DEF Entry
    <3> QED
      BY <1>2, <1>3, <2>3, <3>1
  <2> QED
    BY <1>9, <2>1, <2>2, <2>3 DEF WriteTail
<1>10. ASSUME WriteLocal(b)
       PROVE  Same /\ roq' = roq
  BY <1>1, <1>4, <1>10 DEF WriteLocal, Entry
<1>11. ASSUME NEW again, IssueRoq(b, again), lsq' = lsq
       PROVE  Bounded'
  <2>1. CASE Len(roq) < RoqEntries /\ ent[b].cbq # <<>>
    <3> DEFINE c == Head(ent[b].cbq)
               rest == Tail(ent[b].cbq)
               out == [blk |-> b, cl |-> c, cb |-> ent[b].cbs[c]]
               state == IF rest # <<>> THEN again ELSE "end"
               pending == rest # <<>>
    <3>1. ent[b].cbq \in Seq(CL)
      BY <1>1 DEF Entry
    <3>2. rest \in Seq(CL) /\ Len(rest) <= Len(ent[b].cbq)
      BY <2>1, <3>1
    <3>3. /\ roq' = Append(roq, out)
          /\ ent' = [ent EXCEPT ![b] = [@ EXCEPT !.cbq = rest, !.used = Now,
                                                 !.state = state, !.pending = pending]]
      BY <1>11, <2>1 DEF IssueRoq, TypeOK
    <3>4. Len(roq') <= RoqEntries
      <4> HIDE DEF out
      <4> QED
        BY <2>1, <3>3 DEF TypeOK
    <3>5. ent[b].cbq \in Seq(CL) /\ Len(ent[b].cbq) <= Cardinality(CL) /\ Cardinality(CL) \in Nat
      BY <3>1, FS_CardinalityType DEF Bounded
    <3>6. Len(rest) <= Cardinality(CL)
      BY <3>2, <3>5
    <3> HIDE DEF rest, state, pending, out
    <3>7. /\ ent'[b].type = ent[b].type /\ ent'[b].cbq = rest
          /\ \A d \in Blocks \ {b} : ent'[d] = ent[d]
      BY <1>1, <3>3 DEF Entry
    <3>8. \A d \in Blocks : ent'[d].type = ent[d].type /\ Len(ent'[d].cbq) <= Cardinality(CL)
      BY <3>6, <3>7 DEF Bounded
    <3> QED
      BY <1>11, <3>4, <3>8, SameTypes DEF Bounded
  <2>2. CASE Len(roq) >= RoqEntries /\ UNCHANGED <<ent, room, asked, roq, owed>>
    BY <1>2, <1>5, <1>11, <2>2
  <2> QED
    BY <1>11, <2>1, <2>2 DEF IssueRoq
<1>12. CASE WriteRmw(b)
  BY <1>2, <1>3, <1>6, <1>7, <1>9, <1>12 DEF WriteRmw
<1>13. CASE WriteComb(b)
  BY <1>2, <1>3, <1>9, <1>10, <1>13 DEF WriteComb
<1>14. CASE WritePatch(b)
  BY <1>2, <1>3, <1>9, <1>10, <1>14 DEF WritePatch
<1>15. CASE ReadCold(b)
  <2>1. CASE At(b, "read_cold", "init") /\ AskAit(b, FALSE)
    BY <1>2, <1>3, <1>7, <2>1
  <2>2. CASE At(b, "read_cold", "pending_ait_r") /\ Move(b, "pending_read", AitToRmw)
    BY <1>2, <1>3, <1>6, <2>2
  <2>3. CASE /\ At(b, "read_cold", "pending_read")
             /\ ent' = [ent EXCEPT ![b] =
                          [@ EXCEPT !.state = "pending_readout", !.valid = TRUE,
                                    !.used = Now, !.waiting = FALSE, !.wait = LocalRead]]
             /\ UNCHANGED <<roq, room, asked, owed>>
    <3>1. Same
      BY <1>1, <1>4, <2>3 DEF Entry
    <3> QED
      BY <1>2, <1>3, <2>3, <3>1
  <2>4. CASE At(b, "read_cold", "pending_readout") /\ IssueRoq(b, "pending_read")
    BY <1>3, <1>11, <2>4
  <2> QED
    BY <1>15, <2>1, <2>2, <2>3, <2>4 DEF ReadCold
<1>16. CASE ReadFf(b)
  <2>1. CASE /\ At(b, "read_ff", "init")
             /\ ent' = [ent EXCEPT ![b] =
                          [@ EXCEPT !.state = "pending_readout", !.pending = TRUE,
                                    !.dirty = FALSE, !.valid = TRUE, !.used = Now,
                                    !.waiting = FALSE, !.wait = LocalRead]]
             /\ UNCHANGED <<roq, room, asked, owed>>
    <3>1. Same
      BY <1>1, <1>4, <2>1 DEF Entry
    <3> QED
      BY <1>2, <1>3, <2>1, <3>1
  <2>2. CASE At(b, "read_ff", "pending_readout") /\ IssueRoq(b, "init")
    BY <1>3, <1>11, <2>2
  <2> QED
    BY <1>16, <2>1, <2>2 DEF ReadFf
<1> QED
  BY <1>12, <1>13, <1>14, <1>15, <1>16

\* tick_lsq puts a new entry only where check_and_evict made room, and a read
\* joins another one only while the callback queue has a slot.
LEMMA LsqBounded ==
  ASSUME TypeOK, EntryInv, Bounded, TickLsq
  PROVE  Bounded'
<1> DEFINE b == Front.blk
<1>1. ent \in [Blocks -> Entry] /\ lsq \in Seq(Request) /\ Cardinality(CL) \in Nat
  BY FS_CardinalityType DEF TypeOK
<1>2. roq' = roq
  BY DEF TickLsq, TickLsqRead, TickLsqWrite, TickLsqIdle
<1>3. Len(lsq) \in Nat /\ Len(lsq) <= LsqEntries /\ Len(roq') <= RoqEntries
  BY <1>1, <1>2 DEF Bounded
<1>4. ASSUME lsq # <<>>
      PROVE  /\ b \in Blocks /\ Front.cl \in CL /\ Front.cb \in Callbacks
             /\ Len(Tail(lsq)) <= LsqEntries
  <2>1. Front \in Request
    BY <1>1, <1>4 DEF Front
  <2>2. Len(Tail(lsq)) <= Len(lsq)
    BY <1>1, <1>4
  <2>3. Len(Tail(lsq)) \in Nat
    BY <1>1, <1>4
  <2> QED
    BY <1>3, <2>1, <2>2, <2>3 DEF Request
<1>5. Cardinality(CL) >= 1 \/ CL = {}
  BY <1>1, FS_EmptySet
<1>6. \A c \in Blocks : ent[c].cbq \in Seq(CL) /\ Len(ent[c].cbq) <= Cardinality(CL)
  BY <1>1 DEF Entry, Bounded
\* a new entry
<1>7. ASSUME b \in Blocks, NEW m \in CheckAndEvict, NEW e, ent' = [m EXCEPT ![b] = e],
             Len(e.cbq) <= Cardinality(CL), Len(lsq') <= LsqEntries
      PROVE  Bounded'
  <2>1. m \in [Blocks -> Entry] /\ Cardinality(Used(m)) < BufferEntries
    BY <1>7, CheckAndEvictType, EvictionMakesRoom DEF Bounded
  <2>2. ent'[b] = e /\ \A c \in Blocks \ {b} : ent'[c] = m[c]
    BY <1>7, <2>1
  <2>3. Cardinality(Used(ent')) <= BufferEntries
    BY <1>7, <2>1, <2>2, InsertFits
  <2>4. Used(ent') = Cached'
    BY DEF Used, Cached
  <2>5. \A c \in Blocks : m[c].cbq = ent[c].cbq \/ m[c].cbq = <<>>
    <3>1. NoEntry.cbq = <<>>
      BY DEF NoEntry
    <3> QED
      BY <1>1, <1>7, <3>1 DEF CheckAndEvict
  <2>6. Len(<<>>) <= Cardinality(CL)
    BY <1>1
  <2>7. \A c \in Blocks : Len(ent'[c].cbq) <= Cardinality(CL)
    BY <1>6, <1>7, <2>2, <2>5, <2>6
  <2> QED
    BY <1>3, <1>7, <2>3, <2>4, <2>7 DEF Bounded
\* an entry that stays, with another request
<1>8. ASSUME b \in Blocks, ent[b].type # "none", NEW e, e.type # "none",
             ent' = [ent EXCEPT ![b] = e],
             Len(e.cbq) <= Cardinality(CL), Len(lsq') <= LsqEntries
      PROVE  Bounded'
  <2>1. ent'[b] = e /\ \A c \in Blocks \ {b} : ent'[c] = ent[c]
    BY <1>1, <1>8
  <2>2. Cached' = Cached
    BY <1>8, <2>1 DEF Cached
  <2>3. Cardinality(Cached') <= BufferEntries
    BY <2>2 DEF Bounded
  <2>4. \A c \in Blocks : Len(ent'[c].cbq) <= Cardinality(CL)
    BY <1>6, <1>8, <2>1
  <2> QED
    BY <1>3, <1>8, <2>3, <2>4 DEF Bounded
<1>9. CASE TickLsqRead
  <2>1. /\ b \in Blocks /\ Front.cl \in CL /\ Front.cb \in Callbacks
        /\ Len(Tail(lsq)) <= LsqEntries
    BY <1>4, <1>9 DEF TickLsqRead
  <2>2. ent[b] \in Entry
    BY <1>1, <2>1
  <2>3. CASE LsqReadMiss /\ lsq' = Tail(lsq)
    <3> DEFINE e == AssignCallback(ResetCallback(NewEntry("read_cold", {Front.cl})),
                                   Front.cl, Front.cb)
    <3>1. e.cbq = Append(<<>>, Front.cl)
      BY DEF AssignCallback, ResetCallback, NewEntry, NoEntry
    <3>2. PICK m \in CheckAndEvict : ent' = [m EXCEPT ![b] = e]
      BY <2>3 DEF LsqReadMiss
    <3> HIDE DEF e
    <3>3. Len(e.cbq) <= Cardinality(CL)
      BY <1>1, <1>5, <2>1, <3>1
    <3> HIDE DEF b
    <3> QED
      BY <1>7, <2>1, <2>3, <3>2, <3>3
  <2>4. CASE LsqReadPatch /\ lsq' = Tail(lsq)
    <3> DEFINE e == AssignCallback(ent[b], Front.cl, Front.cb)
    <3>1. e.cbq = Append(ent[b].cbq, Front.cl) /\ e.type = ent[b].type
      BY <2>2 DEF AssignCallback, Entry
    <3>2. Len(ent[b].cbq) < Cardinality(CL) /\ ent[b].type # "none"
      BY <2>4 DEF LsqReadPatch, Patchable, ReadPending, ReadTypes
    <3>3. ent' = [ent EXCEPT ![b] = e]
      BY <2>4 DEF LsqReadPatch
    <3> HIDE DEF e
    <3>4. Len(e.cbq) <= Cardinality(CL)
      BY <1>1, <1>6, <2>1, <3>1, <3>2
    <3> HIDE DEF b
    <3> QED
      BY <1>8, <2>1, <2>4, <3>1, <3>2, <3>3, <3>4
  <2>5. CASE LsqReadForward /\ lsq' = Tail(lsq)
    <3> DEFINE e == AssignCallback(ResetCallback(AssignNewRequest(ent[b], "read_ff", {Front.cl})),
                                   Front.cl, Front.cb)
    <3>1. e.cbq = Append(ent[b].cbq, Front.cl) /\ e.type = "read_ff"
      BY <2>2 DEF AssignCallback, ResetCallback, AssignNewRequest, Entry
    <3>2. ent[b].cbq = <<>> /\ ent[b].type # "none"
      BY <2>1, <2>5 DEF LsqReadForward, Forwardable, ReadPending, EntryInv, EntryOK
    <3>3. ent' = [ent EXCEPT ![b] = e]
      BY <2>5 DEF LsqReadForward
    <3> HIDE DEF e
    <3>4. Len(e.cbq) <= Cardinality(CL)
      BY <1>1, <1>5, <2>1, <3>1, <3>2
    <3> HIDE DEF b
    <3> QED
      BY <1>8, <2>1, <2>5, <3>1, <3>2, <3>3, <3>4
  <2>6. CASE UNCHANGED <<lsq, ent>>
    BY <1>3, <2>6, SameEntries
  <2> QED
    BY <1>9, <2>3, <2>4, <2>5, <2>6 DEF TickLsqRead
<1>10. CASE TickLsqWrite
  <2>1. b \in Blocks
    BY <1>4, <1>10 DEF TickLsqWrite
  <2>2. ent[b] \in Entry /\ ent[b].cbq \in Seq(CL) /\ Len(ent[b].cbq) <= Cardinality(CL)
    BY <1>1, <1>6, <2>1
  <2>3. ASSUME TakeWrites
        PROVE  Len(lsq') <= LsqEntries
    <3>1. PICK q \in Pick(lsq, DOMAIN lsq \ Combined) : lsq' = q
      BY <2>3 DEF TakeWrites
    <3>2. q \in Seq(Request) /\ Len(q) <= Len(lsq)
      BY <1>1, PickType, PickShorter
    <3> QED
      BY <1>3, <3>1, <3>2
  <2>4. CASE LsqWriteMiss /\ TakeWrites
    <3> DEFINE e == NewEntry(WriteTypeFor(LinesHit), LinesHit)
    <3>1. e.cbq = <<>>
      BY DEF NewEntry, NoEntry
    <3>2. PICK m \in CheckAndEvict : ent' = [m EXCEPT ![b] = e]
      BY <2>4 DEF LsqWriteMiss
    <3> HIDE DEF e
    <3>3. Len(e.cbq) <= Cardinality(CL)
      BY <1>1, <3>1
    <3> HIDE DEF b
    <3> QED
      BY <1>7, <2>1, <2>3, <2>4, <3>2, <3>3
  <2>5. CASE LsqWritePatchRmw /\ TakeWrites
    <3> DEFINE lines == MergedLines(ent[b])
               e == IF WriteTypeFor(lines) = "write_comb"
                    THEN AssignNewRequest(ent[b], "write_comb", lines)
                    ELSE [ent[b] EXCEPT !.cl = lines]
    <3>1. ent[b].type = "write_rmw" /\ ent' = [ent EXCEPT ![b] = e]
      BY <2>5 DEF LsqWritePatchRmw, PatchRmw
    <3> HIDE DEF lines
    <3>2. e.type # "none" /\ e.cbq = ent[b].cbq
      BY <2>2, <3>1 DEF AssignNewRequest, Entry
    <3> HIDE DEF e, b
    <3> QED
      BY <1>8, <2>1, <2>2, <2>3, <2>5, <3>1, <3>2
  <2>6. CASE LsqWritePatch /\ TakeWrites
    <3> DEFINE e == AssignNewRequest(ent[b], "write_patch", LinesHit)
    <3>1. ent[b].type # "none" /\ ent' = [ent EXCEPT ![b] = e]
      BY <2>6 DEF LsqWritePatch
    <3>2. e.type # "none" /\ e.cbq = ent[b].cbq
      BY <2>2 DEF AssignNewRequest, Entry
    <3> HIDE DEF e, b
    <3> QED
      BY <1>8, <2>1, <2>2, <2>3, <2>6, <3>1, <3>2
  <2>7. CASE UNCHANGED <<lsq, ent>>
    BY <1>3, <2>7, SameEntries
  <2> QED
    BY <1>10, <2>4, <2>5, <2>6, <2>7 DEF TickLsqWrite
<1>11. CASE TickLsqIdle
  BY <1>3, <1>11, SameEntries DEF TickLsqIdle
<1> QED
  BY <1>9, <1>10, <1>11 DEF TickLsq

\* The remaining steps: a request is accepted only below the lsq's capacity.
LEMMA OtherBounded ==
  ASSUME TypeOK, EntryInv, Bounded,
         \/ TickRoq \/ Upstream \/ AitTake \/ EndCycle
         \/ \E b \in Blocks : AitAnswer(b)
  PROVE  Bounded'
<1>1. /\ ent \in [Blocks -> Entry] /\ lsq \in Seq(Request) /\ roq \in Seq(Readout)
      /\ Len(lsq) <= LsqEntries /\ Len(roq) <= RoqEntries
  BY DEF TypeOK, Bounded
<1>2. CASE TickRoq
  <2>1. Len(roq') <= RoqEntries
    <3>1. roq # <<>> => Len(Tail(roq)) <= Len(roq) /\ Len(Tail(roq)) \in Nat
      BY <1>1
    <3>2. Len(roq) \in Nat
      BY <1>1
    <3> QED
      BY <1>1, <1>2, <3>1, <3>2 DEF TickRoq
  <2> QED
    BY <1>1, <1>2, <2>1, SameEntries DEF TickRoq
<1>3. ASSUME Len(lsq) < LsqEntries, NEW req, lsq' = Append(lsq, req), UNCHANGED <<ent, roq>>
      PROVE  Bounded'
  <2>1. Len(lsq') = Len(lsq) + 1 /\ Len(lsq) \in Nat
    BY <1>1, <1>3
  <2>2. Len(lsq') <= LsqEntries
    BY <1>3, <2>1
  <2> QED
    BY <1>1, <1>3, <2>2, SameEntries
<1>4. CASE Upstream
  <2>1. CASE Drain
    <3>1. \A c \in Blocks : ~(ent[c].dirty /\ ent[c].state = "end")
      BY DEF EntryInv, EntryOK
    <3>2. ent' = ent
      BY <1>1, <2>1, <3>1 DEF Drain
    <3> QED
      BY <1>1, <2>1, <3>2, SameEntries DEF Drain
  <2>2. ASSUME NEW b \in Blocks, NEW c \in CL, NEW r \in Callbacks, IssueRead(b, c, r)
        PROVE  Bounded'
    BY <1>3, <2>2 DEF IssueRead
  <2>3. ASSUME NEW b \in Blocks, NEW c \in CL, IssueWrite(b, c)
        PROVE  Bounded'
    BY <1>3, <2>3 DEF IssueWrite
  <2> QED
    BY <1>4, <2>1, <2>2, <2>3 DEF Upstream
<1>5. CASE AitTake
  BY <1>1, <1>5, SameEntries DEF AitTake
<1>6. ASSUME NEW b \in Blocks, AitAnswer(b)
      PROVE  Bounded'
  <2>1. ent' = [ent EXCEPT ![b] = [@ EXCEPT !.waiting = FALSE, !.wait = 1]]
    BY <1>6 DEF AitAnswer
  <2>2. \A c \in Blocks : ent'[c].type = ent[c].type /\ ent'[c].cbq = ent[c].cbq
    BY <1>1, <2>1 DEF Entry
  <2> QED
    BY <1>1, <1>6, <2>2, SameEntries DEF AitAnswer
<1>7. CASE EndCycle
  <2> DEFINE w(c) == IF ent[c].wait > 0 THEN ent[c].wait - 1 ELSE ent[c].wait
  <2>1. ent' = [c \in Blocks |->
                  IF c \in Cached THEN [ent[c] EXCEPT !.wait = w(c), !.used = Rank(c)]
                  ELSE ent[c]]
    BY <1>7 DEF EndCycle
  <2> HIDE DEF w
  <2>2. \A c \in Blocks : ent'[c].type = ent[c].type /\ ent'[c].cbq = ent[c].cbq
    BY <1>1, <2>1 DEF Entry
  <2> QED
    BY <1>1, <1>7, <2>2, SameEntries DEF EndCycle
<1> QED
  BY <1>2, <1>4, <1>5, <1>6, <1>7

\* No queue, callback queue or buffer ever exceeds its capacity.
LEMMA AlwaysBounded == Spec => []Bounded
<1>1. Init => Bounded
  <2> SUFFICES ASSUME Init
               PROVE  Bounded
    OBVIOUS
  <2>1. NoEntry.type = "none" /\ NoEntry.cbq = <<>>
    BY DEF NoEntry
  <2>2. Cached = {}
    BY <2>1 DEF Init, Cached
  <2>3. Cardinality(Cached) = 0 /\ Cardinality(CL) \in Nat
    BY <2>2, FS_EmptySet, FS_CardinalityType
  <2> QED
    BY <2>1, <2>3 DEF Init, Bounded
<1>2. TypeOK /\ EntryInv /\ Bounded /\ [Next]_vars => Bounded'
  <2>1. ASSUME TypeOK, EntryInv, Bounded, Next
        PROVE  Bounded'
    BY <2>1, LsqBounded, BufferBounded, OtherBounded DEF Next, TickInternalBuffer
  <2>2. ASSUME TypeOK, Bounded, UNCHANGED vars
        PROVE  Bounded'
    BY <2>2 DEF Bounded, Cached, vars
  <2> QED
    BY <2>1, <2>2
<1> QED
  BY <1>1, <1>2, TypeCorrect, EntriesConsistent, PTL DEF Spec

(***************************************************************************)
(* The safety properties                                                   *)
(***************************************************************************)

\* The AIT owes an entry a read exactly while the entry sleeps for it: an
\* answer never meets an entry that was evicted or reassigned.
THEOREM AnswersMatch == Spec => []AitReadsMatch
<1>1. EntryInv => AitReadsMatch
  BY DEF EntryInv, EntryOK, AitReadsMatch
<1> QED
  BY <1>1, EntriesConsistent, PTL

\* Evicting an entry at rest loses nothing, and drain never starts a flush.
THEOREM EvictionSafe == Spec => []RestIsClean
<1>1. EntryInv => RestIsClean
  BY DEF EntryInv, EntryOK, RestIsClean, Cached, ReadTypes
<1> QED
  BY <1>1, EntriesConsistent, PTL

\* No line of an accepted write is dropped before it is sent to the AIT.
THEOREM NoWriteDropped == Spec => []WritesKept
<1>1. EntryInv => WritesKept
  BY DEF EntryInv, EntryOK, WritesKept
<1> QED
  BY <1>1, EntriesConsistent, PTL

\* Reads and unsent writes of one block are never in an entry together.
THEOREM ReadsSeeWrites == Spec => []ReadWriteOrder
<1>1. EntryInv => ReadWriteOrder
  BY DEF EntryInv, EntryOK, ReadWriteOrder, ReadTypes, WriteTypes
<1> QED
  BY <1>1, EntriesConsistent, PTL

\* pending_current is not false while the AIT owes a read or is owed a write.
THEOREM QuietIsSent == Spec => []QuietMeansSent
<1>1. TypeOK /\ EntryInv => QuietMeansSent
  <2> SUFFICES ASSUME TypeOK, EntryInv, ~PendingCurrent, NEW b \in Blocks
               PROVE  owed[b] = {} /\ asked[b] = 0
    BY DEF QuietMeansSent
  <2>1. ~ent[b].pending
    BY DEF PendingCurrent, BufferPending
  <2>2. EntryOK(ent[b], asked[b], owed[b])
    BY DEF EntryInv
  <2>3. ent[b].state = "end"
    BY <2>1, <2>2 DEF EntryOK
  <2>4. ent[b] \in Entry /\ asked[b] \in Nat /\ owed[b] \in SUBSET CL
    BY DEF TypeOK
  <2> QED
    BY <2>2, <2>3, <2>4, RestOwesNothing
<1> QED
  BY <1>1, TypeCorrect, EntriesConsistent, PTL

\* None of the "Internal error" exceptions of the buffer can be thrown.
THEOREM NeverThrows == Spec => []NoInternalError
<1>1. TypeOK /\ EntryInv /\ Bounded => NoInternalError
  <2> SUFFICES ASSUME TypeOK, EntryInv, Bounded
               PROVE  NoInternalError
    OBVIOUS
  <2>1. ASSUME phase = "buf", NEW b \in todo
        PROVE  ~BufferThrows(b)
    <3>1. b \in Blocks /\ EntryOK(ent[b], asked[b], owed[b]) /\ Acts(ent[b])
      BY <2>1 DEF TypeOK, EntryInv, TodoActs
    <3>2. ent[b].state # "end"
      BY <3>1 DEF EntryOK, Acts
    <3>3. <<ent[b].type, ent[b].state>> \in Handled /\ ent[b].pending
      BY <3>1, <3>2 DEF EntryOK
    <3>4. ent[b].state # "init" => ent[b].wait # ClkInvalid
      BY <3>1, <3>2 DEF EntryOK, Acts
    <3>5. ent[b].state = "pending_readout" => ent[b].type \in ReadTypes
      BY <3>3 DEF Handled, ReadTypes
    <3>6. ent[b].state = "pending_readout" => ent[b].cbq # <<>>
      BY <3>1, <3>3, <3>5 DEF EntryOK
    <3> QED
      BY <3>3, <3>4, <3>6 DEF BufferThrows
  <2>2. ASSUME phase = "lsq", lsq # <<>>
        PROVE  ~LsqReadThrows(ent[Front.blk])
    <3>1. Front \in Request
      BY <2>2 DEF TypeOK, Front
    <3>2. Front.blk \in Blocks
      BY <3>1 DEF Request
    <3>3. EntryOK(ent[Front.blk], asked[Front.blk], owed[Front.blk])
      BY <3>2 DEF EntryInv
    <3> QED
      BY <3>3 DEF EntryOK, LsqReadThrows, ReadPending, Forwardable
  <2>3. ASSUME NEW b \in Blocks, asked[b] > 0
        PROVE  ent[b].type # "none"
    <3>1. EntryOK(ent[b], asked[b], owed[b])
      BY DEF EntryInv
    <3> QED
      BY <2>3, <3>1 DEF EntryOK
  <2> QED
    BY <2>1, <2>2, <2>3 DEF NoInternalError, Bounded
<1> QED
  BY <1>1, TypeCorrect, EntriesConsistent, AlwaysBounded, PTL

(***************************************************************************)
(* Where the callbacks are                                                 *)
(***************************************************************************)
\* Reads in the lsq: their callbacks wait for their lines, and no line is read
\* twice at the same time.
LsqCalls ==
  \A i \in DOMAIN lsq :
    /\ lsq[i].op = "write" => lsq[i].cb = NoCb
    /\ lsq[i].cb # NoCb => wanted[lsq[i].cb] = <<lsq[i].blk, lsq[i].cl>>
    /\ lsq[i].op = "read" =>
         /\ \A j \in DOMAIN lsq :
              lsq[j].op = "read" /\ lsq[j].blk = lsq[i].blk /\ lsq[j].cl = lsq[i].cl => j = i
         /\ \A j \in DOMAIN ent[lsq[i].blk].cbq : ent[lsq[i].blk].cbq[j] # lsq[i].cl

\* The callback that position i of b's callback queue stands for.
CallOf(b, i) == ent[b].cbs[ent[b].cbq[i]]

\* Reads that an entry serves.
BufferCalls ==
  \A b \in Blocks : \A i \in DOMAIN ent[b].cbq :
    /\ \A j \in DOMAIN ent[b].cbq : ent[b].cbq[j] = ent[b].cbq[i] => j = i
    /\ CallOf(b, i) # NoCb => wanted[CallOf(b, i)] = <<b, ent[b].cbq[i]>>

\* Reads in the roq, which have left the lsq and the buffer.
RoqCalls ==
  \A i \in DOMAIN roq : roq[i].cb # NoCb =>
    /\ wanted[roq[i].cb] = <<roq[i].blk, roq[i].cl>>
    /\ \A j \in DOMAIN roq : roq[j].cb = roq[i].cb => j = i
    /\ \A j \in DOMAIN lsq : lsq[j].cb # roq[i].cb
    /\ \A b \in Blocks : \A j \in DOMAIN ent[b].cbq : CallOf(b, j) # roq[i].cb

\* A read that is not answered has its callback somewhere.
NoneForgotten ==
  \A r \in ReadIds : wanted[r] # NoLine =>
    \/ \E i \in DOMAIN lsq : lsq[i].cb = r
    \/ \E i \in DOMAIN roq : roq[i].cb = r
    \/ \E b \in Blocks : \E i \in DOMAIN ent[b].cbq : CallOf(b, i) = r

CallsInv == LsqCalls /\ BufferCalls /\ RoqCalls /\ NoneForgotten

\* The positions of a queue without its head.
LEMMA TailFacts ==
  ASSUME NEW S, NEW q \in Seq(S), q # <<>>
  PROVE  /\ Len(q) \in Nat /\ Len(q) >= 1 /\ DOMAIN q = 1 .. Len(q)
         /\ Tail(q) \in Seq(S) /\ DOMAIN Tail(q) = 1 .. Len(q) - 1 /\ Head(q) = q[1]
         /\ \A i \in DOMAIN Tail(q) : Tail(q)[i] = q[i + 1] /\ i + 1 \in DOMAIN q
         /\ \A i \in DOMAIN q : i # 1 => i - 1 \in DOMAIN Tail(q) /\ Tail(q)[i - 1] = q[i]
<1>1. Len(q) \in Nat /\ DOMAIN q = 1 .. Len(q) /\ Len(q) # 0
  OBVIOUS
<1>2. Len(q) >= 1
  BY <1>1
<1>3. /\ Tail(q) \in Seq(S) /\ Len(Tail(q)) = Len(q) - 1 /\ Head(q) = q[1]
      /\ \A i \in 1 .. Len(q) - 1 : Tail(q)[i] = q[i + 1]
  BY <1>1, <1>2
<1>4. DOMAIN Tail(q) = 1 .. Len(q) - 1
  BY <1>3
<1>5. \A i \in DOMAIN Tail(q) : Tail(q)[i] = q[i + 1] /\ i + 1 \in DOMAIN q
  BY <1>1, <1>3, <1>4
<1>6. \A i \in DOMAIN q : i # 1 => i - 1 \in DOMAIN Tail(q) /\ (i - 1) + 1 = i
  BY <1>1, <1>4
<1>7. \A i \in DOMAIN q : i # 1 => Tail(q)[i - 1] = q[i]
  <2> SUFFICES ASSUME NEW i \in DOMAIN q, i # 1
               PROVE  Tail(q)[i - 1] = q[i]
    OBVIOUS
  <2>1. i - 1 \in DOMAIN Tail(q) /\ (i - 1) + 1 = i
    BY <1>6
  <2>2. Tail(q)[i - 1] = q[(i - 1) + 1]
    BY <1>5, <2>1
  <2> QED
    BY <2>1, <2>2
<1> QED
  BY <1>1, <1>2, <1>3, <1>4, <1>5, <1>6, <1>7

\* The positions of a queue with one more element.
LEMMA AppendFacts ==
  ASSUME NEW S, NEW q \in Seq(S), NEW x \in S
  PROVE  /\ Len(q) \in Nat /\ DOMAIN q = 1 .. Len(q) /\ Len(q) + 1 \notin DOMAIN q
         /\ DOMAIN Append(q, x) = DOMAIN q \cup {Len(q) + 1}
         /\ Append(q, x)[Len(q) + 1] = x
         /\ \A i \in DOMAIN q : Append(q, x)[i] = q[i]
<1>1. Len(q) \in Nat /\ DOMAIN q = 1 .. Len(q)
  OBVIOUS
<1>2. /\ Append(q, x) \in Seq(S) /\ Len(Append(q, x)) = Len(q) + 1
      /\ Append(q, x)[Len(q) + 1] = x
      /\ \A i \in 1 .. Len(q) : Append(q, x)[i] = q[i]
  OBVIOUS
<1>3. DOMAIN Append(q, x) = 1 .. Len(q) + 1
  BY <1>2
<1>4. 1 .. Len(q) + 1 = (1 .. Len(q)) \cup {Len(q) + 1}
  BY <1>1
<1> QED
  BY <1>1, <1>2, <1>3, <1>4

\* Requests and entries have the types of their fields.
LEMMA CallTypes ==
  ASSUME TypeOK
  PROVE  /\ \A i \in DOMAIN lsq : /\ lsq[i].op \in {"read", "write"} /\ lsq[i].blk \in Blocks
                                  /\ lsq[i].cl \in CL /\ lsq[i].cb \in ReadIds \cup {NoCb}
         /\ \A i \in DOMAIN roq : /\ roq[i].blk \in Blocks /\ roq[i].cl \in CL
                                  /\ roq[i].cb \in ReadIds \cup {NoCb}
         /\ \A b \in Blocks : /\ ent[b].cbq \in Seq(CL)
                              /\ ent[b].cbs \in [CL -> ReadIds \cup {NoCb}]
         /\ \A b \in Blocks : \A i \in DOMAIN ent[b].cbq :
              ent[b].cbq[i] \in CL /\ CallOf(b, i) \in ReadIds \cup {NoCb}
         /\ wanted \in [ReadIds -> (Blocks \X CL) \cup {NoLine}]
<1>1. \A i \in DOMAIN lsq : lsq[i] \in Request
  BY DEF TypeOK
<1>2. \A i \in DOMAIN roq : roq[i] \in Readout
  BY DEF TypeOK
<1>3. \A b \in Blocks : ent[b] \in Entry
  BY DEF TypeOK
<1>4. \A b \in Blocks : /\ ent[b].cbq \in Seq(CL)
                        /\ ent[b].cbs \in [CL -> ReadIds \cup {NoCb}]
  BY <1>3 DEF Entry, Callbacks
<1>5. \A b \in Blocks : \A i \in DOMAIN ent[b].cbq :
              ent[b].cbq[i] \in CL /\ CallOf(b, i) \in ReadIds \cup {NoCb}
  <2> SUFFICES ASSUME NEW b \in Blocks, NEW i \in DOMAIN ent[b].cbq
               PROVE  ent[b].cbq[i] \in CL /\ CallOf(b, i) \in ReadIds \cup {NoCb}
    OBVIOUS
  <2>1. ent[b].cbq[i] \in CL
    BY <1>4
  <2> QED
    BY <1>4, <2>1 DEF CallOf
<1> QED
  BY <1>1, <1>2, <1>4, <1>5 DEF TypeOK, Request, Readout, Callbacks

\* Steps that move no callback; they may take writes out of the lsq.
LEMMA CallsKept ==
  ASSUME TypeOK, CallsInv, UNCHANGED <<roq, wanted>>,
         \A b \in Blocks : /\ ent'[b].cbq = ent[b].cbq
                           /\ ent[b].cbq # <<>> => ent'[b].cbs = ent[b].cbs,
         NEW f \in [DOMAIN lsq' -> DOMAIN lsq],
         \A i \in DOMAIN lsq' : lsq'[i] = lsq[f[i]],
         \A i \in DOMAIN lsq', j \in DOMAIN lsq' : f[i] = f[j] => i = j,
         \A i \in DOMAIN lsq : lsq[i].cb # NoCb => \E j \in DOMAIN lsq' : f[j] = i
  PROVE  CallsInv'
<1>1. \A b \in Blocks : \A i \in DOMAIN ent[b].cbq : CallOf(b, i)' = CallOf(b, i)
  <2> SUFFICES ASSUME NEW b \in Blocks, NEW i \in DOMAIN ent[b].cbq
               PROVE  CallOf(b, i)' = CallOf(b, i)
    OBVIOUS
  <2>1. ent[b].cbq \in Seq(CL)
    BY CallTypes
  <2>2. ent[b].cbq # <<>>
    BY <2>1
  <2> QED
    BY <2>2 DEF CallOf
<1>2. \A i \in DOMAIN lsq : lsq[i].blk \in Blocks
  BY CallTypes
<1>3. LsqCalls'
  <2> SUFFICES ASSUME NEW i \in DOMAIN lsq'
               PROVE  /\ lsq'[i].op = "write" => lsq'[i].cb = NoCb
                      /\ lsq'[i].cb # NoCb => wanted'[lsq'[i].cb] = <<lsq'[i].blk, lsq'[i].cl>>
                      /\ lsq'[i].op = "read" =>
                           /\ \A j \in DOMAIN lsq' :
                                lsq'[j].op = "read" /\ lsq'[j].blk = lsq'[i].blk
                                  /\ lsq'[j].cl = lsq'[i].cl => j = i
                           /\ \A j \in DOMAIN ent'[lsq'[i].blk].cbq :
                                ent'[lsq'[i].blk].cbq[j] # lsq'[i].cl
    BY DEF LsqCalls
  <2>1. f[i] \in DOMAIN lsq /\ lsq'[i] = lsq[f[i]] /\ lsq'[i].blk \in Blocks
    BY <1>2
  <2>2. \A j \in DOMAIN lsq' : f[j] \in DOMAIN lsq /\ lsq'[j] = lsq[f[j]]
    OBVIOUS
  <2>3. /\ lsq[f[i]].op = "write" => lsq[f[i]].cb = NoCb
        /\ lsq[f[i]].cb # NoCb => wanted[lsq[f[i]].cb] = <<lsq[f[i]].blk, lsq[f[i]].cl>>
        /\ lsq[f[i]].op = "read" =>
             /\ \A j \in DOMAIN lsq :
                  lsq[j].op = "read" /\ lsq[j].blk = lsq[f[i]].blk
                    /\ lsq[j].cl = lsq[f[i]].cl => j = f[i]
             /\ \A j \in DOMAIN ent[lsq[f[i]].blk].cbq :
                  ent[lsq[f[i]].blk].cbq[j] # lsq[f[i]].cl
    BY <2>1 DEF LsqCalls, CallsInv
  <2>4. ent'[lsq[f[i]].blk].cbq = ent[lsq[f[i]].blk].cbq
    BY <2>1
  <2> QED
    BY <2>1, <2>2, <2>3, <2>4
<1>4. BufferCalls'
  BY <1>1 DEF BufferCalls, CallsInv
<1>5. RoqCalls'
  <2>1. \A j \in DOMAIN lsq' : \E k \in DOMAIN lsq : lsq'[j].cb = lsq[k].cb
    OBVIOUS
  <2>2. RoqCalls
    BY DEF CallsInv
  <2> DEFINE OK(i) ==
        /\ wanted'[roq'[i].cb] = <<roq'[i].blk, roq'[i].cl>>
        /\ \A j \in DOMAIN roq' : roq'[j].cb = roq'[i].cb => j = i
        /\ \A j \in DOMAIN lsq' : lsq'[j].cb # roq'[i].cb
        /\ \A b \in Blocks : \A j \in DOMAIN ent'[b].cbq : CallOf(b, j)' # roq'[i].cb
  <2> SUFFICES ASSUME NEW i \in DOMAIN roq', roq'[i].cb # NoCb
               PROVE  OK(i)
    BY Zenon DEF RoqCalls
  <2>3. /\ wanted[roq[i].cb] = <<roq[i].blk, roq[i].cl>>
        /\ \A j \in DOMAIN roq : roq[j].cb = roq[i].cb => j = i
        /\ \A j \in DOMAIN lsq : lsq[j].cb # roq[i].cb
        /\ \A b \in Blocks : \A j \in DOMAIN ent[b].cbq : CallOf(b, j) # roq[i].cb
    BY <2>2 DEF RoqCalls
  <2>4. \A j \in DOMAIN lsq' : lsq'[j].cb # roq[i].cb
    BY <2>1, <2>3
  <2>5. \A b \in Blocks : \A j \in DOMAIN ent'[b].cbq : CallOf(b, j)' # roq[i].cb
    BY <1>1, <2>3
  <2> QED
    BY <2>3, <2>4, <2>5
<1>6. NoneForgotten'
  <2> SUFFICES ASSUME NEW r \in ReadIds, wanted[r] # NoLine
               PROVE  \/ \E i \in DOMAIN lsq' : lsq'[i].cb = r
                      \/ \E i \in DOMAIN roq : roq[i].cb = r
                      \/ \E b \in Blocks : \E i \in DOMAIN ent'[b].cbq : CallOf(b, i)' = r
    BY DEF NoneForgotten
  <2>1. r # NoCb
    OBVIOUS
  <2> QED
    BY <1>1, <2>1 DEF NoneForgotten, CallsInv
<1> QED
  BY <1>3, <1>4, <1>5, <1>6 DEF CallsInv

\* The same for a step that leaves the lsq alone.
LEMMA CallsStay ==
  ASSUME TypeOK, CallsInv, UNCHANGED <<roq, wanted, lsq>>,
         \A b \in Blocks : /\ ent'[b].cbq = ent[b].cbq
                           /\ ent[b].cbq # <<>> => ent'[b].cbs = ent[b].cbs
  PROVE  CallsInv'
<1> DEFINE f == [i \in DOMAIN lsq |-> i]
<1>1. /\ f \in [DOMAIN lsq' -> DOMAIN lsq]
      /\ \A i \in DOMAIN lsq' : f[i] = i /\ lsq'[i] = lsq[f[i]]
  OBVIOUS
<1>2. \A i \in DOMAIN lsq', j \in DOMAIN lsq' : f[i] = f[j] => i = j
  BY <1>1
<1>3. \A i \in DOMAIN lsq : lsq[i].cb # NoCb => \E j \in DOMAIN lsq' : f[j] = i
  BY <1>1
<1> HIDE DEF f
<1> QED
  BY <1>1, <1>2, <1>3, CallsKept

\* tick_lsq_read moves the front read into the callback queue of its entry.
LEMMA ReadEnters ==
  ASSUME TypeOK, CallsInv, UNCHANGED <<roq, wanted>>,
         lsq # <<>>, Front.op = "read", lsq' = Tail(lsq),
         NEW b \in Blocks, NEW c \in CL, b = Front.blk, c = Front.cl,
         \A d \in Blocks \ {b} : /\ ent'[d].cbq = ent[d].cbq
                                 /\ ent[d].cbq # <<>> => ent'[d].cbs = ent[d].cbs,
         ent'[b].cbq = Append(ent[b].cbq, c), ent'[b].cbs[c] = Front.cb,
         \A i \in DOMAIN ent[b].cbq : ent'[b].cbs[ent[b].cbq[i]] = ent[b].cbs[ent[b].cbq[i]]
  PROVE  CallsInv'
<1>12. PICK n \in Nat : n = Len(ent[b].cbq) + 1
  <2>1. ent[b].cbq \in Seq(CL)
    BY CallTypes
  <2> QED
    BY ONLY <2>1
<1>1. /\ 1 \in DOMAIN lsq /\ lsq[1].op = "read" /\ lsq[1].blk = b /\ lsq[1].cl = c
      /\ lsq[1].cb = Front.cb
      /\ \A i \in DOMAIN lsq' : lsq'[i] = lsq[i + 1] /\ i + 1 \in DOMAIN lsq /\ i + 1 # 1
                                /\ i \in Nat
      /\ \A i \in DOMAIN lsq : i # 1 => i - 1 \in DOMAIN lsq' /\ lsq'[i - 1] = lsq[i]
  <2> DEFINE q == Tail(lsq)
  <2>1. lsq \in Seq(Request) /\ lsq # <<>>
    BY DEF TypeOK
  <2>2. /\ Len(lsq) \in Nat /\ Len(lsq) >= 1 /\ DOMAIN lsq = 1 .. Len(lsq)
        /\ DOMAIN q = 1 .. Len(lsq) - 1 /\ Head(lsq) = lsq[1]
        /\ \A i \in DOMAIN q : q[i] = lsq[i + 1] /\ i + 1 \in DOMAIN lsq
        /\ \A i \in DOMAIN lsq : i # 1 => i - 1 \in DOMAIN q /\ q[i - 1] = lsq[i]
    BY ONLY <2>1, TailFacts
  <2> HIDE DEF q
  <2>3. 1 \in DOMAIN lsq /\ \A i \in DOMAIN q : i + 1 # 1 /\ i \in Nat
    BY ONLY <2>2
  <2>4. lsq' = q /\ Front = lsq[1]
    BY <2>2 DEF q, Front
  <2>5. /\ lsq[1].op = "read" /\ lsq[1].blk = b /\ lsq[1].cl = c /\ lsq[1].cb = Front.cb
    BY <2>4
  <2> QED
    BY ONLY <2>2, <2>3, <2>4, <2>5
<1>2. /\ ent[b].cbq \in Seq(CL) /\ n \notin DOMAIN ent[b].cbq
      /\ DOMAIN ent'[b].cbq = DOMAIN ent[b].cbq \cup {n}
      /\ ent'[b].cbq[n] = c
      /\ \A i \in DOMAIN ent[b].cbq : ent'[b].cbq[i] = ent[b].cbq[i]
  <2> DEFINE q == ent[b].cbq
             p == Append(q, c)
  <2>1. q \in Seq(CL) /\ c \in CL
    BY CallTypes
  <2>2. /\ Len(q) + 1 \notin DOMAIN q /\ DOMAIN p = DOMAIN q \cup {Len(q) + 1}
        /\ p[Len(q) + 1] = c /\ \A i \in DOMAIN q : p[i] = q[i]
    BY ONLY <2>1, AppendFacts
  <2>3. ent'[b].cbq = p
    OBVIOUS
  <2> HIDE DEF p
  <2> QED
    BY <1>12, <2>1, <2>2, <2>3, Zenon
<1>3. CallOf(b, n)' = Front.cb
  BY <1>2 DEF CallOf
<1>4. \A i \in DOMAIN ent[b].cbq : CallOf(b, i)' = CallOf(b, i)
  BY <1>2, ZenonT(40) DEF CallOf
<1>5. ASSUME NEW d \in Blocks \ {b}, NEW i \in DOMAIN ent[d].cbq
      PROVE  CallOf(d, i)' = CallOf(d, i)
  <2>1. ent[d].cbq \in Seq(CL)
    BY CallTypes
  <2>2. ent[d].cbq # <<>>
    BY ONLY <1>5, <2>1
  <2>3. ent'[d].cbq = ent[d].cbq /\ ent'[d].cbs = ent[d].cbs
    BY <1>5, <2>2
  <2> QED
    BY ONLY <2>3 DEF CallOf
<1>6. LsqCalls /\ BufferCalls /\ RoqCalls /\ NoneForgotten
  BY DEF CallsInv
\* the front read is the only one of its line
<1>7. /\ \A j \in DOMAIN lsq : lsq[j].op = "read" /\ lsq[j].blk = b /\ lsq[j].cl = c => j = 1
      /\ \A j \in DOMAIN ent[b].cbq : ent[b].cbq[j] # c
      /\ Front.cb # NoCb => wanted[Front.cb] = <<b, c>>
  <2>1. /\ lsq[1].cb # NoCb => wanted[lsq[1].cb] = <<lsq[1].blk, lsq[1].cl>>
        /\ \A j \in DOMAIN lsq :
             lsq[j].op = "read" /\ lsq[j].blk = lsq[1].blk /\ lsq[j].cl = lsq[1].cl => j = 1
        /\ \A j \in DOMAIN ent[lsq[1].blk].cbq : ent[lsq[1].blk].cbq[j] # lsq[1].cl
    BY ONLY <1>1, <1>6 DEF LsqCalls
  <2> QED
    BY ONLY <1>1, <2>1
<1>8. LsqCalls'
  <2> SUFFICES ASSUME NEW i \in DOMAIN lsq'
               PROVE  /\ lsq'[i].op = "write" => lsq'[i].cb = NoCb
                      /\ lsq'[i].cb # NoCb => wanted'[lsq'[i].cb] = <<lsq'[i].blk, lsq'[i].cl>>
                      /\ lsq'[i].op = "read" =>
                           /\ \A j \in DOMAIN lsq' :
                                lsq'[j].op = "read" /\ lsq'[j].blk = lsq'[i].blk
                                  /\ lsq'[j].cl = lsq'[i].cl => j = i
                           /\ \A j \in DOMAIN ent'[lsq'[i].blk].cbq :
                                ent'[lsq'[i].blk].cbq[j] # lsq'[i].cl
    BY DEF LsqCalls
  <2> DEFINE k == i + 1
  <2>1. k \in DOMAIN lsq /\ k # 1 /\ lsq'[i] = lsq[k] /\ lsq[k].blk \in Blocks
    BY <1>1, CallTypes
  <2>2. \A j \in DOMAIN lsq' : /\ j + 1 \in DOMAIN lsq /\ lsq'[j] = lsq[j + 1]
                               /\ j + 1 = k => j = i
    BY ONLY <1>1, i \in DOMAIN lsq'
  <2> HIDE DEF k
  <2>3. /\ lsq[k].op = "write" => lsq[k].cb = NoCb
        /\ lsq[k].cb # NoCb => wanted[lsq[k].cb] = <<lsq[k].blk, lsq[k].cl>>
        /\ lsq[k].op = "read" =>
             /\ \A j \in DOMAIN lsq :
                  lsq[j].op = "read" /\ lsq[j].blk = lsq[k].blk /\ lsq[j].cl = lsq[k].cl => j = k
             /\ \A j \in DOMAIN ent[lsq[k].blk].cbq : ent[lsq[k].blk].cbq[j] # lsq[k].cl
    BY <1>6, <2>1 DEF LsqCalls
  <2>4. lsq[k].op = "read" =>
          \A j \in DOMAIN ent'[lsq[k].blk].cbq : ent'[lsq[k].blk].cbq[j] # lsq[k].cl
    <3>1. CASE lsq[k].blk = b
      <4>1. lsq[k].op = "read" => lsq[k].cl # c
        BY ONLY <1>7, <2>1, <3>1
      <4> QED
        BY ONLY <1>2, <2>3, <3>1, <4>1
    <3>2. CASE lsq[k].blk # b
      <4>1. ent'[lsq[k].blk].cbq = ent[lsq[k].blk].cbq
        BY <2>1, <3>2
      <4> QED
        BY ONLY <2>3, <4>1
    <3> QED
      BY <3>1, <3>2
  <2>5. lsq'[i].op = "read" =>
          \A j \in DOMAIN lsq' : lsq'[j].op = "read" /\ lsq'[j].blk = lsq'[i].blk
                                   /\ lsq'[j].cl = lsq'[i].cl => j = i
    BY ONLY <2>1, <2>2, <2>3
  <2> QED
    BY <2>1, <2>3, <2>4, <2>5
<1>9. BufferCalls'
  <2> SUFFICES ASSUME NEW d \in Blocks, NEW i \in DOMAIN ent'[d].cbq
               PROVE  /\ \A j \in DOMAIN ent'[d].cbq : ent'[d].cbq[j] = ent'[d].cbq[i] => j = i
                      /\ CallOf(d, i)' # NoCb =>
                           wanted'[CallOf(d, i)'] = <<d, ent'[d].cbq[i]>>
    BY Zenon DEF BufferCalls
  <2>1. CASE d = b
    <3>1. /\ \A x \in DOMAIN ent[b].cbq :
               /\ \A j \in DOMAIN ent[b].cbq : ent[b].cbq[j] = ent[b].cbq[x] => j = x
               /\ CallOf(b, x) # NoCb => wanted[CallOf(b, x)] = <<b, ent[b].cbq[x]>>
          /\ wanted' = wanted
      BY <1>6 DEF BufferCalls
    <3>2. CASE i = n
      BY ONLY <1>2, <1>3, <1>7, <2>1, <3>1, <3>2
    <3>3. CASE i \in DOMAIN ent[b].cbq
      <4>1. \A j \in DOMAIN ent'[b].cbq : ent'[b].cbq[j] = ent'[b].cbq[i] => j = i
        BY ONLY <1>2, <1>7, <3>1, <3>3
      <4> QED
        BY ONLY <1>2, <1>4, <2>1, <3>1, <3>3, <4>1
    <3> QED
      BY <1>2, <2>1, <3>2, <3>3
  <2>2. CASE d # b
    <3>1. ent'[d].cbq = ent[d].cbq /\ wanted' = wanted
      BY <2>2
    <3>2. /\ \A j \in DOMAIN ent[d].cbq : ent[d].cbq[j] = ent[d].cbq[i] => j = i
          /\ CallOf(d, i) # NoCb => wanted[CallOf(d, i)] = <<d, ent[d].cbq[i]>>
      BY ONLY <1>6, <3>1, d \in Blocks, i \in DOMAIN ent'[d].cbq DEF BufferCalls
    <3>3. CallOf(d, i)' = CallOf(d, i)
      BY ONLY <1>5, <2>2, <3>1, d \in Blocks, i \in DOMAIN ent'[d].cbq
    <3> QED
      BY ONLY <3>1, <3>2, <3>3
  <2> QED
    BY <2>1, <2>2
<1>10. RoqCalls'
  <2> DEFINE OK(i) ==
        /\ wanted'[roq'[i].cb] = <<roq'[i].blk, roq'[i].cl>>
        /\ \A j \in DOMAIN roq' : roq'[j].cb = roq'[i].cb => j = i
        /\ \A j \in DOMAIN lsq' : lsq'[j].cb # roq'[i].cb
        /\ \A d \in Blocks : \A j \in DOMAIN ent'[d].cbq : CallOf(d, j)' # roq'[i].cb
  <2> SUFFICES ASSUME NEW i \in DOMAIN roq', roq'[i].cb # NoCb
               PROVE  OK(i)
    BY Zenon DEF RoqCalls
  <2>1. /\ wanted[roq[i].cb] = <<roq[i].blk, roq[i].cl>>
        /\ \A j \in DOMAIN roq : roq[j].cb = roq[i].cb => j = i
        /\ \A j \in DOMAIN lsq : lsq[j].cb # roq[i].cb
        /\ \A d \in Blocks : \A j \in DOMAIN ent[d].cbq : CallOf(d, j) # roq[i].cb
    BY <1>6 DEF RoqCalls
  <2>2. \A j \in DOMAIN lsq' : lsq'[j].cb # roq[i].cb
    BY <1>1, <2>1, ZenonT(40)
  <2>3. ASSUME NEW d \in Blocks, NEW j \in DOMAIN ent'[d].cbq
        PROVE  CallOf(d, j)' # roq[i].cb
    <3>1. CASE d = b
      <4>1. CASE j = n
        BY ONLY <1>1, <1>3, <2>1, <3>1, <4>1
      <4>2. CASE j \in DOMAIN ent[b].cbq
        BY ONLY <1>4, <2>1, <2>3, <3>1, <4>2
      <4> QED
        BY <1>2, <2>3, <3>1, <4>1, <4>2
    <3>2. CASE d # b
      <4>1. ent'[d].cbq = ent[d].cbq
        BY <2>3, <3>2
      <4> QED
        BY ONLY <1>5, <2>1, <2>3, <3>2, <4>1
    <3> QED
      BY <3>1, <3>2
  <2> QED
    BY <2>1, <2>2, <2>3
<1>11. NoneForgotten'
  <2> SUFFICES ASSUME NEW r \in ReadIds, wanted[r] # NoLine
               PROVE  \/ \E i \in DOMAIN lsq' : lsq'[i].cb = r
                      \/ \E i \in DOMAIN roq : roq[i].cb = r
                      \/ \E d \in Blocks : \E i \in DOMAIN ent'[d].cbq : CallOf(d, i)' = r
    BY DEF NoneForgotten
  <2>1. CASE \E i \in DOMAIN lsq : lsq[i].cb = r
    <3>1. PICK i \in DOMAIN lsq : lsq[i].cb = r
      BY <2>1
    <3>2. CASE i = 1
      <4>1. n \in DOMAIN ent'[b].cbq /\ CallOf(b, n)' = r
        BY ONLY <1>1, <1>2, <1>3, <3>1, <3>2
      <4> QED
        BY <4>1
    <3>3. CASE i # 1
      BY ONLY <1>1, <3>1, <3>3
    <3> QED
      BY <3>2, <3>3
  <2>2. ASSUME NEW d \in Blocks, NEW i \in DOMAIN ent[d].cbq, CallOf(d, i) = r
        PROVE  \E j \in DOMAIN ent'[d].cbq : CallOf(d, j)' = r
    <3>1. CASE d = b
      BY ONLY <1>2, <1>4, <2>2, <3>1
    <3>2. CASE d # b
      <4>1. ent'[d].cbq = ent[d].cbq
        BY <2>2, <3>2
      <4> QED
        BY ONLY <1>5, <2>2, <3>2, <4>1
    <3> QED
      BY ONLY <3>1, <3>2
  <2> QED
    BY <1>6, <2>1, <2>2 DEF NoneForgotten
<1> QED
  BY <1>8, <1>9, <1>10, <1>11 DEF CallsInv

\* issue_roq moves the first read of an entry to the roq.
LEMMA ReadLeaves ==
  ASSUME TypeOK, CallsInv, UNCHANGED <<lsq, wanted>>, NEW b \in Blocks, ent[b].cbq # <<>>,
         NEW x \in Readout, x.blk = b, x.cl = Head(ent[b].cbq),
         x.cb = ent[b].cbs[Head(ent[b].cbq)], roq' = Append(roq, x),
         \A d \in Blocks \ {b} : ent'[d].cbq = ent[d].cbq,
         \A d \in Blocks : ent'[d].cbs = ent[d].cbs,
         ent'[b].cbq = Tail(ent[b].cbq)
  PROVE  CallsInv'
<1>1. /\ 1 \in DOMAIN ent[b].cbq /\ CallOf(b, 1) = x.cb /\ ent[b].cbq[1] = x.cl
      /\ \A i \in DOMAIN ent'[b].cbq : /\ ent'[b].cbq[i] = ent[b].cbq[i + 1]
                                       /\ i + 1 \in DOMAIN ent[b].cbq /\ i + 1 # 1 /\ i \in Nat
      /\ \A i \in DOMAIN ent[b].cbq :
           i # 1 => i - 1 \in DOMAIN ent'[b].cbq /\ ent'[b].cbq[i - 1] = ent[b].cbq[i]
  <2> DEFINE q == ent[b].cbq
             p == Tail(q)
  <2>1. q \in Seq(CL) /\ q # <<>>
    BY CallTypes
  <2>2. /\ Len(q) \in Nat /\ Len(q) >= 1 /\ DOMAIN q = 1 .. Len(q)
        /\ DOMAIN p = 1 .. Len(q) - 1 /\ Head(q) = q[1]
        /\ \A i \in DOMAIN p : p[i] = q[i + 1] /\ i + 1 \in DOMAIN q
        /\ \A i \in DOMAIN q : i # 1 => i - 1 \in DOMAIN p /\ p[i - 1] = q[i]
    BY ONLY <2>1, TailFacts
  <2>3. ent'[b].cbq = p
    OBVIOUS
  <2>4. CallOf(b, 1) = x.cb /\ q[1] = x.cl
    BY <2>2 DEF CallOf
  <2> HIDE DEF p
  <2>5. 1 \in DOMAIN q /\ \A i \in DOMAIN p : i + 1 # 1 /\ i \in Nat
    BY ONLY <2>2
  <2> QED
    BY ONLY <2>2, <2>3, <2>4, <2>5
<1>2. PICK n \in Nat : /\ n \notin DOMAIN roq /\ DOMAIN roq' = DOMAIN roq \cup {n}
                       /\ roq'[n] = x /\ \A i \in DOMAIN roq : roq'[i] = roq[i]
  <2>1. roq \in Seq(Readout)
    BY DEF TypeOK
  <2>2. /\ Len(roq) + 1 \in Nat /\ Len(roq) + 1 \notin DOMAIN roq
        /\ DOMAIN roq' = DOMAIN roq \cup {Len(roq) + 1}
        /\ roq'[Len(roq) + 1] = x /\ \A i \in DOMAIN roq : roq'[i] = roq[i]
    BY <2>1, AppendFacts
  <2> QED
    BY ONLY <2>2
\* the reads that stay in entries
<1>3. /\ \A i \in DOMAIN ent'[b].cbq : CallOf(b, i)' = CallOf(b, i + 1)
      /\ \A i \in DOMAIN ent[b].cbq : i # 1 => CallOf(b, i - 1)' = CallOf(b, i)
  <2>1. ent'[b].cbs = ent[b].cbs
    OBVIOUS
  <2> QED
    BY ONLY <1>1, <2>1 DEF CallOf
<1>4. \A d \in Blocks \ {b} : \A i \in DOMAIN ent[d].cbq : CallOf(d, i)' = CallOf(d, i)
  BY DEF CallOf
<1>5. LsqCalls /\ BufferCalls /\ RoqCalls /\ NoneForgotten
  BY DEF CallsInv
\* the read that leaves
<1>6. /\ \A j \in DOMAIN ent[b].cbq : ent[b].cbq[j] = x.cl => j = 1
      /\ x.cb # NoCb => wanted[x.cb] = <<b, x.cl>>
  <2>1. /\ \A j \in DOMAIN ent[b].cbq : ent[b].cbq[j] = ent[b].cbq[1] => j = 1
        /\ CallOf(b, 1) # NoCb => wanted[CallOf(b, 1)] = <<b, ent[b].cbq[1]>>
    BY <1>1, <1>5 DEF BufferCalls
  <2> QED
    BY ONLY <1>1, <2>1
<1>7. ASSUME x.cb # NoCb
      PROVE  /\ \A j \in DOMAIN lsq : lsq[j].cb # x.cb
             /\ \A d \in Blocks : \A j \in DOMAIN ent'[d].cbq : CallOf(d, j)' # x.cb
             /\ \A j \in DOMAIN roq : roq[j].cb # x.cb
  <2>1. ASSUME NEW j \in DOMAIN lsq, lsq[j].cb = x.cb
        PROVE  FALSE
    <3>1. /\ lsq[j].op = "read" /\ wanted[x.cb] = <<lsq[j].blk, lsq[j].cl>>
          /\ \A i \in DOMAIN ent[lsq[j].blk].cbq : ent[lsq[j].blk].cbq[i] # lsq[j].cl
      <4>1. lsq[j].op \in {"read", "write"}
        BY CallTypes
      <4> QED
        BY ONLY <1>5, <1>7, <2>1, <4>1 DEF LsqCalls
    <3>2. lsq[j].blk = b /\ lsq[j].cl = x.cl
      BY ONLY <1>6, <1>7, <3>1
    <3> QED
      BY ONLY <1>1, <3>1, <3>2
  <2>2. ASSUME NEW d \in Blocks, NEW j \in DOMAIN ent[d].cbq, CallOf(d, j) = x.cb
        PROVE  d = b /\ j = 1
    <3>1. wanted[x.cb] = <<d, ent[d].cbq[j]>>
      BY ONLY <1>5, <1>7, <2>2 DEF BufferCalls
    <3> QED
      BY ONLY <1>6, <1>7, <2>2, <3>1
  <2>3. ASSUME NEW d \in Blocks, NEW j \in DOMAIN ent'[d].cbq, CallOf(d, j)' = x.cb
        PROVE  FALSE
    <3>1. CASE d = b
      BY ONLY <1>1, <1>3, <2>2, <2>3, <3>1
    <3>2. CASE d # b
      BY <1>4, <2>2, <2>3, <3>2
    <3> QED
      BY <3>1, <3>2
  <2>4. ASSUME NEW j \in DOMAIN roq, roq[j].cb = x.cb
        PROVE  FALSE
    BY <1>1, <1>5, <1>7, <2>4 DEF RoqCalls
  <2> QED
    BY <2>1, <2>3, <2>4
<1>8. LsqCalls'
  <2> SUFFICES ASSUME NEW i \in DOMAIN lsq, lsq[i].op = "read",
                      NEW j \in DOMAIN ent'[lsq[i].blk].cbq
               PROVE  ent'[lsq[i].blk].cbq[j] # lsq[i].cl
    BY <1>5 DEF LsqCalls
  <2>1. \A k \in DOMAIN ent[lsq[i].blk].cbq : ent[lsq[i].blk].cbq[k] # lsq[i].cl
    BY <1>5 DEF LsqCalls
  <2>2. lsq[i].blk \in Blocks
    BY CallTypes
  <2>3. CASE lsq[i].blk = b
    BY ONLY <1>1, <2>1, <2>3, j \in DOMAIN ent'[lsq[i].blk].cbq
  <2>4. CASE lsq[i].blk # b
    BY <2>1, <2>2, <2>4
  <2> QED
    BY <2>3, <2>4
<1>9. BufferCalls'
  <2> SUFFICES ASSUME NEW d \in Blocks, NEW i \in DOMAIN ent'[d].cbq
               PROVE  /\ \A j \in DOMAIN ent'[d].cbq : ent'[d].cbq[j] = ent'[d].cbq[i] => j = i
                      /\ CallOf(d, i)' # NoCb =>
                           wanted'[CallOf(d, i)'] = <<d, ent'[d].cbq[i]>>
    BY Zenon DEF BufferCalls
  <2>1. \A k \in DOMAIN ent[d].cbq :
          /\ \A j \in DOMAIN ent[d].cbq : ent[d].cbq[j] = ent[d].cbq[k] => j = k
          /\ CallOf(d, k) # NoCb => wanted[CallOf(d, k)] = <<d, ent[d].cbq[k]>>
    BY <1>5 DEF BufferCalls
  <2>2. wanted' = wanted
    OBVIOUS
  <2>3. CASE d = b
    <3>1. \A j \in DOMAIN ent'[d].cbq : ent'[d].cbq[j] = ent'[d].cbq[i] => j + 1 = i + 1
      BY ONLY <1>1, <2>1, <2>3
    <3>2. \A j \in DOMAIN ent'[d].cbq : j + 1 = i + 1 => j = i
      BY ONLY <1>1, <2>3
    <3> QED
      BY ONLY <1>1, <1>3, <2>1, <2>2, <2>3, <3>1, <3>2
  <2>4. CASE d # b
    BY <1>4, <2>1, <2>4
  <2> QED
    BY <2>3, <2>4
<1>10. RoqCalls'
  <2> DEFINE OK(i) ==
        /\ wanted'[roq'[i].cb] = <<roq'[i].blk, roq'[i].cl>>
        /\ \A j \in DOMAIN roq' : roq'[j].cb = roq'[i].cb => j = i
        /\ \A j \in DOMAIN lsq' : lsq'[j].cb # roq'[i].cb
        /\ \A d \in Blocks : \A j \in DOMAIN ent'[d].cbq : CallOf(d, j)' # roq'[i].cb
  <2> SUFFICES ASSUME NEW i \in DOMAIN roq', roq'[i].cb # NoCb
               PROVE  OK(i)
    BY Zenon DEF RoqCalls
  <2>1. lsq' = lsq /\ wanted' = wanted /\ x.blk = b
    OBVIOUS
  <2>2. CASE i = n
    BY ONLY <1>2, <1>6, <1>7, <2>1, <2>2, roq'[i].cb # NoCb
  <2>3. CASE i \in DOMAIN roq
    <3>1. /\ roq'[i] = roq[i] /\ roq[i].cb # NoCb
          /\ wanted[roq[i].cb] = <<roq[i].blk, roq[i].cl>>
          /\ \A j \in DOMAIN roq : roq[j].cb = roq[i].cb => j = i
          /\ \A j \in DOMAIN lsq : lsq[j].cb # roq[i].cb
          /\ \A d \in Blocks : \A j \in DOMAIN ent[d].cbq : CallOf(d, j) # roq[i].cb
      BY <1>2, <1>5, <2>3 DEF RoqCalls
    <3>2. \A j \in DOMAIN roq' : roq'[j].cb = roq'[i].cb => j = i
      BY ONLY <1>1, <1>2, <2>3, <3>1, b \in Blocks
    <3>3. ASSUME NEW d \in Blocks, NEW j \in DOMAIN ent'[d].cbq
          PROVE  CallOf(d, j)' # roq[i].cb
      <4>1. CASE d = b
        BY ONLY <1>1, <1>3, <3>1, <3>3, <4>1
      <4>2. CASE d # b
        BY <1>4, <3>1, <3>3, <4>2
      <4> QED
        BY <4>1, <4>2
    <3> QED
      BY ONLY <2>1, <3>1, <3>2, <3>3
  <2> QED
    BY <1>2, <2>2, <2>3
<1>11. NoneForgotten'
  <2> SUFFICES ASSUME NEW r \in ReadIds, wanted[r] # NoLine
               PROVE  \/ \E i \in DOMAIN lsq : lsq[i].cb = r
                      \/ \E i \in DOMAIN roq' : roq'[i].cb = r
                      \/ \E d \in Blocks : \E i \in DOMAIN ent'[d].cbq : CallOf(d, i)' = r
    BY DEF NoneForgotten
  <2>1. ASSUME NEW i \in DOMAIN roq, roq[i].cb = r
        PROVE  \E j \in DOMAIN roq' : roq'[j].cb = r
    BY ONLY <1>2, <2>1
  <2>2. ASSUME NEW d \in Blocks, NEW i \in DOMAIN ent[d].cbq, CallOf(d, i) = r
        PROVE  \/ \E j \in DOMAIN roq' : roq'[j].cb = r
               \/ \E j \in DOMAIN ent'[d].cbq : CallOf(d, j)' = r
    <3>1. CASE d = b /\ i = 1
      BY ONLY <1>1, <1>2, <2>2, <3>1
    <3>2. CASE d = b /\ i # 1
      BY ONLY <1>1, <1>3, <2>2, <3>2
    <3>3. CASE d # b
      BY <1>4, <2>2, <3>3
    <3> QED
      BY <3>1, <3>2, <3>3
  <2> QED
    BY <1>5, <2>1, <2>2 DEF NoneForgotten
<1> QED
  BY <1>8, <1>9, <1>10, <1>11 DEF CallsInv

\* tick_roq calls the callback at the head of the roq, which is nowhere else.
LEMMA ReadAnswered ==
  ASSUME TypeOK, CallsInv, TickRoq
  PROVE  CallsInv'
<1>1. CASE roq = <<>>
  BY <1>1, CallsStay DEF TickRoq
<1>2. CASE roq # <<>>
  <2> DEFINE h == roq[1].cb
  <2>1. /\ 1 \in DOMAIN roq /\ UNCHANGED <<lsq, ent>>
        /\ wanted' = IF h # NoCb THEN [wanted EXCEPT ![h] = NoLine] ELSE wanted
        /\ \A i \in DOMAIN roq' : /\ roq'[i] = roq[i + 1] /\ i + 1 \in DOMAIN roq
                                  /\ i + 1 # 1 /\ i \in Nat
        /\ \A i \in DOMAIN roq : i # 1 => i - 1 \in DOMAIN roq' /\ roq'[i - 1] = roq[i]
    <3> DEFINE p == Tail(roq)
    <3>1. roq \in Seq(Readout) /\ roq # <<>>
      BY <1>2 DEF TypeOK
    <3>2. /\ Len(roq) \in Nat /\ Len(roq) >= 1 /\ DOMAIN roq = 1 .. Len(roq)
          /\ DOMAIN p = 1 .. Len(roq) - 1 /\ Head(roq) = roq[1]
          /\ \A i \in DOMAIN p : p[i] = roq[i + 1] /\ i + 1 \in DOMAIN roq
          /\ \A i \in DOMAIN roq : i # 1 => i - 1 \in DOMAIN p /\ p[i - 1] = roq[i]
      BY ONLY <3>1, TailFacts
    <3>3. roq' = p /\ UNCHANGED <<lsq, ent>>
      BY <1>2 DEF TickRoq
    <3>4. wanted' = IF h # NoCb THEN [wanted EXCEPT ![h] = NoLine] ELSE wanted
      BY <1>2, <3>2 DEF TickRoq
    <3> HIDE DEF p, h
    <3>5. 1 \in DOMAIN roq /\ \A i \in DOMAIN p : i + 1 # 1 /\ i \in Nat
      BY ONLY <3>2
    <3> QED
      BY ONLY <3>2, <3>3, <3>4, <3>5
  <2>2. LsqCalls /\ BufferCalls /\ RoqCalls /\ NoneForgotten
    BY DEF CallsInv
  <2>3. h # NoCb => /\ \A j \in DOMAIN roq : roq[j].cb = h => j = 1
                    /\ \A j \in DOMAIN lsq : lsq[j].cb # h
                    /\ \A b \in Blocks : \A j \in DOMAIN ent[b].cbq : CallOf(b, j) # h
    BY ONLY <2>1, <2>2 DEF RoqCalls
  <2>4. \A r \in ReadIds : /\ r # h => wanted'[r] = wanted[r]
                           /\ r = h => wanted'[r] = NoLine
    <3>1. wanted \in [ReadIds -> (Blocks \X CL) \cup {NoLine}]
      BY CallTypes
    <3>2. NoCb \notin ReadIds
      OBVIOUS
    <3> HIDE DEF h
    <3> QED
      BY ONLY <2>1, <3>1, <3>2
  <2> HIDE DEF h
  <2>5. \A b \in Blocks : \A j \in DOMAIN ent[b].cbq : CallOf(b, j)' = CallOf(b, j)
    BY <2>1 DEF CallOf
  <2>6. LsqCalls'
    <3>1. \A i \in DOMAIN lsq : lsq[i].cb # NoCb => wanted'[lsq[i].cb] = wanted[lsq[i].cb]
      <4> SUFFICES ASSUME NEW i \in DOMAIN lsq, lsq[i].cb # NoCb
                   PROVE  wanted'[lsq[i].cb] = wanted[lsq[i].cb]
        OBVIOUS
      <4>1. lsq[i].cb \in ReadIds
        BY CallTypes
      <4>2. lsq[i].cb # h
        BY ONLY <2>3, lsq[i].cb # NoCb, i \in DOMAIN lsq
      <4> QED
        BY ONLY <2>4, <4>1, <4>2
    <3>2. UNCHANGED <<lsq, ent>>
      BY <2>1
    <3> QED
      BY ONLY <2>2, <3>1, <3>2 DEF LsqCalls
  <2>7. BufferCalls'
    <3> SUFFICES ASSUME NEW d \in Blocks, NEW i \in DOMAIN ent'[d].cbq
                 PROVE  /\ \A j \in DOMAIN ent'[d].cbq : ent'[d].cbq[j] = ent'[d].cbq[i] => j = i
                        /\ CallOf(d, i)' # NoCb =>
                             wanted'[CallOf(d, i)'] = <<d, ent'[d].cbq[i]>>
      BY Zenon DEF BufferCalls
    <3>1. ent' = ent /\ i \in DOMAIN ent[d].cbq /\ CallOf(d, i)' = CallOf(d, i)
      BY <2>1, <2>5
    <3>2. /\ \A j \in DOMAIN ent[d].cbq : ent[d].cbq[j] = ent[d].cbq[i] => j = i
          /\ CallOf(d, i) # NoCb => wanted[CallOf(d, i)] = <<d, ent[d].cbq[i]>>
      BY <2>2, <3>1 DEF BufferCalls
    <3>3. CallOf(d, i) # NoCb => CallOf(d, i) \in ReadIds /\ CallOf(d, i) # h
      <4>1. CallOf(d, i) \in ReadIds \cup {NoCb}
        BY <3>1, CallTypes
      <4> QED
        BY ONLY <2>3, <3>1, <4>1, d \in Blocks
    <3> QED
      BY ONLY <2>4, <3>1, <3>2, <3>3
  <2>8. RoqCalls'
    <3> DEFINE OK(i) ==
          /\ wanted'[roq'[i].cb] = <<roq'[i].blk, roq'[i].cl>>
          /\ \A j \in DOMAIN roq' : roq'[j].cb = roq'[i].cb => j = i
          /\ \A j \in DOMAIN lsq' : lsq'[j].cb # roq'[i].cb
          /\ \A d \in Blocks : \A j \in DOMAIN ent'[d].cbq : CallOf(d, j)' # roq'[i].cb
    <3> SUFFICES ASSUME NEW i \in DOMAIN roq', roq'[i].cb # NoCb
                 PROVE  OK(i)
      BY Zenon DEF RoqCalls
    <3>1. PICK k \in DOMAIN roq : k = i + 1 /\ k # 1 /\ roq'[i] = roq[k] /\ roq[k].cb # NoCb
      BY <2>1
    <3>2. /\ wanted[roq[k].cb] = <<roq[k].blk, roq[k].cl>>
          /\ \A j \in DOMAIN roq : roq[j].cb = roq[k].cb => j = k
          /\ \A j \in DOMAIN lsq : lsq[j].cb # roq[k].cb
          /\ \A d \in Blocks : \A j \in DOMAIN ent[d].cbq : CallOf(d, j) # roq[k].cb
      BY <2>2, <3>1 DEF RoqCalls
    <3>3. wanted'[roq[k].cb] = wanted[roq[k].cb]
      <4>1. roq[k].cb \in ReadIds
        BY <3>1, CallTypes
      <4>2. roq[k].cb # h
        BY ONLY <2>1, <2>3, <3>1
      <4> QED
        BY ONLY <2>4, <4>1, <4>2
    <3>4. \A j \in DOMAIN roq' : roq'[j].cb = roq'[i].cb => j = i
      <4>1. \A j \in DOMAIN roq' : roq'[j].cb = roq'[i].cb => j + 1 = i + 1
        BY ONLY <2>1, <3>1, <3>2
      <4>2. i \in Nat /\ \A j \in DOMAIN roq' : j \in Nat
        BY <2>1
      <4> QED
        BY ONLY <4>1, <4>2
    <3>5. UNCHANGED <<lsq, ent>>
      BY <2>1
    <3>6. \A d \in Blocks : \A j \in DOMAIN ent'[d].cbq : CallOf(d, j)' # roq[k].cb
      BY ONLY <2>5, <3>2, <3>5
    <3> QED
      BY ONLY <3>1, <3>2, <3>3, <3>4, <3>5, <3>6
  <2>9. NoneForgotten'
    <3> SUFFICES ASSUME NEW r \in ReadIds, wanted'[r] # NoLine
                 PROVE  \/ \E i \in DOMAIN lsq' : lsq'[i].cb = r
                        \/ \E i \in DOMAIN roq' : roq'[i].cb = r
                        \/ \E d \in Blocks : \E i \in DOMAIN ent'[d].cbq : CallOf(d, i)' = r
      BY Zenon DEF NoneForgotten
    <3>1. r # h /\ wanted[r] # NoLine
      BY <2>4
    <3>2. ASSUME NEW i \in DOMAIN roq, roq[i].cb = r
          PROVE  \E j \in DOMAIN roq' : roq'[j].cb = r
      <4>1. i # 1
        BY <3>1, <3>2 DEF h
      <4> QED
        BY ONLY <2>1, <3>2, <4>1
    <3>3. \/ \E i \in DOMAIN lsq : lsq[i].cb = r
          \/ \E i \in DOMAIN roq : roq[i].cb = r
          \/ \E d \in Blocks : \E i \in DOMAIN ent[d].cbq : CallOf(d, i) = r
      BY ONLY <2>2, <3>1, r \in ReadIds DEF NoneForgotten
    <3>4. UNCHANGED <<lsq, ent>>
      BY <2>1
    <3> QED
      BY ONLY <2>5, <3>2, <3>3, <3>4
  <2> QED
    BY <2>6, <2>7, <2>8, <2>9 DEF CallsInv
<1> QED
  BY <1>1, <1>2

\* issue_request puts a read of a line that no other read in flight is for at
\* the end of the lsq.
LEMMA ReadArrives ==
  ASSUME TypeOK, CallsInv, ~SameLineReads,
         NEW b \in Blocks, NEW c \in CL, NEW r \in Callbacks, IssueRead(b, c, r)
  PROVE  CallsInv'
<1> DEFINE x == [op |-> "read", blk |-> b, cl |-> c, cb |-> r]
<1>1. /\ UNCHANGED <<roq, ent>>
      /\ r \in ReadIds => wanted[r] = NoLine
      /\ wanted' = IF r = NoCb THEN wanted ELSE [wanted EXCEPT ![r] = <<b, c>>]
      /\ \A i \in DOMAIN lsq : ~(lsq[i].op = "read" /\ lsq[i].blk = b /\ lsq[i].cl = c)
      /\ \A i \in DOMAIN ent[b].cbq : ent[b].cbq[i] # c
  BY DEF IssueRead, LineBusy
<1>2. PICK n \in Nat : /\ n \notin DOMAIN lsq /\ DOMAIN lsq' = DOMAIN lsq \cup {n}
                       /\ lsq'[n] = x /\ \A i \in DOMAIN lsq : lsq'[i] = lsq[i]
  <2>1. lsq \in Seq(Request) /\ lsq' = Append(lsq, x)
    BY DEF TypeOK, IssueRead
  <2>2. x \in Request
    BY DEF Request
  <2> HIDE DEF x
  <2>3. /\ Len(lsq) + 1 \in Nat /\ Len(lsq) + 1 \notin DOMAIN lsq
        /\ DOMAIN lsq' = DOMAIN lsq \cup {Len(lsq) + 1}
        /\ lsq'[Len(lsq) + 1] = x /\ \A i \in DOMAIN lsq : lsq'[i] = lsq[i]
    BY ONLY <2>1, <2>2, AppendFacts
  <2> QED
    BY ONLY <2>3
<1>3. x.op = "read" /\ x.blk = b /\ x.cl = c /\ x.cb = r
  OBVIOUS
<1> HIDE DEF x
<1>4. LsqCalls /\ BufferCalls /\ RoqCalls /\ NoneForgotten
  BY DEF CallsInv
<1>5. wanted \in [ReadIds -> (Blocks \X CL) \cup {NoLine}] /\ r \in ReadIds \cup {NoCb}
  BY CallTypes DEF Callbacks
<1>6. \A s \in ReadIds : /\ s # r => wanted'[s] = wanted[s]
                         /\ s = r => wanted'[s] = <<b, c>>
  <2>1. NoCb \notin ReadIds
    OBVIOUS
  <2> QED
    BY ONLY <1>1, <1>5, <2>1
<1>7. \A d \in Blocks : \A j \in DOMAIN ent[d].cbq : CallOf(d, j)' = CallOf(d, j)
  BY <1>1 DEF CallOf
\* the callback of the new read is not in use
<1>8. \A u \in Blocks, v \in CL : <<u, v>> # NoLine
  OBVIOUS
<1>9. /\ \A i \in DOMAIN lsq : lsq[i].cb # NoCb => lsq[i].cb \in ReadIds /\ lsq[i].cb # r
      /\ \A i \in DOMAIN roq : roq[i].cb # NoCb => roq[i].cb \in ReadIds /\ roq[i].cb # r
      /\ \A d \in Blocks : \A j \in DOMAIN ent[d].cbq :
           CallOf(d, j) # NoCb => CallOf(d, j) \in ReadIds /\ CallOf(d, j) # r
  <2>1. /\ \A i \in DOMAIN lsq : lsq[i].cb # NoCb =>
             lsq[i].cb \in ReadIds /\ wanted[lsq[i].cb] # NoLine
        /\ \A i \in DOMAIN roq : roq[i].cb # NoCb =>
             roq[i].cb \in ReadIds /\ wanted[roq[i].cb] # NoLine
    <3>1. /\ \A i \in DOMAIN lsq : /\ lsq[i].blk \in Blocks /\ lsq[i].cl \in CL
                                   /\ lsq[i].cb \in ReadIds \cup {NoCb}
          /\ \A i \in DOMAIN roq : /\ roq[i].blk \in Blocks /\ roq[i].cl \in CL
                                   /\ roq[i].cb \in ReadIds \cup {NoCb}
      BY CallTypes
    <3>2. \A i \in DOMAIN lsq : lsq[i].cb # NoCb =>
            wanted[lsq[i].cb] = <<lsq[i].blk, lsq[i].cl>>
      BY ONLY <1>4 DEF LsqCalls
    <3>3. \A i \in DOMAIN roq : roq[i].cb # NoCb =>
            wanted[roq[i].cb] = <<roq[i].blk, roq[i].cl>>
      BY ONLY <1>4 DEF RoqCalls
    <3> QED
      BY ONLY <1>8, <3>1, <3>2, <3>3
  <2>2. \A d \in Blocks : \A j \in DOMAIN ent[d].cbq :
          CallOf(d, j) # NoCb => CallOf(d, j) \in ReadIds /\ wanted[CallOf(d, j)] # NoLine
    <3>1. \A d \in Blocks : \A j \in DOMAIN ent[d].cbq :
            ent[d].cbq[j] \in CL /\ CallOf(d, j) \in ReadIds \cup {NoCb}
      BY CallTypes
    <3>2. \A d \in Blocks : \A j \in DOMAIN ent[d].cbq : CallOf(d, j) # NoCb =>
            wanted[CallOf(d, j)] = <<d, ent[d].cbq[j]>>
      BY ONLY <1>4 DEF BufferCalls
    <3> QED
      BY ONLY <1>8, <3>1, <3>2
  <2> QED
    BY ONLY <1>1, <2>1, <2>2
<1>10. LsqCalls'
  <2> SUFFICES ASSUME NEW i \in DOMAIN lsq'
               PROVE  /\ lsq'[i].op = "write" => lsq'[i].cb = NoCb
                      /\ lsq'[i].cb # NoCb => wanted'[lsq'[i].cb] = <<lsq'[i].blk, lsq'[i].cl>>
                      /\ lsq'[i].op = "read" =>
                           /\ \A j \in DOMAIN lsq' :
                                lsq'[j].op = "read" /\ lsq'[j].blk = lsq'[i].blk
                                  /\ lsq'[j].cl = lsq'[i].cl => j = i
                           /\ \A j \in DOMAIN ent'[lsq'[i].blk].cbq :
                                ent'[lsq'[i].blk].cbq[j] # lsq'[i].cl
    BY Zenon DEF LsqCalls
  <2>1. CASE i = n
    <3>1. lsq'[i] = x /\ ent' = ent
      BY <1>1, <1>2, <2>1
    <3>2. x.cb # NoCb => wanted'[x.cb] = <<x.blk, x.cl>>
      BY ONLY <1>3, <1>5, <1>6
    <3>3. \A j \in DOMAIN lsq' : lsq'[j].op = "read" /\ lsq'[j].blk = x.blk
                                   /\ lsq'[j].cl = x.cl => j = i
      BY ONLY <1>1, <1>2, <1>3, <2>1
    <3> QED
      BY ONLY <1>1, <1>3, <3>1, <3>2, <3>3
  <2>2. CASE i \in DOMAIN lsq
    <3>1. lsq'[i] = lsq[i] /\ ent' = ent
      BY <1>1, <1>2, <2>2
    <3>2. /\ lsq[i].op = "write" => lsq[i].cb = NoCb
          /\ lsq[i].cb # NoCb => wanted[lsq[i].cb] = <<lsq[i].blk, lsq[i].cl>>
          /\ lsq[i].op = "read" =>
               /\ \A j \in DOMAIN lsq :
                    lsq[j].op = "read" /\ lsq[j].blk = lsq[i].blk /\ lsq[j].cl = lsq[i].cl => j = i
               /\ \A j \in DOMAIN ent[lsq[i].blk].cbq : ent[lsq[i].blk].cbq[j] # lsq[i].cl
      BY ONLY <1>4, <2>2 DEF LsqCalls
    <3>3. lsq[i].cb # NoCb => wanted'[lsq[i].cb] = wanted[lsq[i].cb]
      BY ONLY <1>6, <1>9, <2>2
    <3>4. lsq[i].op = "read" =>
            \A j \in DOMAIN lsq' : lsq'[j].op = "read" /\ lsq'[j].blk = lsq[i].blk
                                     /\ lsq'[j].cl = lsq[i].cl => j = i
      BY ONLY <1>1, <1>2, <1>3, <2>2, <3>2
    <3> QED
      BY ONLY <3>1, <3>2, <3>3, <3>4
  <2> QED
    BY <1>2, <2>1, <2>2
<1>11. BufferCalls'
  <2> SUFFICES ASSUME NEW d \in Blocks, NEW i \in DOMAIN ent'[d].cbq
               PROVE  /\ \A j \in DOMAIN ent'[d].cbq : ent'[d].cbq[j] = ent'[d].cbq[i] => j = i
                      /\ CallOf(d, i)' # NoCb =>
                           wanted'[CallOf(d, i)'] = <<d, ent'[d].cbq[i]>>
    BY Zenon DEF BufferCalls
  <2>1. ent' = ent /\ i \in DOMAIN ent[d].cbq /\ CallOf(d, i)' = CallOf(d, i)
    BY <1>1, <1>7
  <2>2. /\ \A j \in DOMAIN ent[d].cbq : ent[d].cbq[j] = ent[d].cbq[i] => j = i
        /\ CallOf(d, i) # NoCb => wanted[CallOf(d, i)] = <<d, ent[d].cbq[i]>>
    BY <1>4, <2>1 DEF BufferCalls
  <2> QED
    BY ONLY <1>6, <1>9, <2>1, <2>2, d \in Blocks
<1>12. RoqCalls'
  <2> DEFINE OK(i) ==
        /\ wanted'[roq'[i].cb] = <<roq'[i].blk, roq'[i].cl>>
        /\ \A j \in DOMAIN roq' : roq'[j].cb = roq'[i].cb => j = i
        /\ \A j \in DOMAIN lsq' : lsq'[j].cb # roq'[i].cb
        /\ \A d \in Blocks : \A j \in DOMAIN ent'[d].cbq : CallOf(d, j)' # roq'[i].cb
  <2> SUFFICES ASSUME NEW i \in DOMAIN roq', roq'[i].cb # NoCb
               PROVE  OK(i)
    BY Zenon DEF RoqCalls
  <2>1. roq' = roq /\ ent' = ent /\ i \in DOMAIN roq /\ roq[i].cb # NoCb
    BY <1>1
  <2>2. /\ wanted[roq[i].cb] = <<roq[i].blk, roq[i].cl>>
        /\ \A j \in DOMAIN roq : roq[j].cb = roq[i].cb => j = i
        /\ \A j \in DOMAIN lsq : lsq[j].cb # roq[i].cb
        /\ \A d \in Blocks : \A j \in DOMAIN ent[d].cbq : CallOf(d, j) # roq[i].cb
    BY ONLY <1>4, <2>1 DEF RoqCalls
  <2>3. wanted'[roq[i].cb] = wanted[roq[i].cb] /\ roq[i].cb # r
    BY ONLY <1>6, <1>9, <2>1
  <2>4. \A j \in DOMAIN lsq' : lsq'[j].cb # roq[i].cb
    BY ONLY <1>2, <1>3, <2>2, <2>3
  <2>5. \A d \in Blocks : \A j \in DOMAIN ent'[d].cbq : CallOf(d, j)' # roq[i].cb
    BY ONLY <1>7, <2>1, <2>2
  <2> QED
    BY ONLY <2>1, <2>2, <2>3, <2>4, <2>5
<1>13. NoneForgotten'
  <2> SUFFICES ASSUME NEW s \in ReadIds, wanted'[s] # NoLine
               PROVE  \/ \E i \in DOMAIN lsq' : lsq'[i].cb = s
                      \/ \E i \in DOMAIN roq' : roq'[i].cb = s
                      \/ \E d \in Blocks : \E i \in DOMAIN ent'[d].cbq : CallOf(d, i)' = s
    BY Zenon DEF NoneForgotten
  <2>1. CASE s = r
    BY ONLY <1>2, <1>3, <2>1
  <2>2. CASE s # r
    <3>1. wanted[s] # NoLine
      BY <1>6, <2>2
    <3>2. \/ \E i \in DOMAIN lsq : lsq[i].cb = s
          \/ \E i \in DOMAIN roq : roq[i].cb = s
          \/ \E d \in Blocks : \E i \in DOMAIN ent[d].cbq : CallOf(d, i) = s
      BY ONLY <1>4, <3>1, s \in ReadIds DEF NoneForgotten
    <3> QED
      BY ONLY <1>1, <1>2, <1>7, <3>2
  <2> QED
    BY <2>1, <2>2
<1> QED
  BY <1>10, <1>11, <1>12, <1>13 DEF CallsInv

\* issue_request puts a write, which has no callback, at the end of the lsq.
LEMMA WriteArrives ==
  ASSUME TypeOK, CallsInv, NEW b \in Blocks, NEW c \in CL, IssueWrite(b, c)
  PROVE  CallsInv'
<1> DEFINE x == [op |-> "write", blk |-> b, cl |-> c, cb |-> NoCb]
<1>1. UNCHANGED <<roq, ent, wanted>>
  BY DEF IssueWrite
<1>2. PICK n \in Nat : /\ n \notin DOMAIN lsq /\ DOMAIN lsq' = DOMAIN lsq \cup {n}
                       /\ lsq'[n] = x /\ \A i \in DOMAIN lsq : lsq'[i] = lsq[i]
  <2>1. lsq \in Seq(Request) /\ lsq' = Append(lsq, x)
    BY DEF TypeOK, IssueWrite
  <2>2. x \in Request
    BY DEF Request, Callbacks
  <2> HIDE DEF x
  <2>3. /\ Len(lsq) + 1 \in Nat /\ Len(lsq) + 1 \notin DOMAIN lsq
        /\ DOMAIN lsq' = DOMAIN lsq \cup {Len(lsq) + 1}
        /\ lsq'[Len(lsq) + 1] = x /\ \A i \in DOMAIN lsq : lsq'[i] = lsq[i]
    BY ONLY <2>1, <2>2, AppendFacts
  <2> QED
    BY ONLY <2>3
<1>3. x.op = "write" /\ x.cb = NoCb
  OBVIOUS
<1> HIDE DEF x
<1>4. LsqCalls /\ BufferCalls /\ RoqCalls /\ NoneForgotten
  BY DEF CallsInv
<1>5. \A d \in Blocks : \A j \in DOMAIN ent[d].cbq : CallOf(d, j)' = CallOf(d, j)
  BY <1>1 DEF CallOf
<1>6. LsqCalls'
  <2> SUFFICES ASSUME NEW i \in DOMAIN lsq'
               PROVE  /\ lsq'[i].op = "write" => lsq'[i].cb = NoCb
                      /\ lsq'[i].cb # NoCb => wanted'[lsq'[i].cb] = <<lsq'[i].blk, lsq'[i].cl>>
                      /\ lsq'[i].op = "read" =>
                           /\ \A j \in DOMAIN lsq' :
                                lsq'[j].op = "read" /\ lsq'[j].blk = lsq'[i].blk
                                  /\ lsq'[j].cl = lsq'[i].cl => j = i
                           /\ \A j \in DOMAIN ent'[lsq'[i].blk].cbq :
                                ent'[lsq'[i].blk].cbq[j] # lsq'[i].cl
    BY Zenon DEF LsqCalls
  <2>1. CASE i = n
    BY ONLY <1>2, <1>3, <2>1
  <2>2. CASE i \in DOMAIN lsq
    <3>1. /\ lsq[i].op = "write" => lsq[i].cb = NoCb
          /\ lsq[i].cb # NoCb => wanted[lsq[i].cb] = <<lsq[i].blk, lsq[i].cl>>
          /\ lsq[i].op = "read" =>
               /\ \A j \in DOMAIN lsq :
                    lsq[j].op = "read" /\ lsq[j].blk = lsq[i].blk /\ lsq[j].cl = lsq[i].cl => j = i
               /\ \A j \in DOMAIN ent[lsq[i].blk].cbq : ent[lsq[i].blk].cbq[j] # lsq[i].cl
      BY ONLY <1>4, <2>2 DEF LsqCalls
    <3>2. lsq[i].op = "read" =>
            \A j \in DOMAIN lsq' : lsq'[j].op = "read" /\ lsq'[j].blk = lsq[i].blk
                                     /\ lsq'[j].cl = lsq[i].cl => j = i
      BY ONLY <1>2, <1>3, <2>2, <3>1
    <3> QED
      BY ONLY <1>1, <1>2, <2>2, <3>1, <3>2
  <2> QED
    BY <1>2, <2>1, <2>2
<1>7. BufferCalls'
  <2> SUFFICES ASSUME NEW d \in Blocks, NEW i \in DOMAIN ent'[d].cbq
               PROVE  /\ \A j \in DOMAIN ent'[d].cbq : ent'[d].cbq[j] = ent'[d].cbq[i] => j = i
                      /\ CallOf(d, i)' # NoCb =>
                           wanted'[CallOf(d, i)'] = <<d, ent'[d].cbq[i]>>
    BY Zenon DEF BufferCalls
  <2> QED
    BY <1>1, <1>4, <1>5 DEF BufferCalls
<1>8. RoqCalls'
  <2> DEFINE OK(i) ==
        /\ wanted'[roq'[i].cb] = <<roq'[i].blk, roq'[i].cl>>
        /\ \A j \in DOMAIN roq' : roq'[j].cb = roq'[i].cb => j = i
        /\ \A j \in DOMAIN lsq' : lsq'[j].cb # roq'[i].cb
        /\ \A d \in Blocks : \A j \in DOMAIN ent'[d].cbq : CallOf(d, j)' # roq'[i].cb
  <2> SUFFICES ASSUME NEW i \in DOMAIN roq', roq'[i].cb # NoCb
               PROVE  OK(i)
    BY Zenon DEF RoqCalls
  <2>1. i \in DOMAIN roq /\ roq[i].cb # NoCb
    BY <1>1
  <2>2. /\ wanted[roq[i].cb] = <<roq[i].blk, roq[i].cl>>
        /\ \A j \in DOMAIN roq : roq[j].cb = roq[i].cb => j = i
        /\ \A j \in DOMAIN lsq : lsq[j].cb # roq[i].cb
        /\ \A d \in Blocks : \A j \in DOMAIN ent[d].cbq : CallOf(d, j) # roq[i].cb
    BY ONLY <1>4, <2>1 DEF RoqCalls
  <2>3. \A j \in DOMAIN lsq' : lsq'[j].cb # roq[i].cb
    BY ONLY <1>2, <1>3, <2>1, <2>2
  <2>4. \A d \in Blocks : \A j \in DOMAIN ent'[d].cbq : CallOf(d, j)' # roq[i].cb
    BY ONLY <1>1, <1>5, <2>2
  <2> QED
    BY ONLY <1>1, <2>2, <2>3, <2>4
<1>9. NoneForgotten'
  <2> SUFFICES ASSUME NEW s \in ReadIds, wanted'[s] # NoLine
               PROVE  \/ \E i \in DOMAIN lsq' : lsq'[i].cb = s
                      \/ \E i \in DOMAIN roq' : roq'[i].cb = s
                      \/ \E d \in Blocks : \E i \in DOMAIN ent'[d].cbq : CallOf(d, i)' = s
    BY Zenon DEF NoneForgotten
  <2>1. \/ \E i \in DOMAIN lsq : lsq[i].cb = s
        \/ \E i \in DOMAIN roq : roq[i].cb = s
        \/ \E d \in Blocks : \E i \in DOMAIN ent[d].cbq : CallOf(d, i) = s
    BY ONLY <1>1, <1>4, s \in ReadIds, wanted'[s] # NoLine DEF NoneForgotten
  <2> QED
    BY ONLY <1>1, <1>2, <1>5, <2>1
<1> QED
  BY <1>6, <1>7, <1>8, <1>9 DEF CallsInv

\* What combining leaves in the lsq: the writes that it takes are gone and
\* nothing else is.
LEMMA PickKeeps ==
  ASSUME NEW S, NEW q \in Seq(S), NEW K \in SUBSET DOMAIN q, NEW s \in Pick(q, K)
  PROVE  \E f \in [DOMAIN s -> K] :
           /\ \A i \in DOMAIN s : s[i] = q[f[i]]
           /\ \A i \in DOMAIN s, j \in DOMAIN s : f[i] = f[j] => i = j
           /\ \A k \in K : \E i \in DOMAIN s : f[i] = k
<1>1. IsFiniteSet(K) /\ Cardinality(K) \in Nat
  <2>1. Len(q) \in Nat /\ DOMAIN q = 1 .. Len(q)
    OBVIOUS
  <2>2. 1 \in Int /\ Len(q) \in Int
    BY <2>1
  <2>3. IsFiniteSet(1 .. Len(q))
    BY ONLY <2>2, FS_Interval, Zenon
  <2> QED
    BY ONLY <2>1, <2>3, FS_Subset, FS_CardinalityType, K \in SUBSET DOMAIN q
<1> DEFINE n == Cardinality(K)
           I == 1 .. n
<1>2. PICK f \in [I -> K] : /\ \A i \in I, j \in I : i < j => f[i] < f[j]
                            /\ s = [k \in I |-> q[f[k]]]
  BY DEF Pick
<1>3. DOMAIN s = I /\ \A i \in DOMAIN s : s[i] = q[f[i]]
  BY <1>2
<1>4. \A i \in I, j \in I : f[i] = f[j] => i = j
  <2> SUFFICES ASSUME NEW i \in I, NEW j \in I, f[i] = f[j], i # j
               PROVE  FALSE
    OBVIOUS
  <2>1. i < j \/ j < i
    BY <1>1
  <2>2. f[i] \in Nat
    <3>1. f[i] \in DOMAIN q /\ DOMAIN q = 1 .. Len(q)
      OBVIOUS
    <3> QED
      BY <3>1
  <2>3. f[i] < f[j] \/ f[j] < f[i]
    BY <1>2, <2>1
  <2>4. \A m \in Nat : ~(m < m)
    OBVIOUS
  <2> QED
    BY ONLY <2>2, <2>3, <2>4, f[i] = f[j]
<1>5. IsFiniteSet(I) /\ Cardinality(I) = n
  <2>1. n \in Nat /\ 1 \in Int /\ n \in Int
    BY <1>1
  <2> HIDE DEF n
  <2>2. IsFiniteSet(1 .. n) /\ Cardinality(1 .. n) = IF 1 > n THEN 0 ELSE n - 1 + 1
    BY ONLY <2>1, FS_Interval, Zenon
  <2>3. Cardinality(1 .. n) = n
    BY ONLY <2>1, <2>2
  <2> QED
    BY <2>2, <2>3
<1>6. f \in Surjection(I, K)
  <2>1. f \in Injection(I, K)
    BY <1>2, <1>4 DEF Injection, IsInjective
  <2> HIDE DEF I
  <2>2. Cardinality(I) = Cardinality(K) <=> f \in Surjection(I, K)
    BY <1>1, <2>1, FS_Injection
  <2> QED
    BY <1>5, <2>2
<1>7. \A k \in K : \E i \in I : f[i] = k
  BY <1>6 DEF Surjection
<1> HIDE DEF I
<1> QED
  BY ONLY <1>2, <1>3, <1>4, <1>7

\* An entry that check_and_evict takes has no callbacks.
LEMMA EvictKeepsCalls ==
  ASSUME TypeOK, EntryInv, NEW m \in CheckAndEvict
  PROVE  /\ m \in [Blocks -> Entry]
         /\ \A d \in Blocks : /\ m[d].cbq = ent[d].cbq
                              /\ ent[d].cbq # <<>> => m[d].cbs = ent[d].cbs
<1>1. m \in [Blocks -> Entry]
  BY CheckAndEvictType
<1>2. CASE m = ent
  BY <1>1, <1>2
<1>3. CASE m # ent
  <2>1. PICK v \in Oldest : m = [ent EXCEPT ![v] = NoEntry]
    BY <1>3 DEF CheckAndEvict
  <2>2. v \in Blocks /\ ent[v].state = "end" /\ ent \in [Blocks -> Entry]
    BY <2>1 DEF Oldest, Cached, TypeOK
  <2>3. ent[v].cbq = <<>>
    BY <2>2 DEF EntryInv, EntryOK
  <2>4. NoEntry.cbq = <<>>
    BY DEF NoEntry
  <2>5. m[v] = NoEntry /\ \A d \in Blocks : d # v => m[d] = ent[d]
    BY <2>1, <2>2
  <2> QED
    BY ONLY <1>1, <2>3, <2>4, <2>5
<1> QED
  BY <1>2, <1>3

\* tick_lsq
LEMMA LsqKeepsCalls ==
  ASSUME TypeOK, EntryInv, CallsInv, TickLsq
  PROVE  CallsInv'
<1>1. ent \in [Blocks -> Entry] /\ lsq \in Seq(Request)
  BY DEF TypeOK
<1>2. UNCHANGED <<roq, wanted>>
  BY DEF TickLsq, TickLsqRead, TickLsqWrite, TickLsqIdle
<1>3. CASE UNCHANGED <<lsq, ent>>
  BY <1>2, <1>3, CallsStay
<1>4. CASE TickLsqRead
  <2>1. lsq # <<>> /\ Front.op = "read"
    BY <1>4 DEF TickLsqRead
  <2>2. PICK b \in Blocks, c \in CL, r \in Callbacks :
          b = Front.blk /\ c = Front.cl /\ r = Front.cb
    <3>1. Front \in Request
      BY <1>1, <2>1 DEF Front
    <3> QED
      BY <3>1 DEF Request
  <2>3. ent[b] \in Entry /\ ent[b].cbq \in Seq(CL) /\ ent[b].cbs \in [CL -> Callbacks]
    BY <1>1 DEF Entry
  <2>4. ASSUME NEW e, NEW m \in [Blocks -> Entry], ent' = [m EXCEPT ![b] = e],
               \A d \in Blocks : /\ m[d].cbq = ent[d].cbq
                                 /\ ent[d].cbq # <<>> => m[d].cbs = ent[d].cbs,
               e.cbq = Append(ent[b].cbq, c), e.cbs[c] = r,
               \A i \in DOMAIN ent[b].cbq : e.cbs[ent[b].cbq[i]] = ent[b].cbs[ent[b].cbq[i]],
               lsq' = Tail(lsq)
        PROVE  CallsInv'
    <3>1. ent'[b] = e /\ \A d \in Blocks : d # b => ent'[d] = m[d]
      BY <2>4
    <3>2. \A d \in Blocks \ {b} : /\ ent'[d].cbq = ent[d].cbq
                                  /\ ent[d].cbq # <<>> => ent'[d].cbs = ent[d].cbs
      BY ONLY <2>4, <3>1
    <3> QED
      BY <1>2, <2>1, <2>2, <2>4, <3>1, <3>2, ReadEnters
  <2>5. CASE LsqReadMiss /\ lsq' = Tail(lsq)
    <3> DEFINE e == AssignCallback(ResetCallback(NewEntry("read_cold", {c})), c, r)
    <3>1. PICK m \in CheckAndEvict : ent' = [m EXCEPT ![b] = e]
      BY <2>2, <2>5 DEF LsqReadMiss
    <3>2. ent[b].cbq = <<>>
      <4>1. ent[b].type = "none" /\ EntryOK(ent[b], asked[b], owed[b])
        BY <2>2, <2>5 DEF LsqReadMiss, EntryInv
      <4> QED
        BY <4>1 DEF EntryOK, ReadTypes
    <3>3. e.cbq = Append(<<>>, c) /\ e.cbs[c] = r
      BY DEF AssignCallback, ResetCallback, NewEntry, NoEntry, NoCallbacks
    <3> HIDE DEF e
    <3>4. \A i \in DOMAIN ent[b].cbq : e.cbs[ent[b].cbq[i]] = ent[b].cbs[ent[b].cbq[i]]
      BY <3>2
    <3> QED
      BY <2>4, <2>5, <3>1, <3>2, <3>3, <3>4, EvictKeepsCalls
  <2>6. CASE LsqReadPatch /\ lsq' = Tail(lsq)
    <3> DEFINE e == AssignCallback(ent[b], c, r)
    <3>1. ent' = [ent EXCEPT ![b] = e]
      BY <2>2, <2>6 DEF LsqReadPatch
    <3>2. e.cbq = Append(ent[b].cbq, c) /\ e.cbs = [ent[b].cbs EXCEPT ![c] = r]
      BY <2>3 DEF AssignCallback, Entry
    <3> HIDE DEF e
    <3>3. \A i \in DOMAIN ent[b].cbq : ent[b].cbq[i] # c
      <4>1. 1 \in DOMAIN lsq /\ Front = lsq[1]
        BY <1>1, <2>1, TailFacts DEF Front
      <4>2. LsqCalls /\ lsq[1].op = "read" /\ lsq[1].blk = b /\ lsq[1].cl = c
        BY <2>1, <2>2, <4>1 DEF CallsInv
      <4> QED
        BY ONLY <4>1, <4>2 DEF LsqCalls
    <3>4. \A i \in DOMAIN ent[b].cbq : e.cbs[ent[b].cbq[i]] = ent[b].cbs[ent[b].cbq[i]]
      BY ONLY <2>3, <3>2, <3>3
    <3>5. e.cbs[c] = r
      BY <2>3, <3>2
    <3> QED
      BY <1>1, <2>4, <2>6, <3>1, <3>2, <3>4, <3>5
  <2>7. CASE LsqReadForward /\ lsq' = Tail(lsq)
    <3> DEFINE e == AssignCallback(ResetCallback(AssignNewRequest(ent[b], "read_ff", {c})), c, r)
    <3>1. ent' = [ent EXCEPT ![b] = e]
      BY <2>2, <2>7 DEF LsqReadForward
    <3>2. ent[b].cbq = <<>>
      BY <2>2, <2>7 DEF LsqReadForward, Forwardable, ReadPending, EntryInv, EntryOK
    <3>3. e.cbq = Append(ent[b].cbq, c) /\ e.cbs[c] = r
      BY <2>3 DEF AssignCallback, ResetCallback, AssignNewRequest, NoCallbacks, Entry
    <3> HIDE DEF e
    <3>4. \A i \in DOMAIN ent[b].cbq : e.cbs[ent[b].cbq[i]] = ent[b].cbs[ent[b].cbq[i]]
      BY <3>2
    <3> QED
      BY <1>1, <2>4, <2>7, <3>1, <3>3, <3>4
  <2> QED
    BY <1>3, <1>4, <2>5, <2>6, <2>7 DEF TickLsqRead
<1>5. CASE TickLsqWrite
  <2>1. PICK b \in Blocks : b = Front.blk
    <3>1. Front \in Request
      BY <1>1, <1>5 DEF Front, TickLsqWrite
    <3> QED
      BY <3>1 DEF Request
  <2>2. ent[b] \in Entry
    BY <1>1
  <2>3. ASSUME TakeWrites,
               \A d \in Blocks : /\ ent'[d].cbq = ent[d].cbq
                                 /\ ent[d].cbq # <<>> => ent'[d].cbs = ent[d].cbs
        PROVE  CallsInv'
    <3> DEFINE K == DOMAIN lsq \ Combined
    <3>1. lsq' \in Pick(lsq, K) /\ K \in SUBSET DOMAIN lsq
      BY <2>3 DEF TakeWrites
    <3>2. \A i \in DOMAIN lsq : lsq[i].cb # NoCb => i \in K
      <4>1. \A i \in Combined : lsq[i].op = "write" /\ i \in DOMAIN lsq
        BY DEF Combined
      <4>2. \A i \in DOMAIN lsq : lsq[i].op = "write" => lsq[i].cb = NoCb
        BY DEF CallsInv, LsqCalls
      <4> QED
        BY ONLY <4>1, <4>2
    <3> HIDE DEF K
    <3>3. PICK f \in [DOMAIN lsq' -> K] :
            /\ \A i \in DOMAIN lsq' : lsq'[i] = lsq[f[i]]
            /\ \A i \in DOMAIN lsq', j \in DOMAIN lsq' : f[i] = f[j] => i = j
            /\ \A k \in K : \E i \in DOMAIN lsq' : f[i] = k
      BY ONLY <1>1, <3>1, PickKeeps
    <3>4. f \in [DOMAIN lsq' -> DOMAIN lsq]
      BY <3>1, <3>3
    <3>5. \A i \in DOMAIN lsq : lsq[i].cb # NoCb => \E j \in DOMAIN lsq' : f[j] = i
      BY ONLY <3>2, <3>3
    <3> QED
      BY <1>2, <2>3, <3>3, <3>4, <3>5, CallsKept
  <2>4. CASE LsqWriteMiss /\ TakeWrites
    <3> DEFINE e == NewEntry(WriteTypeFor(LinesHit), LinesHit)
    <3>1. PICK m \in CheckAndEvict : ent' = [m EXCEPT ![b] = e]
      BY <2>1, <2>4 DEF LsqWriteMiss
    <3>2. ent[b].cbq = <<>>
      <4>1. ent[b].type = "none" /\ EntryOK(ent[b], asked[b], owed[b])
        BY <2>1, <2>4 DEF LsqWriteMiss, EntryInv
      <4> QED
        BY <4>1 DEF EntryOK, ReadTypes
    <3>3. e.cbq = <<>>
      BY DEF NewEntry, NoEntry
    <3> HIDE DEF e
    <3>4. /\ m \in [Blocks -> Entry]
          /\ \A d \in Blocks : /\ m[d].cbq = ent[d].cbq
                               /\ ent[d].cbq # <<>> => m[d].cbs = ent[d].cbs
      BY EvictKeepsCalls
    <3>5. ent'[b] = e /\ \A d \in Blocks : d # b => ent'[d] = m[d]
      BY <3>1, <3>4
    <3>6. \A d \in Blocks : /\ ent'[d].cbq = ent[d].cbq
                            /\ ent[d].cbq # <<>> => ent'[d].cbs = ent[d].cbs
      BY ONLY <3>2, <3>3, <3>4, <3>5
    <3> QED
      BY <2>3, <2>4, <3>6
  <2>5. ASSUME TakeWrites, NEW e, ent' = [ent EXCEPT ![b] = e],
               e.cbq = ent[b].cbq, e.cbs = ent[b].cbs
        PROVE  CallsInv'
    <3>1. ent'[b] = e /\ \A d \in Blocks : d # b => ent'[d] = ent[d]
      BY <1>1, <2>5
    <3>2. \A d \in Blocks : /\ ent'[d].cbq = ent[d].cbq
                            /\ ent[d].cbq # <<>> => ent'[d].cbs = ent[d].cbs
      BY ONLY <2>5, <3>1
    <3> QED
      BY <2>3, <2>5, <3>2
  <2>6. CASE LsqWritePatchRmw /\ TakeWrites
    <3> DEFINE lines == MergedLines(ent[b])
               e == IF WriteTypeFor(lines) = "write_comb"
                    THEN AssignNewRequest(ent[b], "write_comb", lines)
                    ELSE [ent[b] EXCEPT !.cl = lines]
    <3>1. ent' = [ent EXCEPT ![b] = e]
      BY <2>1, <2>6 DEF LsqWritePatchRmw
    <3> HIDE DEF lines
    <3>2. e.cbq = ent[b].cbq /\ e.cbs = ent[b].cbs
      BY <2>2 DEF AssignNewRequest, Entry
    <3> HIDE DEF e
    <3> QED
      BY <2>5, <2>6, <3>1, <3>2
  <2>7. CASE LsqWritePatch /\ TakeWrites
    <3> DEFINE e == AssignNewRequest(ent[b], "write_patch", LinesHit)
    <3>1. ent' = [ent EXCEPT ![b] = e]
      BY <2>1, <2>7 DEF LsqWritePatch
    <3>2. e.cbq = ent[b].cbq /\ e.cbs = ent[b].cbs
      BY <2>2 DEF AssignNewRequest, Entry
    <3> HIDE DEF e
    <3> QED
      BY <2>5, <2>7, <3>1, <3>2
  <2> QED
    BY <1>3, <1>5, <2>4, <2>6, <2>7 DEF TickLsqWrite
<1>6. CASE TickLsqIdle
  BY <1>3, <1>6 DEF TickLsqIdle
<1> QED
  BY <1>4, <1>5, <1>6 DEF TickLsq

\* tick_internal_buffer moves no callback but the one it reads out.
LEMMA BufferKeepsCalls ==
  ASSUME TypeOK, CallsInv, NEW b \in Blocks,
         WriteRmw(b) \/ WriteComb(b) \/ WritePatch(b) \/ ReadCold(b) \/ ReadFf(b)
  PROVE  CallsInv'
<1> DEFINE Same == \A c \in Blocks : ent'[c].cbq = ent[c].cbq /\ ent'[c].cbs = ent[c].cbs
           Quiet == UNCHANGED <<lsq, wanted>> /\ roq' = roq
<1>1. ent \in [Blocks -> Entry] /\ ent[b] \in Entry /\ room \in Nat
  BY DEF TypeOK
<1>2. ASSUME Same, Quiet
      PROVE  CallsInv'
  BY <1>2, CallsStay
<1>3. ASSUME NEW type, NEW state, At(b, type, state)
      PROVE  UNCHANGED <<lsq, wanted>>
  BY <1>3 DEF At
<1>4. ASSUME NEW e, ent' = [ent EXCEPT ![b] = e], e.cbq = ent[b].cbq, e.cbs = ent[b].cbs
      PROVE  Same
  BY <1>1, <1>4
<1> HIDE DEF Same
<1>5. ASSUME ent' = ent
      PROVE  Same
  BY <1>5 DEF Same
<1>6. ASSUME NEW state, NEW n, Move(b, state, n) \/ MoveLocal(b, state, n)
      PROVE  Same /\ roq' = roq
  BY <1>1, <1>4, <1>6 DEF Move, MoveLocal, Entry
<1>7. ASSUME NEW dirty, AskAit(b, dirty)
      PROVE  Same /\ roq' = roq
  BY <1>1, <1>4, <1>5, <1>7 DEF AskAit, Entry
<1>8. ASSUME SendAit(b)
      PROVE  Same /\ roq' = roq
  BY <1>1, <1>4, <1>5, <1>8 DEF SendAit, Entry
<1>9. ASSUME NEW type, WriteTail(b, type)
      PROVE  CallsInv'
  <2>1. CASE At(b, type, "pending_ait_w") /\ Move(b, "pending_modify", RmwToAit)
    BY <1>2, <1>3, <1>6, <2>1
  <2>2. CASE At(b, type, "pending_modify") /\ SendAit(b)
    BY <1>2, <1>3, <1>8, <2>2
  <2>3. CASE /\ At(b, type, "pending_write")
             /\ ent' = [ent EXCEPT ![b] = [@ EXCEPT !.state = "end", !.pending = FALSE,
                                                    !.dirty = FALSE, !.used = Now]]
             /\ UNCHANGED <<roq, room, asked, owed>>
    <3>1. Same
      BY <1>1, <1>4, <2>3 DEF Entry
    <3> QED
      BY <1>2, <1>3, <2>3, <3>1
  <2> QED
    BY <1>9, <2>1, <2>2, <2>3 DEF WriteTail
<1>10. ASSUME WriteLocal(b)
       PROVE  Same /\ roq' = roq
  BY <1>1, <1>4, <1>10 DEF WriteLocal, Entry
<1>11. ASSUME NEW again, IssueRoq(b, again), UNCHANGED <<lsq, wanted>>
       PROVE  CallsInv'
  <2>1. CASE Len(roq) < RoqEntries /\ ent[b].cbq # <<>>
    <3> DEFINE c == Head(ent[b].cbq)
               rest == Tail(ent[b].cbq)
               out == [blk |-> b, cl |-> c, cb |-> ent[b].cbs[c]]
               state == IF rest # <<>> THEN again ELSE "end"
               pending == rest # <<>>
    <3>1. /\ roq' = Append(roq, out)
          /\ ent' = [ent EXCEPT ![b] = [@ EXCEPT !.cbq = rest, !.used = Now,
                                                 !.state = state, !.pending = pending]]
      BY <1>11, <2>1 DEF IssueRoq, TypeOK
    <3>2. out \in Readout
      <4>1. ent[b].cbq \in Seq(CL) /\ ent[b].cbs \in [CL -> Callbacks]
        BY <1>1 DEF Entry
      <4>2. c \in CL
        BY <2>1, <4>1
      <4> QED
        BY <4>1, <4>2 DEF Readout
    <3>3. out.blk = b /\ out.cl = c /\ out.cb = ent[b].cbs[c]
      OBVIOUS
    <3> HIDE DEF rest, state, pending, out
    <3>4. /\ ent'[b].cbq = rest /\ ent'[b].cbs = ent[b].cbs
          /\ \A d \in Blocks : d # b => ent'[d] = ent[d]
      BY <1>1, <3>1 DEF Entry
    <3>5. /\ \A d \in Blocks \ {b} : ent'[d].cbq = ent[d].cbq
          /\ \A d \in Blocks : ent'[d].cbs = ent[d].cbs
      BY ONLY <3>4
    <3>6. PICK x \in Readout : x = out
      BY <3>2
    <3> QED
      <4>1. /\ x.blk = b /\ x.cl = Head(ent[b].cbq) /\ x.cb = ent[b].cbs[Head(ent[b].cbq)]
            /\ roq' = Append(roq, x) /\ ent'[b].cbq = Tail(ent[b].cbq)
        BY <3>1, <3>3, <3>4, <3>6 DEF rest
      <4>2. TypeOK /\ CallsInv /\ UNCHANGED <<lsq, wanted>> /\ ent[b].cbq # <<>>
        BY <1>11, <2>1
      <4> QED
        BY ONLY <3>5, <3>6, <4>1, <4>2, b \in Blocks, ReadLeaves
  <2>2. CASE Len(roq) >= RoqEntries /\ UNCHANGED <<ent, room, asked, roq, owed>>
    BY <1>2, <1>5, <1>11, <2>2
  <2> QED
    BY <1>11, <2>1, <2>2 DEF IssueRoq
<1>12. CASE WriteRmw(b)
  BY <1>2, <1>3, <1>6, <1>7, <1>9, <1>12 DEF WriteRmw
<1>13. CASE WriteComb(b)
  BY <1>2, <1>3, <1>9, <1>10, <1>13 DEF WriteComb
<1>14. CASE WritePatch(b)
  BY <1>2, <1>3, <1>9, <1>10, <1>14 DEF WritePatch
<1>15. CASE ReadCold(b)
  <2>1. CASE At(b, "read_cold", "init") /\ AskAit(b, FALSE)
    BY <1>2, <1>3, <1>7, <2>1
  <2>2. CASE At(b, "read_cold", "pending_ait_r") /\ Move(b, "pending_read", AitToRmw)
    BY <1>2, <1>3, <1>6, <2>2
  <2>3. CASE /\ At(b, "read_cold", "pending_read")
             /\ ent' = [ent EXCEPT ![b] =
                          [@ EXCEPT !.state = "pending_readout", !.valid = TRUE,
                                    !.used = Now, !.waiting = FALSE, !.wait = LocalRead]]
             /\ UNCHANGED <<roq, room, asked, owed>>
    <3>1. Same
      BY <1>1, <1>4, <2>3 DEF Entry
    <3> QED
      BY <1>2, <1>3, <2>3, <3>1
  <2>4. CASE At(b, "read_cold", "pending_readout") /\ IssueRoq(b, "pending_read")
    BY <1>3, <1>11, <2>4
  <2> QED
    BY <1>15, <2>1, <2>2, <2>3, <2>4 DEF ReadCold
<1>16. CASE ReadFf(b)
  <2>1. CASE /\ At(b, "read_ff", "init")
             /\ ent' = [ent EXCEPT ![b] =
                          [@ EXCEPT !.state = "pending_readout", !.pending = TRUE,
                                    !.dirty = FALSE, !.valid = TRUE, !.used = Now,
                                    !.waiting = FALSE, !.wait = LocalRead]]
             /\ UNCHANGED <<roq, room, asked, owed>>
    <3>1. Same
      BY <1>1, <1>4, <2>1 DEF Entry
    <3> QED
      BY <1>2, <1>3, <2>1, <3>1
  <2>2. CASE At(b, "read_ff", "pending_readout") /\ IssueRoq(b, "init")
    BY <1>3, <1>11, <2>2
  <2> QED
    BY <1>16, <2>1, <2>2 DEF ReadFf
<1> QED
  BY <1>12, <1>13, <1>14, <1>15, <1>16

\* The remaining steps: requests that arrive, the AIT and the clock.
LEMMA OtherKeepsCalls ==
  ASSUME TypeOK, EntryInv, CallsInv, ~SameLineReads,
         \/ TickRoq \/ Upstream \/ AitTake \/ EndCycle
         \/ \E b \in Blocks : AitAnswer(b)
  PROVE  CallsInv'
<1>1. ent \in [Blocks -> Entry]
  BY DEF TypeOK
<1>2. CASE TickRoq
  BY <1>2, ReadAnswered
<1>3. CASE Upstream
  <2>1. CASE Drain
    <3>1. \A c \in Blocks : ~(ent[c].dirty /\ ent[c].state = "end")
      BY DEF EntryInv, EntryOK
    <3>2. ent' = ent /\ UNCHANGED <<roq, wanted, lsq>>
      BY <1>1, <2>1, <3>1 DEF Drain
    <3> QED
      BY <3>2, CallsStay
  <2>2. CASE \E b \in Blocks, c \in CL, r \in Callbacks : IssueRead(b, c, r)
    BY <2>2, ReadArrives
  <2>3. CASE \E b \in Blocks, c \in CL : IssueWrite(b, c)
    BY <2>3, WriteArrives
  <2> QED
    BY <1>3, <2>1, <2>2, <2>3 DEF Upstream
<1>4. CASE AitTake
  BY <1>4, CallsStay DEF AitTake
<1>5. ASSUME NEW b \in Blocks, AitAnswer(b)
      PROVE  CallsInv'
  <2>1. /\ ent' = [ent EXCEPT ![b] = [@ EXCEPT !.waiting = FALSE, !.wait = 1]]
        /\ UNCHANGED <<roq, wanted, lsq>>
    BY <1>5 DEF AitAnswer
  <2>2. \A c \in Blocks : ent'[c].cbs = ent[c].cbs /\ ent'[c].cbq = ent[c].cbq
    BY <1>1, <2>1 DEF Entry
  <2> QED
    BY <2>1, <2>2, CallsStay
<1>6. CASE EndCycle
  <2> DEFINE w(c) == IF ent[c].wait > 0 THEN ent[c].wait - 1 ELSE ent[c].wait
  <2>1. /\ ent' = [c \in Blocks |->
                     IF c \in Cached THEN [ent[c] EXCEPT !.wait = w(c), !.used = Rank(c)]
                     ELSE ent[c]]
        /\ UNCHANGED <<roq, wanted, lsq>>
    BY <1>6 DEF EndCycle
  <2> HIDE DEF w
  <2>2. \A c \in Blocks : ent'[c].cbs = ent[c].cbs /\ ent'[c].cbq = ent[c].cbq
    BY <1>1, <2>1 DEF Entry
  <2> QED
    BY <2>1, <2>2, CallsStay
<1> QED
  BY <1>2, <1>3, <1>4, <1>5, <1>6

\* While no line has two reads in flight, CallsInv holds in every state: each
\* callback is in one place, from issue_request to tick_roq.
THEOREM CallsConsistent ==
  ASSUME ~SameLineReads
  PROVE  Spec => []CallsInv
<1>1. Init => CallsInv
  <2> SUFFICES ASSUME Init
               PROVE  CallsInv
    OBVIOUS
  <2>1. lsq = <<>> /\ roq = <<>> /\ \A r \in ReadIds : wanted[r] = NoLine
    BY DEF Init
  <2>2. DOMAIN lsq = {} /\ DOMAIN roq = {}
    BY <2>1
  <2>3. \A b \in Blocks : ent[b].cbq = <<>>
    BY DEF Init, NoEntry
  <2>4. \A b \in Blocks : DOMAIN ent[b].cbq = {}
    BY <2>3
  <2> QED
    BY <2>1, <2>2, <2>4 DEF CallsInv, LsqCalls, BufferCalls, RoqCalls, NoneForgotten
<1>2. TypeOK /\ EntryInv /\ CallsInv /\ [Next]_vars => CallsInv'
  <2>1. ASSUME TypeOK, EntryInv, CallsInv, Next
        PROVE  CallsInv'
    BY <2>1, LsqKeepsCalls, BufferKeepsCalls, OtherKeepsCalls DEF Next, TickInternalBuffer
  <2>2. ASSUME TypeOK, CallsInv, UNCHANGED vars
        PROVE  CallsInv'
    BY <2>2, CallsStay DEF vars
  <2> QED
    BY <2>1, <2>2
<1> QED
  BY <1>1, <1>2, TypeCorrect, EntriesConsistent, PTL DEF Spec

\* No callback of a read is lost, doubled or called for another line, through
\* the lsq, patching, forwarding, eviction and the roq.  (With two reads of one
\* line in flight this fails: cbs has one slot for each line.)
THEOREM CallbacksConserved ==
  ASSUME ~SameLineReads
  PROVE  Spec => []ReadsConserved
<1>1. TypeOK /\ CallsInv => ReadsConserved
  <2> SUFFICES ASSUME TypeOK, CallsInv, NEW r \in ReadIds
               PROVE  IF wanted[r] = NoLine THEN Places(r) = {}
                      ELSE \E p \in Places(r) : Places(r) = {p} /\ <<p[3], p[4]>> = wanted[r]
    BY DEF ReadsConserved
  <2> DEFINE InLsq(p) == \E i \in DOMAIN lsq :
                           lsq[i].cb = r /\ p = <<"lsq", i, lsq[i].blk, lsq[i].cl>>
             InRoq(p) == \E i \in DOMAIN roq :
                           roq[i].cb = r /\ p = <<"roq", i, roq[i].blk, roq[i].cl>>
             InBuf(p) == \E b \in Blocks : \E i \in DOMAIN ent[b].cbq :
                           CallOf(b, i) = r /\ p = <<"buf", i, b, ent[b].cbq[i]>>
  <2>1. \A p : p \in Places(r) <=> InLsq(p) \/ InRoq(p) \/ InBuf(p)
    BY DEF Places, CallOf
  <2>2. LsqCalls /\ BufferCalls /\ RoqCalls /\ NoneForgotten /\ r # NoCb
    BY DEF CallsInv
  <2>3. /\ \A i \in DOMAIN lsq : /\ lsq[i].blk \in Blocks /\ lsq[i].cl \in CL
                                 /\ lsq[i].op \in {"read", "write"}
        /\ \A i \in DOMAIN roq : roq[i].blk \in Blocks /\ roq[i].cl \in CL
        /\ \A b \in Blocks : \A i \in DOMAIN ent[b].cbq : ent[b].cbq[i] \in CL
    BY CallTypes
  \* a place names the line that the callback waits for
  <2>4. /\ \A i \in DOMAIN lsq : lsq[i].cb = r =>
             lsq[i].op = "read" /\ wanted[r] = <<lsq[i].blk, lsq[i].cl>>
        /\ \A i \in DOMAIN roq : roq[i].cb = r => wanted[r] = <<roq[i].blk, roq[i].cl>>
        /\ \A b \in Blocks : \A i \in DOMAIN ent[b].cbq :
             CallOf(b, i) = r => wanted[r] = <<b, ent[b].cbq[i]>>
    <3>1. \A i \in DOMAIN lsq : lsq[i].cb = r =>
            lsq[i].op = "read" /\ wanted[r] = <<lsq[i].blk, lsq[i].cl>>
      BY ONLY <2>2, <2>3 DEF LsqCalls
    <3>2. \A i \in DOMAIN roq : roq[i].cb = r => wanted[r] = <<roq[i].blk, roq[i].cl>>
      BY ONLY <2>2 DEF RoqCalls
    <3>3. \A b \in Blocks : \A i \in DOMAIN ent[b].cbq :
             CallOf(b, i) = r => wanted[r] = <<b, ent[b].cbq[i]>>
      BY ONLY <2>2 DEF BufferCalls
    <3> QED
      BY <3>1, <3>2, <3>3
  <2>5. \A u \in Blocks, v \in CL : <<u, v>> # NoLine
    OBVIOUS
  <2>6. ASSUME NEW p \in Places(r)
        PROVE  <<p[3], p[4]>> = wanted[r] /\ wanted[r] # NoLine
    <3>1. CASE InLsq(p)
      <4>1. PICK i \in DOMAIN lsq : lsq[i].cb = r /\ p = <<"lsq", i, lsq[i].blk, lsq[i].cl>>
        BY <3>1
      <4>2. p[3] = lsq[i].blk /\ p[4] = lsq[i].cl
        BY <4>1
      <4>3. wanted[r] = <<lsq[i].blk, lsq[i].cl>>
        BY ONLY <2>4, <4>1
      <4> QED
        BY ONLY <2>3, <2>5, <4>1, <4>2, <4>3
    <3>2. CASE InRoq(p)
      <4>1. PICK i \in DOMAIN roq : roq[i].cb = r /\ p = <<"roq", i, roq[i].blk, roq[i].cl>>
        BY <3>2
      <4>2. p[3] = roq[i].blk /\ p[4] = roq[i].cl
        BY <4>1
      <4>3. wanted[r] = <<roq[i].blk, roq[i].cl>>
        BY ONLY <2>4, <4>1
      <4> QED
        BY ONLY <2>3, <2>5, <4>1, <4>2, <4>3
    <3>3. CASE InBuf(p)
      <4>1. PICK b \in Blocks : \E i \in DOMAIN ent[b].cbq :
                                  CallOf(b, i) = r /\ p = <<"buf", i, b, ent[b].cbq[i]>>
        BY <3>3
      <4>2. PICK i \in DOMAIN ent[b].cbq : CallOf(b, i) = r /\ p = <<"buf", i, b, ent[b].cbq[i]>>
        BY <4>1
      <4>3. p[3] = b /\ p[4] = ent[b].cbq[i]
        BY ONLY <4>2
      <4> QED
        BY ONLY <2>3, <2>4, <2>5, <4>2, <4>3, b \in Blocks, ZenonT(40)
    <3> QED
      BY <2>1, <2>6, <3>1, <3>2, <3>3
  <2>7. ASSUME NEW p \in Places(r), NEW s \in Places(r)
        PROVE  p = s
    <3>1. ASSUME NEW i \in DOMAIN lsq, NEW j \in DOMAIN lsq, lsq[i].cb = r, lsq[j].cb = r
          PROVE  i = j
      <4>1. lsq[i].op = "read" /\ lsq[j].op = "read" /\ lsq[i].blk = lsq[j].blk
              /\ lsq[i].cl = lsq[j].cl
        BY ONLY <2>4, <3>1
      <4> QED
        BY ONLY <2>2, <3>1, <4>1 DEF LsqCalls
    <3>2. ASSUME NEW i \in DOMAIN roq, NEW j \in DOMAIN roq, roq[i].cb = r, roq[j].cb = r
          PROVE  i = j
      BY ONLY <2>2, <3>2 DEF RoqCalls
    <3>3. ASSUME NEW b \in Blocks, NEW i \in DOMAIN ent[b].cbq, CallOf(b, i) = r,
                 NEW c \in Blocks, NEW j \in DOMAIN ent[c].cbq, CallOf(c, j) = r
          PROVE  b = c /\ i = j
      <4>1. b = c /\ ent[b].cbq[i] = ent[b].cbq[j]
        BY ONLY <2>4, <3>3
      <4> QED
        BY ONLY <2>2, <3>3, <4>1 DEF BufferCalls
    <3>4. ASSUME NEW i \in DOMAIN lsq, lsq[i].cb = r,
                 NEW c \in Blocks, NEW j \in DOMAIN ent[c].cbq, CallOf(c, j) = r
          PROVE  FALSE
      <4>1. lsq[i].op = "read" /\ lsq[i].blk = c /\ lsq[i].cl = ent[c].cbq[j]
        BY ONLY <2>4, <3>4
      <4> QED
        BY ONLY <2>2, <3>4, <4>1 DEF LsqCalls
    <3>5. ASSUME NEW i \in DOMAIN roq, roq[i].cb = r
          PROVE  /\ \A j \in DOMAIN lsq : lsq[j].cb # r
                 /\ \A b \in Blocks : \A j \in DOMAIN ent[b].cbq : CallOf(b, j) # r
      BY ONLY <2>2, <3>5 DEF RoqCalls
    <3>6. CASE InLsq(p)
      BY <2>1, <2>7, <3>1, <3>4, <3>5, <3>6
    <3>7. CASE InRoq(p)
      BY <2>1, <2>7, <3>2, <3>5, <3>7
    <3>8. CASE InBuf(p)
      BY <2>1, <2>7, <3>3, <3>4, <3>5, <3>8
    <3> QED
      BY <2>1, <2>7, <3>6, <3>7, <3>8
  <2>8. ASSUME wanted[r] # NoLine
        PROVE  \E p : p \in Places(r)
    <3>1. \/ \E i \in DOMAIN lsq : lsq[i].cb = r
          \/ \E i \in DOMAIN roq : roq[i].cb = r
          \/ \E b \in Blocks : \E i \in DOMAIN ent[b].cbq : CallOf(b, i) = r
      BY <2>2, <2>8 DEF NoneForgotten
    <3>2. \E p : InLsq(p) \/ InRoq(p) \/ InBuf(p)
      BY <3>1
    <3> QED
      BY <2>1, <3>2
  <2> HIDE DEF InLsq, InRoq, InBuf
  <2>9. CASE wanted[r] = NoLine
    BY <2>6, <2>9
  <2>10. CASE wanted[r] # NoLine
    <3>1. PICK p : p \in Places(r)
      BY <2>8, <2>10
    <3>2. Places(r) = {p} /\ <<p[3], p[4]>> = wanted[r]
      BY <2>6, <2>7, <3>1
    <3> QED
      BY <2>10, <3>1, <3>2
  <2> QED
    BY <2>9, <2>10
<1> QED
  BY <1>1, TypeCorrect, CallsConsistent, PTL

\* When pending_current is false no read waits for its callback: the drain loop
\* of trace.cpp ends with every read answered.
THEOREM QuietIsAnswered ==
  ASSUME ~SameLineReads
  PROVE  Spec => []QuietMeansAnswered
<1>1. TypeOK /\ EntryInv /\ CallsInv => QuietMeansAnswered
  <2> SUFFICES ASSUME TypeOK, EntryInv, CallsInv, ~PendingCurrent, NEW r \in ReadIds
               PROVE  wanted[r] = NoLine
    BY DEF QuietMeansAnswered
  <2>1. lsq = <<>> /\ roq = <<>> /\ \A b \in Blocks : ~ent[b].pending
    BY DEF PendingCurrent, BufferPending
  <2>2. \A b \in Blocks : ent[b].cbq = <<>>
    BY <2>1 DEF EntryInv, EntryOK
  <2>3. DOMAIN lsq = {} /\ DOMAIN roq = {} /\ \A b \in Blocks : DOMAIN ent[b].cbq = {}
    BY <2>1, <2>2
  <2>4. NoneForgotten
    BY DEF CallsInv
  <2> QED
    BY ONLY <2>3, <2>4, r \in ReadIds DEF NoneForgotten
<1> QED
  BY <1>1, TypeCorrect, EntriesConsistent, CallsConsistent, PTL
=============================================================================
