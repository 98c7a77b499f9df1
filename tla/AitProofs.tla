----------------------------- MODULE AitProofs -----------------------------
(***************************************************************************)
(* Machine-checked proofs about Ait, for every value of its constants.     *)
(*                                                                         *)
(* The first part is about types.  The second part shows that AitInv, the  *)
(* consistency of every entry with its own fields, with the local memory   *)
(* queue and with the todo list, is an inductive invariant.  The third     *)
(* part is about the histories: reads in flight and wear.                  *)
(***************************************************************************)
EXTENDS Ait, FiniteSetTheorems, TLAPS

USE AitAssumption

\* A write that was counted and has not come to its wear leveling test yet.
Untested(e) ==
  /\ e.type \in WriteTypes
  /\ e.state \in {"init", "pending_read_media", "pending_write_dram"}

\* The fields of an entry agree.
EntryOK(e) ==
  /\ e.type = "none" => e.state = "end"
  /\ e.state # "end" => <<e.type, e.state>> \in Handled /\ e.pending
  /\ e.state = "end" => /\ ~e.pending /\ ~e.waiting
                        /\ e.type # "none" => e.valid /\ ~e.dirty
  /\ e.state = "init" => e.waiting
  /\ e.waiting => e.state \in {"init", "pending_read_dram", "pending_write_dram"}
  /\ e.pending /\ ~e.waiting => e.wait \in Nat
  /\ e.type \in ReadTypes => ~e.dirty
  /\ e.state \in {"pending_read_dram", "pending_migration", "pending_write_media"} => e.valid

EntriesOK == \A b \in Blocks : EntryOK(ent[b])

\* What tick_internal_buffer has yet to move can still be moved.
TodoActs ==
  /\ phase # "buf" => todo = {}
  /\ \A b \in todo : Acts(ent[b])


\* The buffer and the queues keep to their capacities.
Bounded ==
  /\ Cardinality(Cached) <= BufferEntries
  /\ Len(lsq) <= LsqEntries /\ Len(lmemq) <= LmemqEntries

AitInv == TypeOK /\ EntriesOK /\ TodoActs /\ LmemqMatches /\ OneLineAtATime /\ Bounded

(***************************************************************************)
(* Types of the operators that the actions are built from                  *)
(***************************************************************************)

\* NoEntry, the value of a block without an entry, is an Entry.
LEMMA NoEntryType == NoEntry \in Entry /\ Now \in Nat
  BY DEF NoEntry, Entry, States, Callbacks, ClkInvalid, Now

\* A block without an entry is consistent.
LEMMA NoEntryOK == EntryOK(NoEntry) /\ NoEntry.type = "none" /\ NoEntry.state = "end"
  BY DEF EntryOK, NoEntry, ReadTypes

\* A rank is a number.
LEMMA RankType ==
  ASSUME TypeOK, NEW b \in Blocks
  PROVE  Rank(b) \in Nat
<1> DEFINE older == {x \in Cached : ent[x].used < ent[b].used}
           stamps == {ent[c].used : c \in older}
           stamp == [c \in older |-> ent[c].used]
<1>1. IsFiniteSet(older)
  BY FS_Subset DEF Cached
<1>2. stamp \in Surjection(older, stamps)
  BY DEF Surjection
<1>3. IsFiniteSet(stamps)
  BY <1>1, <1>2, FS_Surjection
<1> QED
  BY <1>3, FS_CardinalityType DEF Rank

\* The count of writes stays below the threshold, and the test of
\* check_wear_leveling is that its last value is reached.
LEMMA CountStep ==
  ASSUME NEW w \in 0 .. Threshold - 1
  PROVE  /\ (w + 1) % Threshold \in 0 .. Threshold - 1
         /\ (w + 1) % Threshold = IF w + 1 = Threshold THEN 0 ELSE w + 1
<1> DEFINE t == Threshold
<1>1. t \in Nat /\ t > 0
  OBVIOUS
<1>2. CASE w + 1 = t
  <2>1. t % t = 0
    BY <1>1
  <2> QED
    BY <1>1, <1>2, <2>1
<1>3. CASE w + 1 # t
  <2>1. w + 1 \in 0 .. t - 1
    BY <1>1, <1>3
  <2>2. (w + 1) % t = w + 1
    BY <1>1, <2>1
  <2> QED
    BY <1>1, <1>3, <2>1, <2>2
<1> QED
  BY <1>2, <1>3

(***************************************************************************)
(* tick_internal_buffer: every transition is one of five moves of an entry *)
(***************************************************************************)
\* no room in the local memory queue: the entry tries again in the next cycle
StayMove(b) == ent' = ent /\ UNCHANGED <<lmemq, wanted, since>>

\* a request to the local memory queue, which will wake the entry
DramMove(b, op) ==
  /\ Len(lmemq) < LmemqEntries
  /\ lmemq' = Append(lmemq, [op |-> op, blk |-> b])
  /\ ent'[b].waiting /\ ent'[b].pending
  /\ ent'[b].state = IF op = "read" THEN "pending_read_dram" ELSE "pending_write_dram"
  /\ Untested(ent'[b]) <=> Untested(ent[b])
  /\ UNCHANGED <<wanted, since>>

\* on to the media, or to the media and past a migration
MediaMove(b) ==
  /\ ~ent'[b].waiting /\ ent'[b].pending
  /\ Untested(ent'[b]) <=> Untested(ent[b])
  /\ UNCHANGED <<lmemq, wanted, since>>

\* the test of check_wear_leveling
TestMove(b) ==
  /\ ~ent'[b].waiting /\ ent'[b].pending
  /\ Untested(ent[b]) /\ ~Untested(ent'[b])
  /\ since' = IF (writes[b] + 1) % Threshold = 0 THEN [since EXCEPT ![b] = 0] ELSE since
  /\ UNCHANGED <<lmemq, wanted>>

\* the end of a request
EndMove(b) ==
  /\ ~ent'[b].waiting /\ ~ent'[b].pending
  /\ ~Untested(ent[b]) /\ ~Untested(ent'[b])
  /\ wanted' = IF ent[b].cb = NoCb THEN wanted ELSE [wanted EXCEPT ![ent[b].cb] = NoLine]
  /\ UNCHANGED <<lmemq, since>>

BufferMove(b) ==
  /\ phase = "buf" /\ b \in todo /\ todo' = todo \ {b}
  /\ UNCHANGED <<phase, lsq, index, served, started, writes, env>>
  /\ ent' \in [Blocks -> Entry]
  /\ \A c \in Blocks \ {b} : ent'[c] = ent[c]
  /\ ent'[b].type = ent[b].type /\ ent'[b].cb = ent[b].cb /\ ent'[b].sub = ent[b].sub
  /\ EntryOK(ent'[b])
  /\ ent[b].type # "none" /\ ent[b].pending
  /\ ent[b].state # "init" => ~ent[b].waiting
  /\ \/ StayMove(b) \/ DramMove(b, "read") \/ DramMove(b, "write")
     \/ MediaMove(b) \/ TestMove(b) \/ EndMove(b)

\* A transition through the media.
LEMMA MediaMoves ==
  ASSUME AitInv, NEW b \in Blocks, NEW type \in ReadTypes \cup WriteTypes, NEW state \in States,
         Turn(b, type, state), NEW e \in Entry, NEW n \in Nat, MoveMedia(b, e, n),
         e.type = ent[b].type, e.cb = ent[b].cb, e.sub = ent[b].sub, e.pending,
         EntryOK([e EXCEPT !.used = Now, !.waiting = FALSE, !.wait = n]),
         Untested(e) <=> Untested(ent[b])
  PROVE  BufferMove(b)
<1> DEFINE f == [e EXCEPT !.used = Now, !.waiting = FALSE, !.wait = n]
<1>1. f \in Entry
  BY NoEntryType DEF Entry
<1>2. /\ f.type = e.type /\ f.cb = e.cb /\ f.sub = e.sub /\ f.pending = e.pending
      /\ f.state = e.state /\ f.waiting = FALSE
  BY DEF Entry
<1>3. ent' = [ent EXCEPT ![b] = f] /\ UNCHANGED <<lmemq, wanted, since>>
  BY DEF MoveMedia, history
<1>4. ent \in [Blocks -> Entry] /\ EntryOK(ent[b]) /\ Acts(ent[b]) /\ b \in todo
  BY DEF AitInv, TypeOK, EntriesOK, TodoActs, Turn
<1> HIDE DEF f
<1>5. ent' \in [Blocks -> Entry] /\ ent'[b] = f /\ \A c \in Blocks \ {b} : ent'[c] = ent[c]
  BY <1>1, <1>3, <1>4
<1>6. EntryOK(f)
  BY DEF f
<1>7. Untested(f) <=> Untested(e)
  BY <1>2 DEF Untested
<1>8. MediaMove(b)
  BY <1>2, <1>3, <1>5, <1>7 DEF MediaMove
<1>9. ent[b].type # "none" /\ ent[b].pending /\ (ent[b].state # "init" => ~ent[b].waiting)
  BY <1>4 DEF EntryOK, Acts
<1> QED
  BY <1>2, <1>5, <1>6, <1>8, <1>9 DEF BufferMove, Turn

\* A transition through the local memory queue.
LEMMA DramMoves ==
  ASSUME AitInv, NEW b \in Blocks, NEW type \in ReadTypes \cup WriteTypes, NEW state \in States,
         Turn(b, type, state), NEW e \in Entry, NEW op \in {"read", "write"}, MoveDram(b, op, e),
         e.type = ent[b].type, e.cb = ent[b].cb, e.sub = ent[b].sub, e.pending,
         e.state = IF op = "read" THEN "pending_read_dram" ELSE "pending_write_dram",
         EntryOK([e EXCEPT !.used = Now, !.waiting = TRUE, !.wait = ClkInvalid]),
         Untested(e) <=> Untested(ent[b])
  PROVE  BufferMove(b)
<1> DEFINE f == [e EXCEPT !.used = Now, !.waiting = TRUE, !.wait = ClkInvalid]
<1>1. f \in Entry
  BY NoEntryType DEF Entry
<1>2. /\ f.type = e.type /\ f.cb = e.cb /\ f.sub = e.sub /\ f.pending = e.pending
      /\ f.state = e.state /\ f.waiting = TRUE
  BY DEF Entry
<1>4. ent \in [Blocks -> Entry] /\ EntryOK(ent[b]) /\ Acts(ent[b]) /\ b \in todo
  BY DEF AitInv, TypeOK, EntriesOK, TodoActs, Turn
<1>5. ent[b].type # "none" /\ ent[b].pending /\ (ent[b].state # "init" => ~ent[b].waiting)
  BY <1>4 DEF EntryOK, Acts
<1> HIDE DEF f
<1>6. CASE Len(lmemq) < LmemqEntries
  <2>1. /\ ent' = [ent EXCEPT ![b] = f] /\ UNCHANGED <<wanted, since>>
        /\ lmemq' = Append(lmemq, [op |-> op, blk |-> b])
    <3>1. ~(Len(lmemq) >= LmemqEntries)
      BY <1>6 DEF AitInv, TypeOK
    <3> QED
      BY <3>1 DEF MoveDram, history, f
  <2>2. ent' \in [Blocks -> Entry] /\ ent'[b] = f /\ \A c \in Blocks \ {b} : ent'[c] = ent[c]
    BY <1>1, <1>4, <2>1
  <2>3. EntryOK(f)
    BY DEF f
  <2>4. Untested(f) <=> Untested(e)
    BY <1>2 DEF Untested
  <2>5. DramMove(b, op)
    BY <1>2, <1>6, <2>1, <2>2, <2>4 DEF DramMove
  <2> QED
    BY <1>2, <1>5, <2>2, <2>3, <2>5 DEF BufferMove, Turn
<1>7. CASE ~(Len(lmemq) < LmemqEntries)
  <2>1. StayMove(b)
    BY <1>7 DEF MoveDram, history, StayMove
  <2>2. ent' = ent
    BY <2>1 DEF StayMove
  <2> QED
    BY <1>4, <1>5, <2>1, <2>2 DEF BufferMove, Turn
<1> QED
  BY <1>6, <1>7

\* The end of a request.
LEMMA EndMoves ==
  ASSUME AitInv, NEW b \in Blocks, NEW type \in ReadTypes \cup WriteTypes, NEW state \in States,
         Turn(b, type, state), NEW e \in Entry, Finish(b, e),
         e.type = ent[b].type, e.cb = ent[b].cb, e.sub = ent[b].sub,
         e.waiting = ent[b].waiting, e.valid = ent[b].valid, ~e.dirty,
         state \in {"pending_read_dram", "pending_write_media"}
  PROVE  BufferMove(b)
<1> DEFINE f == [e EXCEPT !.state = "end", !.pending = FALSE, !.used = Now]
<1>1. f \in Entry
  BY NoEntryType DEF Entry, States
<1>2. /\ f.type = e.type /\ f.cb = e.cb /\ f.sub = e.sub /\ f.pending = FALSE
      /\ f.state = "end" /\ f.waiting = e.waiting /\ f.valid = e.valid /\ f.dirty = e.dirty
  BY DEF Entry
<1>3. /\ ent' = [ent EXCEPT ![b] = f] /\ UNCHANGED <<lmemq, since>>
      /\ wanted' = IF ent[b].cb = NoCb THEN wanted ELSE [wanted EXCEPT ![ent[b].cb] = NoLine]
  BY DEF Finish
<1>4. /\ ent \in [Blocks -> Entry] /\ EntryOK(ent[b]) /\ Acts(ent[b]) /\ b \in todo
      /\ ent[b].state = state
  BY DEF AitInv, TypeOK, EntriesOK, TodoActs, Turn
<1> HIDE DEF f
<1>5. ent' \in [Blocks -> Entry] /\ ent'[b] = f /\ \A c \in Blocks \ {b} : ent'[c] = ent[c]
  BY <1>1, <1>3, <1>4
<1>6. /\ ent[b].type # "none" /\ ent[b].pending /\ (ent[b].state # "init" => ~ent[b].waiting)
      /\ ~ent[b].waiting /\ ent[b].valid
  BY <1>4 DEF EntryOK, Acts
<1>7. EntryOK(f)
  BY <1>2, <1>6 DEF EntryOK
<1>8. ~Untested(ent[b]) /\ ~Untested(f)
  BY <1>2, <1>4 DEF Untested
<1>9. EndMove(b)
  BY <1>2, <1>3, <1>5, <1>6, <1>8 DEF EndMove
<1> QED
  BY <1>2, <1>5, <1>6, <1>7, <1>9 DEF BufferMove, Turn

\* The transitions that the two kinds of write share.
LEMMA TailMoves ==
  ASSUME AitInv, NEW b \in Blocks, NEW type \in WriteTypes, WriteTail(b, type)
  PROVE  BufferMove(b)
<1> DEFINE e == ent[b]
<1>1. /\ ent \in [Blocks -> Entry] /\ e \in Entry /\ EntryOK(e)
      /\ writes \in [Blocks -> 0 .. Threshold - 1]
  BY DEF AitInv, TypeOK, EntriesOK
<1>2. CASE /\ Turn(b, type, "pending_write_dram")
           /\ ent' = [ent EXCEPT ![b] =
                        [e EXCEPT !.state = "pending_migration", !.valid = TRUE, !.used = Now,
                                  !.waiting = FALSE, !.wait = 1 + WearLevelingDelay(b)]]
           /\ since' = IF (writes[b] + 1) % Threshold = 0
                       THEN [since EXCEPT ![b] = 0] ELSE since
           /\ UNCHANGED <<lmemq, wanted>>
  <2> DEFINE n == 1 + WearLevelingDelay(b)
             f == [e EXCEPT !.state = "pending_migration", !.valid = TRUE, !.used = Now,
                            !.waiting = FALSE, !.wait = n]
  <2>1. n \in Nat
    BY DEF WearLevelingDelay
  <2> HIDE DEF n
  <2>2. f \in Entry
    BY <1>1, <2>1, NoEntryType DEF Entry, States
  <2>3. /\ f.type = e.type /\ f.cb = e.cb /\ f.sub = e.sub /\ f.pending = e.pending
        /\ f.state = "pending_migration" /\ f.waiting = FALSE /\ f.valid /\ f.dirty = e.dirty
        /\ f.wait = n
    BY <1>1 DEF Entry
  <2>4. ent' = [ent EXCEPT ![b] = f]
    BY <1>2 DEF n
  <2> HIDE DEF f
  <2>5. ent' \in [Blocks -> Entry] /\ ent'[b] = f /\ \A c \in Blocks \ {b} : ent'[c] = ent[c]
    BY <1>1, <2>2, <2>4
  <2>6. /\ e.type = type /\ e.state = "pending_write_dram" /\ Acts(e) /\ b \in todo
    BY <1>2 DEF Turn, AitInv, TodoActs
  <2>7. e.type # "none" /\ e.pending /\ ~e.waiting
    BY <1>1, <2>6 DEF EntryOK, Acts
  <2>8. <<f.type, f.state>> \in Handled
    BY <2>3, <2>6 DEF Handled, WriteTypes
  <2>9. EntryOK(f)
    BY <2>1, <2>3, <2>6, <2>7, <2>8 DEF EntryOK, ReadTypes, WriteTypes
  <2>10. Untested(e) /\ ~Untested(f)
    BY <2>3, <2>6 DEF Untested, WriteTypes
  <2>11. TestMove(b)
    BY <1>2, <2>3, <2>5, <2>7, <2>10 DEF TestMove
  <2> QED
    BY <1>2, <2>3, <2>5, <2>7, <2>9, <2>11 DEF BufferMove, Turn
<1>3. CASE /\ Turn(b, type, "pending_migration")
           /\ MoveMedia(b, [e EXCEPT !.state = "pending_write_media"], MediaWrite)
  <2> DEFINE d == [e EXCEPT !.state = "pending_write_media"]
             f == [d EXCEPT !.used = Now, !.waiting = FALSE, !.wait = MediaWrite]
  <2>1. d \in Entry
    BY <1>1 DEF Entry, States
  <2>2. /\ f.type = e.type /\ f.pending = e.pending /\ f.state = "pending_write_media"
        /\ f.waiting = FALSE /\ f.valid = e.valid /\ f.dirty = e.dirty /\ f.wait = MediaWrite
    BY <1>1 DEF Entry
  <2>3. /\ d.type = e.type /\ d.cb = e.cb /\ d.sub = e.sub /\ d.pending = e.pending
        /\ d.state = "pending_write_media"
    BY <1>1 DEF Entry
  <2>4. e.type = type /\ e.state = "pending_migration"
    BY <1>3 DEF Turn
  <2> HIDE DEF d
  <2>5. EntryOK(f)
    <3> HIDE DEF f
    <3>1. <<f.type, f.state>> \in Handled
      BY <2>2, <2>4 DEF Handled, WriteTypes
    <3> QED
      BY <1>1, <2>2, <2>4, <3>1 DEF EntryOK, ReadTypes, WriteTypes
  <2>6. (Untested(d) <=> Untested(e)) /\ d.pending
    BY <1>1, <2>3, <2>4 DEF Untested, EntryOK
  <2>7. Turn(b, type, "pending_migration") /\ MoveMedia(b, d, MediaWrite)
    BY <1>3 DEF d
  <2> QED
    BY <2>1, <2>3, <2>5, <2>6, <2>7, MediaMoves DEF States
<1>4. CASE Turn(b, type, "pending_write_media") /\ Finish(b, [e EXCEPT !.dirty = FALSE])
  <2> DEFINE d == [e EXCEPT !.dirty = FALSE]
  <2>1. d \in Entry
    BY <1>1 DEF Entry
  <2>2. /\ d.type = e.type /\ d.cb = e.cb /\ d.sub = e.sub /\ d.waiting = e.waiting
        /\ d.valid = e.valid /\ ~d.dirty
    BY <1>1 DEF Entry
  <2> HIDE DEF d
  <2>3. Turn(b, type, "pending_write_media") /\ Finish(b, d)
    BY <1>4 DEF d
  <2> QED
    BY <2>1, <2>2, <2>3, EndMoves DEF States
<1> QED
  BY <1>2, <1>3, <1>4 DEF WriteTail

\* The transitions of the four kinds of request are moves.
LEMMA BufferMoves ==
  ASSUME AitInv, NEW b \in Blocks, WriteMiss(b) \/ WriteHit(b) \/ ReadMiss(b) \/ ReadHit(b)
  PROVE  BufferMove(b)
<1> DEFINE e == ent[b]
<1>1. ent \in [Blocks -> Entry] /\ e \in Entry /\ EntryOK(e)
  BY DEF AitInv, TypeOK, EntriesOK
<1>2. ASSUME NEW type \in {"write_miss", "read_miss"}, NEW dirty \in BOOLEAN,
             dirty => type = "write_miss", Turn(b, type, "init"),
             MoveMedia(b, [e EXCEPT !.state = "pending_read_media", !.pending = TRUE,
                                    !.dirty = dirty, !.valid = FALSE], MediaRead)
      PROVE  BufferMove(b)
  <2> DEFINE d == [e EXCEPT !.state = "pending_read_media", !.pending = TRUE,
                            !.dirty = dirty, !.valid = FALSE]
             f == [d EXCEPT !.used = Now, !.waiting = FALSE, !.wait = MediaRead]
  <2>1. d \in Entry
    BY <1>1 DEF Entry, States
  <2>2. /\ f.type = e.type /\ f.pending /\ f.state = "pending_read_media"
        /\ ~f.waiting /\ f.dirty = dirty /\ f.wait = MediaRead
    BY <1>1 DEF Entry
  <2>3. /\ d.type = e.type /\ d.cb = e.cb /\ d.sub = e.sub /\ d.pending
        /\ d.state = "pending_read_media"
    BY <1>1 DEF Entry
  <2>4. e.type = type /\ e.state = "init"
    BY <1>2 DEF Turn
  <2>5. MoveMedia(b, d, MediaRead)
    BY <1>2
  <2> HIDE DEF d
  <2>6. EntryOK(f)
    <3> HIDE DEF f
    <3>1. <<f.type, f.state>> \in Handled
      BY <2>2, <2>4 DEF Handled
    <3> QED
      BY <1>2, <2>2, <2>4, <3>1 DEF EntryOK, ReadTypes
  <2>7. Untested(d) <=> Untested(e)
    BY <2>3, <2>4 DEF Untested
  <2> QED
    BY <1>2, <2>1, <2>3, <2>5, <2>6, <2>7, MediaMoves DEF States, ReadTypes, WriteTypes
<1>3. CASE WriteMiss(b)
  <2>1. CASE /\ Turn(b, "write_miss", "init")
             /\ MoveMedia(b, [e EXCEPT !.state = "pending_read_media", !.pending = TRUE,
                                       !.dirty = TRUE, !.valid = FALSE], MediaRead)
    BY <1>2, <2>1
  <2>2. CASE /\ Turn(b, "write_miss", "pending_read_media")
             /\ MoveDram(b, "write", [e EXCEPT !.state = "pending_write_dram"])
    <3> DEFINE d == [e EXCEPT !.state = "pending_write_dram"]
               f == [d EXCEPT !.used = Now, !.waiting = TRUE, !.wait = ClkInvalid]
    <3>1. d \in Entry
      BY <1>1 DEF Entry, States
    <3>2. /\ f.type = e.type /\ f.pending = e.pending /\ f.state = "pending_write_dram"
          /\ f.waiting /\ f.dirty = e.dirty
      BY <1>1 DEF Entry
    <3>3. /\ d.type = e.type /\ d.cb = e.cb /\ d.sub = e.sub /\ d.pending = e.pending
          /\ d.state = "pending_write_dram"
      BY <1>1 DEF Entry
    <3>4. e.type = "write_miss" /\ e.state = "pending_read_media" /\ e.pending
      BY <1>1, <2>2 DEF Turn, EntryOK
    <3>5. MoveDram(b, "write", d)
      BY <2>2
    <3> HIDE DEF d
    <3>6. EntryOK(f)
      <4> HIDE DEF f
      <4>1. <<f.type, f.state>> \in Handled
        BY <3>2, <3>4 DEF Handled
      <4> QED
        BY <3>2, <3>4, <4>1 DEF EntryOK, ReadTypes
    <3>7. Untested(d) <=> Untested(e)
      BY <3>3, <3>4 DEF Untested
    <3> QED
      BY <2>2, <3>1, <3>3, <3>4, <3>5, <3>6, <3>7, DramMoves DEF States, WriteTypes
  <2>3. CASE WriteTail(b, "write_miss")
    BY <2>3, TailMoves DEF WriteTypes
  <2> QED
    BY <1>3, <2>1, <2>2, <2>3 DEF WriteMiss
<1>4. CASE WriteHit(b)
  <2>1. CASE /\ Turn(b, "write_hit", "init")
             /\ MoveDram(b, "write", [e EXCEPT !.state = "pending_write_dram", !.pending = TRUE,
                                               !.dirty = TRUE, !.valid = FALSE])
    <3> DEFINE d == [e EXCEPT !.state = "pending_write_dram", !.pending = TRUE,
                              !.dirty = TRUE, !.valid = FALSE]
               f == [d EXCEPT !.used = Now, !.waiting = TRUE, !.wait = ClkInvalid]
    <3>1. d \in Entry
      BY <1>1 DEF Entry, States
    <3>2. /\ f.type = e.type /\ f.pending /\ f.state = "pending_write_dram" /\ f.waiting
      BY <1>1 DEF Entry
    <3>3. /\ d.type = e.type /\ d.cb = e.cb /\ d.sub = e.sub /\ d.pending
          /\ d.state = "pending_write_dram"
      BY <1>1 DEF Entry
    <3>4. e.type = "write_hit" /\ e.state = "init"
      BY <2>1 DEF Turn
    <3>5. MoveDram(b, "write", d)
      BY <2>1
    <3> HIDE DEF d
    <3>6. EntryOK(f)
      <4> HIDE DEF f
      <4>1. <<f.type, f.state>> \in Handled
        BY <3>2, <3>4 DEF Handled
      <4> QED
        BY <3>2, <3>4, <4>1 DEF EntryOK, ReadTypes
    <3>7. Untested(d) <=> Untested(e)
      BY <3>3, <3>4 DEF Untested
    <3> QED
      BY <2>1, <3>1, <3>3, <3>5, <3>6, <3>7, DramMoves DEF States, WriteTypes
  <2>2. CASE WriteTail(b, "write_hit")
    BY <2>2, TailMoves DEF WriteTypes
  <2> QED
    BY <1>4, <2>1, <2>2 DEF WriteHit
<1>5. ASSUME NEW type \in ReadTypes, NEW state \in {"init", "pending_read_media"},
             Turn(b, type, state), NEW d \in Entry, MoveDram(b, "read", d),
             d.type = e.type, d.cb = e.cb, d.sub = e.sub, d.pending, d.valid,
             d.state = "pending_read_dram", d.dirty = e.dirty
      PROVE  BufferMove(b)
  <2> DEFINE f == [d EXCEPT !.used = Now, !.waiting = TRUE, !.wait = ClkInvalid]
  <2>1. /\ f.type = e.type /\ f.pending /\ f.state = "pending_read_dram" /\ f.waiting
        /\ f.valid /\ f.dirty = e.dirty
    BY <1>5 DEF Entry
  <2>2. e.type = type /\ e.state = state
    BY <1>5 DEF Turn
  <2>3. EntryOK(f)
    <3> HIDE DEF f
    <3>1. <<f.type, f.state>> \in Handled
      BY <2>1, <2>2 DEF Handled, ReadTypes
    <3> QED
      BY <1>1, <2>1, <2>2, <3>1 DEF EntryOK
  <2>4. Untested(d) <=> Untested(e)
    BY <1>5, <2>2 DEF Untested, ReadTypes, WriteTypes
  <2> QED
    BY <1>5, <2>3, <2>4, DramMoves DEF States
<1>6. ASSUME NEW type \in ReadTypes, Turn(b, type, "pending_read_dram"), Finish(b, e)
      PROVE  BufferMove(b)
  <2>1. e.type = type /\ ~e.dirty
    BY <1>1, <1>6 DEF Turn, EntryOK
  <2> QED
    BY <1>1, <1>6, <2>1, EndMoves DEF States
<1>7. CASE ReadMiss(b)
  <2>1. CASE /\ Turn(b, "read_miss", "init")
             /\ MoveMedia(b, [e EXCEPT !.state = "pending_read_media", !.pending = TRUE,
                                       !.dirty = FALSE, !.valid = FALSE], MediaRead)
    BY <1>2, <2>1
  <2>2. CASE /\ Turn(b, "read_miss", "pending_read_media")
             /\ MoveDram(b, "read", [e EXCEPT !.state = "pending_read_dram", !.valid = TRUE])
    <3> DEFINE d == [e EXCEPT !.state = "pending_read_dram", !.valid = TRUE]
    <3>1. d \in Entry
      BY <1>1 DEF Entry, States
    <3>2. /\ d.type = e.type /\ d.cb = e.cb /\ d.sub = e.sub /\ d.pending = e.pending
          /\ d.valid /\ d.state = "pending_read_dram" /\ d.dirty = e.dirty
      BY <1>1 DEF Entry
    <3>3. e.pending
      BY <1>1, <2>2 DEF Turn, EntryOK
    <3>4. MoveDram(b, "read", d)
      BY <2>2
    <3> HIDE DEF d
    <3> QED
      BY <1>5, <2>2, <3>1, <3>2, <3>3, <3>4 DEF ReadTypes
  <2>3. CASE Turn(b, "read_miss", "pending_read_dram") /\ Finish(b, e)
    BY <1>6, <2>3 DEF ReadTypes
  <2> QED
    BY <1>7, <2>1, <2>2, <2>3 DEF ReadMiss
<1>8. CASE ReadHit(b)
  <2>1. CASE /\ Turn(b, "read_hit", "init")
             /\ MoveDram(b, "read", [e EXCEPT !.state = "pending_read_dram", !.pending = TRUE,
                                              !.valid = TRUE])
    <3> DEFINE d == [e EXCEPT !.state = "pending_read_dram", !.pending = TRUE, !.valid = TRUE]
    <3>1. d \in Entry
      BY <1>1 DEF Entry, States
    <3>2. /\ d.type = e.type /\ d.cb = e.cb /\ d.sub = e.sub /\ d.pending
          /\ d.valid /\ d.state = "pending_read_dram" /\ d.dirty = e.dirty
      BY <1>1 DEF Entry
    <3>3. MoveDram(b, "read", d)
      BY <2>1
    <3> HIDE DEF d
    <3> QED
      BY <1>5, <2>1, <3>1, <3>2, <3>3 DEF ReadTypes
  <2>2. CASE Turn(b, "read_hit", "pending_read_dram") /\ Finish(b, e)
    BY <1>6, <2>2 DEF ReadTypes
  <2> QED
    BY <1>8, <2>1, <2>2 DEF ReadHit
<1> QED
  BY <1>3, <1>4, <1>7, <1>8

\* What a move does keeps the entries, the local memory queue and the list of
\* entries to move consistent.
LEMMA BufferStep ==
  ASSUME AitInv, NEW b \in Blocks, BufferMove(b)
  PROVE  AitInv'
<1> USE DEF BufferMove
<1>1. /\ TypeOK /\ EntriesOK /\ TodoActs /\ LmemqMatches /\ OneLineAtATime /\ Bounded
      /\ lmemq \in Seq(LmemRequest) /\ ent \in [Blocks -> Entry]
  BY DEF AitInv, TypeOK
<1> DEFINE Queue(op) == [op |-> op, blk |-> b]
<1>2. \/ lmemq' = lmemq
      \/ \E op \in {"read", "write"} : DramMove(b, op)
  BY DEF StayMove, MediaMove, TestMove, EndMove
<1>3. lmemq' \in Seq(LmemRequest) /\ Len(lmemq') <= LmemqEntries
  <2>1. ASSUME NEW op \in {"read", "write"}, DramMove(b, op)
        PROVE  lmemq' \in Seq(LmemRequest) /\ Len(lmemq') <= LmemqEntries
    <3>1. Queue(op) \in LmemRequest
      BY DEF LmemRequest
    <3>2. lmemq' = Append(lmemq, Queue(op)) /\ Len(lmemq) < LmemqEntries
      BY <2>1 DEF DramMove
    <3> HIDE DEF Queue
    <3> QED
      BY <1>1, <3>1, <3>2
  <2> QED
    BY <1>1, <1>2, <2>1 DEF Bounded
<1>4. /\ wanted' \in [ReadIds -> (Blocks \X Subs) \cup {NoLine}]
      /\ since' \in [Blocks -> Nat]
  <2>1. ent[b].cb # NoCb => ent[b].cb \in ReadIds
    BY <1>1 DEF Entry, Callbacks
  <2>2. wanted \in [ReadIds -> (Blocks \X Subs) \cup {NoLine}] /\ since \in [Blocks -> Nat]
    BY <1>1 DEF TypeOK
  <2>3. wanted' = wanted \/ (/\ ent[b].cb # NoCb
                             /\ wanted' = [wanted EXCEPT ![ent[b].cb] = NoLine])
    BY DEF StayMove, DramMove, MediaMove, TestMove, EndMove
  <2>4. since' = since \/ since' = [since EXCEPT ![b] = 0]
    BY DEF StayMove, DramMove, MediaMove, TestMove, EndMove
  <2>5. wanted' \in [ReadIds -> (Blocks \X Subs) \cup {NoLine}]
    BY <2>1, <2>2, <2>3
  <2>6. since' \in [Blocks -> Nat]
    BY <2>2, <2>4
  <2> QED
    BY <2>5, <2>6
<1>5. TypeOK'
  BY <1>1, <1>3, <1>4 DEF TypeOK, env
<1>6. EntriesOK'
  BY <1>1 DEF EntriesOK
<1>7. TodoActs'
  BY <1>1, <1>5 DEF TodoActs, TypeOK
<1>8. LmemqMatches'
  <2>1. /\ \A i \in DOMAIN lmemq : lmemq[i].blk # b
        /\ ent[b].state # "init" => ~ent[b].waiting
        /\ \A i \in DOMAIN lmemq : lmemq[i].blk \in Blocks
    <3>1. ASSUME NEW i \in DOMAIN lmemq, lmemq[i].blk = b
          PROVE  FALSE
      <4>1. ent[b].waiting /\ ent[b].state # "init"
        BY <1>1, <3>1 DEF LmemqMatches
      <4> QED
        BY <4>1
    <3>2. \A i \in DOMAIN lmemq : lmemq[i] \in LmemRequest
      BY <1>1
    <3> QED
      BY <3>1, <3>2 DEF LmemRequest
  <2>2. CASE ~(ent'[b].waiting /\ ent'[b].state # "init") /\ lmemq' = lmemq
    <3>1. \A c \in Blocks : (ent'[c].waiting /\ ent'[c].state # "init") <=>
                            (\E i \in DOMAIN lmemq : lmemq[i].blk = c)
      BY <1>1, <2>1, <2>2 DEF LmemqMatches
    <3>2. \A i \in DOMAIN lmemq : ent'[lmemq[i].blk] = ent[lmemq[i].blk]
      BY <2>1
    <3> QED
      BY <1>1, <2>2, <3>1, <3>2 DEF LmemqMatches
  <2>3. ASSUME NEW op \in {"read", "write"}, DramMove(b, op)
        PROVE  LmemqMatches'
    <3>1. lmemq' = Append(lmemq, Queue(op)) /\ Queue(op).blk = b /\ Queue(op).op = op
      BY <2>3 DEF DramMove
    <3> HIDE DEF Queue
    <3>2. /\ DOMAIN lmemq' = 1 .. Len(lmemq) + 1 /\ DOMAIN lmemq = 1 .. Len(lmemq)
          /\ Len(lmemq) \in Nat
          /\ \A i \in 1 .. Len(lmemq) : lmemq'[i] = lmemq[i]
          /\ lmemq'[Len(lmemq) + 1] = Queue(op)
      BY <1>1, <3>1
    <3>3. /\ ent'[b].waiting /\ ent'[b].state # "init"
          /\ ent'[b].state = IF op = "read" THEN "pending_read_dram" ELSE "pending_write_dram"
      BY <2>3 DEF DramMove
    <3>4. \A c \in Blocks : (ent'[c].waiting /\ ent'[c].state # "init") <=>
                            (\E i \in DOMAIN lmemq' : lmemq'[i].blk = c)
      <4>1. ASSUME NEW c \in Blocks \ {b}
            PROVE  (ent[c].waiting /\ ent[c].state # "init") <=>
                   (\E i \in DOMAIN lmemq' : lmemq'[i].blk = c)
        <5>1. (\E i \in DOMAIN lmemq' : lmemq'[i].blk = c) <=>
              (\E i \in DOMAIN lmemq : lmemq[i].blk = c)
          BY <3>1, <3>2
        <5> QED
          BY <1>1, <5>1 DEF LmemqMatches
      <4>2. \E i \in DOMAIN lmemq' : lmemq'[i].blk = b
        BY <3>1, <3>2
      <4> QED
        BY <3>3, <4>1, <4>2
    <3>5. \A i \in DOMAIN lmemq' :
            /\ ent'[lmemq'[i].blk].state =
                 IF lmemq'[i].op = "read" THEN "pending_read_dram" ELSE "pending_write_dram"
            /\ \A j \in DOMAIN lmemq' : lmemq'[j].blk = lmemq'[i].blk => i = j
      <4>1. \A i \in DOMAIN lmemq : lmemq[i].blk \in Blocks \ {b}
        BY <2>1
      <4>2. \A i \in DOMAIN lmemq :
              ent'[lmemq[i].blk].state =
                IF lmemq[i].op = "read" THEN "pending_read_dram" ELSE "pending_write_dram"
        BY <1>1, <4>1 DEF LmemqMatches
      <4>3. \A i, j \in DOMAIN lmemq : lmemq[j].blk = lmemq[i].blk => i = j
        BY <1>1 DEF LmemqMatches
      <4> QED
        BY <3>1, <3>2, <3>3, <4>1, <4>2, <4>3
    <3> QED
      BY <3>4, <3>5 DEF LmemqMatches
  <2> QED
    BY <1>2, <2>1, <2>2, <2>3 DEF StayMove, MediaMove, TestMove, EndMove
<1>9. OneLineAtATime'
  BY <1>1 DEF OneLineAtATime, env
<1>10. Bounded'
  <2>1. Cached' = Cached
    BY DEF Cached
  <2> QED
    BY <1>1, <1>3, <2>1 DEF Bounded
<1> QED
  BY <1>5, <1>6, <1>7, <1>8, <1>9, <1>10 DEF AitInv

(***************************************************************************)
(* tick_lsq: an accepted request becomes the request of an entry at rest   *)
(***************************************************************************)
LsqMove(b) ==
  /\ lsq # <<>> /\ Front.blk = b /\ lsq' = Tail(lsq)
  /\ ent' \in [Blocks -> Entry]
  /\ ent[b].state = "end"
  /\ ent'[b].state = "init" /\ ent'[b].cb = Front.cb /\ ent'[b].sub = Front.sub
  /\ EntryOK(ent'[b])
  /\ \A c \in Blocks \ {b} :
       ent'[c] = ent[c] \/ (ent[c].state = "end" /\ ent'[c] = NoEntry)
  /\ Cardinality(Cached') <= BufferEntries
  /\ \/ ent'[b].type \in ReadTypes /\ UNCHANGED <<writes, since>>
     \/ ent'[b].type \in WriteTypes /\ RecordWrite(b)

\* The blocks that have an entry in buffer m.
Used(m) == {b \in Blocks : m[b].type # "none"}

\* The set of used blocks is finite.
LEMMA UsedFinite ==
  ASSUME NEW m
  PROVE  IsFiniteSet(Used(m)) /\ Cardinality(Used(m)) \in Nat
  BY FS_Subset, FS_CardinalityType DEF Used

\* check_and_evict leaves room for one more entry, and evicts an entry at rest.
LEMMA EvictionMakesRoom ==
  ASSUME TypeOK, Cardinality(Cached) <= BufferEntries, NEW m \in CheckAndEvict
  PROVE  /\ Cardinality(Used(m)) < BufferEntries
         /\ m \in [Blocks -> Entry]
         /\ \A c \in Blocks : m[c] = ent[c] \/ (ent[c].state = "end" /\ m[c] = NoEntry)
<1>1. Cached = Used(ent) /\ ent \in [Blocks -> Entry]
  BY DEF Cached, Used, TypeOK
<1>2. Cardinality(Cached) \in Nat /\ IsFiniteSet(Cached)
  BY <1>1, UsedFinite
<1>3. CASE BufferFull
  <2>1. PICK v \in Oldest : m = [ent EXCEPT ![v] = NoEntry]
    BY <1>3 DEF CheckAndEvict
  <2>2. v \in Cached /\ v \in Blocks /\ ent[v].state = "end"
    BY <2>1 DEF Oldest, Cached
  <2>3. /\ m \in [Blocks -> Entry] /\ m[v] = NoEntry
        /\ \A c \in Blocks \ {v} : m[c] = ent[c]
    BY <1>1, <2>1, <2>2, NoEntryType
  <2>4. Used(m) = Cached \ {v}
    BY <2>2, <2>3, NoEntryOK DEF Used, Cached
  <2>5. Cardinality(Cached \ {v}) = Cardinality(Cached) - 1
    BY <1>2, <2>2, FS_RemoveElement
  <2>6. Cardinality(Used(m)) < BufferEntries
    BY <1>2, <2>4, <2>5
  <2> QED
    BY <2>2, <2>3, <2>6
<1>4. CASE ~BufferFull
  <2>1. m = ent
    BY <1>4 DEF CheckAndEvict
  <2> QED
    BY <1>1, <1>2, <1>4, <2>1 DEF BufferFull
<1> QED
  BY <1>3, <1>4

\* One more entry fits in where there is room.
LEMMA InsertFits ==
  ASSUME NEW m, NEW n, NEW b \in Blocks,
         \A c \in Blocks \ {b} : n[c] = m[c], Cardinality(Used(m)) < BufferEntries
  PROVE  Cardinality(Used(n)) <= BufferEntries
<1> DEFINE U == Used(m)
<1>1. Used(n) \subseteq U \cup {b}
  BY DEF Used
<1>2. IsFiniteSet(U) /\ Cardinality(U) \in Nat /\ Cardinality(Used(n)) \in Nat
  BY UsedFinite
<1>3. /\ IsFiniteSet(U \cup {b})
      /\ Cardinality(U \cup {b}) = IF b \in U THEN Cardinality(U) ELSE Cardinality(U) + 1
  BY <1>2, FS_AddElement
<1> HIDE DEF U
<1>4. Cardinality(Used(n)) <= Cardinality(U \cup {b})
  BY <1>1, <1>3, FS_Subset
<1>5. Cardinality(U) < BufferEntries
  BY DEF U
<1> QED
  BY <1>2, <1>3, <1>4, <1>5

\* A request that tick_lsq accepts: `hit' or `miss' is its type.
LEMMA AcceptMoves ==
  ASSUME AitInv, lsq # <<>>, NEW hit, NEW miss, Accept(hit, miss),
         hit \in {"read_hit", "write_hit"}, miss \in {"read_miss", "write_miss"},
         ent[Front.blk].type # "none" => ~ent[Front.blk].pending
  PROVE  /\ Front \in Request /\ Front.blk \in Blocks /\ lsq' = Tail(lsq)
         /\ ent' \in [Blocks -> Entry]
         /\ ent[Front.blk].state = "end"
         /\ ent'[Front.blk].type \in {hit, miss} /\ ent'[Front.blk].state = "init"
         /\ ent'[Front.blk].cb = Front.cb /\ ent'[Front.blk].sub = Front.sub
         /\ EntryOK(ent'[Front.blk])
         /\ \A c \in Blocks \ {Front.blk} :
              ent'[c] = ent[c] \/ (ent[c].state = "end" /\ ent'[c] = NoEntry)
         /\ Cardinality(Cached') <= BufferEntries
<1> DEFINE b == Front.blk
           e == ent[b]
<1>1. TypeOK /\ ent \in [Blocks -> Entry] /\ lsq \in Seq(Request) /\ Bounded
  BY DEF AitInv, TypeOK
<1>2. Front \in Request /\ lsq' = Tail(lsq)
  BY <1>1 DEF Front, Accept
<1>3. b \in Blocks /\ Front.sub \in Subs /\ Front.cb \in Callbacks
  BY <1>2 DEF Request
<1>4. e \in Entry /\ EntryOK(e)
  BY <1>1, <1>3 DEF AitInv, EntriesOK
<1>5. e.state = "end" /\ (e.type # "none" => ~e.dirty)
  BY <1>4 DEF EntryOK
<1>6. ASSUME NEW f, f.type \in {hit, miss}, f.state = "init", f.pending, f.waiting, ~f.dirty
      PROVE  EntryOK(f)
  <2>1. <<f.type, f.state>> \in Handled
    BY <1>6 DEF Handled
  <2> QED
    BY <1>6, <2>1 DEF EntryOK
<1>7. CASE e.type = "none"
  <2> DEFINE f == AssignCallback(NewEntry(miss, Front.sub), Front.cb)
  <2>1. PICK m \in CheckAndEvict : ent' = [m EXCEPT ![b] = f]
    BY <1>7 DEF Accept
  <2>2. f \in Entry
    BY <1>3, NoEntryType DEF AssignCallback, NewEntry, Entry, States, ReadTypes, WriteTypes
  <2>3. /\ f.type = miss /\ f.state = "init" /\ f.pending /\ f.waiting /\ ~f.dirty
        /\ f.cb = Front.cb /\ f.sub = Front.sub
    BY DEF AssignCallback, NewEntry, NoEntry
  <2> HIDE DEF f
  <2>4. /\ Cardinality(Used(m)) < BufferEntries /\ m \in [Blocks -> Entry]
        /\ \A c \in Blocks : m[c] = ent[c] \/ (ent[c].state = "end" /\ m[c] = NoEntry)
    BY <1>1, EvictionMakesRoom DEF Bounded
  <2>5. ent' \in [Blocks -> Entry] /\ ent'[b] = f /\ \A c \in Blocks \ {b} : ent'[c] = m[c]
    BY <1>3, <2>1, <2>2, <2>4
  <2>6. Cardinality(Used(ent')) <= BufferEntries
    BY <1>3, <2>4, <2>5, InsertFits
  <2>7. Cached' = Used(ent')
    BY DEF Cached, Used
  <2>8. EntryOK(f)
    BY <1>6, <2>3
  <2> QED
    BY <1>2, <1>3, <1>5, <2>3, <2>4, <2>5, <2>6, <2>7, <2>8
<1>8. CASE e.type # "none"
  <2> DEFINE f == AssignCallback(AssignNewRequest(e, hit, Front.sub), Front.cb)
  <2>1. ent' = [ent EXCEPT ![b] = f]
    BY <1>8 DEF Accept
  <2>2. f \in Entry
    BY <1>3, <1>4 DEF AssignCallback, AssignNewRequest, Entry, States, ReadTypes, WriteTypes
  <2>3. /\ f.type = hit /\ f.state = "init" /\ f.pending /\ f.waiting /\ f.dirty = e.dirty
        /\ f.cb = Front.cb /\ f.sub = Front.sub
    BY <1>4 DEF AssignCallback, AssignNewRequest, Entry
  <2> HIDE DEF f
  <2>4. ent' \in [Blocks -> Entry] /\ ent'[b] = f /\ \A c \in Blocks \ {b} : ent'[c] = ent[c]
    BY <1>1, <1>3, <2>1, <2>2
  <2>5. hit # "none"
    OBVIOUS
  <2>6. Cached' = Cached
    BY <1>8, <2>3, <2>4, <2>5 DEF Cached
  <2>7. EntryOK(f)
    BY <1>5, <1>6, <1>8, <2>3
  <2> QED
    BY <1>1, <1>2, <1>3, <1>5, <2>3, <2>4, <2>6, <2>7 DEF Bounded
<1> QED
  BY <1>7, <1>8

\* tick_lsq accepts the front request, or leaves it where it is.
LEMMA LsqMoves ==
  ASSUME AitInv, TickLsq
  PROVE  /\ phase = "lsq" /\ LsqDone
         /\ \/ \E b \in Blocks : LsqMove(b)
            \/ UNCHANGED <<lsq, ent, writes, since>>
<1>1. CASE TickLsqRead
  <2>1. CASE ReadServed /\ Accept("read_hit", "read_miss")
    <3>1. LsqMove(Front.blk) /\ Front.blk \in Blocks
      BY <1>1, <2>1, AcceptMoves DEF TickLsqRead, ReadServed, LsqMove, ReadTypes
    <3> QED
      BY <1>1, <3>1 DEF TickLsqRead
  <2> QED
    BY <1>1, <2>1 DEF TickLsqRead
<1>2. CASE TickLsqWrite
  <2>1. CASE /\ WriteServed /\ Accept("write_hit", "write_miss") /\ RecordWrite(Front.blk)
    <3>1. LsqMove(Front.blk) /\ Front.blk \in Blocks
      BY <1>2, <2>1, AcceptMoves DEF TickLsqWrite, WriteServed, LsqMove, WriteTypes
    <3> QED
      BY <1>2, <3>1 DEF TickLsqWrite
  <2> QED
    BY <1>2, <2>1 DEF TickLsqWrite
<1>3. CASE TickLsqIdle
  BY <1>3 DEF TickLsqIdle
<1> QED
  BY <1>1, <1>2, <1>3 DEF TickLsq

\* tick_lsq keeps the invariant: only entries at rest are taken over or evicted,
\* and none of them has a request in the local memory queue.
LEMMA LsqStep ==
  ASSUME AitInv, TickLsq
  PROVE  AitInv'
<1>1. /\ TypeOK /\ EntriesOK /\ TodoActs /\ LmemqMatches /\ OneLineAtATime /\ Bounded
      /\ lmemq \in Seq(LmemRequest) /\ ent \in [Blocks -> Entry] /\ lsq \in Seq(Request)
  BY DEF AitInv, TypeOK
<1>2. phase = "lsq" /\ LsqDone
  BY LsqMoves
<1>3. /\ phase' = "lmemq" /\ todo = {} /\ todo' = {}
      /\ UNCHANGED <<lmemq, index, served, started, dram, dramfull, wanted>>
  BY <1>1, <1>2 DEF LsqDone, TodoActs, env
<1>4. TodoActs' /\ OneLineAtATime'
  BY <1>1, <1>3 DEF TodoActs, OneLineAtATime
<1>5. CASE UNCHANGED <<lsq, ent, writes, since>>
  <2>1. TypeOK' /\ EntriesOK' /\ LmemqMatches' /\ Bounded'
    BY <1>1, <1>3, <1>5 DEF TypeOK, EntriesOK, LmemqMatches, Bounded, Cached
  <2> QED
    BY <1>4, <2>1 DEF AitInv
<1>6. ASSUME NEW b \in Blocks, LsqMove(b)
      PROVE  AitInv'
  <2> USE <1>6 DEF LsqMove
  <2>1. lsq' \in Seq(Request) /\ Len(lsq') <= LsqEntries
    BY <1>1 DEF Bounded
  <2>2. writes' \in [Blocks -> 0 .. Threshold - 1] /\ since' \in [Blocks -> Nat]
    <3>1. writes \in [Blocks -> 0 .. Threshold - 1] /\ since \in [Blocks -> Nat]
      BY <1>1 DEF TypeOK
    <3>2. (writes[b] + 1) % Threshold \in 0 .. Threshold - 1
      BY <3>1, CountStep
    <3>3. CASE UNCHANGED <<writes, since>>
      BY <3>1, <3>3
    <3>4. CASE RecordWrite(b)
      <4>1. writes' = [writes EXCEPT ![b] = (writes[b] + 1) % Threshold]
        BY <3>1, <3>4 DEF RecordWrite
      <4>2. since' = [since EXCEPT ![b] = since[b] + 1]
        BY <3>1, <3>4 DEF RecordWrite
      <4>3. writes' \in [Blocks -> 0 .. Threshold - 1]
        BY <3>1, <3>2, <4>1
      <4>4. since' \in [Blocks -> Nat]
        BY <3>1, <4>2
      <4> QED
        BY <4>3, <4>4
    <3> QED
      BY <3>3, <3>4
  <2>3. TypeOK'
    BY <1>1, <1>3, <2>1, <2>2 DEF TypeOK
  <2>4. EntriesOK'
    BY <1>1, NoEntryOK DEF EntriesOK
  <2>5. \A i \in DOMAIN lmemq :
          /\ lmemq[i].blk \in Blocks
          /\ ent[lmemq[i].blk].state \in {"pending_read_dram", "pending_write_dram"}
    <3>1. \A i \in DOMAIN lmemq : lmemq[i] \in LmemRequest
      BY <1>1
    <3> QED
      BY <1>1, <3>1 DEF LmemqMatches, LmemRequest
  <2>6. \A i \in DOMAIN lmemq : ent'[lmemq[i].blk] = ent[lmemq[i].blk]
    BY <2>5
  <2>7. \A c \in Blocks : (ent'[c].waiting /\ ent'[c].state # "init") <=>
                          (ent[c].waiting /\ ent[c].state # "init")
    <3>1. \A c \in Blocks : ent[c].state = "end" => ~ent[c].waiting
      BY <1>1 DEF EntriesOK, EntryOK
    <3>2. ~NoEntry.waiting
      BY DEF NoEntry
    <3> QED
      BY <3>1, <3>2
  <2>8. LmemqMatches'
    BY <1>1, <1>3, <2>6, <2>7 DEF LmemqMatches
  <2>9. Bounded'
    BY <1>1, <1>3, <2>1 DEF Bounded
  <2> QED
    BY <1>4, <2>3, <2>4, <2>8, <2>9 DEF AitInv
<1> QED
  BY <1>5, <1>6, LsqMoves

(***************************************************************************)
(* tick_lmemq                                                              *)
(***************************************************************************)

\* The lines of the head request are taken one after the other.
LEMMA LmemqLines ==
  ASSUME AitInv, TickLmemq
  PROVE  /\ OneLineAtATime'
         /\ index' \in -1 .. SubReqs - 1 /\ started' \in BOOLEAN /\ dramfull' \in BOOLEAN
         /\ served' \in SUBSET (0 .. SubReqs - 1) /\ dram' \in SUBSET (0 .. SubReqs - 1)
<1> USE DEF OneLineAtATime, LastLine, LineBack
<1>1. /\ OneLineAtATime
      /\ index \in -1 .. SubReqs - 1 /\ started \in BOOLEAN /\ dramfull \in BOOLEAN
      /\ served \in SUBSET (0 .. SubReqs - 1) /\ dram \in SUBSET (0 .. SubReqs - 1)
      /\ SubReqs - 1 \in Nat
  BY DEF AitInv, TypeOK
<1>2. CASE LmemqWaits /\ UNCHANGED <<lmemq, served, ent, env>>
  <2>1. CASE lmemq = <<>>
    BY <1>1, <1>2, <2>1 DEF LmemqWaits, env
  <2>2. CASE lmemq # <<>>
    <3>1. /\ index' = (IF started THEN index ELSE -1) /\ started' = TRUE
          /\ UNCHANGED <<served, dram, dramfull>>
      BY <1>2, <2>2 DEF LmemqWaits, At, env
    <3> QED
      BY <1>1, <3>1
  <2> QED
    BY <2>1, <2>2
<1>3. CASE LmemqFinish
  <2>1. /\ started /\ index = SubReqs - 1
    BY <1>1, <1>3 DEF LmemqFinish, At
  <2>2. SubReqs - 1 \in served /\ served' = {} /\ started' = FALSE
        /\ UNCHANGED <<index, dram, dramfull>>
    BY <1>3 DEF LmemqFinish, env
  <2>3. dram = {}
    BY <1>1, <2>1, <2>2
  <2> QED
    BY <1>1, <2>2, <2>3
<1>4. CASE LmemqStart
  <2>1. PICK i \in 0 .. SubReqs - 1 :
          /\ At(i - 1) /\ (i = 0 \/ i - 1 \in served)
          /\ index' = i
          /\ \/ served' = served \cup {i} /\ UNCHANGED dram
             \/ dram' = dram \cup {i} /\ UNCHANGED served
    BY <1>4 DEF LmemqStart
  <2>2. started' = TRUE /\ dramfull' \in BOOLEAN
    BY <1>4 DEF LmemqStart
  <2>3. i - 1 = IF started THEN index ELSE -1
    BY <2>1 DEF At
  <2>4. dram = {} /\ served \subseteq 0 .. i - 1 /\ 0 .. i - 1 \subseteq served
    <3>1. CASE started
      <4>1. index = i - 1
        BY <2>3, <3>1
      <4>2. dram = {}
        BY <1>1, <2>1, <3>1, <4>1
      <4> QED
        BY <1>1, <2>1, <3>1, <4>1, <4>2
    <3>2. CASE ~started
      BY <1>1, <2>1, <2>3, <3>2
    <3> QED
      BY <3>1, <3>2
  <2>5. CASE served' = served \cup {i} /\ UNCHANGED dram
    BY <1>1, <2>1, <2>2, <2>4, <2>5
  <2>6. CASE dram' = dram \cup {i} /\ UNCHANGED served
    <3>1. dram' = {i} /\ i \notin served /\ i \in 0 .. SubReqs - 1
      BY <2>4, <2>6
    <3>2. served' \subseteq (0 .. i) \ {i} /\ 0 .. i - 1 \subseteq served'
      BY <2>4, <2>6, <3>1
    <3> QED
      BY <1>1, <2>1, <2>2, <2>6, <3>1, <3>2
  <2> QED
    BY <2>1, <2>5, <2>6
<1> QED
  BY <1>2, <1>3, <1>4 DEF TickLmemq

\* Waking an entry changes nothing but its waiting and its clock.
LEMMA LmemqKeeps ==
  ASSUME AitInv, TickLmemq, NEW b \in Blocks
  PROVE  /\ ent'[b].type = ent[b].type /\ ent'[b].state = ent[b].state
         /\ ent'[b].pending = ent[b].pending /\ ent'[b].cb = ent[b].cb
         /\ ent'[b].sub = ent[b].sub
<1>1. ent \in [Blocks -> Entry] /\ ent[b] \in Entry
  BY DEF AitInv, TypeOK
<1>2. CASE ent' = ent
  BY <1>2
<1>3. CASE LmemqFinish
  <2> DEFINE x == Head(lmemq).blk
             f == [ent[b] EXCEPT !.waiting = FALSE, !.wait = 1]
  <2>1. ent' = [ent EXCEPT ![x].waiting = FALSE, ![x].wait = 1]
    BY <1>3 DEF LmemqFinish
  <2>2. ent'[b] = ent[b] \/ ent'[b] = f
    BY <1>1, <2>1
  <2>3. /\ f.type = ent[b].type /\ f.state = ent[b].state /\ f.pending = ent[b].pending
        /\ f.cb = ent[b].cb /\ f.sub = ent[b].sub
    BY <1>1 DEF Entry
  <2> QED
    BY <2>2, <2>3
<1> QED
  BY <1>2, <1>3 DEF TickLmemq, LmemqStart

\* tick_lmemq keeps the invariant: it wakes the entry that the head request
\* belongs to, and no other request of that entry is queued.
LEMMA LmemqStep ==
  ASSUME AitInv, TickLmemq
  PROVE  AitInv'
<1>1. /\ TypeOK /\ EntriesOK /\ TodoActs /\ LmemqMatches /\ OneLineAtATime /\ Bounded
      /\ lmemq \in Seq(LmemRequest) /\ ent \in [Blocks -> Entry]
  BY DEF AitInv, TypeOK
<1>2. /\ phase' = "buf" /\ todo' = {b \in Blocks : Acts(ent'[b])}
      /\ UNCHANGED <<lsq, writes, wanted, since>>
  BY DEF TickLmemq, LmemqDone, history
<1>3. TodoActs' /\ todo' \in SUBSET Blocks
  BY <1>2 DEF TodoActs
<1>4. CASE UNCHANGED <<lmemq, ent>>
  <2>1. TypeOK'
    BY <1>1, <1>2, <1>3, <1>4, LmemqLines DEF TypeOK
  <2>2. EntriesOK' /\ LmemqMatches' /\ Bounded'
    BY <1>1, <1>2, <1>4 DEF EntriesOK, LmemqMatches, Bounded, Cached
  <2> QED
    BY <1>3, <2>1, <2>2, LmemqLines DEF AitInv
<1>5. CASE LmemqFinish
  <2> DEFINE x == Head(lmemq).blk
             f == [ent[x] EXCEPT !.waiting = FALSE, !.wait = 1]
             n == Len(lmemq)
  <2>1. /\ lmemq # <<>> /\ lmemq' = Tail(lmemq)
        /\ ent' = [ent EXCEPT ![x].waiting = FALSE, ![x].wait = 1]
    BY <1>5 DEF LmemqFinish
  <2>2. /\ Head(lmemq) = lmemq[1] /\ n \in Nat \ {0} /\ DOMAIN lmemq = 1 .. n
        /\ lmemq' \in Seq(LmemRequest) /\ DOMAIN lmemq' = 1 .. n - 1 /\ Len(lmemq') = n - 1
        /\ \A i \in 1 .. n - 1 : lmemq'[i] = lmemq[i + 1]
    BY <1>1, <2>1
  <2>3. \A i \in DOMAIN lmemq : lmemq[i].blk \in Blocks
    <3>1. \A i \in DOMAIN lmemq : lmemq[i] \in LmemRequest
      BY <1>1
    <3> QED
      BY <3>1 DEF LmemRequest
  <2>4. x \in Blocks /\ ent[x] \in Entry /\ EntryOK(ent[x])
    BY <1>1, <2>2, <2>3 DEF EntriesOK
  <2>5. f \in Entry
    BY <2>4 DEF Entry
  <2>6. /\ f.type = ent[x].type /\ f.state = ent[x].state /\ f.pending = ent[x].pending
        /\ f.waiting = FALSE /\ f.valid = ent[x].valid /\ f.dirty = ent[x].dirty /\ f.wait = 1
    BY <2>4 DEF Entry
  <2>7. ent' = [ent EXCEPT ![x] = f]
    BY <1>1, <2>1, <2>4 DEF Entry
  <2> HIDE DEF f
  <2>8. ent' \in [Blocks -> Entry] /\ ent'[x] = f /\ \A c \in Blocks \ {x} : ent'[c] = ent[c]
    BY <1>1, <2>4, <2>5, <2>7
  <2>9. ent[x].state \in {"pending_read_dram", "pending_write_dram"}
    BY <1>1, <2>2 DEF LmemqMatches
  <2>10. EntryOK(f)
    BY <2>4, <2>6, <2>9 DEF EntryOK
  <2>11. TypeOK'
    BY <1>1, <1>2, <1>3, <2>2, <2>8, LmemqLines DEF TypeOK
  <2>12. EntriesOK'
    BY <1>1, <2>8, <2>10 DEF EntriesOK
  <2>13. LmemqMatches'
    <3>1. \A i \in 2 .. n : lmemq[i].blk # x
      BY <1>1, <2>2 DEF LmemqMatches
    <3>2. \A c \in Blocks : (\E i \in DOMAIN lmemq' : lmemq'[i].blk = c) <=>
                            (\E i \in 2 .. n : lmemq[i].blk = c)
      <4>1. ASSUME NEW c \in Blocks, NEW i \in 2 .. n, lmemq[i].blk = c
            PROVE  \E j \in DOMAIN lmemq' : lmemq'[j].blk = c
        <5>1. i - 1 \in 1 .. n - 1 /\ lmemq'[i - 1] = lmemq[i]
          BY <2>2
        <5> QED
          BY <2>2, <4>1, <5>1
      <4>2. \A j \in 1 .. n - 1 : j + 1 \in 2 .. n
        BY <2>2
      <4> QED
        BY <2>2, <4>1, <4>2
    <3>3. \A c \in Blocks : (ent'[c].waiting /\ ent'[c].state # "init") <=>
                            (\E i \in DOMAIN lmemq' : lmemq'[i].blk = c)
      <4>1. \A c \in Blocks \ {x} : (\E i \in 2 .. n : lmemq[i].blk = c) <=>
                                    (\E i \in DOMAIN lmemq : lmemq[i].blk = c)
        BY <2>2
      <4> QED
        BY <1>1, <2>6, <2>8, <3>1, <3>2, <4>1 DEF LmemqMatches
    <3>4. ASSUME NEW i \in DOMAIN lmemq'
          PROVE  /\ ent'[lmemq'[i].blk].state =
                      IF lmemq'[i].op = "read" THEN "pending_read_dram"
                                               ELSE "pending_write_dram"
                 /\ \A j \in DOMAIN lmemq' : lmemq'[j].blk = lmemq'[i].blk => i = j
      <4>1. i + 1 \in 2 .. n /\ lmemq'[i] = lmemq[i + 1] /\ i + 1 \in DOMAIN lmemq
        BY <2>2
      <4>2. ent'[lmemq[i + 1].blk] = ent[lmemq[i + 1].blk]
        BY <2>3, <2>8, <3>1, <4>1
      <4>3. ASSUME NEW j \in DOMAIN lmemq', lmemq'[j].blk = lmemq'[i].blk
            PROVE  i = j
        <5>1. j + 1 \in DOMAIN lmemq /\ lmemq'[j] = lmemq[j + 1] /\ j \in Int /\ i \in Int
          BY <2>2
        <5>2. i + 1 = j + 1
          BY <1>1, <4>1, <4>3, <5>1 DEF LmemqMatches
        <5> QED
          BY <5>1, <5>2
      <4> QED
        BY <1>1, <4>1, <4>2, <4>3 DEF LmemqMatches
    <3> QED
      BY <3>3, <3>4 DEF LmemqMatches
  <2>14. Bounded'
    <3>1. Cached' = Cached
      BY <2>6, <2>8 DEF Cached
    <3> QED
      BY <1>1, <1>2, <2>2, <3>1 DEF Bounded
  <2> QED
    BY <1>3, <2>11, <2>12, <2>13, <2>14, LmemqLines DEF AitInv
<1> QED
  BY <1>4, <1>5 DEF TickLmemq, LmemqStart

(***************************************************************************)
(* The rest of the cycle                                                   *)
(***************************************************************************)

\* The clock moves: waiting times count down and the stamps become ranks.
LEMMA ClockStep ==
  ASSUME AitInv, EndCycle
  PROVE  AitInv'
<1>1. /\ TypeOK /\ EntriesOK /\ TodoActs /\ LmemqMatches /\ OneLineAtATime /\ Bounded
      /\ lmemq \in Seq(LmemRequest) /\ ent \in [Blocks -> Entry]
  BY DEF AitInv, TypeOK
<1>2. /\ phase' = "lsq" /\ todo = {}
      /\ UNCHANGED <<lsq, lmemq, index, served, started, writes, dram, dramfull, todo,
                     wanted, since>>
  BY DEF EndCycle, Settled, queues, env, history
<1>3. ASSUME NEW b \in Blocks
      PROVE  /\ ent'[b] \in Entry /\ EntryOK(ent'[b]) /\ ent'[b].type = ent[b].type
             /\ ent'[b].state = ent[b].state /\ ent'[b].waiting = ent[b].waiting
             /\ ent'[b].pending = ent[b].pending /\ ent'[b].cb = ent[b].cb
             /\ ent'[b].sub = ent[b].sub
  <2> DEFINE e == ent[b]
             w == IF e.wait > 0 THEN e.wait - 1 ELSE e.wait
             f == [e EXCEPT !.wait = w, !.used = Rank(b)]
  <2>1. e \in Entry /\ EntryOK(e) /\ Rank(b) \in Nat
    BY <1>1, RankType DEF EntriesOK
  <2>2. w \in Nat \cup {ClkInvalid} /\ (e.wait \in Nat => w \in Nat)
    BY <2>1 DEF Entry, ClkInvalid
  <2>3. ent'[b] = IF b \in Cached THEN f ELSE e
    BY DEF EndCycle
  <2> HIDE DEF w
  <2>4. f \in Entry
    BY <2>1, <2>2 DEF Entry
  <2>5. /\ f.type = e.type /\ f.state = e.state /\ f.pending = e.pending
        /\ f.waiting = e.waiting /\ f.valid = e.valid /\ f.dirty = e.dirty /\ f.wait = w
        /\ f.cb = e.cb /\ f.sub = e.sub
    BY <2>1 DEF Entry
  <2> HIDE DEF f
  <2>6. EntryOK(f)
    BY <2>1, <2>2, <2>5 DEF EntryOK
  <2> QED
    BY <2>1, <2>3, <2>4, <2>5, <2>6
<1>4. ent' \in [Blocks -> Entry]
  <2>1. DOMAIN ent' = Blocks /\ ent' = [b \in Blocks |-> ent'[b]]
    BY DEF EndCycle
  <2> QED
    BY <1>3, <2>1
<1>5. TypeOK'
  BY <1>1, <1>2, <1>4 DEF TypeOK
<1>6. EntriesOK' /\ TodoActs' /\ OneLineAtATime'
  BY <1>1, <1>2, <1>3 DEF EntriesOK, TodoActs, OneLineAtATime
<1>7. LmemqMatches'
  <2>1. \A i \in DOMAIN lmemq : lmemq[i] \in LmemRequest
    BY <1>1
  <2>2. \A i \in DOMAIN lmemq : ent'[lmemq[i].blk].state = ent[lmemq[i].blk].state
    BY <1>3, <2>1 DEF LmemRequest
  <2> QED
    BY <1>1, <1>2, <1>3, <2>2 DEF LmemqMatches
<1>8. Bounded'
  <2>1. Cached' = Cached
    BY <1>3 DEF Cached
  <2> QED
    BY <1>1, <1>2, <2>1 DEF Bounded
<1> QED
  BY <1>5, <1>6, <1>7, <1>8 DEF AitInv

\* Requests from above and answers from the DRAM keep the invariant.
LEMMA OtherStep ==
  ASSUME AitInv,
         \/ \E i \in 0 .. SubReqs - 1 : DramAnswer(i)
         \/ DramDrains
         \/ \E b \in Blocks, s \in Subs : IssueWrite(b, s) \/ \E r \in ReadIds : IssueRead(b, s, r)
  PROVE  AitInv'
<1>1. /\ TypeOK /\ EntriesOK /\ TodoActs /\ LmemqMatches /\ OneLineAtATime /\ Bounded
  BY DEF AitInv
<1>2. ASSUME NEW i \in 0 .. SubReqs - 1, DramAnswer(i)
      PROVE  AitInv'
  <2>1. OneLineAtATime'
    BY <1>1, <1>2 DEF OneLineAtATime, DramAnswer, TypeOK
  <2>2. TypeOK'
    BY <1>1, <1>2 DEF TypeOK, DramAnswer, history
  <2>3. EntriesOK' /\ TodoActs' /\ LmemqMatches' /\ Bounded'
    BY <1>1, <1>2 DEF DramAnswer, EntriesOK, TodoActs, LmemqMatches, Bounded, Cached
  <2> QED
    BY <2>1, <2>2, <2>3 DEF AitInv
<1>3. CASE DramDrains
  <2>1. TypeOK' /\ OneLineAtATime'
    BY <1>1, <1>3 DEF TypeOK, OneLineAtATime, DramDrains, history, queues
  <2>2. EntriesOK' /\ TodoActs' /\ LmemqMatches' /\ Bounded'
    BY <1>1, <1>3 DEF DramDrains, queues, EntriesOK, TodoActs, LmemqMatches, Bounded, Cached
  <2> QED
    BY <2>1, <2>2 DEF AitInv
<1>4. ASSUME NEW req \in Request, Len(lsq) < LsqEntries, lsq' = Append(lsq, req),
             wanted' \in [ReadIds -> (Blocks \X Subs) \cup {NoLine}],
             UNCHANGED <<lmemq, index, served, started, ent, writes, env, phase, todo, since>>
      PROVE  AitInv'
  <2>1. lsq' \in Seq(Request) /\ Len(lsq') <= LsqEntries
    BY <1>1, <1>4 DEF TypeOK
  <2>2. TypeOK' /\ OneLineAtATime'
    BY <1>1, <1>4, <2>1 DEF TypeOK, OneLineAtATime, env
  <2>3. EntriesOK' /\ TodoActs' /\ LmemqMatches' /\ Bounded'
    BY <1>1, <1>4, <2>1 DEF EntriesOK, TodoActs, LmemqMatches, Bounded, Cached
  <2> QED
    BY <2>2, <2>3 DEF AitInv
<1>5. ASSUME NEW b \in Blocks, NEW s \in Subs, IssueWrite(b, s)
      PROVE  AitInv'
  <2>1. [op |-> "write", blk |-> b, sub |-> s, cb |-> NoCb] \in Request
    BY DEF Request, Callbacks
  <2> QED
    BY <1>1, <1>4, <1>5, <2>1 DEF IssueWrite, history, TypeOK
<1>6. ASSUME NEW b \in Blocks, NEW s \in Subs, NEW r \in ReadIds, IssueRead(b, s, r)
      PROVE  AitInv'
  <2>1. [op |-> "read", blk |-> b, sub |-> s, cb |-> r] \in Request
    BY DEF Request, Callbacks
  <2>2. wanted' \in [ReadIds -> (Blocks \X Subs) \cup {NoLine}]
    BY <1>1, <1>6 DEF IssueRead, TypeOK
  <2> QED
    BY <1>1, <1>4, <1>6, <2>1, <2>2 DEF IssueRead
<1> QED
  BY <1>2, <1>3, <1>5, <1>6

\* The whole inductive invariant of the controller: what follows is read off it.
THEOREM AitConsistent == Spec => []AitInv
<1>1. Init => AitInv
  <2> SUFFICES ASSUME Init
               PROVE  AitInv
    OBVIOUS
  <2> USE DEF Init
  <2>1. ent \in [Blocks -> Entry] /\ EntriesOK
    BY NoEntryType, NoEntryOK DEF EntriesOK
  <2>2. /\ writes \in [Blocks -> 0 .. Threshold - 1] /\ since \in [Blocks -> Nat]
        /\ wanted \in [ReadIds -> (Blocks \X Subs) \cup {NoLine}]
    OBVIOUS
  <2>3. TypeOK
    <3>1. lsq \in Seq(Request) /\ lmemq \in Seq(LmemRequest)
      OBVIOUS
    <3>2. index \in -1 .. SubReqs - 1
      <4>1. index = -1 /\ SubReqs - 1 \in Nat
        OBVIOUS
      <4> QED
        BY <4>1
    <3>4. served \in SUBSET (0 .. SubReqs - 1) /\ started \in BOOLEAN
      OBVIOUS
    <3>3. /\ dram \in SUBSET (0 .. SubReqs - 1) /\ dramfull \in BOOLEAN
          /\ phase \in {"lsq", "lmemq", "buf"} /\ todo \in SUBSET Blocks
      OBVIOUS
    <3> QED
      BY <2>1, <2>2, <3>1, <3>2, <3>3, <3>4 DEF TypeOK
  <2>4. LmemqMatches /\ OneLineAtATime /\ TodoActs
    BY DEF LmemqMatches, OneLineAtATime, TodoActs, NoEntry
  <2>5. Cached = {}
    BY NoEntryOK DEF Cached
  <2>6. Bounded
    BY <2>5, FS_EmptySet DEF Bounded
  <2> QED
    BY <2>1, <2>3, <2>4, <2>6 DEF AitInv
<1>2. AitInv /\ [Next]_vars => AitInv'
  <2>1. ASSUME AitInv, Next
        PROVE  AitInv'
    BY <2>1, LsqStep, LmemqStep, BufferMoves, BufferStep, ClockStep, OtherStep
    DEF Next, TickInternalBuffer
  <2>2. ASSUME AitInv, UNCHANGED vars
        PROVE  AitInv'
    BY <2>2 DEF AitInv, TypeOK, EntriesOK, TodoActs, LmemqMatches, OneLineAtATime, Bounded,
                Cached, vars, queues, env, history
  <2> QED
    BY <2>1, <2>2
<1> QED
  BY <1>1, <1>2, PTL DEF Spec

\* Every variable has its type, for all sizes and latencies.
THEOREM TypeCorrect == Spec => []TypeOK
<1>1. AitInv => TypeOK
  BY DEF AitInv
<1> QED
  BY <1>1, AitConsistent, PTL

\* The local memory queue and the entries that sleep in it belong together, one
\* to one: tick_lmemq wakes the right entry, and every entry that sleeps.
THEOREM QueueWakesSleepers == Spec => []LmemqMatches
<1>1. AitInv => LmemqMatches
  BY DEF AitInv
<1> QED
  BY <1>1, AitConsistent, PTL

\* No answer of the DRAM is taken for the answer to another line or request.
THEOREM LinesInOrder == Spec => []OneLineAtATime
<1>1. AitInv => OneLineAtATime
  BY DEF AitInv
<1> QED
  BY <1>1, AitConsistent, PTL

\* An entry at rest can be read and evicted.
THEOREM EvictionSafe == Spec => []RestIsReadable
<1>1. AitInv => RestIsReadable
  BY DEF AitInv, EntriesOK, EntryOK, RestIsReadable, Cached
<1> QED
  BY <1>1, AitConsistent, PTL

\* No exception or assertion of the controller is reachable.
THEOREM NeverThrows == Spec => []NoInternalError
<1>1. AitInv => NoInternalError
  <2> SUFFICES ASSUME AitInv
               PROVE  NoInternalError
    OBVIOUS
  <2>1. TypeOK /\ EntriesOK /\ TodoActs /\ LmemqMatches /\ OneLineAtATime /\ Bounded
    BY DEF AitInv
  <2>2. ASSUME NEW b \in todo
        PROVE  /\ <<ent[b].type, ent[b].state>> \in Handled
               /\ ent[b].state = "init" \/ ent[b].wait # ClkInvalid
    <3>1. b \in Blocks /\ EntryOK(ent[b]) /\ Acts(ent[b])
      BY <2>1 DEF TypeOK, EntriesOK, TodoActs
    <3>2. ent[b].state # "end"
      BY <3>1 DEF EntryOK, Acts
    <3>3. ent[b].state = "init" \/ ent[b].wait \in Nat
      BY <3>1 DEF EntryOK, Acts
    <3> QED
      BY <3>1, <3>2, <3>3 DEF EntryOK, ClkInvalid
  <2>3. \A i \in DOMAIN lmemq : lmemq[i].blk \in Cached
    <3>1. \A i \in DOMAIN lmemq : lmemq[i] \in LmemRequest
      BY <2>1 DEF TypeOK
    <3>2. \A i \in DOMAIN lmemq :
            lmemq[i].blk \in Blocks /\ ent[lmemq[i].blk].state # "end"
      BY <2>1, <3>1 DEF LmemRequest, LmemqMatches
    <3> QED
      BY <2>1, <3>2 DEF EntriesOK, EntryOK, Cached
  <2>4. ~started => 0 \notin served
    BY <2>1 DEF OneLineAtATime
  <2> QED
    BY <2>1, <2>2, <2>3, <2>4 DEF NoInternalError, Bounded
<1> QED
  BY <1>1, AitConsistent, PTL

(***************************************************************************)
(* Wear leveling.  tick_lsq counts a write when it accepts it, the entry   *)
(* tests the count later; meanwhile no other write of the block is counted *)
(* because the entry is in use.                                            *)
(***************************************************************************)
WearOK ==
  \A b \in Blocks :
    /\ since[b] <= writes[b] + 1
    /\ ~Untested(ent[b]) => since[b] <= (writes[b] + 1) % Threshold

\* Every step keeps the relation between the two counts.
LEMMA WearStep ==
  ASSUME AitInv, WearOK, [Next]_vars
  PROVE  WearOK'
<1>1. /\ ent \in [Blocks -> Entry] /\ EntriesOK
      /\ writes \in [Blocks -> 0 .. Threshold - 1] /\ since \in [Blocks -> Nat]
  BY DEF AitInv, TypeOK
<1>2. ASSUME UNCHANGED <<writes, since>>,
             \A b \in Blocks : Untested(ent[b]) => Untested(ent'[b])
      PROVE  WearOK'
  BY <1>2 DEF WearOK
<1>3. CASE TickLsq
  <2>1. CASE UNCHANGED <<lsq, ent, writes, since>>
    BY <1>2, <2>1
  <2>2. ASSUME NEW b \in Blocks, LsqMove(b)
        PROVE  WearOK'
    <3>1. \A c \in Blocks : ent[c].state = "end" => ~Untested(ent[c])
      BY DEF Untested
    <3>2. \A c \in Blocks \ {b} : Untested(ent[c]) => Untested(ent'[c])
      BY <2>2, <3>1 DEF LsqMove
    <3>3. CASE UNCHANGED <<writes, since>>
      BY <1>2, <2>2, <3>1, <3>2, <3>3 DEF LsqMove
    <3>4. CASE ent'[b].type \in WriteTypes /\ RecordWrite(b)
      <4>1. /\ writes' = [writes EXCEPT ![b] = (writes[b] + 1) % Threshold]
            /\ since' = [since EXCEPT ![b] = since[b] + 1]
        BY <3>4 DEF RecordWrite
      <4>2. Untested(ent'[b])
        BY <2>2, <3>4 DEF LsqMove, Untested
      <4>3. since[b] <= (writes[b] + 1) % Threshold
        BY <2>2, <3>1 DEF WearOK, LsqMove
      <4>4. (writes[b] + 1) % Threshold \in 0 .. Threshold - 1
        BY <1>1, CountStep
      <4>5. since'[b] <= writes'[b] + 1
        <5>1. writes'[b] = (writes[b] + 1) % Threshold /\ since'[b] = since[b] + 1
          BY <1>1, <4>1
        <5>2. since[b] \in Nat
          BY <1>1
        <5> QED
          BY <4>3, <4>4, <5>1, <5>2
      <4>6. \A c \in Blocks \ {b} : writes'[c] = writes[c] /\ since'[c] = since[c]
        BY <1>1, <4>1
      <4> QED
        BY <3>2, <4>2, <4>5, <4>6 DEF WearOK
    <3> QED
      BY <2>2, <3>3, <3>4 DEF LsqMove
  <2> QED
    BY <1>3, <2>1, <2>2, LsqMoves
<1>4. CASE TickLmemq
  <2>1. UNCHANGED <<writes, since>>
    BY <1>4 DEF TickLmemq, LmemqDone, history
  <2>2. \A b \in Blocks : ent'[b].type = ent[b].type /\ ent'[b].state = ent[b].state
    BY <1>4, LmemqKeeps
  <2> QED
    BY <1>2, <2>1, <2>2 DEF Untested
<1>5. ASSUME NEW b \in Blocks, BufferMove(b)
      PROVE  WearOK'
  <2>1. writes' = writes /\ \A c \in Blocks \ {b} : ent'[c] = ent[c]
    BY <1>5 DEF BufferMove
  <2>2. CASE TestMove(b)
    <3>1. /\ since[b] <= writes[b] + 1 /\ since[b] \in Nat /\ writes[b] \in 0 .. Threshold - 1
      BY <1>1 DEF WearOK
    <3>2. (writes[b] + 1) % Threshold = IF writes[b] + 1 = Threshold THEN 0 ELSE writes[b] + 1
      BY <1>1, CountStep
    <3>3. since'[b] = IF (writes[b] + 1) % Threshold = 0 THEN 0 ELSE since[b]
      BY <1>1, <2>2 DEF TestMove
    <3>4. since'[b] <= writes[b] + 1 /\ since'[b] <= (writes[b] + 1) % Threshold
      BY <3>1, <3>2, <3>3
    <3>5. \A c \in Blocks \ {b} : since'[c] = since[c]
      BY <1>1, <2>2 DEF TestMove
    <3> QED
      BY <2>1, <3>4, <3>5 DEF WearOK
  <2>3. CASE ~TestMove(b)
    <3>1. since' = since /\ (Untested(ent[b]) => Untested(ent'[b]))
      BY <1>5, <2>3 DEF BufferMove, StayMove, DramMove, MediaMove, EndMove
    <3> QED
      BY <1>2, <2>1, <3>1
  <2> QED
    BY <2>2, <2>3
<1>6. CASE EndCycle
  <2>1. \A b \in Blocks : ent'[b].type = ent[b].type /\ ent'[b].state = ent[b].state
    BY <1>1, <1>6 DEF EndCycle, Entry
  <2> QED
    BY <1>2, <1>6, <2>1 DEF EndCycle, Untested, history
<1>7. CASE \/ \E i \in 0 .. SubReqs - 1 : DramAnswer(i)
           \/ DramDrains \/ UNCHANGED vars
           \/ \E b \in Blocks, s \in Subs :
                IssueWrite(b, s) \/ \E r \in ReadIds : IssueRead(b, s, r)
  BY <1>2, <1>7 DEF DramAnswer, DramDrains, IssueWrite, IssueRead, vars, history
<1> QED
  BY <1>3, <1>4, <1>5, <1>6, <1>7, BufferMoves DEF Next, TickInternalBuffer

\* Wear leveling: no block takes more than Threshold writes without a migration.
THEOREM MigratedInTime == Spec => []WearBounded
<1>1. Init => WearOK
  <2>1. ASSUME Init
        PROVE  WearOK
    <3>1. \A b \in Blocks : since[b] = 0 /\ writes[b] = 0
      BY <2>1 DEF Init
    <3>2. (0 + 1) % Threshold \in 0 .. Threshold - 1
      BY CountStep
    <3> QED
      BY <3>1, <3>2 DEF WearOK
  <2> QED
    BY <2>1
<1>2. AitInv /\ WearOK /\ [Next]_vars => WearOK'
  BY WearStep
<1>3. AitInv /\ WearOK => WearBounded
  <2>1. ASSUME AitInv, WearOK, NEW b \in Blocks
        PROVE  since[b] <= Threshold
    <3>1. since[b] <= writes[b] + 1 /\ since[b] \in Nat /\ writes[b] \in 0 .. Threshold - 1
      BY <2>1 DEF WearOK, AitInv, TypeOK
    <3> QED
      BY <3>1
  <2> QED
    BY <2>1 DEF WearBounded
<1> QED
  BY <1>1, <1>2, <1>3, AitConsistent, PTL DEF Spec

(***************************************************************************)
(* Reads in flight                                                         *)
(***************************************************************************)
\* A callback in the lsq belongs to the block that its reader waits for, and
\* is nowhere else.
QueuedReads ==
  \A i \in DOMAIN lsq : lsq[i].cb # NoCb =>
    /\ wanted[lsq[i].cb] = <<lsq[i].blk, lsq[i].sub>>
    /\ \A j \in DOMAIN lsq : lsq[j].cb = lsq[i].cb => i = j
    /\ \A b \in Blocks : ent[b].pending => ent[b].cb # lsq[i].cb

\* So does the callback of an entry in use.
BufferedReads ==
  \A b \in Blocks : ent[b].pending /\ ent[b].cb # NoCb =>
    wanted[ent[b].cb] = <<b, ent[b].sub>> /\ ent[b].sub \in Subs

\* No callback is forgotten.
NoneForgotten ==
  \A r \in ReadIds : wanted[r] # NoLine =>
    \/ \E i \in DOMAIN lsq : lsq[i].cb = r
    \/ \E b \in Blocks : ent[b].pending /\ ent[b].cb = r

ReadsInv == QueuedReads /\ BufferedReads /\ NoneForgotten

\* tick_lsq moves the callback of the request it accepts into the entry.
LEMMA ReadsLsq ==
  ASSUME AitInv, ReadsInv, TickLsq
  PROVE  ReadsInv'
<1>1. /\ TypeOK /\ ent \in [Blocks -> Entry] /\ EntriesOK /\ lsq \in Seq(Request)
  BY DEF AitInv, TypeOK
<1>2. wanted' = wanted
  BY LsqMoves DEF LsqDone
<1>3. CASE UNCHANGED <<lsq, ent, writes, since>>
  BY <1>2, <1>3 DEF ReadsInv, QueuedReads, BufferedReads, NoneForgotten
<1>4. ASSUME NEW b \in Blocks, LsqMove(b)
      PROVE  ReadsInv'
  <2> DEFINE n == Len(lsq)
  <2>1. /\ Front = lsq[1] /\ n \in Nat \ {0} /\ DOMAIN lsq = 1 .. n
        /\ DOMAIN lsq' = 1 .. n - 1
        /\ \A i \in 1 .. n - 1 : lsq'[i] = lsq[i + 1] /\ i + 1 \in 2 .. n
    BY <1>1, <1>4 DEF LsqMove, Front
  <2>2. /\ ent'[b].pending /\ ent'[b].cb = lsq[1].cb /\ ent'[b].sub = lsq[1].sub
        /\ lsq[1].blk = b /\ ~ent[b].pending
    BY <1>1, <1>4, <2>1 DEF LsqMove, EntriesOK, EntryOK
  <2>3. \A c \in Blocks \ {b} :
          IF ent[c].pending THEN ent'[c] = ent[c] ELSE ~ent'[c].pending
    <3>1. \A c \in Blocks : ent[c].state = "end" => ~ent[c].pending
      BY <1>1 DEF EntriesOK, EntryOK
    <3>2. ~NoEntry.pending
      BY DEF NoEntry
    <3> QED
      BY <1>4, <3>1, <3>2 DEF LsqMove
  <2>4. QueuedReads'
    <3> SUFFICES ASSUME NEW i \in 1 .. n - 1, lsq'[i].cb # NoCb
                 PROVE  /\ wanted[lsq'[i].cb] = <<lsq'[i].blk, lsq'[i].sub>>
                        /\ \A j \in 1 .. n - 1 : lsq'[j].cb = lsq'[i].cb => i = j
                        /\ \A c \in Blocks : ent'[c].pending => ent'[c].cb # lsq'[i].cb
      BY <1>2, <2>1 DEF QueuedReads
    <3>1. lsq'[i] = lsq[i + 1] /\ i + 1 \in 2 .. n /\ i + 1 \in 1 .. n /\ i + 1 # 1 /\ i \in Int
      BY <2>1
    <3>2. /\ wanted[lsq[i + 1].cb] = <<lsq[i + 1].blk, lsq[i + 1].sub>>
          /\ \A j \in 1 .. n : lsq[j].cb = lsq[i + 1].cb => i + 1 = j
          /\ \A c \in Blocks : ent[c].pending => ent[c].cb # lsq[i + 1].cb
      BY <2>1, <3>1 DEF ReadsInv, QueuedReads
    <3>3. ASSUME NEW j \in 1 .. n - 1, lsq'[j].cb = lsq'[i].cb
          PROVE  i = j
      <4>1. lsq'[j] = lsq[j + 1] /\ j + 1 \in 1 .. n /\ j \in Int
        BY <2>1
      <4>2. i + 1 = j + 1
        BY <3>1, <3>2, <3>3, <4>1
      <4> QED
        BY <3>1, <4>1, <4>2
    <3>4. lsq[1].cb # lsq[i + 1].cb
      BY <2>1, <3>1, <3>2
    <3>5. \A c \in Blocks : ent'[c].pending => ent'[c].cb # lsq[i + 1].cb
      BY <2>2, <2>3, <3>2, <3>4
    <3> QED
      BY <3>1, <3>2, <3>3, <3>5
  <2>5. BufferedReads'
    <3>1. 1 \in DOMAIN lsq /\ lsq[1] \in Request
      BY <1>1, <2>1
    <3>2. lsq[1].cb # NoCb => wanted[lsq[1].cb] = <<lsq[1].blk, lsq[1].sub>>
      BY <3>1 DEF ReadsInv, QueuedReads
    <3>3. lsq[1].sub \in Subs
      BY <3>1 DEF Request
    <3> QED
      BY <1>2, <2>2, <2>3, <3>2, <3>3 DEF ReadsInv, BufferedReads
  <2>6. NoneForgotten'
    <3> SUFFICES ASSUME NEW r \in ReadIds, wanted[r] # NoLine
                 PROVE  \/ \E i \in DOMAIN lsq' : lsq'[i].cb = r
                        \/ \E c \in Blocks : ent'[c].pending /\ ent'[c].cb = r
      BY <1>2 DEF NoneForgotten
    <3>1. CASE \E c \in Blocks : ent[c].pending /\ ent[c].cb = r
      BY <2>2, <2>3, <3>1
    <3>2. ASSUME NEW i \in DOMAIN lsq, lsq[i].cb = r
          PROVE  \/ \E k \in DOMAIN lsq' : lsq'[k].cb = r
                 \/ \E c \in Blocks : ent'[c].pending /\ ent'[c].cb = r
      <4>1. CASE i = 1
        BY <2>2, <3>2, <4>1
      <4>2. CASE i # 1
        <5>1. i - 1 \in 1 .. n - 1 /\ (i - 1) + 1 = i
          BY <2>1, <3>2, <4>2
        <5> QED
          BY <2>1, <3>2, <5>1
      <4> QED
        BY <4>1, <4>2
    <3> QED
      BY <3>1, <3>2 DEF ReadsInv, NoneForgotten
  <2> QED
    BY <2>4, <2>5, <2>6 DEF ReadsInv
<1> QED
  BY <1>3, <1>4, LsqMoves

\* Steps that leave the callbacks where they are.
LEMMA ReadsStay ==
  ASSUME ReadsInv, lsq' = lsq, wanted' = wanted,
         \A b \in Blocks : /\ ent'[b].pending = ent[b].pending /\ ent'[b].cb = ent[b].cb
                           /\ ent'[b].sub = ent[b].sub
  PROVE  ReadsInv'
<1>1. QueuedReads'
  BY DEF ReadsInv, QueuedReads
<1>2. BufferedReads'
  BY DEF ReadsInv, BufferedReads
<1>3. NoneForgotten'
  BY DEF ReadsInv, NoneForgotten
<1> QED
  BY <1>1, <1>2, <1>3 DEF ReadsInv

\* The end of a request calls its callback, once and for its own block.
LEMMA ReadsBuffer ==
  ASSUME AitInv, ReadsInv, NEW b \in Blocks, BufferMove(b)
  PROVE  ReadsInv'
<1>1. /\ ent \in [Blocks -> Entry] /\ wanted \in [ReadIds -> (Blocks \X Subs) \cup {NoLine}]
      /\ lsq \in Seq(Request)
  BY DEF AitInv, TypeOK
<1>2. /\ lsq' = lsq /\ \A c \in Blocks \ {b} : ent'[c] = ent[c]
      /\ ent'[b].cb = ent[b].cb /\ ent'[b].sub = ent[b].sub /\ ent[b].pending
  BY DEF BufferMove
<1>3. CASE ~EndMove(b)
  <2>1. wanted' = wanted /\ ent'[b].pending = ent[b].pending
    <3>1. wanted' = wanted /\ ent'[b].pending
      BY <1>2, <1>3 DEF BufferMove, StayMove, DramMove, MediaMove, TestMove
    <3>2. ent'[b] \in Entry /\ ent[b] \in Entry
      BY <1>1 DEF BufferMove
    <3>3. ent'[b].pending \in BOOLEAN /\ ent[b].pending \in BOOLEAN
      BY <3>2 DEF Entry
    <3> QED
      BY <1>2, <3>1, <3>3
  <2> QED
    BY <1>2, <2>1, ReadsStay
<1>4. CASE EndMove(b)
  <2> DEFINE r == ent[b].cb
  <2>1. /\ ~ent'[b].pending
        /\ wanted' = IF r = NoCb THEN wanted ELSE [wanted EXCEPT ![r] = NoLine]
    BY <1>4 DEF EndMove
  <2>2. r \in ReadIds \cup {NoCb}
    BY <1>1 DEF Entry, Callbacks
  <2>3. \A x \in ReadIds : x # r => wanted'[x] = wanted[x]
    BY <1>1, <2>1
  <2>4. r # NoCb => wanted'[r] = NoLine /\ wanted[r] = <<b, ent[b].sub>>
    BY <1>1, <1>2, <2>1, <2>2 DEF ReadsInv, BufferedReads
  <2>5. \A i \in DOMAIN lsq : lsq[i].cb \in ReadIds \cup {NoCb}
    <3>1. \A i \in DOMAIN lsq : lsq[i] \in Request
      BY <1>1
    <3> QED
      BY <3>1 DEF Request, Callbacks
  <2>6. QueuedReads'
    <3>1. \A i \in DOMAIN lsq : lsq[i].cb # NoCb => lsq[i].cb # r
      BY <1>2 DEF ReadsInv, QueuedReads
    <3>2. \A i \in DOMAIN lsq : lsq[i].cb # NoCb => wanted'[lsq[i].cb] = wanted[lsq[i].cb]
      BY <2>3, <2>5, <3>1
    <3>3. \A c \in Blocks : ent'[c].pending => ent[c].pending /\ ent'[c].cb = ent[c].cb
      BY <1>2, <2>1
    <3> QED
      BY <1>2, <3>2, <3>3 DEF ReadsInv, QueuedReads
  <2>7. BufferedReads'
    <3> SUFFICES ASSUME NEW c \in Blocks, ent'[c].pending, ent'[c].cb # NoCb
                 PROVE  wanted'[ent'[c].cb] = <<c, ent'[c].sub>> /\ ent'[c].sub \in Subs
      BY DEF BufferedReads
    <3>1. c # b /\ ent'[c] = ent[c]
      BY <1>2, <2>1
    <3>2. wanted[ent[c].cb] = <<c, ent[c].sub>> /\ ent[c].sub \in Subs
      BY <3>1 DEF ReadsInv, BufferedReads
    <3>3. ent[c].cb # r
      BY <2>4, <3>1, <3>2
    <3>4. ent[c].cb \in ReadIds
      BY <1>1, <3>1 DEF Entry, Callbacks
    <3> QED
      BY <2>3, <3>1, <3>2, <3>3, <3>4
  <2>8. NoneForgotten'
    <3> SUFFICES ASSUME NEW x \in ReadIds, wanted'[x] # NoLine
                 PROVE  \/ \E i \in DOMAIN lsq : lsq[i].cb = x
                        \/ \E c \in Blocks : ent'[c].pending /\ ent'[c].cb = x
      BY <1>2 DEF NoneForgotten
    <3>1. x # r /\ wanted[x] # NoLine
      BY <2>3, <2>4
    <3> QED
      BY <1>2, <3>1 DEF ReadsInv, NoneForgotten
  <2> QED
    BY <2>6, <2>7, <2>8 DEF ReadsInv
<1> QED
  BY <1>3, <1>4

\* A new read brings a callback that nobody has.
LEMMA ReadsIssue ==
  ASSUME AitInv, ReadsInv, NEW b \in Blocks, NEW s \in Subs,
         IssueWrite(b, s) \/ \E r \in ReadIds : IssueRead(b, s, r)
  PROVE  ReadsInv'
<1> DEFINE n == Len(lsq)
<1>1. /\ ent \in [Blocks -> Entry] /\ wanted \in [ReadIds -> (Blocks \X Subs) \cup {NoLine}]
      /\ lsq \in Seq(Request) /\ n \in Nat /\ DOMAIN lsq = 1 .. n
  BY DEF AitInv, TypeOK
<1>2. \A i \in 1 .. n : lsq[i].cb \in ReadIds \cup {NoCb}
  <2>1. \A i \in 1 .. n : lsq[i] \in Request
    BY <1>1
  <2> QED
    BY <2>1 DEF Request, Callbacks
<1>3. ASSUME NEW req, lsq' = Append(lsq, req)
      PROVE  /\ DOMAIN lsq' = 1 .. n + 1 /\ lsq'[n + 1] = req /\ n + 1 \notin 1 .. n
             /\ \A i \in 1 .. n : lsq'[i] = lsq[i]
             /\ \A i \in 1 .. n + 1 : i \in 1 .. n \/ i = n + 1
  BY <1>1, <1>3
<1>4. CASE IssueWrite(b, s)
  <2> DEFINE req == [op |-> "write", blk |-> b, sub |-> s, cb |-> NoCb]
  <2>1. lsq' = Append(lsq, req) /\ req.cb = NoCb /\ UNCHANGED <<ent, wanted>>
    BY <1>4 DEF IssueWrite, history
  <2> HIDE DEF req
  <2>2. /\ DOMAIN lsq' = 1 .. n + 1 /\ lsq'[n + 1].cb = NoCb
        /\ \A i \in 1 .. n : lsq'[i] = lsq[i]
        /\ \A i \in 1 .. n + 1 : i \in 1 .. n \/ i = n + 1
        /\ \A i \in 1 .. n : i \in 1 .. n + 1
    BY <1>1, <1>3, <2>1
  <2>3. QueuedReads'
    <3> SUFFICES ASSUME NEW i \in 1 .. n + 1, lsq'[i].cb # NoCb
                 PROVE  /\ wanted[lsq'[i].cb] = <<lsq'[i].blk, lsq'[i].sub>>
                        /\ \A j \in 1 .. n + 1 : lsq'[j].cb = lsq'[i].cb => i = j
                        /\ \A c \in Blocks : ent[c].pending => ent[c].cb # lsq'[i].cb
      BY <2>1, <2>2 DEF QueuedReads
    <3>1. i \in 1 .. n /\ lsq'[i] = lsq[i]
      BY <2>2
    <3>2. /\ wanted[lsq[i].cb] = <<lsq[i].blk, lsq[i].sub>>
          /\ \A j \in 1 .. n : lsq[j].cb = lsq[i].cb => i = j
          /\ \A c \in Blocks : ent[c].pending => ent[c].cb # lsq[i].cb
      BY <1>1, <3>1 DEF ReadsInv, QueuedReads
    <3> QED
      BY <2>2, <3>1, <3>2
  <2>4. BufferedReads' /\ NoneForgotten'
    BY <1>1, <2>1, <2>2 DEF ReadsInv, BufferedReads, NoneForgotten
  <2> QED
    BY <2>3, <2>4 DEF ReadsInv
<1>5. ASSUME NEW r \in ReadIds, IssueRead(b, s, r)
      PROVE  ReadsInv'
  <2> DEFINE req == [op |-> "read", blk |-> b, sub |-> s, cb |-> r]
  <2>1. /\ lsq' = Append(lsq, req) /\ req.cb = r /\ req.blk = b /\ req.sub = s
        /\ UNCHANGED ent /\ wanted[r] = NoLine /\ wanted' = [wanted EXCEPT ![r] = <<b, s>>]
    BY <1>5 DEF IssueRead
  <2> HIDE DEF req
  <2>2. /\ wanted'[r] = <<b, s>> /\ \A x \in ReadIds : x # r => wanted'[x] = wanted[x]
    BY <1>1, <2>1
  <2>3. \A c \in Blocks, t \in Subs : <<c, t>> # NoLine
    OBVIOUS
  <2>4. \A i \in 1 .. n : lsq[i].cb # r
    <3> SUFFICES ASSUME NEW i \in 1 .. n, lsq[i].cb = r
                 PROVE  FALSE
      OBVIOUS
    <3>1. lsq[i] \in Request /\ r # NoCb
      BY <1>1
    <3>2. wanted[r] = <<lsq[i].blk, lsq[i].sub>>
      BY <1>1, <3>1 DEF ReadsInv, QueuedReads
    <3> QED
      BY <2>1, <2>3, <3>1, <3>2 DEF Request
  <2>5. \A c \in Blocks : ent[c].pending => ent[c].cb # r
    BY <2>1, <2>3 DEF ReadsInv, BufferedReads
  <2>6. /\ DOMAIN lsq' = 1 .. n + 1 /\ lsq'[n + 1] = req
        /\ \A i \in 1 .. n : lsq'[i] = lsq[i]
        /\ \A i \in 1 .. n + 1 : i \in 1 .. n \/ i = n + 1
        /\ \A i \in 1 .. n : i \in 1 .. n + 1
        /\ n + 1 \in 1 .. n + 1
    BY <1>1, <1>3, <2>1
  <2>7. QueuedReads'
    <3> SUFFICES ASSUME NEW i \in 1 .. n + 1, lsq'[i].cb # NoCb
                 PROVE  /\ wanted'[lsq'[i].cb] = <<lsq'[i].blk, lsq'[i].sub>>
                        /\ \A j \in 1 .. n + 1 : lsq'[j].cb = lsq'[i].cb => i = j
                        /\ \A c \in Blocks : ent[c].pending => ent[c].cb # lsq'[i].cb
      BY <2>1, <2>6 DEF QueuedReads
    <3>1. CASE i = n + 1
      BY <2>1, <2>2, <2>4, <2>5, <2>6, <3>1
    <3>2. CASE i \in 1 .. n
      <4>1. lsq'[i] = lsq[i] /\ lsq[i].cb \in ReadIds /\ lsq[i].cb # r
        BY <1>2, <2>4, <2>6, <3>2
      <4>2. /\ wanted[lsq[i].cb] = <<lsq[i].blk, lsq[i].sub>>
            /\ \A j \in 1 .. n : lsq[j].cb = lsq[i].cb => i = j
            /\ \A c \in Blocks : ent[c].pending => ent[c].cb # lsq[i].cb
        BY <1>1, <3>2, <4>1 DEF ReadsInv, QueuedReads
      <4> QED
        BY <2>1, <2>2, <2>6, <4>1, <4>2
    <3> QED
      BY <2>6, <3>1, <3>2
  <2>8. BufferedReads'
    <3>1. \A c \in Blocks : ent[c].cb # NoCb => ent[c].cb \in ReadIds
      BY <1>1 DEF Entry, Callbacks
    <3> QED
      BY <2>1, <2>2, <2>5, <3>1 DEF ReadsInv, BufferedReads
  <2>9. NoneForgotten'
    <3> SUFFICES ASSUME NEW x \in ReadIds, wanted'[x] # NoLine
                 PROVE  \/ \E i \in 1 .. n + 1 : lsq'[i].cb = x
                        \/ \E c \in Blocks : ent[c].pending /\ ent[c].cb = x
      BY <2>1, <2>6 DEF NoneForgotten
    <3>1. CASE x = r
      BY <2>1, <2>6, <3>1
    <3>2. CASE x # r
      BY <1>1, <2>2, <2>6, <3>2 DEF ReadsInv, NoneForgotten
    <3> QED
      BY <3>1, <3>2
  <2> QED
    BY <2>7, <2>8, <2>9 DEF ReadsInv
<1> QED
  BY <1>4, <1>5

\* Every step keeps the callbacks where `wanted' says.
LEMMA ReadsStep ==
  ASSUME AitInv, ReadsInv, [Next]_vars
  PROVE  ReadsInv'
<1>1. CASE TickLmemq
  <2>1. lsq' = lsq /\ wanted' = wanted
    BY <1>1 DEF TickLmemq, LmemqDone, history
  <2> QED
    BY <1>1, <2>1, LmemqKeeps, ReadsStay
<1>2. CASE EndCycle
  <2>1. ent \in [Blocks -> Entry]
    BY DEF AitInv, TypeOK
  <2>2. \A b \in Blocks : /\ ent'[b].pending = ent[b].pending /\ ent'[b].cb = ent[b].cb
                          /\ ent'[b].sub = ent[b].sub
    BY <1>2, <2>1 DEF EndCycle, Entry
  <2> QED
    BY <1>2, <2>2, ReadsStay DEF EndCycle, queues, history
<1>3. CASE (\E i \in 0 .. SubReqs - 1 : DramAnswer(i)) \/ DramDrains \/ UNCHANGED vars
  <2>1. UNCHANGED <<lsq, wanted, ent>>
    BY <1>3 DEF DramAnswer, DramDrains, vars, queues, history
  <2> QED
    BY <2>1, ReadsStay
<1> QED
  BY <1>1, <1>2, <1>3, ReadsLsq, ReadsBuffer, ReadsIssue, BufferMoves
  DEF Next, TickInternalBuffer

\* Each callback that was accepted and not called is in one place, with the
\* block that its reader waits for; no other callback is anywhere.
LEMMA InOnePlace ==
  ASSUME AitInv, ReadsInv
  PROVE  ReadsConserved
<1> SUFFICES ASSUME NEW r \in ReadIds
             PROVE  IF wanted[r] = NoLine THEN Places(r) = {}
                    ELSE \E p \in Places(r) : Places(r) = {p} /\ <<p[3], p[4]>> = wanted[r]
  BY DEF ReadsConserved
<1>1. /\ lsq \in Seq(Request) /\ r # NoCb
      /\ \A c \in Blocks, t \in Subs : <<c, t>> # NoLine
  BY DEF AitInv, TypeOK
<1>2. ASSUME NEW i \in DOMAIN lsq, lsq[i].cb = r
      PROVE  /\ Places(r) = {<<"lsq", i, lsq[i].blk, lsq[i].sub>>}
             /\ wanted[r] = <<lsq[i].blk, lsq[i].sub>> /\ wanted[r] # NoLine
  <2>1. /\ wanted[r] = <<lsq[i].blk, lsq[i].sub>>
        /\ \A j \in DOMAIN lsq : lsq[j].cb = r => i = j
        /\ \A b \in Blocks : ent[b].pending => ent[b].cb # r
    BY <1>1, <1>2 DEF ReadsInv, QueuedReads
  <2>2. {j \in DOMAIN lsq : lsq[j].cb = r} = {i}
    BY <1>2, <2>1
  <2>3. {c \in Blocks : ent[c].pending /\ ent[c].cb = r} = {}
    BY <2>1
  <2>4. Places(r) = {<<"lsq", i, lsq[i].blk, lsq[i].sub>>}
    BY <2>2, <2>3 DEF Places
  <2>5. lsq[i].blk \in Blocks /\ lsq[i].sub \in Subs
    <3>1. lsq[i] \in Request
      BY <1>1
    <3> QED
      BY <3>1 DEF Request
  <2> QED
    BY <1>1, <2>1, <2>4, <2>5
<1>3. ASSUME NEW b \in Blocks, ent[b].pending, ent[b].cb = r
      PROVE  /\ Places(r) = {<<"buf", 0, b, ent[b].sub>>}
             /\ wanted[r] = <<b, ent[b].sub>> /\ wanted[r] # NoLine
  <2>1. wanted[r] = <<b, ent[b].sub>> /\ ent[b].sub \in Subs
    BY <1>1, <1>3 DEF ReadsInv, BufferedReads
  <2>2. \A c \in Blocks : ent[c].pending /\ ent[c].cb = r => <<b, ent[b].sub>> = <<c, ent[c].sub>>
    BY <1>1, <2>1 DEF ReadsInv, BufferedReads
  <2>3. {c \in Blocks : ent[c].pending /\ ent[c].cb = r} = {b}
    BY <1>3, <2>2
  <2>4. {j \in DOMAIN lsq : lsq[j].cb = r} = {}
    BY <1>1, <1>3 DEF ReadsInv, QueuedReads
  <2>5. Places(r) = {<<"buf", 0, b, ent[b].sub>>}
    BY <2>3, <2>4 DEF Places
  <2> QED
    BY <1>1, <2>1, <2>5
<1>4. CASE /\ \A i \in DOMAIN lsq : lsq[i].cb # r
           /\ \A b \in Blocks : ent[b].pending => ent[b].cb # r
  <2>1. wanted[r] = NoLine
    BY <1>4 DEF ReadsInv, NoneForgotten
  <2>2. Places(r) = {}
    BY <1>4 DEF Places
  <2> QED
    BY <2>1, <2>2
<1>5. CASE \E i \in DOMAIN lsq : lsq[i].cb = r
  <2>1. PICK i \in DOMAIN lsq : lsq[i].cb = r
    BY <1>5
  <2> DEFINE p == <<"lsq", i, lsq[i].blk, lsq[i].sub>>
  <2>2. Places(r) = {p} /\ <<p[3], p[4]>> = wanted[r] /\ wanted[r] # NoLine
    BY <1>2, <2>1
  <2> QED
    BY <2>2
<1>6. CASE \E b \in Blocks : ent[b].pending /\ ent[b].cb = r
  <2>1. PICK b \in Blocks : ent[b].pending /\ ent[b].cb = r
    BY <1>6
  <2> DEFINE p == <<"buf", 0, b, ent[b].sub>>
  <2>2. Places(r) = {p} /\ <<p[3], p[4]>> = wanted[r] /\ wanted[r] # NoLine
    BY <1>3, <2>1
  <2> QED
    BY <2>2
<1> QED
  BY <1>4, <1>5, <1>6

\* Every read callback is in exactly one place from issue_request to its call,
\* with the block that was asked for.
THEOREM CallbacksConserved == Spec => []ReadsConserved
<1>1. Init => ReadsInv
  BY DEF Init, ReadsInv, QueuedReads, BufferedReads, NoneForgotten, NoEntry
<1>2. AitInv /\ ReadsInv /\ [Next]_vars => ReadsInv'
  BY ReadsStep
<1>3. AitInv /\ ReadsInv => ReadsConserved
  BY InOnePlace
<1> QED
  BY <1>1, <1>2, <1>3, AitConsistent, PTL DEF Spec
=============================================================================
