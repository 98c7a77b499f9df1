------------------------------- MODULE Rmw -------------------------------
(***************************************************************************)
(* The read-modify-write buffer of the NVRAM model: rmw_controller of      *)
(* src/src/general/rmw.cpp and rmw.h, with the queues (request_queue.h)    *)
(* and the entry map (buffer.h) that it is made of.                        *)
(*                                                                         *)
(* One cycle of the simulator is a walk through three phases:              *)
(*   "roq"  tick_roq       calls back the read at the head of the roq      *)
(*   "lsq"  tick_lsq       serves the request at the head of the lsq       *)
(*   "buf"  tick_internal_buffer  moves every entry that is due            *)
(* When the last due entry has moved, the rest of the cycle belongs to the *)
(* environment: the level above issues requests or drains, the AIT below   *)
(* takes and answers requests, and EndCycle advances the clock.            *)
(*                                                                         *)
(* Data is abstracted: an address is a block and a cache line in it, a     *)
(* callback is its identity.  A clock value is kept relative to curr_clk:  *)
(* `wait' is next_action_clk - curr_clk, and `used' is the rank of         *)
(* last_used_clk among the entries, which is all LRU compares.             *)
(***************************************************************************)
EXTENDS Integers, Sequences, FiniteSets

CONSTANTS
  Blocks,         \* block addresses (256 byte blocks)
  CL,             \* cache line indices inside a block (block_size_cl of them)
  ReadIds,        \* identities of read callbacks
  NoCb,           \* the callback nullptr
  NoLine,         \* "this callback is not waiting for a line"
  BufferEntries,  \* cfg buffer_entries
  LsqEntries,     \* cfg lsq_entries
  RoqEntries,     \* cfg roq_entries
  AitEntries,     \* lsq_entries of the AIT, the next level
  AitToRmw,       \* cfg ait_to_rmw_latency
  RmwToAit,       \* cfg rmw_to_ait_latency
  LocalRead,      \* cfg read_latency of the static local memory
  LocalWrite,     \* cfg write_latency of the static local memory
  SameLineReads   \* may the level above have two reads of one line queued?

ASSUME SizesAssumption ==
  /\ IsFiniteSet(Blocks)
  /\ IsFiniteSet(CL)
  /\ NoCb \notin ReadIds
  /\ NoLine \notin Blocks \X CL
  /\ BufferEntries \in Nat /\ LsqEntries \in Nat
  /\ RoqEntries \in Nat /\ AitEntries \in Nat
  /\ SameLineReads \in BOOLEAN

ASSUME LatencyAssumption ==
  /\ AitToRmw \in Nat /\ RmwToAit \in Nat
  /\ LocalRead \in Nat /\ LocalWrite \in Nat

VARIABLES
  lsq,      \* load/store queue
  roq,      \* read out queue
  ent,      \* the internal buffer: an entry, or NoEntry, for every block
  room,     \* free slots of the AIT's own lsq
  asked,    \* reads of each block that the AIT owes an answer
  phase,    \* the part of tick() that runs next
  todo,     \* entries that tick_internal_buffer has yet to move
  drained,  \* drain() was called
  wanted,   \* history: the line each outstanding read callback asked for
  owed      \* history: lines of writes taken from the lsq, not yet sent down

vars == <<lsq, roq, ent, room, asked, phase, todo, drained, wanted, owed>>

(***************************************************************************)
(* Types                                                                   *)
(***************************************************************************)
ReadTypes == {"read_cold", "read_ff"}
WriteTypes == {"write_rmw", "write_comb", "write_patch"}
Types == ReadTypes \cup WriteTypes \cup {"flush_back"}
States == {"init", "pending_read", "pending_modify", "pending_write",
           "pending_readout", "pending_ait_r", "pending_ait_w", "end"}

Callbacks == ReadIds \cup {NoCb}
ClkInvalid == -1          \* next_action_clk = clk_invalid
Now == BufferEntries      \* the rank of this cycle: above every EndCycle rank

Request == [op : {"read", "write"}, blk : Blocks, cl : CL, cb : Callbacks]
Readout == [blk : Blocks, cl : CL, cb : Callbacks]
Entry == [type : Types \cup {"none"}, state : States, pending : BOOLEAN,
          waiting : BOOLEAN, valid : BOOLEAN, dirty : BOOLEAN,
          wait : Nat \cup {ClkInvalid}, cl : SUBSET CL,
          cbs : [CL -> Callbacks], cbq : Seq(CL), used : Nat]

NoCallbacks == [c \in CL |-> NoCb]

NoEntry == [type |-> "none", state |-> "end", pending |-> FALSE,
            waiting |-> FALSE, valid |-> FALSE, dirty |-> FALSE,
            wait |-> ClkInvalid, cl |-> {}, cbs |-> NoCallbacks,
            cbq |-> <<>>, used |-> 0]

\* the constructor of buffer_entry
NewEntry(type, lines) ==
  [NoEntry EXCEPT !.type = type, !.state = "init", !.pending = TRUE,
                  !.waiting = TRUE, !.cl = lines, !.used = Now]

\* Mutant of AssignNewRequest: the entry is not marked as pending.
AssignNewRequestIdle(e, type, lines) ==
  [e EXCEPT !.type = type, !.state = "init", !.waiting = TRUE, !.valid = FALSE, !.cl = lines]

\* dirty, next_action_clk, last_used_clk and the callbacks keep their values
AssignNewRequest(e, type, lines) ==
  [e EXCEPT !.type = type, !.state = "init", !.pending = TRUE,
            !.waiting = TRUE, !.valid = FALSE, !.cl = lines]

\* Mutant of AssignCallback: the callback is not stored.
AssignCallbackForgets(e, c, cb) == [e EXCEPT !.cbq = Append(@, c)]

AssignCallback(e, c, cb) ==
  [e EXCEPT !.cbs[c] = cb, !.cbq = Append(@, c)]

ResetCallback(e) == [e EXCEPT !.cbs = NoCallbacks]

(***************************************************************************)
(* The internal buffer                                                     *)
(***************************************************************************)
Cached == {b \in Blocks : ent[b].type # "none"}

BufferFull == Cardinality(Cached) >= BufferEntries

BufferPending == \E b \in Blocks : ent[b].pending

\* Mutants of PendingCurrent: the read out queue or the buffer is forgotten.
PendingNoRoq == lsq # <<>> \/ BufferPending
PendingNoBuffer == lsq # <<>> \/ roq # <<>>

PendingCurrent == lsq # <<>> \/ roq # <<>> \/ BufferPending

\* Mutant of Oldest: an entry that is in use can be the victim.
OldestOfAll == {b \in Cached : \A c \in Cached : ent[b].used <= ent[c].used}

\* The least recently used of the entries that are at rest.  Entries of equal
\* age are found in the order of an unordered_map: any of them may be first.
Oldest ==
  {b \in Cached : /\ ent[b].state = "end"
                  /\ \A c \in Cached :
                       ent[c].state = "end" => ent[b].used <= ent[c].used}

\* The buffers that check_and_evict may leave with room for one more entry;
\* none when it returns false.  (Its `evicting' flag is never set.)
CheckAndEvict ==
  IF BufferFull THEN {[ent EXCEPT ![v] = NoEntry] : v \in Oldest} ELSE {ent}

\* Mutant of Acts: an entry that waits for a callback is moved too.
ActsWaiting(e) == e.state = "init" \/ (e.pending /\ e.wait <= 0)

\* Entries for which tick_internal_buffer calls a state transition.  A clock
\* that is clk_invalid is no reason to skip: the code throws there.
Acts(e) ==
  e.state = "init" \/ (e.pending /\ ~e.waiting /\ e.wait <= 0)

(***************************************************************************)
(* Initial state                                                           *)
(***************************************************************************)
Init ==
  /\ lsq = <<>> /\ roq = <<>>
  /\ ent = [b \in Blocks |-> NoEntry]
  /\ room = AitEntries
  /\ asked = [b \in Blocks |-> 0]
  /\ phase = "roq" /\ todo = {} /\ drained = FALSE
  /\ wanted = [r \in ReadIds |-> NoLine]
  /\ owed = [b \in Blocks |-> {}]

(***************************************************************************)
(* tick_roq                                                                *)
(***************************************************************************)
\* depart was set to a next_action_clk that had already been reached, so the
\* head of the roq is always due.
TickRoq ==
  /\ phase = "roq"
  /\ phase' = "lsq"
  /\ roq' = IF roq = <<>> THEN roq ELSE Tail(roq)
  /\ wanted' = IF roq # <<>> /\ Head(roq).cb # NoCb
               THEN [wanted EXCEPT ![Head(roq).cb] = NoLine] ELSE wanted
  /\ UNCHANGED <<lsq, ent, room, asked, todo, drained, owed>>

(***************************************************************************)
(* tick_lsq                                                                *)
(***************************************************************************)
Front == Head(lsq)

LsqDone == phase' = "buf" /\ todo' = {b \in Blocks : Acts(ent'[b])}

ReadPending(e) == e.pending /\ e.type \in ReadTypes

\* Mutant of Patchable: the length of the callback queue is not tested.
PatchableAlways(e) == ReadPending(e)

\* cb_bitmap is only ever cleared, so the length of the queue is the whole
\* test for patching a read into a pending one.
Patchable(e) == ReadPending(e) /\ Len(e.cbq) < Cardinality(CL)

\* Mutant of Forwardable: the data may not be there yet.
ForwardableEarly(e) == e.type # "none" /\ ~ReadPending(e)

Forwardable(e) == e.type # "none" /\ ~ReadPending(e) /\ e.valid

ReadServed ==
  LET e == ent[Front.blk]
  IN  IF e.type = "none" THEN CheckAndEvict # {} ELSE Patchable(e) \/ Forwardable(e)

LsqReadMiss ==
  /\ ent[Front.blk].type = "none"
  /\ \E room_made \in CheckAndEvict :
       ent' = [room_made EXCEPT ![Front.blk] =
                 AssignCallback(ResetCallback(NewEntry("read_cold", {Front.cl})),
                                Front.cl, Front.cb)]

LsqReadPatch ==
  /\ Patchable(ent[Front.blk])
  /\ ent' = [ent EXCEPT ![Front.blk] = AssignCallback(@, Front.cl, Front.cb)]

LsqReadForward ==
  /\ Forwardable(ent[Front.blk])
  /\ ent' = [ent EXCEPT ![Front.blk] =
               AssignCallback(ResetCallback(AssignNewRequest(@, "read_ff", {Front.cl})),
                              Front.cl, Front.cb)]

TickLsqRead ==
  /\ phase = "lsq" /\ lsq # <<>> /\ Front.op = "read"
  /\ \/ LsqReadMiss /\ lsq' = Tail(lsq)
     \/ LsqReadPatch /\ lsq' = Tail(lsq)
     \/ LsqReadForward /\ lsq' = Tail(lsq)
     \/ ~ReadServed /\ UNCHANGED <<lsq, ent>>
  /\ LsqDone
  /\ UNCHANGED <<roq, room, asked, drained, wanted, owed>>

\* Mutant of PatchRmw: the window opens while the AIT still owes the block.
PatchRmwEarly(e) ==
  e.type = "write_rmw" /\ e.state \in {"pending_ait_r", "pending_read", "pending_modify"}

\* The window in which later writes may still join a read-modify-write.
PatchRmw(e) ==
  e.type = "write_rmw" /\ e.state \in {"pending_read", "pending_modify"}

\* Mutant of Combined: a read of the block does not stop the combining.
CombinedAll == {i \in DOMAIN lsq : lsq[i].blk = Front.blk /\ lsq[i].op = "write"}

\* Positions of the writes that combine with the front one: all writes to its
\* block that no read of the block precedes.
Combined ==
  {i \in DOMAIN lsq :
     /\ lsq[i].blk = Front.blk /\ lsq[i].op = "write"
     /\ \A j \in 1 .. i : lsq[j].blk = Front.blk => lsq[j].op = "write"}

\* The subsequence of q at the positions in K (a set of one element).
Pick(q, K) ==
  LET n == Cardinality(K)
      rising == {f \in [1 .. n -> K] : \A i, j \in 1 .. n : i < j => f[i] < f[j]}
  IN  {[k \in 1 .. n |-> q[f[k]]] : f \in rising}

LinesHit == {lsq[i].cl : i \in Combined}

WriteTypeFor(lines) == IF lines = CL THEN "write_comb" ELSE "write_rmw"

WriteServed ==
  LET e == ent[Front.blk]
  IN  IF e.type = "none" THEN CheckAndEvict # {} ELSE PatchRmw(e) \/ ~e.pending

LsqWriteMiss ==
  /\ ent[Front.blk].type = "none"
  /\ \E room_made \in CheckAndEvict :
       ent' = [room_made EXCEPT ![Front.blk] =
                 NewEntry(WriteTypeFor(LinesHit), LinesHit)]

\* Mutant of MergedLines: the bitmap is assigned, not extended.
MergedLinesNew(e) == LinesHit

\* the bitmap of an entry that the front writes join
MergedLines(e) == LinesHit \cup e.cl

LsqWritePatchRmw ==
  LET lines == MergedLines(ent[Front.blk])
  IN  /\ PatchRmw(ent[Front.blk])
      /\ ent' = [ent EXCEPT ![Front.blk] =
                   IF WriteTypeFor(lines) = "write_comb"
                   THEN AssignNewRequest(@, "write_comb", lines)
                   ELSE [@ EXCEPT !.cl = lines]]

LsqWritePatch ==
  /\ ent[Front.blk].type # "none"
  /\ ~PatchRmw(ent[Front.blk]) /\ ~ent[Front.blk].pending
  /\ ent' = [ent EXCEPT ![Front.blk] = AssignNewRequest(@, "write_patch", LinesHit)]

TakeWrites ==
  /\ lsq' \in Pick(lsq, DOMAIN lsq \ Combined)
  /\ owed' = [owed EXCEPT ![Front.blk] = @ \cup LinesHit]

TickLsqWrite ==
  /\ phase = "lsq" /\ lsq # <<>> /\ Front.op = "write"
  /\ \/ LsqWriteMiss /\ TakeWrites
     \/ LsqWritePatchRmw /\ TakeWrites
     \/ LsqWritePatch /\ TakeWrites
     \/ ~WriteServed /\ UNCHANGED <<lsq, ent, owed>>
  /\ LsqDone
  /\ UNCHANGED <<roq, room, asked, drained, wanted>>

TickLsqIdle ==
  /\ phase = "lsq" /\ lsq = <<>>
  /\ UNCHANGED <<lsq, roq, ent, room, asked, drained, wanted, owed>>
  /\ LsqDone

(***************************************************************************)
(* tick_internal_buffer: the table of state transitions                    *)
(***************************************************************************)
\* entry b of this type and state is the next one in the loop
At(b, type, state) ==
  /\ phase = "buf" /\ b \in todo
  /\ ent[b].type = type /\ ent[b].state = state
  /\ todo' = todo \ {b}
  /\ UNCHANGED <<phase, lsq, drained, wanted>>

\* the transition waits for n more cycles in the next state
Move(b, state, n) ==
  /\ ent' = [ent EXCEPT ![b] = [@ EXCEPT !.state = state, !.used = Now, !.wait = n]]
  /\ UNCHANGED <<roq, room, asked, owed>>

\* the same through the local memory, whose answer is deterministic
MoveLocal(b, state, n) ==
  /\ ent' = [ent EXCEPT ![b] = [@ EXCEPT !.state = state, !.used = Now, !.wait = n,
                                         !.waiting = FALSE]]
  /\ UNCHANGED <<roq, room, asked, owed>>

\* Mutants of AitHasRoom: off by one, either way.
AitHasRoomAlways == room >= 0
AitHasRoomForTwo == room > 1

\* the AIT is asked first: ~next_level->full()
AitHasRoom == room > 0

\* issue_read_next_level: the AIT answers later, through the callback
AskAit(b, dirty) ==
  \/ /\ AitHasRoom
     /\ ent' = [ent EXCEPT ![b] =
                  [@ EXCEPT !.state = "pending_ait_r", !.pending = TRUE,
                            !.dirty = dirty, !.valid = FALSE, !.used = Now,
                            !.waiting = TRUE, !.wait = ClkInvalid]]
     /\ room' = room - 1
     /\ asked' = [asked EXCEPT ![b] = @ + 1]
     /\ UNCHANGED <<roq, owed>>
  \/ /\ ~AitHasRoom
     /\ UNCHANGED <<ent, room, asked, roq, owed>>

\* issue_write_next_level: the write is posted, only acceptance matters
SendAit(b) ==
  \/ /\ AitHasRoom
     /\ ent' = [ent EXCEPT ![b] =
                  [@ EXCEPT !.state = "pending_write", !.pending = TRUE,
                            !.valid = TRUE, !.used = Now,
                            !.waiting = FALSE, !.wait = 1]]
     /\ room' = room - 1
     /\ owed' = [owed EXCEPT ![b] = {}]
     /\ UNCHANGED <<roq, asked>>
  \/ /\ ~AitHasRoom
     /\ UNCHANGED <<ent, room, asked, roq, owed>>

\* the block is complete in the local memory: send it and come to rest
WriteTail(b, type) ==
  \/ At(b, type, "pending_ait_w") /\ Move(b, "pending_modify", RmwToAit)
  \/ At(b, type, "pending_modify") /\ SendAit(b)
  \/ /\ At(b, type, "pending_write")
     /\ ent' = [ent EXCEPT ![b] = [@ EXCEPT !.state = "end", !.pending = FALSE,
                                            !.dirty = FALSE, !.used = Now]]
     /\ UNCHANGED <<roq, room, asked, owed>>

\* init of write_comb and write_patch: no need to read the block first
WriteLocal(b) ==
  /\ ent' = [ent EXCEPT ![b] =
               [@ EXCEPT !.state = "pending_ait_w", !.pending = TRUE,
                         !.dirty = TRUE, !.valid = FALSE, !.used = Now,
                         !.waiting = FALSE, !.wait = LocalWrite]]
  /\ UNCHANGED <<roq, room, asked, owed>>

WriteRmw(b) ==
  \/ At(b, "write_rmw", "init") /\ AskAit(b, TRUE)
  \/ At(b, "write_rmw", "pending_ait_r") /\ Move(b, "pending_read", AitToRmw)
  \/ At(b, "write_rmw", "pending_read") /\ MoveLocal(b, "pending_ait_w", LocalWrite)
  \/ WriteTail(b, "write_rmw")

WriteComb(b) ==
  \/ At(b, "write_comb", "init") /\ WriteLocal(b)
  \/ WriteTail(b, "write_comb")

WritePatch(b) ==
  \/ At(b, "write_patch", "init") /\ WriteLocal(b)
  \/ WriteTail(b, "write_patch")

\* pending_readout: issue_roq, then more reads of this block, or rest
IssueRoq(b, again) ==
  \/ /\ Len(roq) < RoqEntries /\ ent[b].cbq # <<>>
     /\ LET c == Head(ent[b].cbq)
            rest == Tail(ent[b].cbq)
        IN  /\ roq' = Append(roq, [blk |-> b, cl |-> c, cb |-> ent[b].cbs[c]])
            /\ ent' = [ent EXCEPT ![b] =
                         [@ EXCEPT !.cbq = rest, !.used = Now,
                                   !.state = IF rest # <<>> THEN again ELSE "end",
                                   !.pending = rest # <<>>]]
     /\ UNCHANGED <<room, asked, owed>>
  \/ /\ Len(roq) >= RoqEntries
     /\ UNCHANGED <<ent, room, asked, roq, owed>>

ReadCold(b) ==
  \/ At(b, "read_cold", "init") /\ AskAit(b, FALSE)
  \/ At(b, "read_cold", "pending_ait_r") /\ Move(b, "pending_read", AitToRmw)
  \/ /\ At(b, "read_cold", "pending_read")
     /\ ent' = [ent EXCEPT ![b] =
                  [@ EXCEPT !.state = "pending_readout", !.valid = TRUE,
                            !.used = Now, !.waiting = FALSE, !.wait = LocalRead]]
     /\ UNCHANGED <<roq, room, asked, owed>>
  \/ At(b, "read_cold", "pending_readout") /\ IssueRoq(b, "pending_read")

ReadFf(b) ==
  \/ /\ At(b, "read_ff", "init")
     /\ ent' = [ent EXCEPT ![b] =
                  [@ EXCEPT !.state = "pending_readout", !.pending = TRUE,
                            !.dirty = FALSE, !.valid = TRUE, !.used = Now,
                            !.waiting = FALSE, !.wait = LocalRead]]
     /\ UNCHANGED <<roq, room, asked, owed>>
  \/ At(b, "read_ff", "pending_readout") /\ IssueRoq(b, "init")

TickInternalBuffer ==
  \E b \in Blocks : \/ WriteRmw(b) \/ WriteComb(b) \/ WritePatch(b)
                    \/ ReadCold(b) \/ ReadFf(b)

(***************************************************************************)
(* The rest of the cycle: the level above, the AIT, the clock              *)
(***************************************************************************)
Settled == phase = "buf" /\ todo = {}

LineBusy(b, c) ==
  \/ \E i \in DOMAIN lsq : lsq[i].op = "read" /\ lsq[i].blk = b /\ lsq[i].cl = c
  \/ \E i \in DOMAIN ent[b].cbq : ent[b].cbq[i] = c

\* issue_request; a refused request leaves no trace and is not a step
IssueRead(b, c, r) ==
  /\ Settled /\ ~drained /\ Len(lsq) < LsqEntries
  /\ r \in ReadIds => wanted[r] = NoLine
  /\ SameLineReads \/ ~LineBusy(b, c)
  /\ lsq' = Append(lsq, [op |-> "read", blk |-> b, cl |-> c, cb |-> r])
  /\ wanted' = IF r = NoCb THEN wanted ELSE [wanted EXCEPT ![r] = <<b, c>>]
  /\ UNCHANGED <<roq, ent, room, asked, phase, todo, drained, owed>>

IssueWrite(b, c) ==
  /\ Settled /\ ~drained /\ Len(lsq) < LsqEntries
  /\ lsq' = Append(lsq, [op |-> "write", blk |-> b, cl |-> c, cb |-> NoCb])
  /\ UNCHANGED <<roq, ent, room, asked, phase, todo, drained, wanted, owed>>

\* drain: called once, after the last request (trace.cpp)
Drain ==
  /\ Settled /\ ~drained
  /\ drained' = TRUE
  /\ ent' = [b \in Blocks |-> IF ent[b].dirty /\ ent[b].state = "end"
                              THEN [ent[b] EXCEPT !.type = "flush_back", !.state = "init"]
                              ELSE ent[b]]
  /\ UNCHANGED <<lsq, roq, room, asked, phase, todo, wanted, owed>>

\* the AIT takes a request from its queue
AitTake ==
  /\ Settled /\ room < AitEntries
  /\ room' = room + 1
  /\ UNCHANGED <<lsq, roq, ent, asked, phase, todo, drained, wanted, owed>>

\* the AIT has the block: next_level_read_callback
AitAnswer(b) ==
  /\ Settled /\ asked[b] > 0
  /\ asked' = [asked EXCEPT ![b] = @ - 1]
  /\ ent' = [ent EXCEPT ![b] = [@ EXCEPT !.waiting = FALSE, !.wait = 1]]
  /\ UNCHANGED <<lsq, roq, room, phase, todo, drained, wanted, owed>>

\* rank of b's last use among the last uses of all entries
Rank(b) ==
  Cardinality({ent[c].used : c \in {x \in Cached : ent[x].used < ent[b].used}})

EndCycle ==
  /\ Settled
  /\ phase' = "roq"
  /\ ent' = [b \in Blocks |->
               IF b \in Cached
               THEN [ent[b] EXCEPT !.wait = IF @ > 0 THEN @ - 1 ELSE @, !.used = Rank(b)]
               ELSE ent[b]]
  /\ UNCHANGED <<lsq, roq, room, asked, todo, drained, wanted, owed>>

TickLsq == TickLsqRead \/ TickLsqWrite \/ TickLsqIdle

Upstream ==
  \/ \E b \in Blocks, c \in CL, r \in Callbacks : IssueRead(b, c, r)
  \/ \E b \in Blocks, c \in CL : IssueWrite(b, c)
  \/ Drain

Next ==
  \/ TickRoq \/ TickLsq \/ TickInternalBuffer
  \/ Upstream
  \/ AitTake
  \/ \E b \in Blocks : AitAnswer(b)
  \/ EndCycle

Spec == Init /\ [][Next]_vars

\* Every component is ticked in every cycle (component.h), and the AIT takes
\* and answers every request it accepted.
Fairness ==
  /\ WF_vars(TickRoq \/ TickLsq \/ TickInternalBuffer \/ EndCycle)
  /\ SF_vars(AitTake)
  /\ \A b \in Blocks : SF_vars(AitAnswer(b))

FairSpec == Spec /\ Fairness

(***************************************************************************)
(* Properties                                                              *)
(***************************************************************************)
\* Every variable has its type; an entry is a buffer_entry of rmw.h.
TypeOK ==
  /\ lsq \in Seq(Request)
  /\ roq \in Seq(Readout)
  /\ ent \in [Blocks -> Entry]
  /\ room \in 0 .. AitEntries
  /\ asked \in [Blocks -> Nat]
  /\ phase \in {"roq", "lsq", "buf"}
  /\ todo \in SUBSET Blocks
  /\ drained \in BOOLEAN
  /\ wanted \in [ReadIds -> (Blocks \X CL) \cup {NoLine}]
  /\ owed \in [Blocks -> SUBSET CL]

\* The pairs that init_state_trans_table fills.
Handled ==
  {"write_rmw"} \X {"init", "pending_ait_r", "pending_read", "pending_ait_w",
                    "pending_modify", "pending_write"}
  \cup {"write_comb", "write_patch"}
         \X {"init", "pending_ait_w", "pending_modify", "pending_write"}
  \cup {"flush_back"} \X {"init", "pending_ait_w", "pending_write"}
  \cup {"read_cold"} \X {"init", "pending_ait_r", "pending_read", "pending_readout"}
  \cup {"read_ff"} \X {"init", "pending_readout"}

\* The throws of tick_internal_buffer and issue_roq, at entry b's turn.
BufferThrows(b) ==
  \/ <<ent[b].type, ent[b].state>> \notin Handled
  \/ ent[b].state # "init" /\ ent[b].wait = ClkInvalid
  \/ ent[b].state = "pending_readout" /\ ent[b].cbq = <<>>

\* The throws of tick_lsq_read and reset_callback, at the front request.
LsqReadThrows(e) ==
  \/ ReadPending(e) /\ e.cbq = <<>>
  \/ Forwardable(e) /\ e.cbq # <<>>

\* No "Internal error" exception of the buffer, its entries and its queues is
\* reachable: no entry meets a state with no transition, an invalid clock or
\* an empty callback queue; no queue overflows; no answer of the AIT finds
\* its entry gone.
NoInternalError ==
  /\ phase = "buf" => \A b \in todo : ~BufferThrows(b)
  /\ (phase = "lsq" /\ lsq # <<>> /\ Front.op = "read") => ~LsqReadThrows(ent[Front.blk])
  /\ \A b \in Blocks : /\ Len(ent[b].cbq) <= Cardinality(CL)
                       /\ asked[b] > 0 => ent[b].type # "none"
  /\ Cardinality(Cached) <= BufferEntries
  /\ Len(lsq) <= LsqEntries /\ Len(roq) <= RoqEntries

\* The AIT owes block b a read exactly while b's entry sleeps in
\* pending_ait_r, and never two: no answer wakes an entry that moved on, was
\* evicted or was given a new request, and no entry sleeps for nothing.
AitReadsMatch ==
  \A b \in Blocks :
    asked[b] = IF ent[b].state = "pending_ait_r" /\ ent[b].waiting THEN 1 ELSE 0

\* An entry at rest is clean, readable and has no callback left, so evicting
\* it (check_and_evict looks at the state only) loses nothing, and drain never
\* finds an entry to flush back.
RestIsClean ==
  \A b \in Cached :
    /\ ent[b].state = "end" =>
         ~ent[b].pending /\ ~ent[b].dirty /\ ent[b].valid /\ ent[b].cbq = <<>>
    /\ ent[b].state # "end" => ent[b].pending
    /\ ent[b].type # "flush_back"

\* Every line of a write that left the lsq is in the bitmap of a buffered
\* write that has not been sent to the AIT yet, through combining, patching
\* and reassignment of the entry: no write is dropped.
WritesKept ==
  \A b \in Blocks : owed[b] # {} =>
    /\ ent[b].type \in WriteTypes
    /\ ent[b].state \notin {"pending_write", "end"}
    /\ owed[b] \subseteq ent[b].cl

\* A read is served from a block only when no earlier write to the block is
\* still to be sent, and no write joins a block that has reads to serve.
ReadWriteOrder ==
  \A b \in Blocks : ent[b].cbq # <<>> =>
    ent[b].type \in ReadTypes /\ ent[b].pending /\ owed[b] = {}

\* Where callback r is kept, and the line that it will be called with.
Places(r) ==
  {<<"lsq", i, lsq[i].blk, lsq[i].cl>> : i \in {j \in DOMAIN lsq : lsq[j].cb = r}}
  \cup {<<"roq", i, roq[i].blk, roq[i].cl>> : i \in {j \in DOMAIN roq : roq[j].cb = r}}
  \cup UNION {{<<"buf", i, b, ent[b].cbq[i]>> :
                 i \in {j \in DOMAIN ent[b].cbq : ent[b].cbs[ent[b].cbq[j]] = r}} :
              b \in Blocks}

\* A read that was accepted and not called back yet has its callback in
\* exactly one place, with the line it asked for; afterwards it has none.  So
\* every callback is called once, for its own line.
ReadsConserved ==
  \A r \in ReadIds :
    IF wanted[r] = NoLine THEN Places(r) = {}
    ELSE \E p \in Places(r) : Places(r) = {p} /\ <<p[3], p[4]>> = wanted[r]

\* When pending_current is false every write the buffer took was sent to the
\* AIT and the AIT has no read of ours: a drained buffer lost no write.
QuietMeansSent ==
  ~PendingCurrent => \A b \in Blocks : owed[b] = {} /\ asked[b] = 0

\* When pending_current is false every read was called back.
QuietMeansAnswered ==
  ~PendingCurrent => \A r \in ReadIds : wanted[r] = NoLine

\* The requests of block b in queue q.
OfBlock(q, b) == SelectSeq(q, LAMBDA x : x.blk = b)

\* The requests of a block leave the lsq in the order in which they came: write
\* combining takes writes out of the middle of the lsq, past other blocks, but
\* never past a read of the block.
NoOvertakingStep ==
  \A b \in Blocks :
    LET before == OfBlock(lsq, b)
        after == OfBlock(lsq', b)
        n == Len(before) - Len(after)
    IN  IF n >= 0 THEN after = SubSeq(before, n + 1, Len(before))
                  ELSE before = SubSeq(after, 1, Len(before))

NoOvertaking == [][NoOvertakingStep]_lsq

\* After drain() the buffer comes to rest: the loop in trace.cpp that ticks
\* until nothing is pending ends.
DrainCompletes == drained ~> ~PendingCurrent

\* Every read is called back (common.h: a dynamic request "will call a
\* callback function once served").
EveryReadAnswered == \A r \in ReadIds : wanted[r] # NoLine ~> wanted[r] = NoLine

(***************************************************************************)
(* The inductive invariant behind the safety properties                    *)
(***************************************************************************)
\* What the fields of entry e say about each other, about the number a of
\* reads that the AIT owes it and about the lines o it has yet to send.
EntryOK(e, a, o) ==
  /\ e.type = "none" => e.state = "end"
  /\ e.state = "end" => ~e.pending /\ ~e.dirty /\ (e.type = "none" \/ e.valid)
  /\ e.state # "end" => e.pending /\ <<e.type, e.state>> \in Handled
  /\ e.type # "flush_back"
  /\ e.waiting => e.state \in {"init", "pending_ait_r"}
  /\ e.state \in {"init", "end"} \/ e.waiting \/ e.wait # ClkInvalid
  /\ (e.type \in ReadTypes /\ e.pending) <=> e.cbq # <<>>
  /\ (e.type \in ReadTypes /\ e.state # "init") => ~e.dirty
  /\ e.state \in {"pending_readout", "pending_write"} => e.valid
  /\ (e.type \in WriteTypes /\ e.valid) => e.state \in {"pending_write", "end"}
  /\ a = IF e.state = "pending_ait_r" /\ e.waiting THEN 1 ELSE 0
  /\ o # {} => /\ e.type \in WriteTypes
               /\ e.state \notin {"pending_write", "end"}
               /\ o \subseteq e.cl

\* Entries that tick_internal_buffer is going to move are still due.
TodoActs == phase = "buf" => \A b \in todo : Acts(ent[b])

\* Every entry is consistent whenever a step begins, in all interleavings of
\* the buffer with the lsq, the AIT's answers and drain: the states, flags,
\* callback queue and bitmap of an entry that rmw.cpp keeps in separate fields
\* never disagree.
EntryInv ==
  /\ \A b \in Blocks : EntryOK(ent[b], asked[b], owed[b])
  /\ TodoActs
=============================================================================
