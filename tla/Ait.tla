------------------------------- MODULE Ait -------------------------------
(***************************************************************************)
(* The address indirection table of the NVRAM model with its buffer in     *)
(* on-DIMM DRAM: ait_controller of src/src/general/ait.cpp and ait.h.      *)
(*                                                                         *)
(* One cycle: "lsq" tick_lsq serves the request at the head of the lsq,    *)
(* "lmemq" tick_lmemq moves the head of the local memory queue on by one   *)
(* cache line, "buf" tick_internal_buffer moves every entry that is due.   *)
(* The rest of the cycle belongs to the environment: the DRAM answers, the *)
(* RMW buffer above issues requests, EndCycle advances the clock.          *)
(*                                                                         *)
(* An address is a 4 KiB block and the 256 byte RMW block (`sub') in it;   *)
(* `wait' and `used' are next_action_clk and last_used_clk as in Rmw.  The *)
(* media below (nv_media, a static_memory) accepts everything and answers  *)
(* after a fixed time.                                                     *)
(***************************************************************************)
EXTENDS Integers, Sequences, FiniteSets

CONSTANTS
  Blocks,           \* AIT block addresses
  Subs,             \* RMW blocks inside an AIT block
  ReadIds,          \* identities of read callbacks
  NoCb,             \* the callback nullptr
  NoLine,           \* "this callback is not waiting for a block"
  BufferEntries,    \* cfg buffer_entries
  LsqEntries,       \* cfg lsq_entries
  LmemqEntries,     \* cfg lmemq_entries
  SubReqs,          \* lmemq_state.subreq_cnt: cache lines in an RMW block
  MediaRead,        \* read latency of nv_media
  MediaWrite,       \* write latency of nv_media
  Threshold,        \* cfg wear_leveling_threshold
  MigrationLatency  \* migration_block_entries * migration_latency

ASSUME AitAssumption ==
  /\ IsFiniteSet(Blocks)
  /\ NoCb \notin ReadIds
  /\ NoLine \notin Blocks \X Subs
  /\ BufferEntries \in Nat /\ LsqEntries \in Nat /\ LmemqEntries \in Nat
  /\ SubReqs \in Nat \ {0} /\ Threshold \in Nat \ {0}
  /\ MediaRead \in Nat /\ MediaWrite \in Nat /\ MigrationLatency \in Nat

VARIABLES
  lsq,       \* load/store queue
  lmemq,     \* requests to the local DRAM
  index,     \* lmemq_state.subreq_pending_index
  served,    \* lmemq_state.subreq_served, as the set of its true indices
  started,   \* lmemq_state.pending_front
  ent,       \* the internal buffer: an entry, or NoEntry, for every block
  writes,    \* write_cnt of every block, modulo the threshold
  dram,      \* lines the DRAM is reading
  dramfull,  \* the DRAM has a full queue
  phase,     \* the part of tick() that runs next
  todo,      \* entries that tick_internal_buffer has yet to move
  wanted,    \* history: the RMW block each outstanding read asked for
  since      \* history: writes to each block since its last migration

queues == <<lsq, lmemq, index, served, started>>
env == <<dram, dramfull>>
history == <<wanted, since>>
vars == <<queues, ent, writes, env, phase, todo, history>>

ReadTypes == {"read_miss", "read_hit"}
WriteTypes == {"write_miss", "write_hit"}
States == {"init", "pending_read_media", "pending_write_media", "pending_read_dram",
           "pending_write_dram", "pending_migration", "end"}
Callbacks == ReadIds \cup {NoCb}
ClkInvalid == -1
Now == BufferEntries

Request == [op : {"read", "write"}, blk : Blocks, sub : Subs, cb : Callbacks]
LmemRequest == [op : {"read", "write"}, blk : Blocks]
Entry == [type : ReadTypes \cup WriteTypes \cup {"none"}, state : States,
          pending : BOOLEAN, waiting : BOOLEAN, valid : BOOLEAN, dirty : BOOLEAN,
          wait : Nat \cup {ClkInvalid}, sub : Subs \cup {NoLine},
          cb : Callbacks, used : Nat]

NoEntry == [type |-> "none", state |-> "end", pending |-> FALSE,
            waiting |-> FALSE, valid |-> FALSE, dirty |-> FALSE,
            wait |-> ClkInvalid, sub |-> NoLine, cb |-> NoCb, used |-> 0]

NewEntry(type, sub) ==
  [NoEntry EXCEPT !.type = type, !.state = "init", !.pending = TRUE,
                  !.waiting = TRUE, !.sub = sub, !.used = Now]

\* Mutant of AssignNewRequest: the entry is not marked as pending.
AssignNewRequestIdle(e, type, sub) ==
  [e EXCEPT !.type = type, !.state = "init", !.waiting = TRUE, !.valid = FALSE, !.sub = sub]

AssignNewRequest(e, type, sub) ==
  [e EXCEPT !.type = type, !.state = "init", !.pending = TRUE,
            !.waiting = TRUE, !.valid = FALSE, !.sub = sub]

\* Mutant of AssignCallback: the callback is not stored.
AssignCallbackForgets(e, cb) == e

AssignCallback(e, cb) == [e EXCEPT !.cb = cb]

(***************************************************************************)
(* The internal buffer                                                     *)
(***************************************************************************)
Cached == {b \in Blocks : ent[b].type # "none"}

BufferFull == Cardinality(Cached) >= BufferEntries

PendingCurrent == lsq # <<>> \/ lmemq # <<>> \/ \E b \in Blocks : ent[b].pending

\* Mutant of Oldest: an entry that is in use can be the victim.
OldestOfAll == {b \in Cached : \A c \in Cached : ent[b].used <= ent[c].used}

Oldest ==
  {b \in Cached : /\ ent[b].state = "end"
                  /\ \A c \in Cached :
                       ent[c].state = "end" => ent[b].used <= ent[c].used}

CheckAndEvict ==
  IF BufferFull THEN {[ent EXCEPT ![v] = NoEntry] : v \in Oldest} ELSE {ent}

Acts(e) == e.state = "init" \/ (e.pending /\ ~e.waiting /\ e.wait <= 0)

Init ==
  /\ lsq = <<>> /\ lmemq = <<>>
  /\ index = -1 /\ served = {} /\ started = FALSE
  /\ ent = [b \in Blocks |-> NoEntry]
  /\ writes = [b \in Blocks |-> 0]
  /\ dram = {} /\ dramfull = FALSE
  /\ phase = "lsq" /\ todo = {}
  /\ wanted = [r \in ReadIds |-> NoLine]
  /\ since = [b \in Blocks |-> 0]

(***************************************************************************)
(* tick_lsq                                                                *)
(***************************************************************************)
Front == Head(lsq)

LsqDone ==
  /\ phase' = "lmemq"
  /\ UNCHANGED <<lmemq, index, served, started, env, todo, wanted>>

\* the front request becomes a request of its entry
Accept(hit, miss) ==
  LET e == ent[Front.blk]
  IN  /\ \/ /\ e.type = "none"
            /\ \E room_made \in CheckAndEvict :
                 ent' = [room_made EXCEPT ![Front.blk] =
                           AssignCallback(NewEntry(miss, Front.sub), Front.cb)]
         \/ /\ e.type # "none"
            /\ ent' = [ent EXCEPT ![Front.blk] =
                         AssignCallback(AssignNewRequest(e, hit, Front.sub), Front.cb)]
      /\ lsq' = Tail(lsq)

\* Mutant of ReadServed: a read takes over an entry that has one to answer.
ReadServedBusy ==
  LET e == ent[Front.blk]
  IN  IF e.type = "none" THEN CheckAndEvict # {} ELSE e.valid

\* a read waits for its entry to be readable and at rest
ReadServed ==
  LET e == ent[Front.blk]
  IN  IF e.type = "none" THEN CheckAndEvict # {} ELSE e.valid /\ ~e.pending

\* Mutant of WriteServed: a write takes over an entry that is in use.
WriteServedBusy ==
  LET e == ent[Front.blk]
  IN  e.type = "none" => CheckAndEvict # {}

WriteServed ==
  LET e == ent[Front.blk]
  IN  IF e.type = "none" THEN CheckAndEvict # {} ELSE ~e.pending

TickLsqRead ==
  /\ phase = "lsq" /\ lsq # <<>> /\ Front.op = "read"
  /\ \/ ReadServed /\ Accept("read_hit", "read_miss")
     \/ ~ReadServed /\ UNCHANGED <<lsq, ent>>
  /\ UNCHANGED <<writes, since>>
  /\ LsqDone

\* Mutant of RecordWrite: the write is not counted.
RecordWriteForgets(b) ==
  /\ since' = [since EXCEPT ![b] = @ + 1]
  /\ UNCHANGED writes

RecordWrite(b) ==
  /\ writes' = [writes EXCEPT ![b] = (@ + 1) % Threshold]
  /\ since' = [since EXCEPT ![b] = @ + 1]

TickLsqWrite ==
  /\ phase = "lsq" /\ lsq # <<>> /\ Front.op = "write"
  /\ \/ WriteServed /\ Accept("write_hit", "write_miss") /\ RecordWrite(Front.blk)
     \/ ~WriteServed /\ UNCHANGED <<lsq, ent, writes, since>>
  /\ LsqDone

TickLsqIdle ==
  /\ phase = "lsq" /\ lsq = <<>>
  /\ UNCHANGED <<lsq, ent, writes, since>>
  /\ LsqDone

TickLsq == TickLsqRead \/ TickLsqWrite \/ TickLsqIdle

(***************************************************************************)
(* tick_lmemq: the head of the queue is SubReqs requests to the DRAM, one  *)
(* at a time                                                               *)
(***************************************************************************)
\* Mutant of LastLine: off by one.
LastLinePast == SubReqs
LastLine == SubReqs - 1

\* Mutant of LineBack: the next line does not wait for this one.
LineBackAssumed(i) == TRUE
LineBack(i) == i \in served

\* The index after the set-up of a new head.  (The set-up would also drop a
\* head whose first line is marked as served: see NoInternalError.)
At(i) == i = IF started THEN index ELSE -1

LmemqDone ==
  /\ phase' = "buf"
  /\ todo' = {b \in Blocks : Acts(ent'[b])}
  /\ UNCHANGED <<lsq, writes, history>>

\* nothing to do, no room in the DRAM, or the current line is not back yet
LmemqWaits ==
  \/ lmemq = <<>> /\ UNCHANGED <<index, started>>
  \/ /\ lmemq # <<>>
     /\ \E i \in -1 .. LastLine :
          /\ At(i)
          /\ dramfull \/ (i # -1 /\ ~LineBack(i))
          /\ index' = i
     /\ started' = TRUE

\* the last line is done: the entry may go on in the next cycle
LmemqFinish ==
  /\ lmemq # <<>> /\ ~dramfull
  /\ At(LastLine) /\ LineBack(LastLine)
  /\ ent' = [ent EXCEPT ![Head(lmemq).blk].waiting = FALSE,
                        ![Head(lmemq).blk].wait = 1]
  /\ lmemq' = Tail(lmemq)
  /\ started' = FALSE
  /\ served' = {}
  /\ UNCHANGED <<index, env>>

\* The next line: a write counts as served at once, a read when it is back.
\* Either may have taken the last slot of a DRAM queue; nobody else fills them.
LmemqStart ==
  /\ lmemq # <<>> /\ ~dramfull
  /\ \E i \in 0 .. LastLine :
       /\ At(i - 1) /\ (i = 0 \/ LineBack(i - 1))
       /\ index' = i
       /\ \/ /\ Head(lmemq).op = "write"
             /\ served' = served \cup {i} /\ UNCHANGED dram
          \/ /\ Head(lmemq).op = "read"
             /\ dram' = dram \cup {i} /\ UNCHANGED served
  /\ started' = TRUE
  /\ dramfull' \in BOOLEAN
  /\ UNCHANGED <<lmemq, ent>>

TickLmemq ==
  /\ phase = "lmemq"
  /\ \/ LmemqWaits /\ UNCHANGED <<lmemq, served, ent, env>>
     \/ LmemqFinish
     \/ LmemqStart
  /\ LmemqDone

(***************************************************************************)
(* tick_internal_buffer: the table of state transitions                    *)
(***************************************************************************)
\* entry b of this type and state is the next one in the loop
Turn(b, type, state) ==
  /\ phase = "buf" /\ b \in todo
  /\ ent[b].type = type /\ ent[b].state = state
  /\ todo' = todo \ {b}
  /\ UNCHANGED <<phase, lsq, index, served, started, writes, env>>

\* through the media, which answers after n cycles
MoveMedia(b, e, n) ==
  /\ ent' = [ent EXCEPT ![b] = [e EXCEPT !.used = Now, !.waiting = FALSE, !.wait = n]]
  /\ UNCHANGED <<lmemq, history>>

\* issue_lmemq: through the local memory queue, which wakes the entry
MoveDram(b, op, e) ==
  \/ /\ Len(lmemq) < LmemqEntries
     /\ lmemq' = Append(lmemq, [op |-> op, blk |-> b])
     /\ ent' = [ent EXCEPT ![b] = [e EXCEPT !.used = Now, !.waiting = TRUE,
                                            !.wait = ClkInvalid]]
     /\ UNCHANGED history
  \/ Len(lmemq) >= LmemqEntries /\ UNCHANGED <<lmemq, ent, history>>

\* check_wear_leveling
WearLevelingDelay(b) ==
  IF (writes[b] + 1) % Threshold = 0 THEN MigrationLatency ELSE 0

\* the end of a request: its callback runs, the entry is at rest
Finish(b, e) ==
  /\ ent' = [ent EXCEPT ![b] = [e EXCEPT !.state = "end", !.pending = FALSE, !.used = Now]]
  /\ wanted' = IF e.cb = NoCb THEN wanted ELSE [wanted EXCEPT ![e.cb] = NoLine]
  /\ UNCHANGED <<lmemq, since>>

WriteTail(b, type) ==
  LET e == ent[b]
  IN  \/ /\ Turn(b, type, "pending_write_dram")
         /\ ent' = [ent EXCEPT ![b] =
                      [e EXCEPT !.state = "pending_migration", !.valid = TRUE, !.used = Now,
                                !.waiting = FALSE, !.wait = 1 + WearLevelingDelay(b)]]
         /\ since' = IF (writes[b] + 1) % Threshold = 0
                     THEN [since EXCEPT ![b] = 0] ELSE since
         /\ UNCHANGED <<lmemq, wanted>>
      \/ /\ Turn(b, type, "pending_migration")
         /\ MoveMedia(b, [e EXCEPT !.state = "pending_write_media"], MediaWrite)
      \/ /\ Turn(b, type, "pending_write_media")
         /\ Finish(b, [e EXCEPT !.dirty = FALSE])

WriteMiss(b) ==
  LET e == ent[b]
  IN  \/ /\ Turn(b, "write_miss", "init")
         /\ MoveMedia(b, [e EXCEPT !.state = "pending_read_media", !.pending = TRUE,
                                   !.dirty = TRUE, !.valid = FALSE], MediaRead)
      \/ /\ Turn(b, "write_miss", "pending_read_media")
         /\ MoveDram(b, "write", [e EXCEPT !.state = "pending_write_dram"])
      \/ WriteTail(b, "write_miss")

WriteHit(b) ==
  LET e == ent[b]
  IN  \/ /\ Turn(b, "write_hit", "init")
         /\ MoveDram(b, "write", [e EXCEPT !.state = "pending_write_dram", !.pending = TRUE,
                                           !.dirty = TRUE, !.valid = FALSE])
      \/ WriteTail(b, "write_hit")

ReadMiss(b) ==
  LET e == ent[b]
  IN  \/ /\ Turn(b, "read_miss", "init")
         /\ MoveMedia(b, [e EXCEPT !.state = "pending_read_media", !.pending = TRUE,
                                   !.dirty = FALSE, !.valid = FALSE], MediaRead)
      \/ /\ Turn(b, "read_miss", "pending_read_media")
         /\ MoveDram(b, "read", [e EXCEPT !.state = "pending_read_dram", !.valid = TRUE])
      \/ Turn(b, "read_miss", "pending_read_dram") /\ Finish(b, e)

ReadHit(b) ==
  LET e == ent[b]
  IN  \/ /\ Turn(b, "read_hit", "init")
         /\ MoveDram(b, "read", [e EXCEPT !.state = "pending_read_dram", !.pending = TRUE,
                                          !.valid = TRUE])
      \/ Turn(b, "read_hit", "pending_read_dram") /\ Finish(b, e)

TickInternalBuffer ==
  \E b \in Blocks : WriteMiss(b) \/ WriteHit(b) \/ ReadMiss(b) \/ ReadHit(b)

(***************************************************************************)
(* The rest of the cycle: the DRAM, the RMW buffer above, the clock        *)
(***************************************************************************)
Settled == phase = "buf" /\ todo = {}

\* the callback of a read of line i
DramAnswer(i) ==
  /\ Settled /\ i \in dram
  /\ dram' = dram \ {i}
  /\ served' = served \cup {i}
  /\ UNCHANGED <<lsq, lmemq, index, started, ent, writes, dramfull, phase, todo, history>>

DramDrains ==
  /\ Settled /\ dramfull
  /\ dramfull' = FALSE
  /\ UNCHANGED <<queues, ent, writes, dram, phase, todo, history>>

\* issue_request; the RMW buffer has one read of a block outstanding at most
IssueRead(b, s, r) ==
  /\ Settled /\ Len(lsq) < LsqEntries
  /\ wanted[r] = NoLine /\ \A x \in ReadIds : wanted[x] # <<b, s>>
  /\ lsq' = Append(lsq, [op |-> "read", blk |-> b, sub |-> s, cb |-> r])
  /\ wanted' = [wanted EXCEPT ![r] = <<b, s>>]
  /\ UNCHANGED <<lmemq, index, served, started, ent, writes, env, phase, todo, since>>

IssueWrite(b, s) ==
  /\ Settled /\ Len(lsq) < LsqEntries
  /\ lsq' = Append(lsq, [op |-> "write", blk |-> b, sub |-> s, cb |-> NoCb])
  /\ UNCHANGED <<lmemq, index, served, started, ent, writes, env, phase, todo, history>>

Rank(b) ==
  Cardinality({ent[c].used : c \in {x \in Cached : ent[x].used < ent[b].used}})

EndCycle ==
  /\ Settled
  /\ phase' = "lsq"
  /\ ent' = [b \in Blocks |->
               IF b \in Cached
               THEN [ent[b] EXCEPT !.wait = IF @ > 0 THEN @ - 1 ELSE @, !.used = Rank(b)]
               ELSE ent[b]]
  /\ UNCHANGED <<queues, writes, env, todo, history>>

Next ==
  \/ TickLsq \/ TickLmemq \/ TickInternalBuffer
  \/ \E i \in 0 .. SubReqs - 1 : DramAnswer(i)
  \/ DramDrains
  \/ \E b \in Blocks, s \in Subs : IssueWrite(b, s) \/ \E r \in ReadIds : IssueRead(b, s, r)
  \/ EndCycle

Spec == Init /\ [][Next]_vars

\* The controller is ticked for ever; the DRAM answers and makes room.
Fairness ==
  /\ WF_vars(TickLsq \/ TickLmemq \/ TickInternalBuffer \/ EndCycle)
  /\ SF_vars(DramDrains)
  /\ \A i \in 0 .. SubReqs - 1 : SF_vars(DramAnswer(i))

FairSpec == Spec /\ Fairness

(***************************************************************************)
(* Properties                                                              *)
(***************************************************************************)
\* Every variable has its type; an entry is a buffer_entry of ait.h.
TypeOK ==
  /\ lsq \in Seq(Request) /\ lmemq \in Seq(LmemRequest)
  /\ index \in -1 .. SubReqs - 1
  /\ served \in SUBSET (0 .. SubReqs - 1) /\ started \in BOOLEAN
  /\ ent \in [Blocks -> Entry]
  /\ writes \in [Blocks -> 0 .. Threshold - 1]
  /\ dram \in SUBSET (0 .. SubReqs - 1) /\ dramfull \in BOOLEAN
  /\ phase \in {"lsq", "lmemq", "buf"}
  /\ todo \in SUBSET Blocks
  /\ wanted \in [ReadIds -> (Blocks \X Subs) \cup {NoLine}]
  /\ since \in [Blocks -> Nat]

\* The pairs that init_state_trans_table fills.
Handled ==
  {"write_miss"} \X {"init", "pending_read_media", "pending_write_dram",
                     "pending_migration", "pending_write_media"}
  \cup {"write_hit"} \X {"init", "pending_write_dram", "pending_migration",
                         "pending_write_media"}
  \cup {"read_miss"} \X {"init", "pending_read_media", "pending_read_dram"}
  \cup {"read_hit"} \X {"init", "pending_read_dram"}

\* No exception and no assertion of the controller is reachable: no entry
\* meets a state with no transition or an invalid clock, the local memory
\* queue finds the entry it works for, and drops no request on set-up.
NoInternalError ==
  /\ phase = "buf" => \A b \in todo :
       /\ <<ent[b].type, ent[b].state>> \in Handled
       /\ ent[b].state = "init" \/ ent[b].wait # ClkInvalid
  /\ \A i \in DOMAIN lmemq : lmemq[i].blk \in Cached
  /\ Cardinality(Cached) <= BufferEntries
  /\ Len(lsq) <= LsqEntries /\ Len(lmemq) <= LmemqEntries
  /\ ~started => 0 \notin served

\* A request in the local memory queue and an entry that sleeps in
\* pending_read_dram or pending_write_dram belong together, one to one: no
\* entry sleeps for ever, and no completion wakes a wrong entry.
LmemqMatches ==
  /\ \A b \in Blocks :
       (ent[b].waiting /\ ent[b].state # "init") <=>
       (\E i \in DOMAIN lmemq : lmemq[i].blk = b)
  /\ \A i \in DOMAIN lmemq :
       /\ ent[lmemq[i].blk].state =
            IF lmemq[i].op = "read" THEN "pending_read_dram" ELSE "pending_write_dram"
       /\ \A j \in DOMAIN lmemq : lmemq[j].blk = lmemq[i].blk => i = j

\* The lines of the head request are served in order, one at a time: only the
\* current line can be outstanding in the DRAM, and no mark of an earlier
\* request is taken for an answer to this one.
OneLineAtATime ==
  /\ dram \subseteq IF started THEN {index} ELSE {}
  /\ served \subseteq IF started THEN (0 .. index) \ dram ELSE {}
  /\ started => 0 .. index - 1 \subseteq served

\* An entry at rest is readable and clean: a later read of the block is
\* served, and evicting it loses nothing.
RestIsReadable ==
  \A b \in Cached :
    /\ ent[b].state = "end" => ent[b].valid /\ ~ent[b].dirty /\ ~ent[b].pending
    /\ ent[b].state # "end" => ent[b].pending

\* Where callback r is kept, and the RMW block that it will be called with.
Places(r) ==
  {<<"lsq", i, lsq[i].blk, lsq[i].sub>> : i \in {j \in DOMAIN lsq : lsq[j].cb = r}}
  \cup {<<"buf", 0, b, ent[b].sub>> :
          b \in {c \in Blocks : ent[c].pending /\ ent[c].cb = r}}

\* A read that was accepted and not answered has its callback in one place,
\* with the block it asked for: the RMW buffer is woken once, at the right
\* entry, and never by a write or by a callback left in an entry.
ReadsConserved ==
  \A r \in ReadIds :
    IF wanted[r] = NoLine THEN Places(r) = {}
    ELSE \E p \in Places(r) : Places(r) = {p} /\ <<p[3], p[4]>> = wanted[r]

\* Wear leveling: a block is migrated at least once in Threshold writes,
\* although the count is taken when a write is accepted and tested later.
WearBounded == \A b \in Blocks : since[b] <= Threshold

\* Every read is answered.
EveryReadAnswered == \A r \in ReadIds : wanted[r] # NoLine ~> wanted[r] = NoLine
=============================================================================
