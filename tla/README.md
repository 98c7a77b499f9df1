# A TLA+ model of VANS

VANS simulates a memory system cycle by cycle: a processor side driver (a trace
or gem5) sends cache line requests to a memory controller, which sends them to
NVRAM or DDR4 memories. This directory models the components that hold the
simulator's own logic, checks them with TLC on small instances and proves their
safety for all instances with TLAPS.

Paths below are relative to `src/src/general/`; `vans.cc` is in `src/src/gem5/patch/`,
the files whose names have `Cxl` in `src/src/cxl/`, configurations in `src/config/`.

## 1. The system

```
 trace.cpp / gem5 wrapper
        |  issue_request (may refuse)      ^ callback
       rmc          start address, choice of the component
        |
       imc          rpq, wpq; first come first serve; ADR flush
        |  page striping (mapping.h)
   +----+----+
  rmw       rmw     lsq, roq, entry per 256 byte block
   |         |
  ait       ait     lsq, lmemq, entry per 4 KiB block; DDR4 as local memory
   |         |
 nv_media  nv_media fixed latency
```

A component is ticked once per cycle: its controller, its local memory, then the
components below (`component.h` 33-37, 71-76). A request goes down by a call of
`issue_request`, which is refused when the queue is full; the answer comes up by
a callback in a later cycle, or is "deterministic": the issuer is told the clock.
There are no threads, except in the CXL mocks. What is hard is that a request is
spread over many cycles and that its state lives in separate fields and queues
which later requests, answers and evictions touch in between.

| Component | State | Operations | What makes it correct |
|---|---|---|---|
| `imc_controller` | rpq, wpq | issue, tick, flush_wpq, adr | order of arrival; each request reaches its mapped place; nothing waits for ever |
| `rmw_controller` | lsq, roq, map of entries (state, flags, line bitmap, callbacks) | issue, tick_roq, tick_lsq (read miss, patch, forward; write miss, combine, patch), state table, eviction, drain, AIT callback | no write lost, no read answered before an earlier write, each callback once, no internal error, drain ends |
| `ait_controller` | lsq, lmemq and its sub-request state, entries, wear table | issue, tick_lsq, tick_lmemq, state table, eviction | lines served in order, completions wake the right entry, bounded wear |
| `static_memory`, `nv_media` | clock | issue | always accept, fixed latency |
| `dram_media_controller` | read, write, act, misc, pending queues, banks | issue, tick, schedule, refresh | order of accesses to a line, every read answered, refresh in time |
| `rmc`, `nvram_system`, `ddr4_system` | start address | issue, wiring | address arithmetic |
| trace driver | stall, critical_stall, idle | read a line, issue, tick, drain | every line issued once, ends |
| gem5 wrapper | packets in flight, response queue, stall flags | receive, retry, complete | every packet answered once |
| CXL command path, mocks | response slot, threads, timeouts | send, receive, deliver | a response answers its own command |
| config, factory, dumper, counters | none that matters | parse, print | out of scope |

`PROJECT.json` lists the components with their status, and the hazards with the
line at which each bites.

## 2. Modules

| Module | Models |
|---|---|
| `Rmw` | `rmw_controller`, with its environment: the level above and the AIT |
| `Ait` | `ait_controller`, with its environment: the RMW buffer above and the DRAM |
| `Imc` | `imc_controller` and `stride_mapping_4096`, between a driver and the memories below |
| `TraceDriver` | `run_trace` of `trace.cpp`; extends `Imc`, which it drives, with `drain` and the recursive `pending` of `controller.h` |
| `Gem5` | the gem5 memory object `vans.cc`, its wrapper and `rmc`; extends `Imc` as well |
| `Dram` | `dram_media_controller` over the banks of `dram.h` and the command tables of `ddr4.cpp` |
| `CoherentMemory` | an abstract specification: what a memory with queued writes promises to the level above |
| `Cxl` | the CXL command path and its mocks (`src/src/cxl`) |
| `MCRmw`, `MCAit`, `MCImc`, `MCTrace`, `MCGem5`, `MCDram`, `MCCxl` | instances for TLC |
| `RmwProofs`, `AitProofs`, `ImcProofs`, `TraceProofs`, `Gem5Proofs`, `DramProofs`, `CxlProofs` | the inductive invariant of each component and what follows from it; `TraceProofs` and `Gem5Proofs` extend `ImcProofs` |
| `DramCoherenceProofs` | `Dram` implements `CoherentMemory` |

### How the models correspond to the code

*Cycles.* A controller's `tick` is a walk through phases, one action per
`tick_...` function (`phase`). Within `tick_internal_buffer` the code visits the
entries in the order of an `unordered_map`; the model visits the due ones
(`todo`) in any order. Everything that happens outside the controller's own tick
happens when the walk is over (`Settled`): components are ticked one after
another, so nobody can see the controller half way. `EndCycle` advances the clock.

*Clocks.* Only differences of clocks are compared. `wait` is
`next_action_clk - curr_clk`, with -1 for `clk_invalid`; `used` is the rank of
`last_used_clk` among the entries, which LRU needs; `arrive` in `Imc` is a rank
too. No other bound on time is needed and the state space is finite.

*Addresses and callbacks.* A block is a model value, a cache line of it another
one, a callback its identity. In `Imc` an address is its page number, since the
mapping is arithmetic on pages.

*Entries.* `ent` is total over the blocks, `NoEntry` stands for a block without
entry. The fields are those of `buffer_entry`: `cl` is `cl_bitmap`, `cbs`
`callbacks`, `cbq` `pending_request_cl_index`. `cb_bitmap` is left out since no
code sets it. `evicting` and `buffer_index` are left out: the first is never set,
the second never read.

*Transition tables.* `WriteRmw`, `WriteComb`, `WritePatch`, `ReadCold`, `ReadFf`
(and `WriteMiss`, `WriteHit`, `ReadMiss`, `ReadHit` in `Ait`) are the rows of
`init_state_trans_table`; a disjunct is a cell. The rows of `flush_back` have no
action, because no entry can get that type: drain looks for entries that are
dirty and at rest, and `EvictionSafe` proves that there are none. `Drain` itself
is modelled in full, so that this is a result and not an assumption.

*Exceptions and assertions.* A `throw` is not an action. `NoInternalError` says
that its condition never holds where the code would test it. An `assert` of
`vans.cc` is a guard, and `OneWaker`, `RequestsMatchPackets` and
`AnswerFindsPacket` say whether it can be false. `writeComplete` has no assertion:
it dereferences `writes.find(addr)` (`vans.cc:245`) whether or not there is a
packet. With a start address there may be none, the process crashes on `end()`, and
the model stops within the tick (`WritesFiled`); `gem5` checks for deadlock, so it
shows that this does not happen without a start address, and `gem5_addr` does not.

*History.* `wanted`, `owed` (`Rmw`), `wanted`, `since` (`Ait`), `out`, `orig`,
`born` (`Imc`), `sent`, `shared` (`TraceDriver`), `owed` (`Gem5`), `log`, `overlapped`
(`Cxl`), `wanted`, `mem`, `latest` and the field `val` (`Dram`) record what the
properties compare with; no guard that models code reads them. The guards of
`IssueRead` do: the environment uses a callback identity again only after it was
called.

*The two drivers.* `TraceDriver` and `Gem5` replace the driver of `Imc` by the
code that really drives it and keep its tick. A step of `Imc` is conjoined with
what the driver sees of it: `out` tells what was sent down, and so which write
callbacks were called. In `TraceDriver`, `turn` alternates between an iteration
of the main loop and a tick; the memories below take and answer requests after
the tick, as they are ticked after the controller; `free` is the room in the lsq of
nvram, or in the queues of a DRAM. `memory` says what they are,
which the driver notices in two places:

* Whose callback is called. A DRAM calls the callback of the read that it served.
  The RMW buffer of nvram has one place for the callback of a cache line: when
  several reads of the line wait, a later one's is called at the turn of an earlier
  one, and again at its own. `MemoryAnswers` lets this happen, or not, for any two
  reads of a page of a component that are owed at a time (`Collide`, `shared`), for
  in this model an address is a page.
* What `pending()` tells the drain loop (`BelowPending`). nvram sees every read. The
  DRAM looks at its pending queue, which a read enters at the end of its way: it may
  say no while reads are owed. When nothing else is pending either, `run_trace`
  returns, nothing is ticked any more, and these reads are never served. nvram also
  says yes for a while after its last write was taken; the model leaves those cycles
  out, in which the controller has nothing to do.

The trace is chosen in `TraceInit` among all traces of
up to `MaxLines` lines; a line is its type, page and idle time, so that parsing
is left out. In `Gem5` the peer port, the event queue (`scheduled`) and the drain
manager (`drain_state`) are external and modelled from how `vans.cc` uses them: a
peer sends no second packet while one is refused, sends the refused one when it
is asked, and may refuse any response. `PageOf` fixes the page of each packet.
The write callback and the read callback differ in when they come: a write's when
it leaves the wpq, a read's when a memory below answers (`below`).

*CXL.* `wiring` says which of the two hosts is used, chosen in `Init`. In `"impl"`
a command runs to its response within `sendCommand`. In `"mock"` every command
has a thread that becomes the device's thread; they run in any order, since
nothing but sleeps orders them. A response is represented by the number of the
command it answers; the mocks answer every command with success. A timeout
changes no state, so it needs no action: the program simply sends the next
command while threads are still running.

*Refinement.* `CoherentMemory` knows the value that was last written to each line
(`store`), the one in its bank (`bank`), and which lines have writes under way
(`queued`). A read that it accepts is answered with the value of `store` at that
moment, or, only while its line is in `queued`, by forwarding. The last write of a
line to reach the bank is the last one that was accepted. `Dram` maps `store` to
`latest`, `bank` to `mem`, `queued` to `Unwritten` and each unanswered read to its
line and the value it will carry (`Asked`); `ReadsCoherent` says that every step of
the controller is a step of that memory or no step. So reordering between the five
queues, ties of clocks and row conflicts are invisible from above.

*Forwarding.* `issue_request` goes through the write queue from the front, stops at
the first write of the line, which is the oldest, and copies nothing
(`dram_memory.h` 163-172): in a simulator without data it only has to know that
there is one. The model gives a forwarded read no value (`NoValue`), so no property
says which write it sees. With the oldest write's data it would not be coherent as
soon as two writes of a line are queued.

*DRAM.* `Dram` has an action for each part of `tick`: `Answer`, `QueueRefresh`,
`Schedule`; requests come between ticks. A disjunct of `Schedule` is a DDR4
command. The bank state and its open row are one variable (`open`), and the
prerequisite table is `FirstCmd`. The timing table is abstracted: after a command,
the next one may have to wait for up to `MaxDelay` cycles, the largest delay of
the table, so every timing that the table allows is a behaviour of the model.
`DramAssumption` says that the refreshes of all ranks fit in a refresh interval;
in the configurations nRFC, the largest delay, is 467 and nREFI 10400, with one
rank. The simulator moves no data; the values are history, and tell which write
a read would have seen. Power-down and self-refresh are left out: no code
requests them.

*Environment.* `Rmw` sees the AIT as a queue with `AitEntries` slots that frees a
slot (`AitTake`) or answers a read (`AitAnswer`) at any time; `Ait` sees the DRAM
as a memory that answers a line, gets full and drains at any time, and its RMW
buffer as a source of any requests, with one read of a block outstanding, which
`AnswersMatch` shows of the RMW buffer. `SameLineReads` says whether the level
above may have two reads of one cache line in flight. A processor cache merges
such reads; the trace driver does not.

## 3. What is checked

| Run | Configuration | Shows |
|---|---|---|
| `rmw_safety` | 1 entry, 2 blocks of 2 lines, lsq 3, reads without identity, any number of a line | no internal error; the AIT owes exactly the reads that entries wait for; no taken write is lost; no read passes an earlier write, and the requests of a block leave in order; not pending means sent; the inductive invariant |
| `rmw_reads` | 2 entries, 3 blocks | an entry at rest holds nothing; every callback is in one place; not pending means answered |
| `rmw_live` | 1 entry, 2 blocks, fair | drain ends, every read is called back |
| `rmw_same_line` | 1 block, two reads of a line | **violation**: a callback is overwritten |
| `imc_retry` | 2 memories, 3 pages, rpq 2, wpq 2 | **violation**: a read that had to wait is mapped twice |
| `ait_safety` | 2 entries, 3 blocks of 2, lmemq 1, 2 lines | no internal error; the local queue and the sleeping entries match; lines one at a time; bounded wear; every callback in one place |
| `ait_live` | 1 entry, 2 blocks, fair | every read is answered |
| `dram` | 1 bank, 2 rows, queues of 2, 1 read, delay 2, refresh every 7 cycles, fair | implements `CoherentMemory`; an activated row stays open; refreshes are in time; a read is in one queue and is answered |
| `trace` | all traces of up to 4 of 4 lines, 2 memories of 1 slot, nvram or ddr4, rpq 1, wpq 2, fair | every line is sent once; the driver waits for a critical load, unless nvram confuses callbacks; the simulation ends |
| `gem5` | 3 packets of all kinds on 2 pages, 1 memory, rpq 2, wpq 1, fair | first come first serve; every callback finds its packet; one waker for the responses; no packet is lost or answered twice; the end of a drain is signalled; every packet is answered |
| `gem5_addr` | the same with a start address | **violation**: a callback looks under another address than the packet's |
| `cxl` | 4 commands, 2 addresses, sizes 1 and 2, both wirings | a response answers the last command unless an earlier one was in flight; reads see the last write; the two executors agree |

*Why the bounds are enough.* Every hazard is about one block and its competitors:
one more block than entries makes eviction and refusal happen; two lines make the
difference between a partial and a complete write, and between equal and
different lines; a queue of one slot is full as soon as it is used, so refusal
and retry happen everywhere; an lsq of two gives combining something to take, one
of three something to skip or to stop at in between. A latency of 1 separates
the cycle of a step from its completion; a longer one only adds cycles in which
the entry is not due. A threshold of two makes migrations happen and not happen;
`SubReqs` is 2 instead of 4, which has a first, a last and a next line. In
`dram`, a bank with two rows has conflicts and hits; with queues of two, two writes
of a line, or of both lines, are queued in either order while a third is activated
and a read waits, is forwarded or is answered. There is one read at a time: what
the writes and the read do to each other does not depend on further reads, and
`ReadsCoherent` and `ReadsConserved` are proved for any number of them. The order of
answers in the pending queue, when several reads are due, is not in the run; delay 2 makes a command come at once, late, or at the last moment, and 7
is the smallest interval that `DramAssumption` allows, where a refresh is
pressed hardest. In `trace`, four lines fill the queues of the controller and
of a memory and leave one to be refused; an idle time of 1 goes through both ways
of the idle branch; two of the lines read one address, one of them as a critical
load, so that callbacks are confused, and a third reads another one. In `gem5`, two packets share a page, so that
an answer has a wrong packet to go to, and a wpq of one refuses the second write;
an ADR epoch of 2 makes cycles with and without a flush. In `cxl`, four commands
are an allocation, two accesses and a deallocation, or two threads that overtake
each other twice. In `rmw_safety` the reads have no identity, since none of its
properties follows a callback; `rmw_reads` follows one.

*Deadlock* is checked in all runs but `cxl`, whose program may stop after its last
command, and `gem5_addr`, whose process may crash: `EndCycle` and `NextCycle` are always possible in the end, so a deadlock
would be a tick that no action describes. A simulation that has ended stutters
(`Terminated`).

*Fairness.* The simulator calls `tick` for ever (trace.cpp 86-153, or gem5's
event), so the ticks and the clock are weakly fair as one action. The answers of
the level below are strongly fair one by one: a request it accepted is served,
however the ticks interleave. The level above is not fair, it may stop.
`TraceFairness` adds the driver, which is the program itself, to the ticks;
`Gem5Fairness` adds what gem5's port protocol demands of a peer: it takes a
response in the end, and sends a refused packet again once it is asked. New
packets and drains are not fair.

*A limit of `rmw_live`.* With two entries and one AIT slot, an entry that the
AIT refuses may be passed by its neighbour for ever, since it polls and stands in
no queue. The run uses one entry; with more, the answer depends on the order of
the `unordered_map` and on the load never ceasing. `PROJECT.json` lists it as a
hazard that no property covers: the run says nothing about it.

### The disagreements

* `rmw.cpp:601` tests `cb_bitmap`, which nothing sets. A second read of a cache
  line that is pending takes the callback slot of the first, which is never
  called, although `common.h:49-50` promises a callback.
* `imc.cpp:52` overwrites the address before it knows that the memory below has
  room; each retry maps again, to another page and maybe another memory.
* `vans.cc:157` files a packet under the address of gem5, the callback carries
  the address inside the component. With a start address
  (`config/gem5_hi_memory.cfg:24`) `assert(reads.count(addr) != 0)`
  (`vans.cc:226`) fails at the first read.

The three have a run each. The following were met while modelling; the models do
what the code does and no property is stated about them:

* `imc.cpp:92` drops the mapped address of a write. With several memories, reads
  and writes of one page use different addresses below (`mapping.h:10-12`).
* `trace.cpp:82` builds the request with arrival clock 0 and never sets another
  one, so that "First come first serve" (`imc.cpp:41`) compares equal clocks and
  prefers writes. gem5 stamps its requests, and `gem5` shows the order then.
* `pending()` of the DRAM (`dram_memory.h:250`) sees one queue of five, while
  `controller.h:28` says "return true if there are requests still pending": a
  ddr4 system may end its drain early. `TraceDriver` models that end.
* `trace.cpp:17` tests `eof` after `getline`: a last line without a newline is
  dropped.
* `cxl_system.h:32` reports success for every request, never calls a callback
  and ignores that nothing was allocated; a critical load on it never ends.
* The mock host leaves `response_ready` set after `receiveResponse`
  (`MockCxlHostInterface.cpp:37`), so a response can be received twice; the other
  host resets it. After a timeout, a late response is taken for the answer to the
  next command; `OwnResponse` states the condition under which it is not.
* `CxlDeviceInterfaceImpl::sendResponse` calls `receiveResponse` of the host,
  which would overwrite the response it was given; nobody calls it.
* `writeComplete` (`vans.cc:245`) dereferences the packet of a write that, with a
  start address, need not be filed under the callback's address.
* The confused callbacks of the RMW buffer reach the trace driver: a critical load
  of a line that another read waits for may end its stall before it is served, and
  its callback, called again, may end the stall of the next critical load.

## 4. What is proved

Each proof module proves the invariants of one component for all values of its
constants, under the named assumptions of the component's module: any finite set
of blocks, any queue sizes, latencies and number of commands, packets or lines.
An inductive invariant stands at the head of the module, one lemma per action
shows that the action keeps it, and the theorems at the end are what it implies.

| Module | Theorem | Property |
|---|---|---|
| `RmwProofs` | `TypeCorrect`, `EntriesConsistent` | `TypeOK`, `EntryInv` |
| | `AnswersMatch` | `AitReadsMatch`: an answer of the AIT finds the entry that asked |
| | `EvictionSafe` | `RestIsClean`: eviction loses nothing, `flush_back` is unreachable |
| | `NoWriteDropped`, `ReadsSeeWrites` | `WritesKept`, `ReadWriteOrder` |
| | `QuietIsSent` | `QuietMeansSent`: a drained buffer has sent every write |
| | `NeverThrows` | `NoInternalError` |
| | `CallsConsistent` | `CallsInv`, while no line has two reads in flight |
| | `CallbacksConserved`, `QuietIsAnswered` | `ReadsConserved`, `QuietMeansAnswered`, under the same hypothesis |
| `AitProofs` | `TypeCorrect`, `AitConsistent` | `TypeOK`, `AitInv` |
| | `QueueWakesSleepers`, `LinesInOrder` | `LmemqMatches`, `OneLineAtATime` |
| | `EvictionSafe`, `NeverThrows` | `RestIsReadable`, `NoInternalError` |
| | `MigratedInTime` | `WearBounded` |
| | `CallbacksConserved` | `ReadsConserved` |
| `DramProofs` | `TypeCorrect`, `DramConsistent` | `TypeOK`, `DramInv` |
| | `RowsStayOpen`, `RefreshesDone` | `ActivatedStaysOpen`, `RefreshInTime` |
| `DramCoherenceProofs` | `DramCoherent`, `ReadsKept` | `CoherenceInv`, `ReadsConserved` |
| | `DramImplementsMemory` | `ReadsCoherent`: the refinement of `CoherentMemory` |
| `CxlProofs` | `CxlConsistent`, `SlotIsOwn` | `CxlInv`, `OwnResponse` |
| | `ResponsesAgree` | `ExecutorsAgree` |
| | `ContentsFollowLog`, `ReadsAreCurrent` | `ContentsInv`, `ReadsLastWrite` |
| `ImcProofs` | `ImcConsistent`, `ServedInOrder` | `ImcInv`, `FirstComeFirstServe` |
| `Gem5Proofs` | `Gem5Consistent`, `Gem5TypeCorrect` | `Gem5Inv`, `Gem5TypeOK` |
| | `ResponsesWoken`, `DrainEnds` | `OneWaker`, `DrainIsSignalled` |
| | `Gem5DrivesImc`, `Gem5ServedInOrder` | `Gem5Spec` implements `Spec` of `Imc`; `FirstComeFirstServe` |
| | `PacketsKept` | `PacketsConserved` |
| | `CallbacksMatch`, `CallbackFindsPacket` | `RequestsMatchPackets`, `AnswerFindsPacket` |
| `TraceProofs` | `TraceConsistent`, `TraceDrivesImc` | `TraceInv`; `TraceSpec` implements `Spec` of `Imc` |
| | `LinesKept`, `DriverWaits` | `LinesConserved`, `WaitsUntilServed` |

### The arguments

*Rmw.* None of the properties is inductive by itself: that an entry at
rest is clean depends on `dirty` having been cleared on every way to `end`, which
depends on the pairs of type and state an entry can be in, which depends on who
may give an entry a new request, and that depends on `pending` and `valid`.
`EntryOK(e, a, o)` closes the circle. It says of one entry which types and states
go together, when it is pending, waiting, valid and dirty, that its callback
queue is non-empty exactly while it is a pending read, how many reads `a` the AIT
owes it, and that the lines `o` still to be sent are in the bitmap of a write
that is not sent. `TodoActs` adds that an entry chosen for
`tick_internal_buffer` is still due at its turn, since the turns of other entries
do not touch it. Each action changes one entry (`EndCycle` all of them, but only
their clocks), so the proof is one case per action and cell of the table, each
about `EntryOK` of one new record. `NeverThrows` also needs the bounds of the
queues, of the callback queues and of the number of entries (`Bounded`), which
hold by the tests that guard them, and the cardinality theorems of the library.

*Callbacks in Rmw.* `CallsInv` follows a callback from the lsq to the `cbq` and
`cbs` of an entry and on to the roq. A callback in the roq is nowhere else, one
in the lsq or in an entry is the callback of that line's only read there, and
every read that waits has its callback somewhere. `cbs` has one slot per line, so
this needs the hypothesis `~SameLineReads`: the level above has at most one read
of a line in flight. Without it a second read overwrites the slot of the first,
which is what `rmw_same_line` shows. Three steps move a callback (`ReadEnters`, `ReadLeaves`,
`ReadAnswered`), `ReadArrives` and `WriteArrives` are about new requests, and all
other steps keep it in place. Among those is write combining, which takes writes
out of the middle of the lsq: `PickKeeps` shows that the positions that stay map
one to one to old positions and that no read is among those that go.

*Ait.* `AitInv` has the same shape, with `LmemqMatches` and `OneLineAtATime` in
place of the AIT's debts: an entry sleeps exactly while a request of its block is
in the lmemq, so a completion, which names only a block, wakes the right entry.
Wear needs one more fact. `tick_lsq` counts a write when it takes it, and the
entry tests the count cycles later; `WearOK` says that in between no other write
of the block is counted, because the entry is in use. `ReadsInv` follows a
callback from the lsq to the entry that serves it.

*Dram.* Refreshes are in time because the scheduler serves the misc queue once
no activated request is left. `Left` counts the commands still to be given: the
access of the activated request and at most two commands per rank queued.
`Deadline` says that each takes at most `MaxDelay` cycles, so the time passed
plus what is left never exceeds `(2 * Ranks + 1) * MaxDelay`, which
`DramAssumption` puts below the refresh interval. In the code the configuration
file has to see to that; with nRFC = 467, nREFI = 10400 and one rank it does.

*Refinement of `CoherentMemory`.* `OnePlace` puts every accepted read in exactly
one of three queues. `Arrivals` says that queues are in order of arrival and that
a queued write of a line is not older than a queued read of it: such a read would
have been forwarded. Hence a write that is scheduled passes no read that should
see the old value (`ReadsExpect`). `WritesLast` says that the last queued write of a
line, at whatever place of the queue, has the value last written, and that a bank
without writes under way holds it; so the write that takes its line out of
`Unwritten` is the last one. A read is forwarded only while a write of its line is
queued, which is what the search of the write queue tests. With these, accepting a
request, a write to a bank, an answer and everything else map to a step or a stutter
of the abstract memory, one lemma for each. Nothing bounds the queues: two writes of
a line, with others between them, are the cases that need the order of the queue.

*Cxl.* `SlotOK` says that all threads run for the last command unless it was sent
while another was in flight. Contents are compared with the log: an allocated
address has an allocation in the log that was not freed since (`AllocOK`), and
each of its bytes is what the last write after it left (`MemOK`).

*Imc and its drivers.* Both queues are in the order of birth, and `Issue` puts a
new request last. The controller compares arrival clocks, so first come first
serve holds under the hypothesis `Stamped`: gem5 stamps its requests, the trace
driver does not (section 3). `Gem5` and `TraceDriver` extend `Imc` with the code
that drives it; `Gem5DrivesImc` and `TraceDrivesImc` show that each of their
steps is a step of `Imc` or leaves it alone, so what `ImcProofs` shows carries
over.

*Gem5.* The counter `reqs_in_flight` has to cover what is queued and what the
memories owe. TLA+ functions have no sum without recursion, so `FlightOK` counts
the pairs of an address and a number up to its debts (`Owing`) and uses the
cardinality theorems. `PlacesOK` says that a packet is filed once, under its own
address, or queued for its response, or held by the peer. `CallbacksMatch` has
the hypotheses `Components = 1` and `StartAddr = 0`, and needs them: the run
`gem5_addr` violates its consequence with a start address, and with several
memories the mapping changes the address as well.

*TraceDriver.* `LinesOK`: a line that was read and not refused is in one queue or
was sent once, and no other line is. `WaitsOK`: every read below was sent and has a
record of its own, and, until nvram had to serve two reads of an address at a time
(`shared`), a critical load that is not served is the line read last, and the driver
is stalled on it. The last part has that restriction since it is false without it.
To keep it, `WaitsOK` also says that no two reads that nvram owes meet at an address,
so that the callback called is the served read's own. When the drain loop ends the
queues of the controller are empty, whatever `BelowPending` says, and `LinesOK` gives
that every line was sent. That every read was served does not follow, and with ddr4
it need not be so.

*Least elements.* "The first write of this line" or "the last write before
command n" would take an induction. `WFMin` of `WellFoundedInduction`, which has
no operator parameter, gives a least element of any set of naturals instead.

### Only model-checked

* `NoOvertaking` of `Rmw`. It compares sequences made by `SelectSeq`, whose
  definition is recursive: induction over data.
* All liveness (`DrainCompletes`, the `EveryReadAnswered` of three modules,
  `SimulationEnds`, `EveryPacketAnswered`): fairness is out of the prover's reach.

## 5. Not modelled, and the plan

* The composition of `Imc` over `Rmw` over `Ait` over `Dram` (`nvram_system`): each
  module alone has up to a million states in its smallest interesting instance,
  and the product is out of TLC's reach. The modules meet at interfaces instead, and
  not everything that a module assumes of the one below is shown there. `Rmw` assumes
  that the AIT answers a read once, which `ReadsConserved` and `EveryReadAnswered` of
  `Ait` show, with one entry for the latter. `Ait` assumes the same of its DRAM:
  `ReadsConserved` of `Dram` shows it, `EveryReadAnswered` for one read at a time.
  `Gem5` assumes that every read below is called back once with its address. The RMW
  buffer keeps that when no two reads of a line are in flight; otherwise
  `rmw_same_line` shows a callback that is never called and one that is called
  twice. gem5's callbacks differ in nothing but the address, so there the right
  number of calls is made, but the trace driver's differ, and `TraceDriver` models
  the confusion. That requests are taken in the end is an assumption of fairness
  everywhere (`rmw_live`, `ait_live` and `dram` show it of drains and reads only).
* `nvram_system` and `ddr4_system` themselves keep no state.
* `flush_back` in `Rmw`: proved unreachable.
* Power-down and self-refresh of the DDR4, which nobody requests, and the values
  of its timing parameters, which are data.
* `cxl_system`, a stub, and the parts of the CXL mocks that nobody calls
  (`MockCxlProtocolHandler::processNextCommand`,
  `CxlDeviceInterfaceImpl::sendResponse`).
* `recvAtomic`, `recvFunctional` and the exit callback of gem5: they do not take
  part in the timing protocol.
* Configuration, construction, counters, parsing and printing: they keep no state
  that the protocol depends on.

Every safety invariant that a run checks, except `NoOvertaking` of `Rmw`, is also
proved for all values of the constants, under the hypotheses that section 4 names.
