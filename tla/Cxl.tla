--------------------------------- MODULE Cxl ---------------------------------
(***************************************************************************)
(* The CXL command path of src/src/cxl, in the two ways the repository     *)
(* wires it:                                                               *)
(*                                                                         *)
(*   "impl"  CxlHostInterfaceImpl, CxlDeviceInterfaceImpl and              *)
(*           CxlProtocolHandlerImpl over MockCxlMemory: a command is        *)
(*           executed, and its response set, before sendCommand returns;   *)
(*   "mock"  MockCxlHostInterface and MockCxlDeviceInterface: a thread     *)
(*           brings the command to the device, another one its response to *)
(*           the host, which waits for it with a timeout.                  *)
(*                                                                         *)
(* Both hosts have one response slot.  The program that uses the host      *)
(* sends commands and receives responses in any order.  Threads sleep for  *)
(* fixed times, but nothing orders their wake-ups: they run in any order,  *)
(* and a timeout may hit whenever there is no response.                    *)
(*                                                                         *)
(* CxlCommandProcessor executes commands a second way, which is compared   *)
(* with the first.                                                         *)
(***************************************************************************)
EXTENDS Integers, Sequences, FiniteSets

CONSTANTS
  Addresses,    \* addresses that commands use
  Sizes,        \* sizes that commands use
  Bytes,        \* values of a byte, 0 among them
  MaxCommands   \* bound on the number of commands

ASSUME CxlAssumption ==
  /\ Addresses \subseteq Nat /\ Sizes \subseteq Nat /\ MaxCommands \in Nat
  /\ 0 \in Bytes

VARIABLES
  wiring,             \* "impl" or "mock"
  memory,             \* address -> bytes, for the allocated addresses
  next_free_address,
  response,           \* the response slot: number of the command it answers
  response_ready,
  threads,            \* threads of the mocks: who runs for which command
  log,                \* history: commands sent, with the results in "impl"
  overlapped          \* history: was a command in flight when the last was sent?

vars == <<wiring, memory, next_free_address, response, response_ready, threads, log,
          overlapped>>

(***************************************************************************)
(* Commands.  "Other" stands for Discover, Invalidate and Flush.           *)
(***************************************************************************)
Command ==
  [type : {"Read"}, address : Addresses, size : Sizes, byte : {0}]
  \cup [type : {"Write"}, address : Addresses, size : Sizes, byte : Bytes]
  \cup [type : {"Allocate"}, address : {0}, size : Sizes, byte : {0}]
  \cup [type : {"Deallocate"}, address : Addresses, size : {0}, byte : {0}]
  \cup [type : {"Other"}, address : {0}, size : {0}, byte : {0}]

\* a response: success, and the bytes or the address that it carries
Result(success, data, addr) == [success |-> success, data |-> data, addr |-> addr]
Failure == Result(FALSE, <<>>, 0)

(***************************************************************************)
(* MockCxlMemory                                                           *)
(***************************************************************************)
CanAccess(cmd) ==
  cmd.address \in DOMAIN memory /\ Len(memory[cmd.address]) >= cmd.size

\* Mutant of Written: the bytes after the written ones are cleared.
WrittenAll(cmd) ==
  [i \in DOMAIN memory[cmd.address] |-> IF i <= cmd.size THEN cmd.byte ELSE 0]

Written(cmd) ==
  [i \in DOMAIN memory[cmd.address] |->
     IF i <= cmd.size THEN cmd.byte ELSE memory[cmd.address][i]]

\* Mutant of NewAddress: addresses from 0, which the handler takes for a failure.
NewAddressZero == next_free_address - 1

NewAddress == next_free_address

MemoryAfter(cmd) ==
  CASE cmd.type = "Write" /\ CanAccess(cmd) -> [memory EXCEPT ![cmd.address] = Written(cmd)]
    [] cmd.type = "Allocate" ->
         [a \in DOMAIN memory \cup {NewAddress} |->
            IF a = NewAddress THEN [i \in 1 .. cmd.size |-> 0] ELSE memory[a]]
    [] cmd.type = "Deallocate" -> [a \in DOMAIN memory \ {cmd.address} |-> memory[a]]
    [] OTHER -> memory

(***************************************************************************)
(* CxlProtocolHandlerImpl::issueCommand and                                *)
(* CxlCommandProcessor::handleCommand: the response to a command           *)
(***************************************************************************)
Bytes1To(cmd) == SubSeq(memory[cmd.address], 1, cmd.size)

HandlerResponse(cmd) ==
  CASE cmd.type = "Read" ->
         IF CanAccess(cmd) THEN Result(TRUE, Bytes1To(cmd), 0)
                           ELSE Result(FALSE, [i \in 1 .. cmd.size |-> 0], 0)
    [] cmd.type = "Write" -> IF CanAccess(cmd) THEN Result(TRUE, <<>>, 0) ELSE Failure
    [] cmd.type = "Allocate" ->
         IF NewAddress # 0 THEN Result(TRUE, <<>>, NewAddress) ELSE Failure
    [] cmd.type = "Deallocate" -> Result(TRUE, <<>>, 0)
    [] OTHER -> Failure

ProcessorResponse(cmd) ==
  CASE cmd.type = "Read" /\ CanAccess(cmd) -> Result(TRUE, Bytes1To(cmd), 0)
    [] cmd.type = "Write" /\ CanAccess(cmd) -> Result(TRUE, <<>>, 0)
    [] cmd.type = "Allocate" -> Result(TRUE, <<>>, NewAddress)
    [] cmd.type = "Deallocate" -> Result(TRUE, <<>>, 0)
    [] OTHER -> Failure

Init ==
  /\ wiring \in {"impl", "mock"}
  /\ memory = [a \in {} |-> <<>>]
  /\ next_free_address = 1
  /\ response = 0 /\ response_ready = FALSE
  /\ threads = {}
  /\ log = <<>>
  /\ overlapped = FALSE

(***************************************************************************)
(* The host                                                                *)
(***************************************************************************)
Last == Len(log)

\* the whole path: device, handler, memory, and the response callback
SendImpl(cmd) ==
  /\ wiring = "impl" /\ Last < MaxCommands
  /\ memory' = MemoryAfter(cmd)
  /\ next_free_address' = next_free_address + IF cmd.type = "Allocate" THEN 1 ELSE 0
  /\ log' = Append(log, [cmd |-> cmd, result |-> HandlerResponse(cmd)])
  /\ response' = Last + 1
  /\ response_ready' = TRUE
  /\ UNCHANGED <<wiring, threads, overlapped>>

\* Mutant of ClearReady: an old response is not invalidated by a new command.
ClearReadyNot == UNCHANGED response_ready

ClearReady == response_ready' = FALSE

\* What a command of the mocks asks for does not matter: it always succeeds.
SendMock ==
  /\ wiring = "mock" /\ Last < MaxCommands
  /\ ClearReady
  /\ threads' = threads \cup {[runs |-> "host", for |-> Last + 1]}
  /\ log' = Append(log, <<>>)
  /\ overlapped' = (threads # {})
  /\ UNCHANGED <<wiring, memory, next_free_address, response>>

\* the host's thread calls receiveCommand of the device, which starts its own
HostThread(t) ==
  /\ t \in threads /\ t.runs = "host"
  /\ threads' = (threads \ {t}) \cup {[t EXCEPT !.runs = "device"]}
  /\ UNCHANGED <<wiring, memory, next_free_address, response, response_ready, log,
                 overlapped>>

\* the device's thread delivers the response
DeviceThread(t) ==
  /\ t \in threads /\ t.runs = "device"
  /\ threads' = threads \ {t}
  /\ response' = t.for
  /\ response_ready' = TRUE
  /\ UNCHANGED <<wiring, memory, next_free_address, log, overlapped>>

\* the host of the mocks leaves the response ready, the other one takes it
Consume == response_ready' = (response_ready /\ wiring = "mock")

\* receiveResponse with a response; without one it returns false (the mock
\* after a timeout) and changes nothing
ReceiveResponse ==
  /\ response_ready
  /\ Consume
  /\ UNCHANGED <<wiring, memory, next_free_address, response, threads, log, overlapped>>

Next ==
  \/ \E cmd \in Command : SendImpl(cmd)
  \/ SendMock
  \/ \E t \in threads : HostThread(t) \/ DeviceThread(t)
  \/ ReceiveResponse

Spec == Init /\ [][Next]_vars

(***************************************************************************)
(* Properties                                                              *)
(***************************************************************************)
\* The response that can be received is the one to the last command, unless the
\* program gave up on an earlier command and sent the last one while the threads
\* of the earlier one were still running.
OwnResponse == response_ready => response = Last \/ overlapped

\* the commands of the log that were executed and allocated address a
Allocations(a) ==
  {n \in DOMAIN log : log[n].cmd.type = "Allocate" /\ log[n].result.addr = a}

\* the last byte that was written to byte i of address a before command n, in
\* the allocation number m, or 0
LastByte(a, i, m, n) ==
  LET writers == {w \in m + 1 .. n - 1 : /\ log[w].cmd.type = "Write" /\ log[w].result.success
                                          /\ log[w].cmd.address = a /\ log[w].cmd.size >= i}
  IN  IF writers = {} THEN 0
      ELSE log[CHOOSE w \in writers : \A x \in writers : x <= w].cmd.byte

\* A read that succeeds is of an address that an Allocate returned and no
\* Deallocate has freed since, and returns what the last writes left there; the
\* same handle is never given out twice, so a stale one reaches no other data.
ReadsLastWrite ==
  wiring = "impl" =>
    \A n \in DOMAIN log :
      log[n].cmd.type = "Read" /\ log[n].result.success =>
        LET a == log[n].cmd.address
        IN  \E m \in Allocations(a) :
              /\ m < n /\ Allocations(a) = {m}
              /\ \A d \in m + 1 .. n - 1 :
                   ~(log[d].cmd.type = "Deallocate" /\ log[d].cmd.address = a)
              /\ \A i \in 1 .. log[n].cmd.size :
                   log[n].result.data[i] = LastByte(a, i, m, n)

\* The two executors of commands give the same answer to every command, except
\* for the zero bytes that the handler sends with the failure of a read.
ExecutorsAgree ==
  \A cmd \in Command :
    LET h == HandlerResponse(cmd)
        p == ProcessorResponse(cmd)
    IN  h.success = p.success /\ (h.success => h = p)
=============================================================================
