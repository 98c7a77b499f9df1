------------------------------ MODULE CxlProofs ------------------------------
(***************************************************************************)
(* Machine-checked proofs about Cxl, for every set of addresses, sizes and *)
(* bytes and any number of commands: the response slot, the two executors  *)
(* and the contents of the memory.                                         *)
(*                                                                         *)
(* The invariant about the contents relates the memory to the log of the   *)
(* commands: each byte is the one of the last write since its allocation.  *)
(***************************************************************************)
EXTENDS Cxl, SequenceTheorems, WellFoundedInduction, TLAPS

USE CxlAssumption

(***************************************************************************)
(* The invariant                                                           *)
(***************************************************************************)
Answer == [success : BOOLEAN, data : Seq(Bytes), addr : Nat]
Entry == [cmd : Command, result : Answer]

CxlTypeOK ==
  /\ wiring \in {"impl", "mock"}
  /\ next_free_address \in Nat \ {0}
  /\ DOMAIN memory \subseteq 1 .. next_free_address - 1
  /\ \A a \in DOMAIN memory : memory[a] \in Seq(Bytes)
  /\ response \in Nat /\ response_ready \in BOOLEAN /\ overlapped \in BOOLEAN
  /\ threads \subseteq [runs : {"host", "device"}, for : Nat]
  /\ log \in IF wiring = "impl" THEN Seq(Entry) ELSE Seq({<<>>})

\* Threads that run are those of the last command, unless commands overlapped.
SlotOK ==
  /\ wiring = "impl" => threads = {}
  /\ ~overlapped => \A t \in threads : t.for = Last
  /\ OwnResponse

\* Addresses are given out once.
AllocOK ==
  wiring = "impl" =>
    /\ \A n \in DOMAIN log :
         log[n].cmd.type = "Allocate" => log[n].result.addr < next_free_address
    /\ \A n \in DOMAIN log, k \in DOMAIN log :
         /\ log[n].cmd.type = "Allocate" /\ log[k].cmd.type = "Allocate"
         /\ log[n].result.addr = log[k].result.addr
         => n = k

\* Allocation m gave out address a, which was not freed before command n.
Lives(a, m, n) ==
  /\ m \in Allocations(a) /\ m < n
  /\ \A d \in m + 1 .. n - 1 : ~(log[d].cmd.type = "Deallocate" /\ log[d].cmd.address = a)

\* The memory holds the live allocations, with what was written to them.
MemOK ==
  wiring = "impl" =>
    \A a \in DOMAIN memory :
      \E m \in DOMAIN log :
        /\ Lives(a, m, Last + 1)
        /\ \A b \in DOMAIN memory[a] : memory[a][b] = LastByte(a, b, m, Last + 1)

CxlInv == CxlTypeOK /\ SlotOK

(***************************************************************************)
(* Types                                                                   *)
(***************************************************************************)
\* Fields of a command.
LEMMA CommandTypes ==
  ASSUME NEW cmd \in Command
  PROVE  /\ cmd.type \in {"Read", "Write", "Allocate", "Deallocate", "Other"}
         /\ cmd.size \in Nat /\ cmd.byte \in Bytes /\ cmd.address \in Nat
<1>6. /\ \A a \in Addresses : a \in Nat
      /\ \A n \in Sizes : n \in Nat
      /\ 0 \in Bytes /\ 0 \in Nat
  OBVIOUS
<1>1. CASE cmd \in [type : {"Read"}, address : Addresses, size : Sizes, byte : {0}]
  BY ONLY <1>1, <1>6
<1>2. CASE cmd \in [type : {"Write"}, address : Addresses, size : Sizes, byte : Bytes]
  BY ONLY <1>2, <1>6
<1>3. CASE cmd \in [type : {"Allocate"}, address : {0}, size : Sizes, byte : {0}]
  BY ONLY <1>3, <1>6
<1>4. CASE cmd \in [type : {"Deallocate"}, address : Addresses, size : {0}, byte : {0}]
  BY ONLY <1>4, <1>6
<1>5. CASE cmd \in [type : {"Other"}, address : {0}, size : {0}, byte : {0}]
  BY ONLY <1>5, <1>6
<1> QED
  BY <1>1, <1>2, <1>3, <1>4, <1>5 DEF Command

\* A function on the first n numbers is a sequence.
LEMMA FunctionFacts ==
  ASSUME NEW S, NEW n \in Nat, NEW f \in [1 .. n -> S]
  PROVE  f \in Seq(S) /\ Len(f) = n
<1>1. f \in Seq(S)
  BY SeqDef
<1>2. DOMAIN f = 1 .. Len(f) /\ Len(f) \in Nat /\ DOMAIN f = 1 .. n
  BY <1>1
<1>3. Len(f) <= n /\ n <= Len(f)
  BY <1>2
<1> QED
  BY <1>1, <1>2, <1>3

\* The first bytes of an allocation.
LEMMA FirstBytes ==
  ASSUME NEW s \in Seq(Bytes), NEW n \in Nat, n <= Len(s)
  PROVE  /\ SubSeq(s, 1, n) \in Seq(Bytes)
         /\ \A b \in 1 .. n : SubSeq(s, 1, n)[b] = s[b]
  OBVIOUS

\* A response has its type.
LEMMA ResponseType ==
  ASSUME CxlTypeOK, NEW cmd \in Command
  PROVE  HandlerResponse(cmd) \in Answer
<1>1. cmd.size \in Nat /\ NewAddress \in Nat
  BY CommandTypes DEF CxlTypeOK, NewAddress
<1>2. <<>> \in Seq(Bytes) /\ [i \in 1 .. cmd.size |-> 0] \in Seq(Bytes)
  <2>1. [i \in 1 .. cmd.size |-> 0] \in [1 .. cmd.size -> Bytes]
    OBVIOUS
  <2> QED
    BY <1>1, <2>1, FunctionFacts
<1>3. ASSUME NEW s \in BOOLEAN, NEW d \in Seq(Bytes), NEW a \in Nat
      PROVE  Result(s, d, a) \in Answer
  BY DEF Result, Answer
<1>4. Failure \in Answer
  BY <1>2, <1>3 DEF Failure
<1>5. CanAccess(cmd) => Bytes1To(cmd) \in Seq(Bytes)
  BY <1>1, FirstBytes DEF CxlTypeOK, CanAccess, Bytes1To
<1>6. cmd.type \in {"Read", "Write", "Allocate", "Deallocate", "Other"}
  BY CommandTypes
<1>7. CASE cmd.type = "Read"
  BY <1>2, <1>3, <1>5, <1>7 DEF HandlerResponse
<1>8. CASE cmd.type = "Write"
  BY <1>2, <1>3, <1>4, <1>8 DEF HandlerResponse
<1>9. CASE cmd.type = "Allocate"
  BY <1>1, <1>2, <1>3, <1>4, <1>9 DEF HandlerResponse
<1>10. CASE cmd.type = "Deallocate"
  BY <1>2, <1>3, <1>10 DEF HandlerResponse
<1>11. CASE cmd.type = "Other"
  BY <1>4, <1>11 DEF HandlerResponse
<1> QED
  BY <1>6, <1>7, <1>8, <1>9, <1>10, <1>11

\* What a command does to the memory.
LEMMA MemoryMoves ==
  ASSUME CxlTypeOK, NEW cmd \in Command
  PROVE  /\ cmd.type = "Write" /\ CanAccess(cmd) =>
              /\ DOMAIN MemoryAfter(cmd) = DOMAIN memory
              /\ \A a \in DOMAIN memory :
                   MemoryAfter(cmd)[a] = IF a = cmd.address THEN Written(cmd) ELSE memory[a]
         /\ cmd.type = "Allocate" =>
              /\ DOMAIN MemoryAfter(cmd) = DOMAIN memory \cup {next_free_address}
              /\ MemoryAfter(cmd)[next_free_address] = [i \in 1 .. cmd.size |-> 0]
              /\ \A a \in DOMAIN memory : MemoryAfter(cmd)[a] = memory[a]
         /\ cmd.type = "Deallocate" =>
              /\ DOMAIN MemoryAfter(cmd) = DOMAIN memory \ {cmd.address}
              /\ \A a \in DOMAIN MemoryAfter(cmd) : MemoryAfter(cmd)[a] = memory[a]
         /\ \/ cmd.type \in {"Read", "Other"} \/ (cmd.type = "Write" /\ ~CanAccess(cmd))
            => MemoryAfter(cmd) = memory
<1>1. next_free_address \notin DOMAIN memory
  BY DEF CxlTypeOK
<1>2. CASE cmd.type = "Write" /\ CanAccess(cmd)
  <2>1. MemoryAfter(cmd) = [memory EXCEPT ![cmd.address] = Written(cmd)]
    BY <1>2 DEF MemoryAfter
  <2> QED
    BY <1>2, <2>1
<1>3. CASE cmd.type = "Allocate"
  <2>1. MemoryAfter(cmd) = [a \in DOMAIN memory \cup {next_free_address} |->
           IF a = next_free_address THEN [i \in 1 .. cmd.size |-> 0] ELSE memory[a]]
    BY <1>3 DEF MemoryAfter, NewAddress
  <2> QED
    BY <1>1, <1>3, <2>1
<1>4. CASE cmd.type = "Deallocate"
  <2>1. MemoryAfter(cmd) = [a \in DOMAIN memory \ {cmd.address} |-> memory[a]]
    BY <1>4 DEF MemoryAfter
  <2> QED
    BY <1>4, <2>1
<1>5. CASE cmd.type \in {"Read", "Other"} \/ (cmd.type = "Write" /\ ~CanAccess(cmd))
  BY <1>5 DEF MemoryAfter
<1>6. cmd.type \in {"Read", "Write", "Allocate", "Deallocate", "Other"}
  BY CommandTypes
<1> QED
  BY <1>2, <1>3, <1>4, <1>5, <1>6

\* A write changes bytes of the allocation and not their number.
LEMMA WrittenFacts ==
  ASSUME CxlTypeOK, NEW cmd \in Command, CanAccess(cmd)
  PROVE  /\ Written(cmd) \in Seq(Bytes) /\ DOMAIN Written(cmd) = DOMAIN memory[cmd.address]
         /\ \A b \in DOMAIN Written(cmd) :
              Written(cmd)[b] = IF b <= cmd.size THEN cmd.byte ELSE memory[cmd.address][b]
<1> DEFINE s == memory[cmd.address]
<1>1. s \in Seq(Bytes) /\ cmd.byte \in Bytes
  BY CommandTypes DEF CxlTypeOK, CanAccess
<1>2. DOMAIN s = 1 .. Len(s) /\ Len(s) \in Nat /\ \A b \in 1 .. Len(s) : s[b] \in Bytes
  BY <1>1
<1>3. Written(cmd) \in [1 .. Len(s) -> Bytes]
  BY <1>1, <1>2 DEF Written
<1>4. Written(cmd) \in Seq(Bytes)
  BY <1>2, <1>3, FunctionFacts
<1> QED
  BY <1>4 DEF Written

(***************************************************************************)
(* The response slot                                                       *)
(***************************************************************************)
\* A command that is executed at once.
LEMMA SendImplKeeps ==
  ASSUME CxlInv, NEW cmd \in Command, SendImpl(cmd)
  PROVE  CxlInv'
<1>1. CxlTypeOK /\ SlotOK
  BY DEF CxlInv
<1> DEFINE e == [cmd |-> cmd, result |-> HandlerResponse(cmd)]
<1>2. /\ wiring = "impl" /\ UNCHANGED <<wiring, threads, overlapped>>
      /\ memory' = MemoryAfter(cmd) /\ log' = Append(log, e)
      /\ next_free_address' = next_free_address + (IF cmd.type = "Allocate" THEN 1 ELSE 0)
      /\ response' = Len(log) + 1 /\ response_ready' = TRUE
  BY DEF SendImpl, Last
<1>3. e \in Entry
  BY <1>1, ResponseType DEF Entry
<1>4. log \in Seq(Entry) /\ Len(log) \in Nat
  BY <1>1, <1>2 DEF CxlTypeOK
<1> HIDE DEF e
<1>5. log' \in Seq(Entry) /\ Len(log') = Len(log) + 1
  BY <1>2, <1>3, <1>4
<1>6. next_free_address \in Nat \ {0} /\ next_free_address' \in Nat \ {0}
      /\ next_free_address <= next_free_address'
  BY <1>1, <1>2 DEF CxlTypeOK
<1>7. /\ DOMAIN memory \subseteq 1 .. next_free_address - 1
      /\ \A a \in DOMAIN memory : memory[a] \in Seq(Bytes)
  BY <1>1 DEF CxlTypeOK
<1>8. /\ DOMAIN memory' \subseteq 1 .. next_free_address' - 1
      /\ \A a \in DOMAIN memory' : memory'[a] \in Seq(Bytes)
  <2>1. CASE cmd.type = "Write" /\ CanAccess(cmd)
    <3>1. /\ DOMAIN memory' = DOMAIN memory
          /\ \A a \in DOMAIN memory :
               memory'[a] = IF a = cmd.address THEN Written(cmd) ELSE memory[a]
      BY <1>1, <1>2, <2>1, MemoryMoves
    <3>2. Written(cmd) \in Seq(Bytes)
      BY <1>1, <2>1, WrittenFacts
    <3> QED
      BY <1>6, <1>7, <3>1, <3>2
  <2>2. CASE cmd.type = "Allocate"
    <3>1. /\ DOMAIN memory' = DOMAIN memory \cup {next_free_address}
          /\ memory'[next_free_address] = [i \in 1 .. cmd.size |-> 0]
          /\ \A a \in DOMAIN memory : memory'[a] = memory[a]
      BY <1>1, <1>2, <2>2, MemoryMoves
    <3>2. [i \in 1 .. cmd.size |-> 0] \in Seq(Bytes)
      <4>1. cmd.size \in Nat /\ [i \in 1 .. cmd.size |-> 0] \in [1 .. cmd.size -> Bytes]
        BY CommandTypes
      <4> QED
        BY <4>1, FunctionFacts
    <3>3. next_free_address' = next_free_address + 1
      BY <1>2, <2>2
    <3>4. DOMAIN memory' \subseteq 1 .. next_free_address' - 1
      BY <1>6, <1>7, <3>1, <3>3
    <3>5. \A a \in DOMAIN memory' : memory'[a] \in Seq(Bytes)
      BY <1>7, <3>1, <3>2
    <3> QED
      BY <3>4, <3>5
  <2>3. CASE cmd.type = "Deallocate"
    <3>1. /\ DOMAIN memory' = DOMAIN memory \ {cmd.address}
          /\ \A a \in DOMAIN memory' : memory'[a] = memory[a]
      BY <1>1, <1>2, <2>3, MemoryMoves
    <3> QED
      BY <1>6, <1>7, <3>1
  <2>4. CASE cmd.type \in {"Read", "Other"} \/ (cmd.type = "Write" /\ ~CanAccess(cmd))
    <3>1. memory' = memory
      BY <1>1, <1>2, <2>4, MemoryMoves
    <3> QED
      BY <1>6, <1>7, <3>1
  <2>5. cmd.type \in {"Read", "Write", "Allocate", "Deallocate", "Other"}
    BY CommandTypes
  <2> QED
    BY <2>1, <2>2, <2>3, <2>4, <2>5
<1>9. CxlTypeOK'
  BY <1>1, <1>2, <1>4, <1>5, <1>6, <1>8 DEF CxlTypeOK
<1>10. SlotOK'
  BY <1>1, <1>2, <1>5 DEF SlotOK, OwnResponse, Last
<1> QED
  BY <1>9, <1>10 DEF CxlInv

\* Every step keeps the invariant of the slot.
LEMMA SlotStep == CxlInv /\ [Next]_vars => CxlInv'
<1> SUFFICES ASSUME CxlInv, [Next]_vars PROVE CxlInv'
  OBVIOUS
<1>1. CxlTypeOK /\ SlotOK
  BY DEF CxlInv
<1>2. ASSUME NEW cmd \in Command, SendImpl(cmd) PROVE CxlInv'
  BY <1>2, SendImplKeeps
<1>3. CASE SendMock
  <2> DEFINE t == [runs |-> "host", for |-> Len(log) + 1]
  <2>1. /\ wiring = "mock" /\ UNCHANGED <<wiring, memory, next_free_address, response>>
        /\ response_ready' = FALSE /\ threads' = threads \cup {t}
        /\ log' = Append(log, <<>>) /\ overlapped' = (threads # {})
    BY <1>3 DEF SendMock, ClearReady, Last
  <2>2. log \in Seq({<<>>}) /\ Len(log) \in Nat
    BY <1>1, <2>1 DEF CxlTypeOK
  <2>3. log' \in Seq({<<>>}) /\ Len(log') = Len(log) + 1
    BY <2>1, <2>2
  <2>4. t \in [runs : {"host", "device"}, for : Nat] /\ t.for = Len(log) + 1
    BY <2>2
  <2> HIDE DEF t
  <2>5. CxlTypeOK'
    BY <1>1, <2>1, <2>3, <2>4 DEF CxlTypeOK
  <2>6. SlotOK'
    BY <1>1, <2>1, <2>3, <2>4 DEF SlotOK, OwnResponse, Last
  <2> QED
    BY <2>5, <2>6 DEF CxlInv
<1>4. ASSUME NEW t \in threads, HostThread(t) PROVE CxlInv'
  <2> DEFINE u == [t EXCEPT !.runs = "device"]
  <2>1. /\ UNCHANGED <<wiring, memory, next_free_address, response, response_ready, log,
                       overlapped>>
        /\ threads' = (threads \ {t}) \cup {u}
    BY <1>4 DEF HostThread
  <2>2. t \in [runs : {"host", "device"}, for : Nat]
    BY <1>1 DEF CxlTypeOK
  <2>3. u \in [runs : {"host", "device"}, for : Nat] /\ u.for = t.for
    BY <2>2
  <2> HIDE DEF u
  <2>4. CxlTypeOK'
    BY <1>1, <2>1, <2>3 DEF CxlTypeOK
  <2>5. SlotOK'
    BY <1>1, <2>1, <2>3 DEF SlotOK, OwnResponse, Last
  <2> QED
    BY <2>4, <2>5 DEF CxlInv
<1>5. ASSUME NEW t \in threads, DeviceThread(t) PROVE CxlInv'
  <2>1. /\ UNCHANGED <<wiring, memory, next_free_address, log, overlapped>>
        /\ threads' = threads \ {t} /\ response' = t.for /\ response_ready' = TRUE
    BY <1>5 DEF DeviceThread
  <2>2. t.for \in Nat
    BY <1>1 DEF CxlTypeOK
  <2>3. CxlTypeOK'
    BY <1>1, <2>1, <2>2 DEF CxlTypeOK
  <2>4. SlotOK'
    BY <1>1, <2>1 DEF SlotOK, OwnResponse, Last
  <2> QED
    BY <2>3, <2>4 DEF CxlInv
<1>6. CASE ReceiveResponse
  <2>1. /\ UNCHANGED <<wiring, memory, next_free_address, response, threads, log, overlapped>>
        /\ response_ready /\ response_ready' \in BOOLEAN
    BY <1>6 DEF ReceiveResponse, Consume
  <2>2. CxlTypeOK'
    BY <1>1, <2>1 DEF CxlTypeOK
  <2>3. SlotOK'
    BY <1>1, <2>1 DEF SlotOK, OwnResponse, Last
  <2> QED
    BY <2>2, <2>3 DEF CxlInv
<1>7. CASE UNCHANGED vars
  <2>1. UNCHANGED <<wiring, memory, next_free_address, response, response_ready, threads, log,
                    overlapped>>
    BY <1>7 DEF vars
  <2>2. CxlTypeOK'
    BY <1>1, <2>1 DEF CxlTypeOK
  <2>3. SlotOK'
    BY <1>1, <2>1 DEF SlotOK, OwnResponse, Last
  <2> QED
    BY <2>2, <2>3 DEF CxlInv
<1> QED
  BY <1>2, <1>3, <1>4, <1>5, <1>6, <1>7 DEF Next

\* The slot at the start.
LEMMA SlotInit == Init => CxlInv
<1> SUFFICES ASSUME Init PROVE CxlInv
  OBVIOUS
<1>1. /\ wiring \in {"impl", "mock"} /\ DOMAIN memory = {} /\ next_free_address = 1
      /\ response = 0 /\ response_ready = FALSE /\ threads = {} /\ log = <<>>
      /\ overlapped = FALSE
  BY DEF Init
<1>2. log \in IF wiring = "impl" THEN Seq(Entry) ELSE Seq({<<>>})
  BY <1>1
<1>5. /\ next_free_address \in Nat \ {0} /\ response \in Nat
      /\ DOMAIN memory \subseteq 1 .. next_free_address - 1
      /\ \A a \in DOMAIN memory : memory[a] \in Seq(Bytes)
  BY <1>1
<1>6. /\ response_ready \in BOOLEAN /\ overlapped \in BOOLEAN
      /\ threads \subseteq [runs : {"host", "device"}, for : Nat]
  BY <1>1
<1>3. CxlTypeOK
  BY <1>1, <1>2, <1>5, <1>6 DEF CxlTypeOK
<1>4. SlotOK
  BY <1>1 DEF SlotOK, OwnResponse
<1> QED
  BY <1>3, <1>4 DEF CxlInv

\* Types of the variables and the response slot, for any number of commands.
THEOREM CxlConsistent == Spec => []CxlInv
<1>1. Init => CxlInv
  BY SlotInit
<1>2. CxlInv /\ [Next]_vars => CxlInv'
  BY SlotStep
<1> QED
  BY <1>1, <1>2, PTL DEF Spec

\* The response that can be received is the one to the last command, unless
\* commands overlapped.
THEOREM SlotIsOwn == Spec => []OwnResponse
<1>1. CxlInv => OwnResponse
  BY DEF CxlInv, SlotOK
<1> QED
  BY <1>1, CxlConsistent, PTL

\* The two executors of commands agree in every reachable state: allocation
\* never returns the address 0 that the handler takes for a failure.
THEOREM ResponsesAgree == Spec => []ExecutorsAgree
<1>1. CxlInv => ExecutorsAgree
  <2> SUFFICES ASSUME CxlInv, NEW cmd \in Command
               PROVE  LET h == HandlerResponse(cmd)
                          p == ProcessorResponse(cmd)
                      IN  h.success = p.success /\ (h.success => h = p)
    BY DEF ExecutorsAgree
  <2>1. NewAddress # 0
    BY DEF CxlInv, CxlTypeOK, NewAddress
  <2>2. cmd.type \in {"Read", "Write", "Allocate", "Deallocate", "Other"}
    BY CommandTypes
  <2>3. \A s, d, a : Result(s, d, a).success = s
    BY DEF Result
  <2>4. Failure.success = FALSE
    BY <2>3 DEF Failure
  <2>5. CASE cmd.type = "Read" /\ ~CanAccess(cmd)
    BY <2>3, <2>4, <2>5 DEF HandlerResponse, ProcessorResponse
  <2>6. CASE ~(cmd.type = "Read" /\ ~CanAccess(cmd))
    BY <2>1, <2>2, <2>6 DEF HandlerResponse, ProcessorResponse
  <2> QED
    BY <2>5, <2>6
<1> QED
  BY <1>1, CxlConsistent, PTL

(***************************************************************************)
(* The last byte written                                                   *)
(***************************************************************************)
\* The writes in log l of byte b of allocation m of address a, before command n.
WritersIn(l, a, b, m, n) ==
  {w \in m + 1 .. n - 1 : /\ l[w].cmd.type = "Write" /\ l[w].result.success
                          /\ l[w].cmd.address = a /\ l[w].cmd.size >= b}

LastOf(W) == CHOOSE w \in W : \A x \in W : x <= w

ByteIn(l, a, b, m, n) ==
  IF WritersIn(l, a, b, m, n) = {} THEN 0 ELSE l[LastOf(WritersIn(l, a, b, m, n))].cmd.byte

\* LastByte is the byte of the log.
LEMMA LastByteIn ==
  ASSUME NEW a, NEW b, NEW m, NEW n
  PROVE  LastByte(a, b, m, n) = ByteIn(log, a, b, m, n)
  BY DEF LastByte, ByteIn, WritersIn, LastOf

\* A nonempty set of naturals has a least element.
LEMMA LeastNatural ==
  ASSUME NEW S \in SUBSET Nat, S # {}
  PROVE  \E m \in S : \A n \in S : m <= n
<1> DEFINE R == {ss \in Nat \X Nat : ss[1] < ss[2]}
<1>1. OpToRel(<, Nat) = R
  BY DEF OpToRel
<1>2. IsWellFoundedOn(R, Nat)
  BY <1>1, NatLessThanWellFounded
<1>3. PICK m \in S : \A n \in S : ~(<<n, m>> \in R)
  BY <1>2, WFMin
<1>4. \A n \in S : n < m => <<n, m>> \in R
  BY <1>3
<1> HIDE DEF R
<1>5. \A n \in S : ~(n < m)
  BY <1>3, <1>4, Zenon
<1>6. \A n \in S : m <= n
  BY <1>3, <1>5
<1> QED
  BY <1>6

\* The last of some writers is one of them.
LEMMA LastOfFacts ==
  ASSUME NEW m \in Nat, NEW n \in Nat, NEW W \in SUBSET (m + 1 .. n - 1), W # {}
  PROVE  LastOf(W) \in W /\ \A x \in W : x <= LastOf(W)
<1> DEFINE S == {n - w : w \in W}
<1>6. \A w \in W : w \in m + 1 .. n - 1
  OBVIOUS
<1>7. \A w \in W : n - w \in Nat /\ w \in Int
  BY <1>6
<1>1. S \in SUBSET Nat /\ S # {}
  BY <1>7
<1>2. PICK k \in S : \A j \in S : k <= j
  BY <1>1, LeastNatural
<1>3. PICK w \in W : k = n - w
  BY <1>2
<1>4. \A x \in W : n - w <= n - x
  BY <1>2, <1>3
<1>5. \A x \in W : x <= w
  BY <1>4, <1>7
<1> HIDE DEF S
<1> QED
  BY <1>5 DEF LastOf

\* The byte depends on the commands of the log before n only.
LEMMA ByteKept ==
  ASSUME NEW l, NEW p, NEW a, NEW b, NEW m \in Nat, NEW n \in Nat,
         \A w \in m + 1 .. n - 1 : p[w] = l[w]
  PROVE  ByteIn(p, a, b, m, n) = ByteIn(l, a, b, m, n)
<1> DEFINE W == WritersIn(l, a, b, m, n)
<1>1. WritersIn(p, a, b, m, n) = W
  BY DEF WritersIn
<1>2. W \in SUBSET (m + 1 .. n - 1)
  BY DEF WritersIn
<1> HIDE DEF W
<1>3. W # {} => p[LastOf(W)] = l[LastOf(W)]
  <2> SUFFICES ASSUME W # {} PROVE p[LastOf(W)] = l[LastOf(W)]
    OBVIOUS
  <2>1. LastOf(W) \in m + 1 .. n - 1
    BY <1>2, LastOfFacts
  <2> QED
    BY <2>1
<1> QED
  BY <1>1, <1>3 DEF ByteIn, W

\* A command that does not write the byte leaves it.
LEMMA ByteSkip ==
  ASSUME NEW l, NEW a, NEW b, NEW m \in Nat, NEW n \in Nat, m < n,
         ~(/\ l[n].cmd.type = "Write" /\ l[n].result.success
           /\ l[n].cmd.address = a /\ l[n].cmd.size >= b)
  PROVE  ByteIn(l, a, b, m, n + 1) = ByteIn(l, a, b, m, n)
<1>1. m + 1 .. n + 1 - 1 = (m + 1 .. n - 1) \cup {n}
  OBVIOUS
<1>2. WritersIn(l, a, b, m, n + 1) = WritersIn(l, a, b, m, n)
  BY <1>1 DEF WritersIn
<1> QED
  BY <1>2 DEF ByteIn

\* A command that writes the byte is the last to do so.
LEMMA ByteWritten ==
  ASSUME NEW l, NEW a, NEW b, NEW m \in Nat, NEW n \in Nat, m < n,
         l[n].cmd.type = "Write", l[n].result.success,
         l[n].cmd.address = a, l[n].cmd.size >= b
  PROVE  ByteIn(l, a, b, m, n + 1) = l[n].cmd.byte
<1> DEFINE W == WritersIn(l, a, b, m, n + 1)
<1>1. n \in m + 1 .. (n + 1) - 1
  OBVIOUS
<1>2. n \in W
  BY <1>1 DEF WritersIn
<1>3. W \in SUBSET (m + 1 .. (n + 1) - 1)
  BY DEF WritersIn
<1> HIDE DEF W
<1>4. LastOf(W) \in W /\ \A x \in W : x <= LastOf(W)
  <2>1. n + 1 \in Nat
    OBVIOUS
  <2> QED
    BY <1>2, <1>3, <2>1, LastOfFacts
<1>6. LastOf(W) \in m + 1 .. (n + 1) - 1 /\ n <= LastOf(W)
  BY <1>2, <1>3, <1>4
<1>5. LastOf(W) = n
  BY <1>6
<1> QED
  BY <1>2, <1>5 DEF ByteIn, W

(***************************************************************************)
(* The contents of the memory                                              *)
(***************************************************************************)
ContentsInv == AllocOK /\ MemOK /\ ReadsLastWrite

\* What a response says of its command.
LEMMA ResponseFacts ==
  ASSUME CxlTypeOK, NEW cmd \in Command
  PROVE  /\ cmd.type = "Read" /\ HandlerResponse(cmd).success
              => CanAccess(cmd) /\ HandlerResponse(cmd).data = Bytes1To(cmd)
         /\ cmd.type = "Write" => (HandlerResponse(cmd).success <=> CanAccess(cmd))
         /\ cmd.type = "Allocate" => HandlerResponse(cmd).addr = next_free_address
<1>1. NewAddress # 0 /\ NewAddress = next_free_address
  BY DEF CxlTypeOK, NewAddress
<1>2. \A s, d, a : /\ Result(s, d, a).success = s /\ Result(s, d, a).data = d
                   /\ Result(s, d, a).addr = a
  BY DEF Result
<1>3. Failure.success = FALSE
  BY <1>2 DEF Failure
<1>4. CASE cmd.type = "Read"
  <2>1. HandlerResponse(cmd) = IF CanAccess(cmd) THEN Result(TRUE, Bytes1To(cmd), 0)
                               ELSE Result(FALSE, [i \in 1 .. cmd.size |-> 0], 0)
    BY <1>4 DEF HandlerResponse
  <2>2. CASE CanAccess(cmd)
    BY <1>4, <2>1, <2>2 DEF Result
  <2>3. CASE ~CanAccess(cmd)
    <3>1. HandlerResponse(cmd).success = FALSE
      BY <2>1, <2>3 DEF Result
    <3> QED
      BY <1>4, <3>1
  <2> QED
    BY <2>2, <2>3
<1>5. CASE cmd.type = "Write"
  BY <1>2, <1>3, <1>5 DEF HandlerResponse
<1>6. CASE cmd.type = "Allocate"
  <2>1. HandlerResponse(cmd) = Result(TRUE, <<>>, NewAddress)
    BY <1>1, <1>6 DEF HandlerResponse
  <2> QED
    BY <1>1, <1>6, <2>1 DEF Result
<1> QED
  BY <1>4, <1>5, <1>6

\* The log after a command: the commands before it, and the command.
LEMMA LogGrows ==
  ASSUME CxlTypeOK, NEW cmd \in Command, SendImpl(cmd)
  PROVE  /\ log \in Seq(Entry) /\ Len(log) \in Nat /\ DOMAIN log = 1 .. Len(log)
         /\ Len(log') = Len(log) + 1 /\ DOMAIN log' = 1 .. Len(log) + 1
         /\ \A k \in 1 .. Len(log) : log'[k] = log[k]
         /\ log'[Len(log) + 1].cmd = cmd
         /\ log'[Len(log) + 1].result = HandlerResponse(cmd)
<1> DEFINE e == [cmd |-> cmd, result |-> HandlerResponse(cmd)]
<1>1. wiring = "impl" /\ log' = Append(log, e)
  BY DEF SendImpl
<1>2. log \in Seq(Entry) /\ e \in Entry
  BY <1>1, ResponseType DEF CxlTypeOK, Entry
<1>3. e.cmd = cmd /\ e.result = HandlerResponse(cmd)
  OBVIOUS
<1> HIDE DEF e
<1>4. /\ Len(log) \in Nat /\ DOMAIN log = 1 .. Len(log)
      /\ log' \in Seq(Entry) /\ Len(log') = Len(log) + 1
      /\ \A k \in 1 .. Len(log) : log'[k] = log[k]
      /\ log'[Len(log) + 1] = e
  BY <1>1, <1>2
<1>5. DOMAIN log' = 1 .. Len(log) + 1
  BY <1>4
<1> QED
  BY <1>2, <1>3, <1>4, <1>5

\* A command leaves every address given out once.
LEMMA AllocKept ==
  ASSUME CxlTypeOK, AllocOK, NEW cmd \in Command, SendImpl(cmd)
  PROVE  AllocOK'
<1> DEFINE N == Len(log)
<1>1. /\ wiring = "impl" /\ wiring' = wiring
      /\ next_free_address' = next_free_address + (IF cmd.type = "Allocate" THEN 1 ELSE 0)
  BY DEF SendImpl
<1>2. /\ N \in Nat /\ DOMAIN log = 1 .. N /\ DOMAIN log' = 1 .. N + 1
      /\ \A k \in 1 .. N : log'[k] = log[k]
      /\ log'[N + 1].cmd = cmd /\ log'[N + 1].result = HandlerResponse(cmd)
      /\ log \in Seq(Entry)
  BY LogGrows
<1>3. cmd.type = "Allocate" => HandlerResponse(cmd).addr = next_free_address
  BY ResponseFacts
<1>4. next_free_address \in Nat
  BY DEF CxlTypeOK
<1>5. \A k \in 1 .. N : log[k].result.addr \in Nat
  <2> TAKE k \in 1 .. N
  <2>1. log[k] \in Entry
    BY <1>2
  <2> QED
    BY <2>1 DEF Entry, Answer
<1>6. /\ \A n \in 1 .. N :
           log[n].cmd.type = "Allocate" => log[n].result.addr < next_free_address
      /\ \A n \in 1 .. N, k \in 1 .. N :
           /\ log[n].cmd.type = "Allocate" /\ log[k].cmd.type = "Allocate"
           /\ log[n].result.addr = log[k].result.addr
           => n = k
  BY <1>1, <1>2 DEF AllocOK
<1> HIDE DEF N
<1>7. \A n \in 1 .. N + 1 : n \in 1 .. N \/ n = N + 1
  BY <1>2
<1>8. ASSUME NEW n \in 1 .. N + 1, log'[n].cmd.type = "Allocate"
      PROVE  log'[n].result.addr < next_free_address'
  <2>1. CASE n \in 1 .. N
    <3>1. log[n].result.addr < next_free_address /\ log'[n].result.addr = log[n].result.addr
      BY <1>2, <1>6, <1>8, <2>1
    <3> QED
      BY <1>1, <1>4, <1>5, <2>1, <3>1
  <2>2. CASE n = N + 1
    BY <1>1, <1>2, <1>3, <1>4, <1>8, <2>2
  <2> QED
    BY <1>7, <2>1, <2>2
<1>9. ASSUME NEW n \in 1 .. N + 1, NEW k \in 1 .. N + 1,
             log'[n].cmd.type = "Allocate", log'[k].cmd.type = "Allocate",
             log'[n].result.addr = log'[k].result.addr
      PROVE  n = k
  <2>1. CASE n \in 1 .. N /\ k \in 1 .. N
    BY <1>2, <1>6, <1>9, <2>1
  <2>2. ASSUME NEW i \in 1 .. N, log'[i].cmd.type = "Allocate", cmd.type = "Allocate"
        PROVE  log'[i].result.addr # HandlerResponse(cmd).addr
    <3>1. log[i].result.addr < next_free_address /\ log'[i].result.addr = log[i].result.addr
      BY <1>2, <1>6, <2>2
    <3> QED
      BY <1>3, <1>4, <1>5, <2>2, <3>1
  <2>3. CASE n = N + 1 /\ k = N + 1
    BY <2>3
  <2>4. CASE n \in 1 .. N /\ k = N + 1
    BY <1>2, <1>9, <2>2, <2>4
  <2>5. CASE n = N + 1 /\ k \in 1 .. N
    BY <1>2, <1>9, <2>2, <2>5
  <2> QED
    BY <1>7, <2>1, <2>3, <2>4, <2>5
<1> QED
  BY <1>2, <1>8, <1>9 DEF AllocOK

\* An allocation lives on after a command that does not free it.
LEMMA LivesOn ==
  ASSUME CxlTypeOK, NEW cmd \in Command, SendImpl(cmd), NEW a, NEW m \in DOMAIN log,
         Lives(a, m, Last + 1), ~(cmd.type = "Deallocate" /\ cmd.address = a)
  PROVE  m \in DOMAIN log' /\ Lives(a, m, Last + 1)'
<1> DEFINE N == Len(log)
<1>1. /\ N \in Nat /\ DOMAIN log = 1 .. N /\ DOMAIN log' = 1 .. N + 1 /\ Len(log') = N + 1
      /\ \A k \in 1 .. N : log'[k] = log[k]
      /\ log'[N + 1].cmd = cmd
  BY LogGrows
<1>2. /\ m \in 1 .. N /\ log[m].cmd.type = "Allocate" /\ log[m].result.addr = a
      /\ \A d \in m + 1 .. (N + 1) - 1 :
            ~(log[d].cmd.type = "Deallocate" /\ log[d].cmd.address = a)
  BY <1>1 DEF Lives, Allocations, Last
<1> HIDE DEF N
<1>3. m \in 1 .. N + 1 /\ m < (N + 1) + 1
  BY <1>1, <1>2
<1>4. log'[m].cmd.type = "Allocate" /\ log'[m].result.addr = a
  BY <1>1, <1>2
<1>5. ASSUME NEW d \in m + 1 .. ((N + 1) + 1) - 1
      PROVE  ~(log'[d].cmd.type = "Deallocate" /\ log'[d].cmd.address = a)
  <2>1. CASE d = N + 1
    BY <1>1, <2>1
  <2>2. CASE d # N + 1
    <3>1. d \in m + 1 .. (N + 1) - 1 /\ d \in 1 .. N
      BY <1>1, <1>2, <2>2
    <3> QED
      BY <1>1, <1>2, <3>1
  <2> QED
    BY <2>1, <2>2
<1> QED
  BY <1>1, <1>3, <1>4, <1>5 DEF Lives, Allocations, Last

\* A byte after a command: the one that the command writes, or the old one.
LEMMA ByteAfter ==
  ASSUME CxlTypeOK, NEW cmd \in Command, SendImpl(cmd), NEW a, NEW m \in DOMAIN log, NEW b,
         NEW v, v = LastByte(a, b, m, Last + 1)
  PROVE  LastByte(a, b, m, Last + 1)' =
           IF cmd.type = "Write" /\ CanAccess(cmd) /\ cmd.address = a /\ cmd.size >= b
           THEN cmd.byte ELSE v
<1> DEFINE N == Len(log)
<1>1. /\ N \in Nat /\ DOMAIN log = 1 .. N /\ Len(log') = N + 1
      /\ \A k \in 1 .. N : log'[k] = log[k]
      /\ log'[N + 1].cmd = cmd /\ log'[N + 1].result = HandlerResponse(cmd)
  BY LogGrows
<1>2. cmd.type = "Write" => (HandlerResponse(cmd).success <=> CanAccess(cmd))
  BY ResponseFacts
<1>3. v = ByteIn(log, a, b, m, N + 1)
  BY LastByteIn DEF Last
<1>4. LastByte(a, b, m, Last + 1)' = ByteIn(log', a, b, m, (N + 1) + 1)
  BY ONLY <1>1 DEF Last, LastByte, ByteIn, WritersIn, LastOf
<1> HIDE DEF N
<1>5. m \in Nat /\ N + 1 \in Nat /\ m < N + 1
  BY <1>1
<1>6. \A w \in m + 1 .. (N + 1) - 1 : log'[w] = log[w]
  BY <1>1, <1>5
<1>7. ByteIn(log', a, b, m, N + 1) = v
  BY <1>3, <1>5, <1>6, ByteKept
<1>10. PICK n \in Nat : n = N + 1
  BY <1>5
<1>11. PICK p : p = log'
  OBVIOUS
<1>8. CASE cmd.type = "Write" /\ CanAccess(cmd) /\ cmd.address = a /\ cmd.size >= b
  <2>1. ByteIn(p, a, b, m, n + 1) = p[n].cmd.byte
    <3>1. /\ p[n].cmd.type = "Write" /\ p[n].result.success
          /\ p[n].cmd.address = a /\ p[n].cmd.size >= b
      BY <1>1, <1>2, <1>8, <1>10, <1>11
    <3>2. m \in Nat /\ n \in Nat /\ m < n
      BY <1>5, <1>10
    <3> QED
      BY ONLY <3>1, <3>2, ByteWritten
  <2> QED
    BY <1>1, <1>4, <1>8, <1>10, <1>11, <2>1
<1>9. CASE ~(cmd.type = "Write" /\ CanAccess(cmd) /\ cmd.address = a /\ cmd.size >= b)
  <2>1. ByteIn(p, a, b, m, n + 1) = ByteIn(p, a, b, m, n)
    <3>1. ~(/\ p[n].cmd.type = "Write" /\ p[n].result.success
            /\ p[n].cmd.address = a /\ p[n].cmd.size >= b)
      BY <1>1, <1>2, <1>9, <1>10, <1>11
    <3>2. m \in Nat /\ n \in Nat /\ m < n
      BY <1>5, <1>10
    <3> QED
      BY ONLY <3>1, <3>2, ByteSkip
  <2>2. LastByte(a, b, m, Last + 1)' = v
    BY <1>4, <1>7, <1>10, <1>11, <2>1
  <2> QED
    BY <1>9, <2>2
<1> QED
  BY <1>8, <1>9

\* A command keeps the memory the result of the commands.
LEMMA MemKept ==
  ASSUME CxlTypeOK, MemOK, NEW cmd \in Command, SendImpl(cmd)
  PROVE  MemOK'
<1> DEFINE N == Len(log)
<1>1. wiring = "impl" /\ wiring' = wiring /\ memory' = MemoryAfter(cmd)
  BY DEF SendImpl
<1>2. /\ N \in Nat /\ DOMAIN log = 1 .. N /\ DOMAIN log' = 1 .. N + 1 /\ Len(log') = N + 1
      /\ log'[N + 1].cmd = cmd /\ log'[N + 1].result = HandlerResponse(cmd)
  BY LogGrows
<1>3. \A a \in DOMAIN memory : memory[a] \in Seq(Bytes)
  BY DEF CxlTypeOK
<1>4. cmd.size \in Nat
  BY CommandTypes
<1> HIDE DEF N
<1>5. ASSUME NEW a \in DOMAIN memory, ~(cmd.type = "Deallocate" /\ cmd.address = a),
             DOMAIN memory'[a] = DOMAIN memory[a],
             \A b \in DOMAIN memory[a] :
               memory'[a][b] = IF /\ cmd.type = "Write" /\ CanAccess(cmd)
                                  /\ cmd.address = a /\ cmd.size >= b
                               THEN cmd.byte ELSE memory[a][b]
      PROVE  \E m \in DOMAIN log' :
               /\ Lives(a, m, Last + 1)'
               /\ \A b \in DOMAIN memory'[a] :
                    memory'[a][b] = LastByte(a, b, m, Last + 1)'
  <2>1. PICK m \in DOMAIN log :
          /\ Lives(a, m, Last + 1)
          /\ \A b \in DOMAIN memory[a] : memory[a][b] = LastByte(a, b, m, Last + 1)
    BY <1>1 DEF MemOK
  <2>2. m \in DOMAIN log' /\ Lives(a, m, Last + 1)'
    BY <1>5, <2>1, LivesOn
  <2>3. ASSUME NEW b \in DOMAIN memory[a]
        PROVE  memory'[a][b] = LastByte(a, b, m, Last + 1)'
    <3>1. memory[a][b] = LastByte(a, b, m, Last + 1)
      BY <2>1
    <3>2. LastByte(a, b, m, Last + 1)' =
            IF cmd.type = "Write" /\ CanAccess(cmd) /\ cmd.address = a /\ cmd.size >= b
            THEN cmd.byte ELSE memory[a][b]
      BY <3>1, ByteAfter
    <3> QED
      BY <1>5, <3>2
  <2> QED
    BY <1>5, <2>2, <2>3
<1>6. ASSUME NEW a \in DOMAIN memory'
      PROVE  \E m \in DOMAIN log' :
               /\ Lives(a, m, Last + 1)'
               /\ \A b \in DOMAIN memory'[a] :
                    memory'[a][b] = LastByte(a, b, m, Last + 1)'
  <2>1. CASE cmd.type = "Write" /\ CanAccess(cmd)
    <3>1. /\ DOMAIN memory' = DOMAIN memory
          /\ memory'[a] = IF a = cmd.address THEN Written(cmd) ELSE memory[a]
      BY <1>1, <1>6, <2>1, MemoryMoves
    <3>2. CASE a = cmd.address
      <4>1. /\ DOMAIN Written(cmd) = DOMAIN memory[a]
            /\ \A b \in DOMAIN memory[a] :
                 Written(cmd)[b] = IF b <= cmd.size THEN cmd.byte ELSE memory[a][b]
        BY <2>1, <3>2, WrittenFacts
      <4>2. DOMAIN memory[a] = 1 .. Len(memory[a]) /\ Len(memory[a]) \in Nat
        BY <1>3, <1>6, <3>1
      <4>3. \A b \in DOMAIN memory[a] : cmd.size >= b <=> b <= cmd.size
        BY <1>4, <4>2
      <4> QED
        BY <1>5, <1>6, <2>1, <3>1, <3>2, <4>1, <4>3
    <3>3. CASE a # cmd.address
      BY <1>5, <1>6, <2>1, <3>1, <3>3
    <3> QED
      BY <3>2, <3>3
  <2>2. CASE cmd.type = "Allocate"
    <3>1. /\ DOMAIN memory' = DOMAIN memory \cup {next_free_address}
          /\ memory'[next_free_address] = [i \in 1 .. cmd.size |-> 0]
          /\ \A x \in DOMAIN memory : memory'[x] = memory[x]
      BY <1>1, <2>2, MemoryMoves
    <3>2. CASE a \in DOMAIN memory
      BY <1>5, <2>2, <3>1, <3>2
    <3>3. CASE a = next_free_address
      <4>1. PICK k \in Nat : k = N + 1
        BY <1>2
      <4>2. HandlerResponse(cmd).addr = a
        BY <2>2, <3>3, ResponseFacts
      <4>3. /\ k \in DOMAIN log' /\ log'[k].cmd.type = "Allocate" /\ log'[k].result.addr = a
            /\ Last' + 1 = k + 1
        BY <1>2, <2>2, <4>1, <4>2 DEF Last
      <4>4. k + 1 .. (k + 1) - 1 = {} /\ k < k + 1
        BY <4>1
      <4>5. Lives(a, k, Last + 1)'
        BY <4>3, <4>4 DEF Lives, Allocations
      <4>6. \A b : ByteIn(log', a, b, k, k + 1) = 0
        <5>1. \A b : WritersIn(log', a, b, k, k + 1) = {}
          BY <4>4 DEF WritersIn
        <5> QED
          BY <5>1 DEF ByteIn
      <4>7. \A b : LastByte(a, b, k, Last + 1)' = 0
        <5> TAKE b
        <5>1. LastByte(a, b, k, Last + 1)' = ByteIn(log', a, b, k, Last' + 1)
          BY DEF LastByte, ByteIn, WritersIn, LastOf
        <5> QED
          BY <4>3, <4>6, <5>1
      <4>8. DOMAIN memory'[a] = 1 .. cmd.size /\ \A b \in 1 .. cmd.size : memory'[a][b] = 0
        BY <3>1, <3>3
      <4> QED
        BY <4>3, <4>5, <4>7, <4>8
    <3> QED
      BY <3>1, <3>2, <3>3
  <2>3. CASE cmd.type = "Deallocate"
    <3>1. /\ DOMAIN memory' = DOMAIN memory \ {cmd.address}
          /\ memory'[a] = memory[a]
      BY <1>1, <1>6, <2>3, MemoryMoves
    <3> QED
      BY <1>5, <1>6, <2>3, <3>1
  <2>4. CASE cmd.type \in {"Read", "Other"} \/ (cmd.type = "Write" /\ ~CanAccess(cmd))
    <3>1. memory' = memory
      BY <1>1, <2>4, MemoryMoves
    <3> QED
      BY <1>5, <1>6, <2>4, <3>1
  <2>5. cmd.type \in {"Read", "Write", "Allocate", "Deallocate", "Other"}
    BY CommandTypes
  <2> QED
    BY <2>1, <2>2, <2>3, <2>4, <2>5
<1> QED
  BY <1>6 DEF MemOK

\* Command n finds the given bytes at address a: the one allocation of it lives, and
\* they are what was last written there.
Current(a, n, size, data) ==
  \E m \in Allocations(a) :
    /\ m < n /\ Allocations(a) = {m}
    /\ \A d \in m + 1 .. n - 1 :
         ~(log[d].cmd.type = "Deallocate" /\ log[d].cmd.address = a)
    /\ \A i \in 1 .. size : data[i] = LastByte(a, i, m, n)

\* A command keeps the reads of the log: earlier ones see no later command, and
\* a read that is executed now returns what the memory holds.
LEMMA ReadsKept ==
  ASSUME CxlTypeOK, AllocOK, MemOK, ReadsLastWrite, NEW cmd \in Command, SendImpl(cmd)
  PROVE  ReadsLastWrite'
<1> DEFINE N == Len(log)
<1>1. wiring = "impl" /\ wiring' = wiring
  BY DEF SendImpl
<1>2. /\ N \in Nat /\ DOMAIN log = 1 .. N /\ DOMAIN log' = 1 .. N + 1
      /\ \A k \in 1 .. N : log'[k] = log[k]
      /\ log'[N + 1].cmd = cmd /\ log'[N + 1].result = HandlerResponse(cmd)
  BY LogGrows
<1>3. \A k \in 1 .. N : log[k].cmd.size \in Nat
  <2> TAKE k \in 1 .. N
  <2>1. log[k] \in Entry
    BY <1>2, LogGrows
  <2>2. log[k].cmd \in Command
    BY <2>1 DEF Entry
  <2> QED
    BY <2>2, CommandTypes
<1>4. Last = N
  BY DEF Last
<1> HIDE DEF N
\* an address that was given out is not given out again
<1>5. ASSUME NEW a, NEW m \in Allocations(a), Allocations(a) = {m}
      PROVE  Allocations(a)' = {m}
  <2>1. m \in 1 .. N /\ log[m].cmd.type = "Allocate" /\ log[m].result.addr = a
    BY <1>2, <1>5 DEF Allocations
  <2>2. a < next_free_address
    BY <1>1, <1>2, <2>1 DEF AllocOK
  <2>3. cmd.type = "Allocate" => HandlerResponse(cmd).addr # a
    <3>1. cmd.type = "Allocate" => HandlerResponse(cmd).addr = next_free_address
      BY ResponseFacts
    <3>2. next_free_address \in Nat
      BY DEF CxlTypeOK
    <3> QED
      BY <2>2, <3>1, <3>2
  <2>4. \A k \in 1 .. N + 1 :
          log'[k].cmd.type = "Allocate" /\ log'[k].result.addr = a => k = m
    <3> TAKE k \in 1 .. N + 1
    <3>1. CASE k = N + 1
      BY <1>2, <2>3, <3>1
    <3>2. CASE k # N + 1
      <4>1. k \in 1 .. N
        BY <1>2, <3>2
      <4>2. \A i \in 1 .. N : log[i].cmd.type = "Allocate" /\ log[i].result.addr = a => i = m
        BY <1>2, <1>5 DEF Allocations
      <4> QED
        BY <1>2, <4>1, <4>2
    <3> QED
      BY <3>1, <3>2
  <2>5. m \in 1 .. N + 1 /\ log'[m].cmd.type = "Allocate" /\ log'[m].result.addr = a
    BY <1>2, <2>1
  <2> QED
    BY <1>2, <2>4, <2>5 DEF Allocations
\* what a command of the log was about
<1>6. ASSUME NEW a, NEW n \in 1 .. N + 1, NEW size \in Nat, NEW data,
             Current(a, n, size, data)
      PROVE  Current(a, n, size, data)'
  <2>5. PICK m \in Allocations(a) :
          /\ m < n /\ Allocations(a) = {m}
          /\ \A d \in m + 1 .. n - 1 :
               ~(log[d].cmd.type = "Deallocate" /\ log[d].cmd.address = a)
          /\ \A i \in 1 .. size : data[i] = LastByte(a, i, m, n)
    BY <1>6 DEF Current
  <2>1. Allocations(a)' = {m}
    BY <1>5, <2>5
  <2>2. m \in 1 .. N /\ n \in Nat /\ m \in Nat
    BY <1>2 DEF Allocations
  <2>3. \A w \in m + 1 .. n - 1 : log'[w] = log[w]
    BY <1>2, <2>2, <2>5
  <2>4. ASSUME NEW i \in 1 .. size PROVE data[i] = LastByte(a, i, m, n)'
    <3>1. ByteIn(log', a, i, m, n) = ByteIn(log, a, i, m, n)
      BY <2>2, <2>3, ByteKept
    <3>2. LastByte(a, i, m, n)' = ByteIn(log', a, i, m, n)
      BY DEF LastByte, ByteIn, WritersIn, LastOf
    <3>3. data[i] = LastByte(a, i, m, n) /\ LastByte(a, i, m, n) = ByteIn(log, a, i, m, n)
      BY <2>5, LastByteIn
    <3> QED
      BY <3>1, <3>2, <3>3
  <2> QED
    BY <2>1, <2>3, <2>4, <2>5 DEF Current
<1>7. ASSUME NEW n \in 1 .. N + 1, NEW a, NEW size, NEW data,
             a = log'[n].cmd.address, size = log'[n].cmd.size, data = log'[n].result.data,
             log'[n].cmd.type = "Read", log'[n].result.success
      PROVE  Current(a, n, size, data)'
  <2>1. CASE n \in 1 .. N
    <3>1. /\ a = log[n].cmd.address /\ size = log[n].cmd.size /\ data = log[n].result.data
          /\ log[n].cmd.type = "Read" /\ log[n].result.success /\ size \in Nat
      BY <1>2, <1>3, <1>7, <2>1
    <3>2. Current(log[n].cmd.address, n, log[n].cmd.size, log[n].result.data)
      BY <1>1, <1>2, <2>1, <3>1 DEF ReadsLastWrite, Current
    <3> QED
      BY <1>6, <3>1, <3>2
  <2>2. CASE n = N + 1
    <3>1. /\ a = cmd.address /\ cmd.type = "Read" /\ HandlerResponse(cmd).success
          /\ size = cmd.size /\ data = HandlerResponse(cmd).data
      BY <1>2, <1>7, <2>2
    <3>2. CanAccess(cmd) /\ HandlerResponse(cmd).data = Bytes1To(cmd)
      BY <3>1, ResponseFacts
    <3>3. /\ a \in DOMAIN memory /\ memory[a] \in Seq(Bytes) /\ size \in Nat
          /\ size <= Len(memory[a]) /\ Len(memory[a]) \in Nat
      BY <3>1, <3>2, CommandTypes DEF CanAccess, CxlTypeOK
    <3>4. PICK m \in DOMAIN log :
            /\ Lives(a, m, Last + 1)
            /\ \A b \in DOMAIN memory[a] : memory[a][b] = LastByte(a, b, m, Last + 1)
      BY <1>1, <3>3 DEF MemOK
    <3>5. m \in Allocations(a) /\ m < n
          /\ \A d \in m + 1 .. n - 1 :
               ~(log[d].cmd.type = "Deallocate" /\ log[d].cmd.address = a)
      BY <1>4, <2>2, <3>4 DEF Lives
    <3>6. Allocations(a) = {m}
      BY <1>1, <3>5 DEF Allocations, AllocOK
    <3>7. \A i \in 1 .. size : data[i] = LastByte(a, i, m, n)
      <4> TAKE i \in 1 .. size
      <4>1. data[i] = memory[a][i]
        BY <3>1, <3>2, <3>3, FirstBytes DEF Bytes1To
      <4>2. i \in DOMAIN memory[a]
        BY <3>3
      <4> QED
        BY <1>4, <2>2, <3>4, <4>1, <4>2
    <3>8. Current(a, n, size, data)
      BY <3>5, <3>6, <3>7 DEF Current
    <3> QED
      BY <1>6, <3>3, <3>8
  <2> QED
    BY <1>2, <2>1, <2>2
<1>8. ASSUME NEW n \in DOMAIN log', log'[n].cmd.type = "Read", log'[n].result.success
      PROVE  \E m \in Allocations(log[n].cmd.address)' :
               /\ m < n /\ Allocations(log[n].cmd.address)' = {m}
               /\ \A d \in m + 1 .. n - 1 :
                    ~(/\ log'[d].cmd.type = "Deallocate"
                      /\ log'[d].cmd.address = log'[n].cmd.address)
               /\ \A i \in 1 .. log'[n].cmd.size :
                    log'[n].result.data[i] = LastByte(log[n].cmd.address, i, m, n)'
  <2>1. PICK a, size, data : /\ a = log'[n].cmd.address /\ size = log'[n].cmd.size
                             /\ data = log'[n].result.data
    OBVIOUS
  <2>2. n \in 1 .. N + 1
    BY <1>2
  <2>3. Current(a, n, size, data)'
    BY <1>7, <1>8, <2>1, <2>2
  <2>4. Allocations(log[n].cmd.address)' = Allocations(a)'
    BY <2>1 DEF Allocations
  <2>5. ASSUME NEW i, NEW m
        PROVE  LastByte(log[n].cmd.address, i, m, n)' = LastByte(a, i, m, n)'
    <3>1. /\ LastByte(a, i, m, n)' = ByteIn(log', a, i, m, n)
          /\ LastByte(log[n].cmd.address, i, m, n)' = ByteIn(log', log'[n].cmd.address, i, m, n)
      BY DEF LastByte, ByteIn, WritersIn, LastOf
    <3> QED
      BY <2>1, <3>1
  <2>6. PICK m \in Allocations(a)' :
          /\ m < n /\ Allocations(a)' = {m}
          /\ \A d \in m + 1 .. n - 1 :
               ~(log'[d].cmd.type = "Deallocate" /\ log'[d].cmd.address = a)
          /\ \A i \in 1 .. size : data[i] = LastByte(a, i, m, n)'
    BY <2>3 DEF Current
  <2> QED
    BY <2>1, <2>4, <2>5, <2>6
<1> QED
  BY <1>8 DEF ReadsLastWrite

\* Every step keeps the contents; only a command of the "impl" wiring changes them.
LEMMA ContentsStep == CxlInv /\ ContentsInv /\ [Next]_vars => ContentsInv'
<1> SUFFICES ASSUME CxlInv, ContentsInv, [Next]_vars PROVE ContentsInv'
  OBVIOUS
<1>1. CxlTypeOK /\ AllocOK /\ MemOK /\ ReadsLastWrite
  BY DEF CxlInv, ContentsInv
<1>2. ASSUME NEW cmd \in Command, SendImpl(cmd) PROVE ContentsInv'
  BY <1>1, <1>2, AllocKept, MemKept, ReadsKept DEF ContentsInv
<1>3. CASE SendMock
  <2>1. wiring' # "impl"
    BY <1>3 DEF SendMock
  <2> QED
    BY <2>1 DEF ContentsInv, AllocOK, MemOK, ReadsLastWrite
<1>4. CASE UNCHANGED <<wiring, memory, next_free_address, log>>
  <2>1. AllocOK'
    BY <1>1, <1>4 DEF AllocOK
  <2>4. /\ Last' = Last
        /\ \A a : Allocations(a)' = Allocations(a)
        /\ \A a, i, m, n : LastByte(a, i, m, n)' = LastByte(a, i, m, n)
    BY <1>4 DEF Allocations, LastByte, Last
  <2>5. \A a, m : Lives(a, m, Last + 1)' = Lives(a, m, Last + 1)
    BY <1>4 DEF Lives, Allocations, Last
  <2>6. \A a, b, m : LastByte(a, b, m, Last + 1)' = LastByte(a, b, m, Last + 1)
    BY <1>4 DEF LastByte, Last
  <2>2. MemOK'
    BY <1>1, <1>4, <2>5, <2>6 DEF MemOK
  <2>3. ReadsLastWrite'
    BY <1>1, <1>4, <2>4 DEF ReadsLastWrite
  <2> QED
    BY <2>1, <2>2, <2>3 DEF ContentsInv
<1>5. ASSUME NEW t \in threads, HostThread(t) \/ DeviceThread(t) PROVE ContentsInv'
  BY <1>4, <1>5 DEF HostThread, DeviceThread
<1>6. CASE ReceiveResponse
  BY <1>4, <1>6 DEF ReceiveResponse
<1>7. CASE UNCHANGED vars
  BY <1>4, <1>7 DEF vars
<1> QED
  BY <1>2, <1>3, <1>5, <1>6, <1>7 DEF Next

\* The memory and the log tell the same story at every time.
THEOREM ContentsFollowLog == Spec => []ContentsInv
<1>1. Init => ContentsInv
  <2> SUFFICES ASSUME Init PROVE ContentsInv
    OBVIOUS
  <2>1. DOMAIN memory = {} /\ log = <<>> /\ DOMAIN log = {}
    BY DEF Init
  <2> QED
    BY <2>1 DEF ContentsInv, AllocOK, MemOK, ReadsLastWrite
<1>2. CxlInv /\ ContentsInv /\ [Next]_vars => ContentsInv'
  BY ContentsStep
<1> QED
  BY <1>1, <1>2, CxlConsistent, PTL DEF Spec

\* A read that succeeds is of a live allocation and returns what the last
\* writes left there; no handle is given out twice.
THEOREM ReadsAreCurrent == Spec => []ReadsLastWrite
<1>1. ContentsInv => ReadsLastWrite
  BY DEF ContentsInv
<1> QED
  BY <1>1, ContentsFollowLog, PTL
=============================================================================
