------------------------------ MODULE MemSystem ------------------------------
(***************************************************************************)
(* The memory of the processor on the bus, behind mem_mips_bus_wrapper.    *)
(* Its caller may ask for any of Requests, at any time.                    *)
(***************************************************************************)
EXTENDS MemWrapper

CONSTANT Requests       \* the loads and stores

MemMaster == {wrapper}

ASSUME MemSystemAssumption ==
    /\ Master = MemMaster /\ Blocking = MemMaster
    /\ PriorityOf = [m \in MemMaster |-> mem_priority]
    /\ LockFlags = [m \in MemMaster |-> {FALSE}]
    /\ Slave = {"mem"} /\ StartAddress = [s \in Slave |-> MemStartAddr]
    /\ EndAddress = [s \in Slave |-> MemEndAddr] /\ MemEndAddr + 4 < AddressSpace
    /\ Calls = [m \in MemMaster |->
          [do_write : {TRUE}, address : {OpTypeReg, AddrReg, MemAddr}, length : {1}]
          \cup [do_write : {FALSE}, address : {MemAddr}, length : {1}]]
    /\ \A r \in Requests :
          /\ r.kind \in {"load", "store"} /\ r.type \in OpType
          /\ r.addr \in 0 .. UintCount - 1 /\ r.kte \in Int /\ r.dado \in Int4

mem_system_vars == <<vars, mem_vars, user, exited>>

MemSystemInit ==
    /\ Init /\ MemInit
    /\ request \in Requests /\ step = 0 /\ reply = MinusOne /\ exited = FALSE

-------------------------------------------------------------------------------
(* The caller and the wrapper. *)

CallMem ==
    /\ ~exited /\ step = 0 /\ pc[wrapper] = "idle"
    /\ request' \in Requests /\ step' = 1
    /\ WrapperCall(request', 1)
    /\ UNCHANGED <<mem_vars, exited>>

NextAccess ==
    /\ ~exited /\ step \in 1 .. Len(Accesses(request)) - 1
    /\ step' = step + 1
    /\ WrapperCall(request, step')
    /\ UNCHANGED <<mem_vars, request, exited>>

\* The load or store returns.
ReturnMem ==
    /\ ~exited /\ step = Len(Accesses(request)) /\ pc[wrapper] = "idle"
    /\ step' = 0
    /\ UNCHANGED <<vars, mem_vars, request, reply, exited>>

ReturnFromBus ==
    /\ ~exited /\ Return(wrapper)
    /\ UNCHANGED <<mem_vars, user, exited>>

WrapperRuns == NextAccess \/ ReturnMem \/ ReturnFromBus

-------------------------------------------------------------------------------
(* The clock.  It stands still between two calls of a load or store, when the *)
(* memory is free and the bus has nothing to do.                              *)

WrapperBlocked == ~exited /\ pc[wrapper] \in {"transfer", "edge"}

RisingEdge ==
    /\ WrapperBlocked /\ PosEdge /\ update_wait
    /\ UNCHANGED <<user, exited>>

BusEdge ==
    /\ WrapperBlocked /\ clk = "high"
    /\ \E p \in ToHandle : MemWrite(p) \/ MemRead(p)
ClockEdge == RisingEdge \/ BusEdge

MemSystemNext == CallMem \/ WrapperRuns \/ ClockEdge

\* The caller need not call; everything else goes on.
MemSystemSpec ==
    /\ MemSystemInit /\ [][MemSystemNext]_mem_system_vars
    /\ WF_mem_system_vars(WrapperRuns) /\ WF_mem_system_vars(ClockEdge)

-------------------------------------------------------------------------------
(* Properties. *)

MemSystemTypeOK ==
    /\ TypeOK /\ MemTypeOK
    /\ request \in Requests /\ step \in 0 .. 3 /\ reply \in Int4 /\ exited \in BOOLEAN

\* Outside of a read the memory is free: no write of the next call and no read
\* of another address meets the count that the last read left behind.
MemoryFree ==
    clk = "high" /\ m_current_request = None => mem_wait_left = -1

\* A load or store over the bus is one atomic call of the functions of
\* mem_mips, on the address and in the mode of its own request, and returns.
Nothing == "nothing"
Replies(m, r) == RepliesOf(m, r, Nothing)
Phase ==
    IF exited THEN "exited" ELSE IF step = 0 THEN "idle"
    ELSE IF step = Len(Accesses(request)) /\ pc[wrapper] # "transfer" THEN "done"
    ELSE "busy"
Returned == IF Phase = "done" /\ request.kind = "load" THEN reply ELSE Nothing
Abstract == INSTANCE MemIf WITH
    Replies <- Replies, Effect <- EffectOf, Fails <- FailsOf,
    memory <- mem, phase <- Phase, reply <- Returned
ImplementsMemIf == Abstract!Spec
MemIfSafety == Abstract!Init /\ [][Abstract!Next]_<<mem, Phase, request, Returned>>

\* Little-endian bytes: an aligned store sets the bytes from its address on to
\* those of its data, and no other one.
Width(type) == CASE type = "Byte" -> 1 [] type = "Half" -> 2 [] type = "Word" -> 4
Aligned(r) == AddressOf(r) % Width(r.type) = 0
ByteAt(m, b) == m[b \div 4][b % 4]
StoresItsBytes ==
    [][mem' # mem /\ Aligned(request) =>
         LET a == AddressOf(request) IN
         \A b \in 0 .. 4 * size - 1 :
            ByteAt(mem', b) = IF b \in a .. a + Width(request.type) - 1
                              THEN request.dado[b - a] ELSE ByteAt(mem, b)
      ]_mem_system_vars

\* An aligned load returns the bytes from its address on, and a sign.
LoadsItsBytes ==
    LET a == AddressOf(request)
        n == Width(request.type) IN
    Phase = "done" /\ request.kind = "load" /\ Aligned(request) /\ ~Outside(a)
    => \A k \in 0 .. 3 :
          reply[k] = IF k < n THEN ByteAt(mem, a + k)
                     ELSE IF ByteAt(mem, a + n - 1) < ByteCount \div 2 THEN 0
                     ELSE ByteCount - 1

-------------------------------------------------------------------------------
(* What the repository says and the code does not do. *)

\* MipsCpp/Testes/I_LOAD_STORE.asm:27 stores with an offset from $zero that is
\* the address of the data: a store changes the word at addr + kte.
StoreReachesOffset ==
    [][\A i \in 0 .. size - 1 :
          mem'[i] # mem[i] => i = (request.addr + request.kte) \div 4]_mem_system_vars
===============================================================================
