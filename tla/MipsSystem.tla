------------------------------ MODULE MipsSystem ------------------------------
(***************************************************************************)
(* The processor (include/mips_v0.h) with its memory and the MDU on one    *)
(* bus, as the commented part of src/main.cpp builds it.  The thread of    *)
(* the processor calls the bus with two priorities: as mips for the MDU    *)
(* and by way of pmem for the memory.  reset, which main never raises, may *)
(* change at any time; what the program prints is left out.                *)
(***************************************************************************)
EXTENDS MemWrapper, Mdu, MipsMachine

CONSTANTS
    Operands,           \* what the registers of the MDU may hold at first
    MaxResets           \* how often reset changes at most

cpu == "mips"
mdu_priority == 1
MipsMaster == {cpu, wrapper}
Priorities == [m \in MipsMaster |-> IF m = cpu THEN mdu_priority ELSE mem_priority]
MipsSlave == {"MDU", "mem"}
Starts == [s \in MipsSlave |-> IF s = "MDU" THEN StartAddr ELSE MemStartAddr]
Ends == [s \in MipsSlave |-> IF s = "MDU" THEN EndAddr ELSE MemEndAddr]

ASSUME MipsSystemAssumption ==
    /\ Master = MipsMaster /\ Blocking = MipsMaster /\ PriorityOf = Priorities
    /\ LockFlags = [m \in MipsMaster |-> {FALSE}]
    /\ Slave = MipsSlave /\ StartAddress = Starts /\ EndAddress = Ends
    /\ MemEndAddr + 4 < AddressSpace
    /\ Calls = [m \in MipsMaster |->
          IF m = cpu
          THEN [do_write : {TRUE}, address : {OpA, OpB}, length : {1}]
               \cup [do_write : {FALSE}, address : {MLow, MHigh, Div, Mod}, length : {1}]
          ELSE [do_write : {TRUE}, address : {OpTypeReg, AddrReg, MemAddr}, length : {1}]
               \cup [do_write : {FALSE}, address : {MemAddr}, length : {1}]]
    /\ Operands \subseteq Int32 /\ Operands # {} /\ MaxResets \in Nat

VARIABLES
    counter,            \* pc of the processor
    breg, hi, lo,       \* its registers,
    instruction,        \* and the fields of ri after decode
    stage,              \* "wait" for the rising edge, "fetch", "execute", "stopped"
    resets,             \* how often reset has changed
    before              \* history: the registers before the instruction, and
                        \* resets

cleared == <<counter, breg, hi, lo>>
regs == <<cleared, instruction, stage, resets, before>>
mips_vars == <<vars, mdu_vars, mem_vars, user, exited, regs>>

-------------------------------------------------------------------------------
(* The bus calls of a request. *)

\* The calls of MUL and DIV; lo is read before hi.
MduAccesses(op) ==
    <<WriteTo(OpA), WriteTo(OpB), ReadFrom(IF op = "MUL" THEN MLow ELSE Div),
      ReadFrom(IF op = "MUL" THEN MHigh ELSE Mod)>>
UsesMdu(r) == r.kind \in MduOp
CallsOf(r) == IF UsesMdu(r) THEN MduAccesses(r.kind) ELSE Accesses(r)
CallNumber(r, n) ==
    IF UsesMdu(r) THEN BurstCall(cpu, CallsOf(r)[n], FALSE) /\ UNCHANGED reply
    ELSE WrapperCall(r, n)

-------------------------------------------------------------------------------
(* The thread. *)

\* The loop of run: wait for the next rising edge, or sc_stop.
AfterInstruction(c) == IF c < DATA_SEGMENT_START THEN "wait" ELSE "stopped"

MipsInit ==
    /\ opA \in Operands /\ opB \in Operands
    /\ Init /\ MduInit /\ MemInit
    /\ request = FetchRequest(0) /\ step = 0 /\ reply = MinusOne /\ exited = FALSE
    /\ counter = 0 /\ hi = 0 /\ lo = 0 /\ breg = InitialBreg
    /\ instruction = Decoded[0] /\ stage = AfterInstruction(0) /\ resets = 0
    /\ before = [pc |-> 0, lo |-> 0, hi |-> 0, breg |-> InitialBreg, resets |-> 0]

Idle == pc[cpu] = "idle" /\ pc[wrapper] = "idle"
CallReturned == Idle /\ step = Len(CallsOf(request))
Ask(r) == request' = r /\ step' = 1 /\ CallNumber(r, 1)
KeepBus == UNCHANGED <<vars, request, reply>>

Fetch ==
    /\ stage = "fetch" /\ step = 0
    /\ Ask(FetchRequest(counter))
    /\ before' = [pc |-> counter, lo |-> lo, hi |-> hi, breg |-> breg, resets |-> resets]
    /\ UNCHANGED <<cleared, instruction, stage, resets>>

Decode ==
    /\ stage = "fetch" /\ CallReturned
    /\ stage' = "execute" /\ step' = 0
    /\ instruction' = Decoded[ToInt(reply)] /\ counter' = Plus(counter, 4)
    /\ KeepBus /\ UNCHANGED <<breg, hi, lo, resets, before>>

\* An instruction that calls the bus.
StartBus ==
    /\ stage = "execute" /\ step = 0 /\ UsesBus(instruction, Zeroed(breg))
    /\ breg' = Zeroed(breg)
    /\ Ask(CASE instruction.op \in MduOp -> MduRequest(instruction)
             [] instruction.op = "SYSCALL" -> CharRequest(breg'[A0])
             [] OTHER -> DataRequest(instruction, breg'))
    /\ UNCHANGED <<counter, hi, lo, instruction, stage, resets, before>>

\* One that does not: SYSCALL 5 reads an int, SYSCALL 10 stops.
WithoutBus ==
    /\ stage = "execute" /\ step = 0 /\ ~UsesBus(instruction, Zeroed(breg))
    /\ LET R == Zeroed(breg)
           i == instruction IN
          /\ IF i.op = "SYSCALL" /\ R[V0] = 5
             THEN \E n \in Inputs : breg' = [R EXCEPT ![V0] = n]
             ELSE breg' = Computes(i, R, counter)
          /\ counter' = Target(i, R, counter)
          /\ stage' = IF i.op = "SYSCALL" /\ R[V0] = 10 THEN "stopped"
                      ELSE AfterInstruction(counter')
    /\ KeepBus /\ UNCHANGED <<step, hi, lo, instruction, resets, before>>

NextCall ==
    /\ stage \in {"fetch", "execute"} /\ Idle
    /\ step \in 1 .. Len(CallsOf(request)) - 1
    /\ step' = step + 1 /\ CallNumber(request, step')
    /\ UNCHANGED <<request, regs>>

\* SYSCALL 4, the only one with bus calls: the next character, unless this one
\* was 0.
MoreChars == instruction.op = "SYSCALL" /\ ToInt(reply) # 0
NextChar ==
    /\ stage = "execute" /\ CallReturned /\ MoreChars
    /\ Ask(CharRequest(Plus(AsInt(request.addr), 1)))
    /\ UNCHANGED regs

EndBus ==
    /\ stage = "execute" /\ CallReturned /\ ~MoreChars
    /\ breg' = IF instruction.op \in LoadOp
               THEN [breg EXCEPT ![instruction.rt] = ToInt(reply)] ELSE breg
    /\ stage' = AfterInstruction(counter) /\ step' = 0
    /\ KeepBus /\ UNCHANGED <<counter, hi, lo, instruction, resets, before>>

CallReturns ==
    /\ \E m \in MipsMaster : Return(m)
    /\ UNCHANGED <<user, regs>>

ThreadRuns ==
    /\ ~exited
    /\ \/ Fetch \/ Decode \/ StartBus \/ WithoutBus \/ NextCall \/ NextChar
       \/ EndBus \/ CallReturns
    /\ UNCHANGED <<mdu_vars, mem_vars, exited>>

-------------------------------------------------------------------------------
(* The clock. *)

Blocked ==
    /\ ~exited /\ stage # "stopped"
    /\ stage = "wait" \/ \E m \in MipsMaster : pc[m] \in {"transfer", "edge"}

RisingEdge ==
    /\ Blocked /\ PosEdge /\ update_wait /\ update_wait_left
    /\ stage' = IF stage = "wait" THEN "fetch" ELSE stage
    /\ UNCHANGED <<user, exited, cleared, instruction, resets, before>>

\* What the MDU calculates, with fewer outcomes than any int and the trap.
Calculated(addr, a, b) ==
    IF calculate(addr, a, b) = Undefined THEN Anything ELSE calculate(addr, a, b)

\* The registers whose addresses MUL and DIV give.
MduWrite(p) ==
    /\ do_write[p]
    /\ HandleAnswer(p, write_status(address[p]))
    /\ write(address[p], breg[IF address[p] = OpA THEN instruction.rs ELSE instruction.rt])
    /\ UNCHANGED <<user, exited, regs>>
MduRead(p) ==
    /\ ~do_write[p]
    /\ \E r \in IF read_status = "OK" THEN Calculated(address[p], opA, opB) ELSE {0} :
          IF r = Trap
          THEN exited' = TRUE /\ UNCHANGED <<vars, mdu_vars, hi, lo>>
          ELSE /\ HandleAnswer(p, read_status) /\ read
               /\ lo' = IF read_status = "OK" /\ address[p] \in {MLow, Div} THEN r ELSE lo
               /\ hi' = IF read_status = "OK" /\ address[p] \in {MHigh, Mod} THEN r ELSE hi
               /\ UNCHANGED exited
    /\ UNCHANGED <<user, counter, breg, instruction, stage, resets, before>>

AskMdu == \E p \in ToHandle \cap {mdu_priority} :
    (MduWrite(p) \/ MduRead(p)) /\ UNCHANGED mem_vars
AskMem == \E p \in ToHandle \cap {mem_priority} :
    (MemWrite(p) \/ MemRead(p)) /\ UNCHANGED <<mdu_vars, regs>>
NothingToDo == NothingPending /\ UNCHANGED <<mdu_vars, mem_vars, user, exited, regs>>
FallingEdgeOfBus ==
    Blocked /\ clk = "high" /\ (AskMdu \/ AskMem \/ NothingToDo)

ClockEdge == RisingEdge \/ FallingEdgeOfBus

\* init runs when reset changes, whatever the thread waits for; if it wakes up
\* at the same time, before the thread goes on.  The fields of the instruction
\* stay.  The mutant forgets hi.
Waits ==
    \/ stage = "wait"
    \/ stage = "fetch" /\ step = 0
    \/ \E m \in MipsMaster : pc[m] \in {"transfer", "edge", "ready"}
ResetHiKept == hi
ResetHi == 0
Reset ==
    /\ ~exited /\ stage # "stopped" /\ Waits /\ resets < MaxResets
    /\ counter' = 0 /\ lo' = 0 /\ hi' = ResetHi /\ breg' = InitialBreg
    /\ resets' = resets + 1
    /\ UNCHANGED <<vars, mdu_vars, mem_vars, user, exited, instruction, stage, before>>

MipsNext == ThreadRuns \/ ClockEdge \/ Reset
MipsSpec ==
    /\ MipsInit /\ [][MipsNext]_mips_vars
    /\ WF_mips_vars(ThreadRuns) /\ WF_mips_vars(ClockEdge)

-------------------------------------------------------------------------------
(* Properties. *)

MipsTypeOK ==
    /\ TypeOK /\ MduTypeOK /\ MemTypeOK
    /\ step \in 0 .. 4 /\ reply \in Int4 /\ exited \in BOOLEAN
    /\ counter \in Int32 /\ breg \in [Reg -> Int32]
    /\ hi \in Int32 /\ lo \in Int32 /\ instruction \in Instruction
    /\ stage \in {"wait", "fetch", "execute", "stopped"} /\ resets \in 0 .. MaxResets
    /\ before \in [pc : Int32, lo : Int32, hi : Int32, breg : [Reg -> Int32],
                   resets : 0 .. MaxResets]

\* The last bus call of a store, a MUL or a DIV completes the instruction;
\* before that, and in every other instruction until it ends, its programmer
\* sees the state from before it, even if there is a reset.
Completed ==
    /\ step = Len(CallsOf(request)) /\ pc[IF UsesMdu(request) THEN cpu ELSE wrapper] # "transfer"
    /\ request.kind # "load"
InFlight == (stage = "fetch" /\ step > 0) \/ (stage = "execute" /\ ~Completed)
Registers ==
    IF InFlight THEN before
    ELSE [pc |-> counter, lo |-> lo, hi |-> hi, breg |-> breg, resets |-> resets]
MachineState ==
    [pc |-> Registers.pc, lo |-> Registers.lo, hi |-> Registers.hi,
     breg |-> [Registers.breg EXCEPT ![ZERO] = 0], memory |-> mem]
MachinePhase ==
    IF exited THEN "exited"
    ELSE IF InFlight THEN "running"
    ELSE IF stage = "stopped" \/ (Completed /\ stage = "execute"
                                  /\ counter >= DATA_SEGMENT_START)
    THEN "stopped" ELSE "running"
MachineResets == IF exited THEN resets ELSE Registers.resets
Abstract == INSTANCE Machine WITH
    Outcomes <- OutcomesOf, AfterReset <- ResetsOf,
    state <- MachineState, phase <- MachinePhase, resets <- MachineResets

\* Each instruction, with all the transactions it needs on the bus, the modes
\* and operands it leaves in the memory and the MDU, and their wait states, has
\* the effect of one step of a processor that owns its memory; and it ends.  A
\* reset clears the registers once, disturbs only the instruction it falls into,
\* and leaves bus, memory and MDU fit for those that follow.
ImplementsMachine == Abstract!Spec

\* The safety part of it: no step shows the programmer anything that one whole
\* instruction, or one reset, would not.
MachineSafety == Abstract!Init /\ [][Abstract!Next]_(Abstract!vars)
===============================================================================
