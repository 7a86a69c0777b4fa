--------------------------- MODULE MemSystemProofs ---------------------------
(***************************************************************************)
(* The memory of the processor, behind its wrapper, the bus and its wait   *)
(* states, is a memory: whatever the size of the memory, the width of      *)
(* bytes and addresses, the wait states and the requests.                  *)
(***************************************************************************)
EXTENDS MemSystem, MemWrapperProofs

-------------------------------------------------------------------------------
(* The program is an instance of the bus *)

LEMMA MemFacts ==
  /\ Master = {wrapper} /\ Blocking = {wrapper}
  /\ PriorityOf[wrapper] = mem_priority /\ Priority = {mem_priority}
  /\ FALSE \in LockFlags[wrapper]
  <1>1. Master = {wrapper} /\ Blocking = {wrapper}
    BY MemSystemAssumption DEF MemMaster
  <1>2. PriorityOf[wrapper] = mem_priority /\ FALSE \in LockFlags[wrapper]
    BY MemSystemAssumption DEF MemMaster
  <1> QED
    BY <1>1, <1>2 DEF Priority

LEMMA MemIsUnique == UniquePriorities
  BY MemFacts DEF UniquePriorities

LEMMA AccessIsCall ==
  ASSUME NEW r, NEW n \in 1 .. 3
  PROVE  Accesses(r)[n] \in Calls[wrapper]
  <1>1. Calls[wrapper] =
          [do_write : {TRUE}, address : {OpTypeReg, AddrReg, MemAddr}, length : {1}]
          \cup [do_write : {FALSE}, address : {MemAddr}, length : {1}]
    BY MemSystemAssumption DEF MemMaster
  <1>2. WriteTo(OpTypeReg) \in Calls[wrapper] /\ WriteTo(AddrReg) \in Calls[wrapper]
        /\ WriteTo(MemAddr) \in Calls[wrapper] /\ ReadFrom(MemAddr) \in Calls[wrapper]
    BY <1>1 DEF WriteTo, ReadFrom
  <1> QED
    BY <1>2, AccessFacts DEF Reads, AccessAddress

\* A call of the wrapper is a blocking call of the bus.
LEMMA WrapperCallIsBurst ==
  ASSUME NEW r, NEW n \in 1 .. 3, WrapperCall(r, n)
  PROVE  Next /\ reply' \in {reply} \cup Garbage
  <1>1. BurstCall(wrapper, Accesses(r)[n], FALSE)
    BY DEF WrapperCall
  <1>2. Next
    BY <1>1, AccessIsCall, MemFacts DEF Next, MasterStep
  <1>3. reply' = reply \/ reply' \in Garbage
    BY DEF WrapperCall
  <1> QED
    BY <1>2, <1>3

\* A step of the program is a step of the bus or leaves the bus alone.
LEMMA MemStepIsBusStep ==
  ASSUME TypeOK, step \in 0 .. 3, [MemSystemNext]_mem_system_vars
  PROVE  [Next]_vars
  <1>1. CASE CallMem
    BY <1>1, WrapperCallIsBurst DEF CallMem
  <1>2. CASE NextAccess
    <2>0. Len(Accesses(request)) = 3
      BY AccessLength
    <2>1. step' \in 1 .. 3
      BY <1>2, <2>0 DEF NextAccess
    <2> QED
      BY <1>2, <2>1, WrapperCallIsBurst DEF NextAccess
  <1>3. CASE ReturnMem
    BY <1>3 DEF ReturnMem
  <1>4. CASE ReturnFromBus
    BY <1>4, MemFacts DEF ReturnFromBus, Next, MasterStep
  <1>5. CASE RisingEdge
    BY <1>5 DEF RisingEdge, Next
  <1>6. CASE BusEdge
    <2>1. PICK p \in ToHandle : MemWrite(p) \/ MemRead(p)
      BY <1>6 DEF BusEdge
    <2>2. HandleRequest(p) \/ UNCHANGED vars
      BY <2>1, MemAnswerIsRequest DEF MemWrite, MemRead
    <2> QED
      BY <2>2, MemToHandle DEF Next, NegEdge
  <1>7. CASE UNCHANGED mem_system_vars
    BY <1>7 DEF mem_system_vars
  <1> QED
    BY <1>1, <1>2, <1>3, <1>4, <1>5, <1>6, <1>7
    DEF MemSystemNext, WrapperRuns, ClockEdge

-------------------------------------------------------------------------------
(* Types *)

LEMMA RequestFacts ==
  ASSUME NEW r \in Requests
  PROVE  /\ r.kind \in {"load", "store"} /\ r.type \in OpType /\ r.dado \in Int4
         /\ AddressOf(r) \in 0 .. UintCount - 1
  <1>1. /\ r.kind \in {"load", "store"} /\ r.type \in OpType /\ r.dado \in Int4
        /\ r.addr \in Int /\ r.kte \in Int
    BY MemSystemAssumption
  <1>2. r.kte % StoreOffsets \in Int /\ r.kte % LoadOffsets \in Int
    BY <1>1, BytesFacts, DivisionOf
  <1>3. /\ StoreAddress(r.addr, r.kte) \in 0 .. UintCount - 1
        /\ LoadAddress(r.addr, r.kte) \in 0 .. UintCount - 1
    <2> DEFINE x == r.addr + (r.kte % StoreOffsets)
               y == r.addr + (r.kte % LoadOffsets)
    <2>1. x \in Int /\ y \in Int
      BY <1>1, <1>2
    <2> HIDE DEF x, y
    <2>2. x % UintCount \in 0 .. UintCount - 1 /\ y % UintCount \in 0 .. UintCount - 1
      BY <2>1, BytesFacts, DivisionOf
    <2> QED
      BY <2>2 DEF StoreAddress, LoadAddress, x, y
  <1> QED
    BY <1>1, <1>3 DEF AddressOf

LEMMA MemTypeInit == MemSystemInit => MemSystemTypeOK
  <1> SUFFICES ASSUME MemSystemInit PROVE MemSystemTypeOK
    OBVIOUS
  <1>1. TypeOK
    BY TypeInit DEF MemSystemInit
  <1>2. 0 \in 0 .. UintCount - 1 /\ -1 \in -1 .. mem_wait_states
    BY BytesFacts, MemWaitAssumption
  <1>3. MemTypeOK
    BY <1>2, BytesFacts DEF MemSystemInit, MemInit, MemTypeOK, OpType
  <1>4. request \in Requests /\ step = 0 /\ exited = FALSE
    BY DEF MemSystemInit
  <1>5. reply \in Int4
    BY BytesFacts DEF MemSystemInit
  <1> QED
    <2>1. exited \in BOOLEAN
      BY <1>4
    <2>2. step \in 0 .. 3
      BY <1>4
    <2> QED
      BY <1>1, <1>3, <1>4, <1>5, <2>1, <2>2 DEF MemSystemTypeOK

LEMMA MemTypeStep == MemSystemTypeOK /\ [MemSystemNext]_mem_system_vars => MemSystemTypeOK'
  <1> SUFFICES ASSUME MemSystemTypeOK, [MemSystemNext]_mem_system_vars PROVE MemSystemTypeOK'
    OBVIOUS
  <1>t. /\ TypeOK /\ MemTypeOK /\ step \in 0 .. 3 /\ request \in Requests /\ reply \in Int4
        /\ exited \in BOOLEAN
    BY DEF MemSystemTypeOK
  <1>1. TypeOK'
    BY <1>t, MemStepIsBusStep, TypeStep
  <1>2. ASSUME UNCHANGED mem_vars PROVE MemTypeOK'
    BY <1>t, <1>2 DEF mem_vars, MemTypeOK
  <1>3. CASE CallMem
    BY <1>t, <1>1, <1>2, <1>3, WrapperCallIsBurst, BytesFacts DEF CallMem, MemSystemTypeOK
  <1>4. CASE NextAccess
    <2>0. Len(Accesses(request)) = 3
      BY AccessLength
    <2>1. step' \in 1 .. 3
      BY <1>4, <2>0 DEF NextAccess
    <2>2. reply' \in Int4
      BY <1>t, <1>4, <2>1, WrapperCallIsBurst, BytesFacts DEF NextAccess
    <2> QED
      BY <1>t, <1>1, <1>2, <1>4, <2>1, <2>2 DEF NextAccess, MemSystemTypeOK
  <1>5. CASE ReturnMem
    BY <1>t, <1>1, <1>2, <1>5 DEF ReturnMem, MemSystemTypeOK
  <1>6. CASE ReturnFromBus
    BY <1>t, <1>1, <1>2, <1>6 DEF ReturnFromBus, user, MemSystemTypeOK
  <1>7. CASE RisingEdge
    <2>1. MemTypeOK'
      BY <1>t, <1>7, MemWaitAssumption DEF RisingEdge, update_wait, MemTypeOK
    <2> QED
      BY <1>t, <1>1, <1>7, <2>1 DEF RisingEdge, user, MemSystemTypeOK
  <1>8. CASE BusEdge
    <2>1. PICK p \in ToHandle : MemWrite(p) \/ MemRead(p)
      BY <1>8 DEF BusEdge
    <2>2. CASE MemWrite(p)
      <3>1. p = mem_priority
        BY <1>t, <2>1, MemToHandle, MemFacts
      <3>2. MemTypeOK' /\ UNCHANGED user /\ exited' \in BOOLEAN
        BY <1>t, <2>2, <3>1, RequestFacts, MemWriteType
      <3> QED
        BY <1>t, <1>1, <3>2 DEF user, MemSystemTypeOK
    <2>3. CASE MemRead(p)
      <3>1. MemTypeOK' /\ UNCHANGED <<request, step>> /\ reply' \in Int4 /\ exited' \in BOOLEAN
        BY <1>t, <2>3, MemReadType
      <3> QED
        BY <1>t, <1>1, <3>1 DEF MemSystemTypeOK
    <2> QED
      BY <2>1, <2>2, <2>3
  <1>9. CASE UNCHANGED mem_system_vars
    BY <1>t, <1>1, <1>2, <1>9 DEF mem_system_vars, user, MemSystemTypeOK
  <1> QED
    BY <1>3, <1>4, <1>5, <1>6, <1>7, <1>8, <1>9 DEF MemSystemNext, WrapperRuns, ClockEdge

\* Types of the memory behind the bus: in particular the memory only holds ints
\* made of bytes, a load never returns anything else, and the wait count stays
\* between -1 and the number of wait states.
THEOREM MemSystemTypes == MemSystemSpec => []MemSystemTypeOK
  BY MemTypeInit, MemTypeStep, PTL DEF MemSystemSpec

\* Whatever holds of the bus with any slaves holds of this program.
THEOREM MemSystemIsABus == MemSystemSpec => Spec
  <1>1. MemSystemInit => Init
    BY DEF MemSystemInit
  <1>2. MemSystemTypeOK /\ [MemSystemNext]_mem_system_vars => [Next]_vars
    BY MemStepIsBusStep DEF MemSystemTypeOK
  <1> QED
    BY <1>1, <1>2, MemSystemTypes, PTL DEF MemSystemSpec, Spec

-------------------------------------------------------------------------------
(* What the three calls of a request have done *)

\* The form of the wrapper describes the call in progress, and each finished
\* call has had its effect: the mode and the address are those of the request
\* when its data is moved.
Finished == pc[wrapper] # "transfer"
FormMatchesAccess ==
    pc[wrapper] = "transfer" =>
       /\ step \in 1 .. 3
       /\ address[mem_priority] = AccessAddress(step)
       /\ end_address[mem_priority] = AccessAddress(step)
       /\ do_write[mem_priority] <=> ~Reads(request, step)
AccessesHaveEffect ==
    /\ pc[wrapper] # "poll" /\ (step = 0 => pc[wrapper] = "idle")
    /\ step \in {2, 3} \/ (step = 1 /\ Finished) => op_type_reg = request.type
    /\ step = 3 \/ (step = 2 /\ Finished) => addr_reg = AddressOf(request)
    /\ step = 3 /\ Finished =>
          /\ InRange(AddressOf(request))
          /\ request.kind = "load" => reply \in Load(mem, request.type, AddressOf(request))
AccessInv == MemSystemTypeOK /\ BusInv /\ FormMatchesAccess /\ AccessesHaveEffect

\* The registers are aligned, inside the area of mem_mips and far from the end
\* of the address space.
LEMMA AccessAddressFacts ==
  ASSUME NEW n \in 1 .. 3
  PROVE  /\ AccessAddress(n) \in Nat /\ AccessAddress(n) % 4 = 0
         /\ AccessAddress(n) < AddressSpace /\ AccessAddress(n) + 4 < AddressSpace
         /\ get_slave(AccessAddress(n)) # {}
  <1>1. AccessAddress(n) \in {1028, 1032, 1036}
    BY DEF AccessAddress, OpTypeReg, AddrReg, MemAddr
  <1>2. MemEndAddr + 4 < AddressSpace /\ AddressSpace \in Nat
    BY MemSystemAssumption, SpaceAssumption
  <1>3. "mem" \in get_slave(AccessAddress(n))
    BY <1>1, MemSystemAssumption DEF get_slave, MemStartAddr, MemEndAddr
  <1> QED
    BY <1>1, <1>2, <1>3 DEF MemEndAddr

\* A call of the wrapper is put in the form as it is.
LEMMA AccessFillsForm ==
  ASSUME TypeOK, NEW r, NEW n \in 1 .. 3, WrapperCall(r, n)
  PROVE  /\ address'[mem_priority] = AccessAddress(n)
         /\ end_address'[mem_priority] = AccessAddress(n)
         /\ do_write'[mem_priority] <=> ~Reads(r, n)
         /\ pc'[wrapper] = "transfer" /\ pc[wrapper] = "idle" /\ clk' = clk
         /\ m_current_request' = m_current_request
  <1> DEFINE c == Accesses(r)[n]
  <1>1. BurstCall(wrapper, c, FALSE)
    BY DEF WrapperCall
  <1>2. c.address = AccessAddress(n) /\ c.length = 1
    BY AccessFacts DEF WriteTo, ReadFrom
  <1>3. (Reads(r, n) => c.do_write = FALSE) /\ (~Reads(r, n) => c.do_write = TRUE)
    BY AccessFacts DEF WriteTo, ReadFrom
  <1> HIDE DEF c
  <1>4. EndOfBurst(c) = AccessAddress(n)
    <2>1. EndOfBurst(c) = (AccessAddress(n) + (1 - 1) * 4) % AddressSpace
      BY <1>2 DEF EndOfBurst
    <2>2. AccessAddress(n) + (1 - 1) * 4 = AccessAddress(n)
      BY AccessAddressFacts
    <2> QED
      BY <2>1, <2>2, AccessAddressFacts, ModOfWord
  <1>5. Fill(mem_priority, c, FALSE)
    BY <1>1, MemFacts DEF BurstCall
  <1>6. address'[mem_priority] = AccessAddress(n) /\ end_address'[mem_priority] = AccessAddress(n)
    BY <1>2, <1>4, <1>5, MemFacts DEF Fill, TypeOK
  <1>7. do_write'[mem_priority] = c.do_write
    BY <1>5, MemFacts DEF Fill, TypeOK
  <1>8. pc'[wrapper] = "transfer" /\ pc[wrapper] = "idle" /\ clk' = clk
        /\ m_current_request' = m_current_request
    BY <1>1, MemFacts DEF BurstCall, TypeOK
  <1> QED
    BY <1>3, <1>6, <1>7, <1>8

LEMMA AccessInit == MemSystemInit => AccessInv
  <1> SUFFICES ASSUME MemSystemInit PROVE AccessInv
    OBVIOUS
  <1>1. MemSystemTypeOK /\ BusInv
    BY MemTypeInit, BusInit DEF MemSystemInit
  <1>2. pc[wrapper] = "idle" /\ step = 0
    BY MemFacts DEF MemSystemInit, Init
  <1> QED
    BY <1>1, <1>2 DEF AccessInv, FormMatchesAccess, AccessesHaveEffect, Finished

\* A falling edge serves the call in progress, at a register of mem_mips.
LEMMA EdgeServesAccess ==
  ASSUME AccessInv, NEW p \in ToHandle
  PROVE  /\ p = mem_priority /\ pc[wrapper] = "transfer" /\ Reached(p) /\ Done(p)
         /\ step \in 1 .. 3 /\ address[p] = AccessAddress(step)
         /\ do_write[p] <=> ~Reads(request, step)
  <1>1. p \in Pending /\ p = mem_priority
    BY HandledIsPending, MemFacts DEF AccessInv, BusInv, Pending
  <1>2. pc[wrapper] = "transfer"
    BY <1>1, MemFacts
    DEF AccessInv, BusInv, ReturnsFinal, Pending, Final, AccessesHaveEffect, TypeOK, PcValues
  <1>3. /\ step \in 1 .. 3 /\ address[p] = AccessAddress(step)
        /\ end_address[p] = AccessAddress(step)
        /\ do_write[p] <=> ~Reads(request, step)
    BY <1>1, <1>2 DEF AccessInv, FormMatchesAccess
  <1>4. Reached(p)
    BY <1>3, AccessAddressFacts DEF Reached
  <1>5. (AccessAddress(step) + 4) % AddressSpace = AccessAddress(step) + 4
    BY <1>3, AccessAddressFacts, ModOfWord
  <1>6. Done(p)
    BY <1>3, <1>5, AccessAddressFacts DEF Done
  <1> QED
    BY <1>1, <1>2, <1>3, <1>4, <1>6

\* With the answer WAIT the call goes on; with OK it ends.
LEMMA MemAnswerOutcome ==
  ASSUME AccessInv, NEW p \in ToHandle, NEW answer \in {"OK", "WAIT"},
         HandleAnswer(p, answer)
  PROVE  /\ answer = "WAIT" => /\ UNCHANGED <<pc, address, end_address, do_write>>
                               /\ m_current_request' = p
         /\ answer = "OK" => pc'[wrapper] = "edge" /\ m_current_request' = None
         /\ clk = "high" /\ clk' = "low"
  <1>1. ~Reject(p)
    BY EdgeServesAccess DEF Reject
  <1>2. CASE answer = "WAIT" /\ SlaveWait(p)
    BY <1>2 DEF SlaveWait, FallingEdge, form
  <1>3. CASE answer = "OK" /\ SlaveOK(p)
    <2>1. pc' = Notified(p) /\ m_current_request' = None /\ clk = "high" /\ clk' = "low"
      BY <1>3, EdgeServesAccess DEF SlaveOK, FallingEdge
    <2>2. pc'[wrapper] = "edge"
      BY <2>1, EdgeServesAccess, MemFacts DEF Notified
    <2> QED
      BY <1>3, <2>1, <2>2
  <1> QED
    BY <1>1, <1>2, <1>3 DEF HandleAnswer

LEMMA AccessWriteStep ==
  ASSUME AccessInv, NEW p \in ToHandle, MemWrite(p)
  PROVE  FormMatchesAccess' /\ AccessesHaveEffect'
  <1> USE EdgeServesAccess
  <1>0. /\ ~Reads(request, step) /\ address[p] = AccessAddress(step) /\ UNCHANGED user
        /\ pc[wrapper] = "transfer" /\ step \in 1 .. 3 /\ p = mem_priority
        /\ step # 1 => op_type_reg = request.type
        /\ step = 3 => addr_reg = AddressOf(request)
    BY DEF MemWrite, AccessInv, AccessesHaveEffect
  <1>1. CASE exited'
    BY <1>1 DEF MemWrite, vars, form, mem_vars, user, AccessInv, FormMatchesAccess,
      AccessesHaveEffect, Finished
  <1>2. CASE ~exited'
    <2>1. /\ HandleAnswer(p, mem_write_status) /\ mem_write(MemValue, address[p])
          /\ ~WriteExits(address[p])
      BY <1>2 DEF MemWrite
    <2>2. CASE mem_write_status = "WAIT"
      <3>1. UNCHANGED <<pc, address, end_address, do_write, mem, op_type_reg, addr_reg>>
        BY <2>1, <2>2, MemAnswerOutcome DEF mem_write
      <3> QED
        BY <1>0, <3>1 DEF user, AccessInv, FormMatchesAccess, AccessesHaveEffect, Finished,
          Reads
    <2>3. CASE mem_write_status = "OK"
      <3>1. pc'[wrapper] = "edge"
        BY <2>1, <2>3, MemAnswerOutcome
      <3>2. /\ op_type_reg' = IF address[p] = OpTypeReg THEN MemValue ELSE op_type_reg
            /\ addr_reg' = IF address[p] = AddrReg THEN MemValue ELSE addr_reg
        BY <2>1, <2>3 DEF mem_write, mem_direct_write
      <3>3. /\ address[p] = OpTypeReg <=> step = 1
            /\ address[p] = AddrReg <=> step = 2
            /\ address[p] = MemAddr <=> step = 3
        BY <1>0 DEF AccessAddress, OpTypeReg, AddrReg, MemAddr
      <3>4. step = 1 => op_type_reg' = request.type
        BY <1>0, <3>2, <3>3 DEF MemValue
      <3>5. step = 2 => addr_reg' = AddressOf(request) /\ op_type_reg' = request.type
        BY <1>0, <3>2, <3>3 DEF MemValue, OpTypeReg, AddrReg
      <3>6. step = 3 => /\ addr_reg' = AddressOf(request) /\ op_type_reg' = request.type
                        /\ InRange(AddressOf(request)) /\ request.kind # "load"
        BY <1>0, <2>1, <2>3, <3>2, <3>3 DEF WriteExits, Reads
      <3> QED
        BY <1>0, <3>1, <3>4, <3>5, <3>6 DEF user, FormMatchesAccess, AccessesHaveEffect,
          Finished
    <2> QED
      BY <2>2, <2>3 DEF mem_write_status
  <1> QED
    BY <1>1, <1>2

LEMMA AccessReadStep ==
  ASSUME AccessInv, NEW p \in ToHandle, MemRead(p)
  PROVE  FormMatchesAccess' /\ AccessesHaveEffect'
  <1> USE EdgeServesAccess
  <1>0. /\ Reads(request, step) /\ step = 3 /\ UNCHANGED <<request, step>>
        /\ pc[wrapper] = "transfer"
        /\ op_type_reg = request.type /\ addr_reg = AddressOf(request)
    BY DEF MemRead, AccessInv, AccessesHaveEffect, Reads
  <1>1. CASE exited'
    BY <1>0, <1>1 DEF MemRead, vars, form, mem_vars, AccessInv, FormMatchesAccess,
      AccessesHaveEffect, Finished
  <1>2. CASE ~exited'
    <2>1. /\ HandleAnswer(p, mem_read_status) /\ mem_read(address[p]) /\ ~ReadExits
      BY <1>2 DEF MemRead
    <2>2. UNCHANGED <<mem, op_type_reg, addr_reg>>
      BY <2>1 DEF mem_read
    <2>3. CASE mem_read_status = "WAIT"
      <3>1. UNCHANGED <<pc, address, end_address, do_write>>
        BY <2>1, <2>3, MemAnswerOutcome
      <3> QED
        BY <1>0, <2>2, <3>1 DEF AccessInv, FormMatchesAccess, AccessesHaveEffect, Finished
    <2>4. CASE mem_read_status = "OK"
      <3>1. pc'[wrapper] = "edge"
        BY <2>1, <2>4, MemAnswerOutcome
      <3>2. reply' \in Load(mem, request.type, AddressOf(request))
        BY <1>0, <1>2, <2>4 DEF MemRead, mem_direct_read
      <3>3. InRange(AddressOf(request))
        BY <1>0, <2>1, <2>4 DEF ReadExits
      <3> QED
        BY <1>0, <2>2, <3>1, <3>2, <3>3 DEF FormMatchesAccess, AccessesHaveEffect, Finished
    <2> QED
      BY <2>3, <2>4 DEF mem_read_status
  <1> QED
    BY <1>1, <1>2

LEMMA AccessStep == AccessInv /\ [MemSystemNext]_mem_system_vars => AccessInv'
  <1> SUFFICES ASSUME AccessInv, [MemSystemNext]_mem_system_vars PROVE AccessInv'
    OBVIOUS
  <1>t. /\ MemSystemTypeOK /\ TypeOK /\ step \in 0 .. 3 /\ pc[wrapper] \in PcValues
    BY MemFacts DEF AccessInv, MemSystemTypeOK, TypeOK
  <1>1. MemSystemTypeOK' /\ BusInv'
    BY <1>t, MemTypeStep, MemStepIsBusStep, MemIsUnique, BusStep DEF AccessInv
  <1> SUFFICES FormMatchesAccess' /\ AccessesHaveEffect'
    BY <1>1 DEF AccessInv
  <1>2. CASE CallMem
    <2>1. WrapperCall(request', 1) /\ step' = 1
      BY <1>2 DEF CallMem
    <2>2. /\ address'[mem_priority] = AccessAddress(1)
          /\ end_address'[mem_priority] = AccessAddress(1)
          /\ do_write'[mem_priority] <=> ~Reads(request', 1)
          /\ pc'[wrapper] = "transfer"
      BY <1>t, <2>1, AccessFillsForm
    <2> QED
      BY <2>1, <2>2 DEF FormMatchesAccess, AccessesHaveEffect, Finished, Reads
  <1>3. CASE NextAccess
    <2>0. Len(Accesses(request)) = 3
      BY AccessLength
    <2>1. /\ step' \in {2, 3} /\ step' = step + 1 /\ WrapperCall(request, step')
          /\ UNCHANGED <<mem_vars, request>>
      BY <1>3, <2>0 DEF NextAccess
    <2>2. /\ address'[mem_priority] = AccessAddress(step')
          /\ end_address'[mem_priority] = AccessAddress(step')
          /\ do_write'[mem_priority] <=> ~Reads(request, step')
          /\ pc'[wrapper] = "transfer" /\ pc[wrapper] = "idle"
      BY <1>t, <2>1, AccessFillsForm
    <2>3. op_type_reg = request.type /\ (step' = 3 => addr_reg = AddressOf(request))
      BY <1>t, <2>1, <2>2 DEF AccessInv, AccessesHaveEffect, Finished
    <2> QED
      BY <1>t, <2>1, <2>2, <2>3 DEF FormMatchesAccess, AccessesHaveEffect, Finished, Reads,
        mem_vars
  <1>4. CASE ReturnMem
    BY <1>4 DEF ReturnMem, vars, form, mem_vars, AccessInv, FormMatchesAccess,
      AccessesHaveEffect, Finished
  <1>5. CASE ReturnFromBus
    <2>1. pc[wrapper] = "ready" /\ pc'[wrapper] = "idle"
      BY <1>t, <1>5, MemFacts DEF ReturnFromBus, Return, TypeOK
    <2> QED
      BY <1>5, <2>1 DEF ReturnFromBus, mem_vars, user, AccessInv, FormMatchesAccess,
        AccessesHaveEffect, Finished
  <1>6. CASE RisingEdge
    <2>1. /\ pc[wrapper] \in {"transfer", "edge"}
          /\ pc[wrapper] = "transfer" <=> pc'[wrapper] = "transfer"
          /\ pc'[wrapper] # "poll"
      BY <1>t, <1>6, MemFacts DEF RisingEdge, WrapperBlocked, PosEdge, TypeOK
    <2>2. UNCHANGED <<address, end_address, do_write, mem, op_type_reg, addr_reg, request,
                      step, reply>>
      BY <1>6 DEF RisingEdge, PosEdge, update_wait, form, user
    <2> QED
      BY <2>1, <2>2 DEF AccessInv, FormMatchesAccess, AccessesHaveEffect, Finished, Reads
  <1>7. CASE BusEdge
    BY <1>7, AccessWriteStep, AccessReadStep DEF BusEdge
  <1>8. CASE UNCHANGED mem_system_vars
    BY <1>8 DEF mem_system_vars, vars, form, mem_vars, user, AccessInv, FormMatchesAccess,
      AccessesHaveEffect, Finished
  <1> QED
    BY <1>2, <1>3, <1>4, <1>5, <1>6, <1>7, <1>8 DEF MemSystemNext, WrapperRuns, ClockEdge

-------------------------------------------------------------------------------
(* The program implements the memory of mem_if *)

\* A falling edge that asks for the data performs the request or ends the
\* program; the ones before it change nothing the caller can see.
LEMMA EdgeIsAbstractStep ==
  ASSUME AccessInv, ~exited, NEW p \in ToHandle, MemWrite(p) \/ MemRead(p)
  PROVE  Abstract!Next \/ UNCHANGED <<mem, Phase, request, Returned>>
  <1> USE EdgeServesAccess
  <1>0. /\ pc[wrapper] = "transfer" /\ step \in 1 .. 3 /\ p = mem_priority
        /\ address[p] = AccessAddress(step) /\ do_write[p] <=> ~Reads(request, step)
        /\ request' = request /\ step' = step
        /\ step # 1 => op_type_reg = request.type
        /\ step = 3 => addr_reg = AddressOf(request)
        /\ request.kind \in {"load", "store"}
    BY RequestFacts
    DEF MemWrite, MemRead, user, AccessInv, AccessesHaveEffect, MemSystemTypeOK
  <1>1. Len(Accesses(request)) = 3 /\ Len(Accesses(request')) = 3
    BY AccessLength
  <1>2. Phase = "busy" /\ Returned = Nothing
    BY <1>0, <1>1 DEF Phase, Returned, Nothing
  <1>3. CASE exited'
    <2>1. step = 3 /\ ~InRange(AddressOf(request)) /\ mem' = mem
      <3>1. CASE MemWrite(p)
        <4>1. WriteExits(address[p])
          BY <1>3, <3>1 DEF MemWrite
        <4> QED
          BY <1>0, <1>3, <3>1, <4>1
          DEF MemWrite, WriteExits, AccessAddress, OpTypeReg, AddrReg, MemAddr, mem_vars
      <3>2. CASE MemRead(p)
        <4>1. ReadExits
          BY <1>3, <3>2 DEF MemRead
        <4> QED
          BY <1>0, <1>3, <3>2, <4>1 DEF MemRead, ReadExits, Reads, mem_vars
      <3> QED
        BY <3>1, <3>2
    <2>2. Phase' = "exited" /\ Returned' = Nothing
      BY <1>3 DEF Phase, Returned, Nothing
    <2> QED
      BY <1>0, <1>2, <2>1, <2>2 DEF Abstract!Next, Abstract!Answer, Abstract!Exit, FailsOf
  <1>4. CASE ~exited' /\ pc'[wrapper] = "transfer"
    <2>1. Phase' = "busy" /\ Returned' = Nothing
      BY <1>0, <1>1, <1>4 DEF Phase, Returned, Nothing
    <2>2. mem' = mem
      <3>1. CASE MemRead(p)
        BY <1>4, <3>1 DEF MemRead, mem_read
      <3>2. CASE MemWrite(p)
        <4>1. HandleAnswer(p, mem_write_status) /\ mem_write(MemValue, address[p])
          BY <1>4, <3>2 DEF MemWrite
        <4>2. mem_write_status # "OK"
          BY <1>4, <4>1, MemAnswerOutcome
        <4> QED
          BY <4>1, <4>2 DEF mem_write
      <3> QED
        BY <3>1, <3>2
    <2> QED
      BY <1>0, <1>2, <2>1, <2>2
  <1>5. CASE ~exited' /\ pc'[wrapper] # "transfer" /\ step # 3
    <2>1. Phase' = "busy" /\ Returned' = Nothing
      BY <1>0, <1>1, <1>5 DEF Phase, Returned, Nothing
    <2>2. MemWrite(p) /\ mem_write(MemValue, address[p]) /\ address[p] # MemAddr
      BY <1>0, <1>5 DEF MemRead, MemWrite, Reads, AccessAddress, OpTypeReg, AddrReg, MemAddr
    <2>3. mem' = mem
      BY <2>2 DEF mem_write, mem_direct_write
    <2> QED
      BY <1>0, <1>2, <2>1, <2>3
  <1>6. CASE ~exited' /\ pc'[wrapper] # "transfer" /\ step = 3
    <2>1. Phase' = "done"
      BY <1>0, <1>1, <1>6 DEF Phase
    <2>2. op_type_reg = request.type /\ addr_reg = AddressOf(request) /\ address[p] = MemAddr
      BY <1>0, <1>6 DEF AccessAddress
    <2>3. /\ InRange(AddressOf(request))
          /\ Returned' \in Replies(mem, request) /\ mem' = EffectOf(mem, request)
      <3>1. CASE MemRead(p)
        <4>1. /\ HandleAnswer(p, mem_read_status) /\ mem_read(address[p]) /\ ~ReadExits
              /\ mem_read_status = "OK" => reply' \in mem_direct_read
          BY <1>6, <3>1 DEF MemRead
        <4>2. mem_read_status = "OK"
          BY <1>0, <1>6, <4>1, MemAnswerOutcome DEF mem_read_status
        <4>3. request.kind = "load"
          BY <1>0, <3>1 DEF MemRead, Reads
        <4>4. Returned' = reply'
          BY <1>0, <2>1, <4>3 DEF Returned
        <4> QED
          BY <2>2, <4>1, <4>2, <4>3, <4>4
          DEF ReadExits, mem_direct_read, mem_read, Replies, RepliesOf, EffectOf
      <3>2. CASE MemWrite(p)
        <4>1. /\ HandleAnswer(p, mem_write_status) /\ mem_write(MemValue, address[p])
              /\ ~WriteExits(address[p])
          BY <1>6, <3>2 DEF MemWrite
        <4>2. mem_write_status = "OK"
          BY <1>0, <1>6, <4>1, MemAnswerOutcome DEF mem_write_status
        <4>3. request.kind = "store" /\ MemValue = request.dado
          BY <1>0, <1>6, <2>2, <3>2
          DEF MemWrite, Reads, MemValue, OpTypeReg, AddrReg, MemAddr
        <4>4. Returned' = Nothing
          BY <1>0, <4>3 DEF Returned
        <4>5. mem' = Store(mem, op_type_reg, addr_reg, MemValue)
          BY <2>2, <4>1, <4>2 DEF mem_write, mem_direct_write
        <4> QED
          BY <2>2, <4>1, <4>2, <4>3, <4>4, <4>5
          DEF WriteExits, Replies, RepliesOf, EffectOf
      <3> QED
        BY <3>1, <3>2
    <2>4. Abstract!Perform
      BY <1>0, <1>2, <2>1, <2>3 DEF Abstract!Perform, FailsOf
    <2> QED
      BY <2>4 DEF Abstract!Next, Abstract!Answer
  <1> QED
    BY <1>3, <1>4, <1>5, <1>6

LEMMA MemStepIsAbstractStep ==
  ASSUME AccessInv, [MemSystemNext]_mem_system_vars
  PROVE  [Abstract!Next]_<<mem, Phase, request, Returned>>
  <1>t. /\ TypeOK /\ step \in 0 .. 3 /\ pc[wrapper] \in PcValues
        /\ step = 0 => pc[wrapper] = "idle"
    BY MemFacts DEF AccessInv, AccessesHaveEffect, MemSystemTypeOK, TypeOK
  <1>l. Len(Accesses(request)) = 3 /\ Len(Accesses(request')) = 3
    BY AccessLength
  <1>1. CASE CallMem
    <2>1. WrapperCall(request', 1) /\ step' = 1 /\ request' \in Requests /\ step = 0
          /\ ~exited /\ exited' = exited /\ mem' = mem
      BY <1>1 DEF CallMem, mem_vars
    <2>2. pc'[wrapper] = "transfer"
      BY <1>t, <2>1, AccessFillsForm
    <2>3. Phase = "idle" /\ Phase' = "busy" /\ Returned = Nothing /\ Returned' = Nothing
      BY <1>l, <2>1, <2>2 DEF Phase, Returned, Nothing
    <2> QED
      BY <2>1, <2>3 DEF Abstract!Next, Abstract!Call
  <1>2. CASE NextAccess
    <2>1. /\ step' \in {2, 3} /\ step' = step + 1 /\ step \in {1, 2}
          /\ WrapperCall(request, step') /\ ~exited /\ exited' = exited
          /\ mem' = mem /\ request' = request
      BY <1>2, <1>l DEF NextAccess, mem_vars
    <2>2. pc'[wrapper] = "transfer"
      BY <1>t, <2>1, AccessFillsForm
    <2>3. Phase = "busy" /\ Phase' = "busy" /\ Returned = Nothing /\ Returned' = Nothing
      BY <1>l, <2>1, <2>2 DEF Phase, Returned, Nothing
    <2> QED
      BY <2>1, <2>3
  <1>3. CASE ReturnMem
    <2>1. /\ step = 3 /\ pc[wrapper] = "idle" /\ step' = 0 /\ ~exited /\ exited' = exited
          /\ mem' = mem /\ request' = request
      BY <1>3, <1>l DEF ReturnMem, mem_vars
    <2>2. Phase = "done" /\ Phase' = "idle" /\ Returned' = Nothing
      BY <1>l, <2>1 DEF Phase, Returned, Nothing
    <2> QED
      BY <2>1, <2>2 DEF Abstract!Next, Abstract!Answer, Abstract!Return
  <1>4. CASE ReturnFromBus
    <2>1. pc[wrapper] = "ready" /\ pc'[wrapper] = "idle"
      BY <1>t, <1>4, MemFacts DEF ReturnFromBus, Return, TypeOK
    <2>2. UNCHANGED <<mem, request, step, reply, exited>>
      BY <1>4 DEF ReturnFromBus, mem_vars, user
    <2>3. Phase' = Phase /\ Returned' = Returned
      BY <1>l, <2>1, <2>2 DEF Phase, Returned, Nothing
    <2> QED
      BY <2>2, <2>3
  <1>5. CASE RisingEdge
    <2>1. pc[wrapper] = "transfer" <=> pc'[wrapper] = "transfer"
      BY <1>t, <1>5, MemFacts DEF RisingEdge, PosEdge, TypeOK
    <2>2. UNCHANGED <<mem, request, step, reply, exited>>
      BY <1>5 DEF RisingEdge, update_wait, user
    <2>3. Phase' = Phase /\ Returned' = Returned
      BY <1>l, <2>1, <2>2 DEF Phase, Returned, Nothing
    <2> QED
      BY <2>2, <2>3
  <1>6. CASE BusEdge
    <2>1. PICK p \in ToHandle : MemWrite(p) \/ MemRead(p)
      BY <1>6 DEF BusEdge
    <2>2. ~exited
      BY <1>6 DEF BusEdge, WrapperBlocked
    <2> QED
      BY <2>1, <2>2, EdgeIsAbstractStep
  <1>7. CASE UNCHANGED mem_system_vars
    BY <1>7 DEF mem_system_vars, vars, mem_vars, user, Phase, Returned, Nothing
  <1> QED
    BY <1>1, <1>2, <1>3, <1>4, <1>5, <1>6, <1>7 DEF MemSystemNext, WrapperRuns, ClockEdge

\* Whatever the requests, the memory and the wait states, each load or store is
\* performed at once, once, between its call and its return, with its own mode,
\* address and data: the safety part of ImplementsMemIf.
THEOREM MemSystemIsMemory == MemSystemSpec => MemIfSafety
  <1>1. MemSystemInit => Abstract!Init
    <2> SUFFICES ASSUME MemSystemInit PROVE Abstract!Init
      OBVIOUS
    <2>1. exited = FALSE /\ step = 0
      BY DEF MemSystemInit
    <2>2. Phase = "idle"
      BY <2>1 DEF Phase
    <2> QED
      BY <2>2 DEF Returned, Nothing, Abstract!Init
  <1>2. AccessInv /\ [MemSystemNext]_mem_system_vars
          => [Abstract!Next]_<<mem, Phase, request, Returned>>
    BY MemStepIsAbstractStep
  <1> QED
    BY <1>1, <1>2, AccessInit, AccessStep, PTL DEF MemSystemSpec, MemIfSafety

-------------------------------------------------------------------------------
(* The wait states *)

\* The count of mem_mips runs only while a load waits for its data, and has
\* ended when the load has it.
FreeInv ==
    /\ pc[wrapper] = "edge" => clk = "low" /\ mem_wait_left <= 0
    /\ pc[wrapper] \in {"ready", "idle"} => mem_wait_left = -1
    /\ pc[wrapper] = "transfer" /\ m_current_request = None => mem_wait_left = -1
    /\ m_current_request # None => ~do_write[mem_priority]

LEMMA FreeInit == MemSystemInit => FreeInv
  <1> SUFFICES ASSUME MemSystemInit PROVE FreeInv
    OBVIOUS
  <1>1. pc[wrapper] = "idle" /\ mem_wait_left = -1 /\ m_current_request = None
    BY MemFacts DEF MemSystemInit, Init, MemInit
  <1> QED
    BY <1>1 DEF FreeInv

\* A call finds no form of its master current.
LEMMA IdleHasNoCurrent ==
  ASSUME AccessInv, pc[wrapper] = "idle"
  PROVE  m_current_request = None
  BY MemFacts DEF AccessInv, BusInv, TypeOK, ReturnsFinal, CurrentWaits, Final

LEMMA FreeStep == AccessInv /\ FreeInv /\ [MemSystemNext]_mem_system_vars => FreeInv'
  <1> SUFFICES ASSUME AccessInv, FreeInv, [MemSystemNext]_mem_system_vars PROVE FreeInv'
    OBVIOUS
  <1>t. /\ TypeOK /\ step \in 0 .. 3 /\ pc[wrapper] \in PcValues
        /\ mem_wait_left \in -1 .. mem_wait_states /\ mem_wait_left \in Int
    BY MemFacts, MemWaitAssumption DEF AccessInv, MemSystemTypeOK, MemTypeOK, TypeOK
  <1>1. ASSUME NEW r, NEW n \in 1 .. 3, WrapperCall(r, n), UNCHANGED mem_vars
        PROVE  FreeInv'
    <2>1. /\ pc'[wrapper] = "transfer" /\ pc[wrapper] = "idle"
          /\ m_current_request' = m_current_request
      BY <1>t, <1>1, AccessFillsForm
    <2>2. m_current_request = None /\ mem_wait_left = -1
      BY <2>1, IdleHasNoCurrent DEF FreeInv
    <2> QED
      BY <1>1, <2>1, <2>2 DEF FreeInv, mem_vars
  <1>2. CASE CallMem
    BY <1>1, <1>2 DEF CallMem
  <1>3. CASE NextAccess
    <2>0. Len(Accesses(request)) = 3
      BY AccessLength
    <2>1. step' \in 1 .. 3 /\ WrapperCall(request, step') /\ UNCHANGED mem_vars
      BY <1>3, <2>0 DEF NextAccess
    <2> QED
      BY <1>1, <2>1
  <1>4. CASE ReturnMem
    BY <1>4 DEF ReturnMem, vars, form, mem_vars, FreeInv
  <1>5. CASE ReturnFromBus
    <2>1. pc[wrapper] = "ready" /\ pc'[wrapper] = "idle"
      BY <1>t, <1>5, MemFacts DEF ReturnFromBus, Return, TypeOK
    <2> QED
      BY <1>5, <2>1 DEF ReturnFromBus, Return, form, mem_vars, FreeInv
  <1>6. CASE RisingEdge
    <2>1. mem_wait_left' = IF mem_wait_left >= 0 THEN mem_wait_left - 1 ELSE mem_wait_left
      BY <1>6 DEF RisingEdge, update_wait
    <2>2. \/ pc[wrapper] = "transfer" /\ pc'[wrapper] = "transfer"
          \/ pc[wrapper] = "edge" /\ pc'[wrapper] = "ready"
      BY <1>t, <1>6, MemFacts DEF RisingEdge, WrapperBlocked, PosEdge, TypeOK
    <2>3. m_current_request' = m_current_request /\ do_write' = do_write
      BY <1>6 DEF RisingEdge, PosEdge, form
    <2>4. mem_wait_left <= 0 => mem_wait_left' = -1
      BY <1>t, <2>1
    <2> QED
      BY <1>t, <2>2, <2>3, <2>4 DEF FreeInv
  <1>7. ASSUME NEW p \in ToHandle, MemWrite(p) PROVE FreeInv'
    <2>1. CASE exited'
      BY <1>7, <2>1 DEF MemWrite, vars, form, mem_vars, FreeInv
    <2>2. CASE ~exited'
      <3>1. /\ HandleAnswer(p, mem_write_status) /\ mem_wait_left' = mem_wait_left
            /\ do_write[p]
        BY <1>7, <2>2 DEF MemWrite, mem_write
      <3>2. pc[wrapper] = "transfer" /\ m_current_request = None
        BY <3>1, EdgeServesAccess DEF FreeInv
      <3>3. mem_wait_left = -1
        BY <3>2 DEF FreeInv
      <3>4. mem_write_status = "OK"
        BY <3>3 DEF mem_write_status
      <3>5. pc'[wrapper] = "edge" /\ m_current_request' = None /\ clk' = "low"
        BY <3>1, <3>4, MemAnswerOutcome
      <3> QED
        BY <3>1, <3>3, <3>5 DEF FreeInv
    <2> QED
      BY <2>1, <2>2
  <1>8. ASSUME NEW p \in ToHandle, MemRead(p) PROVE FreeInv'
    <2>1. CASE exited'
      BY <1>8, <2>1 DEF MemRead, vars, form, mem_vars, FreeInv
    <2>2. CASE ~exited'
      <3>1. /\ HandleAnswer(p, mem_read_status) /\ mem_read(address[p]) /\ ~do_write[p]
        BY <1>8, <2>2 DEF MemRead
      <3>2. /\ pc[wrapper] = "transfer" /\ p = mem_priority /\ mem_priority # None
        BY EdgeServesAccess, MasterAssumption DEF mem_priority
      <3>3. CASE mem_read_status = "OK"
        <4>1. /\ pc'[wrapper] = "edge" /\ m_current_request' = None /\ clk' = "low"
              /\ mem_wait_left = 0
          BY <3>1, <3>3, MemAnswerOutcome DEF mem_read_status
        <4>2. mem_wait_left' = 0
          BY <3>1, <4>1 DEF mem_read
        <4> QED
          BY <4>1, <4>2 DEF FreeInv
      <3>4. CASE mem_read_status = "WAIT"
        <4>1. pc' = pc /\ do_write' = do_write /\ m_current_request' = p
          BY <3>1, <3>4, MemAnswerOutcome
        <4> QED
          BY <3>1, <3>2, <4>1 DEF FreeInv
      <3> QED
        BY <3>3, <3>4 DEF mem_read_status
    <2> QED
      BY <2>1, <2>2
  <1>9. CASE UNCHANGED mem_system_vars
    BY <1>9 DEF mem_system_vars, vars, form, mem_vars, FreeInv
  <1> QED
    BY <1>2, <1>3, <1>4, <1>5, <1>6, <1>7, <1>8, <1>9
    DEF MemSystemNext, WrapperRuns, ClockEdge, BusEdge

\* The memory is free whenever the bus is: no request meets the count that
\* another one left behind, whatever the number of wait states.
THEOREM MemoryIsFree == MemSystemSpec => []MemoryFree
  <1>1. AccessInv /\ FreeInv => MemoryFree
    BY MemFacts DEF AccessInv, AccessesHaveEffect, MemSystemTypeOK, TypeOK, PcValues, FreeInv,
      MemoryFree
  <1> QED
    BY <1>1, AccessInit, AccessStep, FreeInit, FreeStep, PTL DEF MemSystemSpec

-------------------------------------------------------------------------------
(* The bytes of loads and stores *)

\* Bytes that do not reach the end of the word are in one word.
LEMMA SameWord ==
  ASSUME NEW a \in Nat, NEW k \in 0 .. 3, (a % 4) + k <= 3
  PROVE  (a + k) \div 4 = a \div 4 /\ (a + k) % 4 = (a % 4) + k
  OBVIOUS

\* An aligned datum lies in one word.
LEMMA AlignedFits ==
  ASSUME NEW a \in Nat, NEW type \in OpType, a % Width(type) = 0
  PROVE  /\ a % 4 \in 0 .. 3 /\ (a % 4) + Width(type) <= 4 /\ Width(type) \in 1 .. 4
         /\ type = "Byte" => Width(type) = 1
         /\ type = "Half" => Width(type) = 2 /\ a % 2 = 0
         /\ type = "Word" => Width(type) = 4 /\ a % 4 = 0
  <1>1. CASE type = "Byte"
    BY <1>1 DEF Width
  <1>2. CASE type = "Half"
    <2>1. a % 2 = 0 /\ Width(type) = 2
      BY <1>2 DEF Width
    <2>2. a % 4 \in {0, 2}
      BY <2>1
    <2> QED
      BY <1>2, <2>1, <2>2
  <1>3. CASE type = "Word"
    BY <1>3 DEF Width
  <1> QED
    BY <1>1, <1>2, <1>3 DEF OpType

LEMMA LoadedBytes ==
  ASSUME NEW m \in Memory, NEW type \in OpType, NEW a \in Nat, a % Width(type) = 0,
         NEW k \in 0 .. 3
  PROVE  LoadWord(type, m[a \div 4], a)[k] =
           IF k < Width(type) THEN ByteAt(m, a + k)
           ELSE IF ByteAt(m, a + Width(type) - 1) < ByteCount \div 2 THEN 0
           ELSE ByteCount - 1
  <1> DEFINE w == m[a \div 4]
             n == Width(type)
             v == Shifted(w, a % 4)
             B(j) == ByteAt(m, a + j)
  <1>1. n \in 1 .. 4 /\ a % 4 \in 0 .. 3 /\ (a % 4) + n <= 4
    BY AlignedFits
  <1>2. \A j \in 0 .. 3 : j < n => B(j) = w[(a % 4) + j] /\ v[j] = w[(a % 4) + j]
    <2> SUFFICES ASSUME NEW j \in 0 .. 3, j < n
                 PROVE  B(j) = w[(a % 4) + j] /\ v[j] = w[(a % 4) + j]
      OBVIOUS
    <2> HIDE DEF n
    <2>1. (a % 4) + j <= 3 /\ j + (a % 4) <= 3 /\ j + (a % 4) = (a % 4) + j
      BY <1>1
    <2>2. (a + j) \div 4 = a \div 4 /\ (a + j) % 4 = (a % 4) + j
      BY <2>1, SameWord
    <2>3. B(j) = w[(a % 4) + j]
      BY <2>2 DEF ByteAt
    <2> QED
      BY <2>1, <2>3 DEF Shifted
  <1>3. n - 1 \in 0 .. 3 /\ n - 1 < n /\ a + (n - 1) = a + n - 1
    <2> HIDE DEF n
    <2> QED
      BY <1>1
  <1>4. ByteAt(m, a + n - 1) = B(n - 1)
    BY <1>3
  <1>5. \/ LoadWord(type, w, a) = SignExtended(v, n)
        \/ n = 4 /\ LoadWord(type, w, a) = w /\ a % 4 = 0
    <2>1. CASE type = "Byte"
      <3>1. LoadWord(type, w, a) = SignExtended(v, 1) /\ n = 1
        BY <2>1, AlignedFits DEF LoadWord, lb
      <3> HIDE DEF n, v, w
      <3> QED
        BY <3>1
    <2>2. CASE type = "Half"
      <3>1. LoadWord(type, w, a) = SignExtended(v, 2) /\ n = 2
        BY <2>2, AlignedFits DEF LoadWord, lh
      <3> HIDE DEF n, v, w
      <3> QED
        BY <3>1
    <2>3. CASE type = "Word"
      BY <2>3, AlignedFits DEF LoadWord, lw
    <2> QED
      BY <2>1, <2>2, <2>3 DEF OpType
  <1> HIDE DEF n, v, w, B
  <1>6. LoadWord(type, w, a)[k] =
          IF k < n THEN B(k) ELSE IF B(n - 1) < ByteCount \div 2 THEN 0 ELSE ByteCount - 1
    <2>1. B(n - 1) = v[n - 1] /\ (k < n => B(k) = v[k] /\ B(k) = w[(a % 4) + k])
      BY <1>2, <1>3
    <2>2. CASE LoadWord(type, w, a) = SignExtended(v, n)
      BY <2>1, <2>2 DEF SignExtended
    <2>3. CASE n = 4 /\ LoadWord(type, w, a) = w /\ a % 4 = 0
      BY <2>1, <2>3
    <2> QED
      BY <1>5, <2>2, <2>3
  <1> QED
    BY <1>4, <1>6 DEF n, w, B

\* An aligned load returns its bytes and their sign: for memories of any size,
\* bytes of any width, and whatever other requests came before.
THEOREM LoadsAreRight == MemSystemSpec => []LoadsItsBytes
  <1>1. AccessInv => LoadsItsBytes
    <2> DEFINE a == AddressOf(request)
    <2> SUFFICES ASSUME AccessInv, Phase = "done", request.kind = "load", Aligned(request),
                        ~Outside(a), NEW k \in 0 .. 3
                 PROVE  reply[k] =
                          IF k < Width(request.type) THEN ByteAt(mem, a + k)
                          ELSE IF ByteAt(mem, a + Width(request.type) - 1)
                                  < ByteCount \div 2 THEN 0
                          ELSE ByteCount - 1
      BY DEF LoadsItsBytes
    <2>1. step = 3 /\ Finished
      BY AccessLength DEF Phase, Finished
    <2>2. reply \in Load(mem, request.type, a)
      BY <2>1 DEF AccessInv, AccessesHaveEffect
    <2>3. reply = LoadWord(request.type, mem[a \div 4], a)
      BY <2>2 DEF Load
    <2>4. /\ mem \in Memory /\ request.type \in OpType /\ a \in Nat
          /\ a % Width(request.type) = 0
      BY RequestFacts, BytesFacts DEF AccessInv, MemSystemTypeOK, MemTypeOK, Aligned
    <2> QED
      BY <2>3, <2>4, LoadedBytes
  <1> QED
    BY <1>1, AccessInit, AccessStep, PTL DEF MemSystemSpec

LEMMA StoredBytes ==
  ASSUME NEW m \in Memory, NEW type \in OpType, NEW a \in Nat, a % Width(type) = 0,
         InRange(a), ~Outside(a), NEW dado \in Int4, NEW b \in 0 .. 4 * size - 1
  PROVE  ByteAt(Store(m, type, a, dado), b) =
           IF b \in a .. a + Width(type) - 1 THEN dado[b - a] ELSE ByteAt(m, b)
  <1> DEFINE w == m[a \div 4]
             v == StoreWord(type, w, a, dado)
  <1>1. /\ a \div 4 \in 0 .. size - 1 /\ b \div 4 \in 0 .. size - 1 /\ b % 4 \in 0 .. 3
        /\ a = 4 * (a \div 4) + (a % 4) /\ b = 4 * (b \div 4) + (b % 4)
    BY BytesFacts DEF InRange, Outside
  <1>2. Store(m, type, a, dado) = [m EXCEPT ![a \div 4] = v]
    BY DEF Store
  <1>3. w \in Int4
    BY <1>1 DEF Memory
  <1>4. CASE b \div 4 # a \div 4
    <2>1. ByteAt(Store(m, type, a, dado), b) = ByteAt(m, b)
      BY <1>1, <1>2, <1>4 DEF ByteAt, Memory
    <2>2. b \notin a .. a + Width(type) - 1
      BY <1>1, <1>4, AlignedFits
    <2> QED
      BY <2>1, <2>2
  <1>5. CASE b \div 4 = a \div 4
    <2> DEFINE j == b % 4
    <2>1. ByteAt(Store(m, type, a, dado), b) = v[j] /\ ByteAt(m, b) = w[j]
      BY <1>1, <1>2, <1>5 DEF ByteAt, Memory
    <2>2. b - a = j - (a % 4) /\ j \in 0 .. 3
      BY <1>1, <1>5
    <2>3. b \in a .. a + Width(type) - 1 <=> j \in (a % 4) .. (a % 4) + Width(type) - 1
      <3> DEFINE n == Width(type)
                 r == a % 4
      <3>1. n \in 1 .. 4 /\ r \in 0 .. 3
        BY AlignedFits
      <3> HIDE DEF n, r, j
      <3>2. b \in a .. a + n - 1 <=> j \in r .. r + n - 1
        <4>1. b - a = j - r
          BY <2>2 DEF r
        <4> QED
          BY <2>2, <3>1, <4>1
      <3> QED
        BY <3>2 DEF n, r
    <2>4. CASE type = "Byte"
      <3>1. v = [w EXCEPT ![a % 4] = dado[0]] /\ Width(type) = 1 /\ a % 4 \in 0 .. 3
        BY <2>4, AlignedFits DEF StoreWord, sb
      <3>2. v[j] = IF j = a % 4 THEN dado[0] ELSE w[j]
        BY <1>3, <2>2, <3>1 DEF Int4
      <3> HIDE DEF v, w, j
      <3>3. b \in a .. a + Width(type) - 1 <=> j = a % 4
        BY <2>2, <2>3, <3>1
      <3>4. j = a % 4 => b - a = 0
        BY <2>2, <3>1
      <3> QED
        BY <2>1, <3>2, <3>3, <3>4
    <2>5. CASE type = "Half"
      <3>1. /\ v = [w EXCEPT ![HalfOf(a)] = dado[0], ![HalfOf(a) + 1] = dado[1]]
            /\ Width(type) = 2 /\ a % 4 \in {0, 2} /\ HalfOf(a) = a % 4
        BY <2>5, AlignedFits DEF StoreWord, sh, HalfOf
      <3>2. v[j] = IF j = a % 4 THEN dado[0] ELSE IF j = (a % 4) + 1 THEN dado[1] ELSE w[j]
        BY <1>3, <2>2, <3>1 DEF Int4
      <3> HIDE DEF v, w, j
      <3>3. b \in a .. a + Width(type) - 1 <=> j = a % 4 \/ j = (a % 4) + 1
        BY <2>2, <2>3, <3>1
      <3>4. (j = a % 4 => b - a = 0) /\ (j = (a % 4) + 1 => b - a = 1)
        BY <2>2, <3>1
      <3> QED
        BY <2>1, <3>1, <3>2, <3>3, <3>4
    <2>6. CASE type = "Word"
      <3>1. v = dado /\ Width(type) = 4 /\ a % 4 = 0
        BY <2>6, AlignedFits DEF StoreWord, sw
      <3> HIDE DEF v, w, j
      <3>2. b \in a .. a + Width(type) - 1 /\ b - a = j
        BY <2>2, <2>3, <3>1
      <3> QED
        BY <2>1, <3>1, <3>2
    <2> QED
      BY <2>4, <2>5, <2>6 DEF OpType
  <1> QED
    BY <1>4, <1>5

\* Only the data of a store changes the memory, and as its request asks.
LEMMA MemoryChange ==
  ASSUME AccessInv, [MemSystemNext]_mem_system_vars, mem' # mem
  PROVE  /\ mem' = Store(mem, request.type, AddressOf(request), request.dado)
         /\ InRange(AddressOf(request)) /\ ~Outside(AddressOf(request))
  <1>1. PICK p \in ToHandle : MemWrite(p)
    BY DEF MemSystemNext, WrapperRuns, ClockEdge, CallMem, NextAccess, ReturnMem,
      ReturnFromBus, RisingEdge, update_wait, BusEdge, MemRead, mem_read, mem_vars,
      mem_system_vars
  <1>2. /\ ~exited' /\ mem_write(MemValue, address[p]) /\ ~WriteExits(address[p])
    BY <1>1 DEF MemWrite, mem_vars
  <1>3. /\ mem_write_status = "OK" /\ address[p] = MemAddr
        /\ mem' = Store(mem, op_type_reg, addr_reg, MemValue)
    BY <1>2 DEF mem_write, mem_direct_write
  <1>4. p = mem_priority /\ step \in 1 .. 3 /\ address[p] = AccessAddress(step)
    BY <1>1, EdgeServesAccess
  <1>5. step = 3
    BY <1>3, <1>4 DEF AccessAddress, OpTypeReg, AddrReg, MemAddr
  <1>6. op_type_reg = request.type /\ addr_reg = AddressOf(request)
    BY <1>5 DEF AccessInv, AccessesHaveEffect
  <1>7. MemValue = request.dado
    BY <1>3, <1>4 DEF MemValue, OpTypeReg, AddrReg, MemAddr
  <1>8. mem' = Store(mem, request.type, AddressOf(request), request.dado)
    BY <1>3, <1>6, <1>7
  <1>9. ~Outside(AddressOf(request))
    BY <1>8 DEF Store
  <1> QED
    BY <1>2, <1>3, <1>6, <1>8, <1>9 DEF WriteExits

\* An aligned store sets the bytes from its address on to those of its data, and
\* no other byte of the memory ever changes.
THEOREM StoresAreRight == MemSystemSpec => StoresItsBytes
  <1> DEFINE Stored ==
        mem' # mem /\ Aligned(request) =>
          LET a == AddressOf(request) IN
          \A b \in 0 .. 4 * size - 1 :
             ByteAt(mem', b) = IF b \in a .. a + Width(request.type) - 1
                               THEN request.dado[b - a] ELSE ByteAt(mem, b)
  <1>1. AccessInv /\ [MemSystemNext]_mem_system_vars => [Stored]_mem_system_vars
    <2> SUFFICES ASSUME AccessInv, [MemSystemNext]_mem_system_vars, mem' # mem,
                        Aligned(request), NEW b \in 0 .. 4 * size - 1
                 PROVE  ByteAt(mem', b) =
                          IF b \in AddressOf(request) ..
                                   AddressOf(request) + Width(request.type) - 1
                          THEN request.dado[b - AddressOf(request)] ELSE ByteAt(mem, b)
      OBVIOUS
    <2>1. /\ mem' = Store(mem, request.type, AddressOf(request), request.dado)
          /\ InRange(AddressOf(request)) /\ ~Outside(AddressOf(request))
      BY MemoryChange
    <2>2. /\ mem \in Memory /\ request.type \in OpType /\ AddressOf(request) \in Nat
          /\ AddressOf(request) % Width(request.type) = 0 /\ request.dado \in Int4
      BY RequestFacts, BytesFacts DEF AccessInv, MemSystemTypeOK, MemTypeOK, Aligned
    <2> QED
      BY <2>1, <2>2, StoredBytes
  <1> QED
    BY <1>1, AccessInit, AccessStep, PTL DEF MemSystemSpec, StoresItsBytes
===============================================================================
