--------------------------- MODULE MduSystemProofs ---------------------------
(***************************************************************************)
(* The program of src/main.cpp behaves as the bus and as the calculator.   *)
(***************************************************************************)
EXTENDS MduSystem, SimpleBusProofs, MduValueProofs

-------------------------------------------------------------------------------
(* The program is an instance of the bus *)

LEMMA SystemFacts ==
  /\ Master = {mdu_master} /\ Blocking = {mdu_master}
  /\ PriorityOf[mdu_master] = mdu_priority /\ Priority = {mdu_priority}
  /\ FALSE \in LockFlags[mdu_master]
  /\ WriteTo(OpA) \in Calls[mdu_master] /\ WriteTo(OpB) \in Calls[mdu_master]
  /\ \A t \in Testcases : ReadFrom(t.op) \in Calls[mdu_master]
  <1>1. Master = {mdu_master} /\ Blocking = {mdu_master}
    BY SystemAssumption DEF SystemMaster
  <1>2. PriorityOf[mdu_master] = mdu_priority
    BY SystemAssumption DEF SystemMaster
  <1>3. Priority = {mdu_priority}
    BY <1>1, <1>2 DEF Priority
  <1>4. FALSE \in LockFlags[mdu_master]
    BY SystemAssumption DEF SystemMaster
  <1>5. Calls[mdu_master] =
          [do_write : {TRUE}, address : {OpA, OpB}, length : {1}]
          \cup [do_write : {FALSE}, address : {MLow, MHigh, Div, Mod}, length : {1}]
    BY SystemAssumption DEF SystemMaster
  <1>6. WriteTo(OpA) \in Calls[mdu_master] /\ WriteTo(OpB) \in Calls[mdu_master]
    BY <1>5 DEF WriteTo
  <1>7. \A t \in Testcases : t.op \in {MLow, MHigh, Div, Mod}
    BY TestcaseAssumption
  <1>8. \A t \in Testcases : ReadFrom(t.op) \in Calls[mdu_master]
    BY <1>5, <1>7 DEF ReadFrom
  <1> QED
    BY <1>1, <1>2, <1>3, <1>4, <1>6, <1>8

LEMMA SystemIsUnique == UniquePriorities
  BY SystemFacts DEF UniquePriorities

LEMMA AnswerIsRequest ==
  ASSUME NEW p, NEW answer, HandleAnswer(p, answer)
  PROVE  HandleRequest(p)
  BY DEF HandleRequest, HandleAnswer

LEMMA ToHandleIsPriority ==
  ASSUME TypeOK
  PROVE  ToHandle \subseteq Priority
  BY DEF ToHandle, Arbitrate, LockedBurst, LockGranted, MostUrgent, Pending, TypeOK

\* A step of the program is a step of the bus or leaves the bus alone.
LEMMA SystemStepIsBusStep ==
  ASSUME TypeOK, test \in Testcases, [SystemNext]_system_vars
  PROVE  [Next]_vars
  <1> USE SystemFacts
  <1>1. ASSUME NEW c \in Calls[mdu_master], CallOf(c) PROVE Next
    BY <1>1 DEF CallOf, Next, MasterStep
  <1>2. CASE StartTestcase
    BY <1>1, <1>2 DEF StartTestcase
  <1>3. CASE WriteB
    BY <1>1, <1>3 DEF WriteB
  <1>4. CASE ReadResult
    BY <1>1, <1>4 DEF ReadResult
  <1>5. CASE PrintResult \/ StopSimulation
    BY <1>5 DEF PrintResult, StopSimulation
  <1>6. CASE ReturnFromCall
    BY <1>6 DEF ReturnFromCall, Next, MasterStep
  <1>7. CASE RisingEdge
    BY <1>7 DEF RisingEdge, Next
  <1>8. CASE IdleEdge
    BY <1>8 DEF IdleEdge, Next, NegEdge
  <1>9. CASE BusEdge
    <2>1. PICK p \in ToHandle : MduWrite(p) \/ MduRead(p)
      BY <1>9 DEF BusEdge
    <2>2. p \in Priority
      BY ToHandleIsPriority
    <2>3. HandleRequest(p)
      BY <2>1, AnswerIsRequest DEF MduWrite, MduRead
    <2> QED
      BY <2>2, <2>3 DEF Next, NegEdge
  <1>10. CASE UNCHANGED system_vars
    BY <1>10 DEF system_vars
  <1> QED
    BY <1>2, <1>3, <1>4, <1>5, <1>6, <1>7, <1>8, <1>9, <1>10
    DEF SystemNext, MasterRuns, ClockEdge

LEMMA TestStays ==
  ASSUME test \in Testcases, [SystemNext]_system_vars
  PROVE  test' \in Testcases
  BY DEF SystemNext, MasterRuns, ClockEdge, StartTestcase, WriteB, ReadResult, PrintResult,
    StopSimulation, ReturnFromCall, RisingEdge, IdleEdge, BusEdge, MduWrite, MduRead,
    script, system_vars

TestOK == test \in Testcases

\* Whatever holds of the bus with any slaves holds of the program.
THEOREM SystemIsABus == SystemSpec => Spec
  <1>1. SystemInit => Init /\ TypeOK /\ TestOK
    BY TypeInit DEF SystemInit, TestOK
  <1>2. TypeOK /\ TestOK /\ [SystemNext]_system_vars => [Next]_vars /\ TypeOK' /\ TestOK'
    BY SystemStepIsBusStep, TestStays, TypeStep DEF TestOK
  <1> QED
    BY <1>1, <1>2, PTL DEF SystemSpec, Spec

-------------------------------------------------------------------------------
(* Types of the program *)

LEMMA TestcaseType ==
  ASSUME NEW t \in Testcases
  PROVE  /\ t.a \in Int32 /\ t.b \in Int32 /\ t.op \in {MLow, MHigh, Div, Mod}
         /\ t = [a |-> t.a, b |-> t.b, op |-> t.op]
  BY TestcaseAssumption

Printed == [test : Testcases, result : Int32 \cup {Trap}]

LEMMA SystemTypeInit == SystemInit => SystemTypeOK
  <1> SUFFICES ASSUME SystemInit PROVE SystemTypeOK
    OBVIOUS
  <1>1. TypeOK
    BY TypeInit DEF SystemInit
  <1>2. MduTypeOK
    BY WaitAssumption DEF SystemInit, MduInit, MduTypeOK
  <1>3. 0 \in Int32 /\ << >> \in Seq(Printed)
    BY HalfAssumption DEF Int32
  <1> QED
    BY <1>1, <1>2, <1>3 DEF SystemInit, SystemTypeOK, Printed

LEMMA MduTypeStep ==
  ASSUME SystemTypeOK, [SystemNext]_system_vars
  PROVE  MduTypeOK' /\ elapsed' \in Nat /\ result' \in Int32 \cup {Trap}
  <1>1. /\ opA \in Int32 /\ opB \in Int32 /\ wait_left \in -1 .. wait_states
        /\ elapsed \in Nat /\ result \in Int32 \cup {Trap} /\ Value \in Int32
    BY TestcaseType DEF SystemTypeOK, MduTypeOK, Value
  <1>2. ASSUME UNCHANGED <<mdu_vars, elapsed>>, result' \in Int32 \cup {Trap}
        PROVE  MduTypeOK' /\ elapsed' \in Nat /\ result' \in Int32 \cup {Trap}
    BY <1>1, <1>2 DEF mdu_vars, MduTypeOK
  <1>3. CASE MasterRuns
    BY <1>1, <1>2, <1>3 DEF MasterRuns, StartTestcase, WriteB, ReadResult, PrintResult,
      StopSimulation, ReturnFromCall, CallOf, script
  <1>4. CASE RisingEdge
    <2>1. /\ opA' = opA /\ opB' = opB /\ wait_left' = CountDown(wait_left)
          /\ elapsed' = elapsed + (IF wait_left >= 0 THEN 1 ELSE 0) /\ result' = result
      BY <1>4 DEF RisingEdge, update_wait_left, script
    <2> QED
      BY <1>1, <2>1, WaitAssumption DEF CountDown, MduTypeOK
  <1>5. CASE IdleEdge
    BY <1>1, <1>2, <1>5 DEF IdleEdge, script
  <1>6. ASSUME NEW p \in ToHandle, MduWrite(p)
        PROVE  MduTypeOK' /\ elapsed' \in Nat /\ result' \in Int32 \cup {Trap}
    <2>1. /\ opA' \in {opA, Value} /\ opB' \in {opB, Value} /\ wait_left' = wait_left
          /\ elapsed' = elapsed /\ result' = result
      BY <1>6 DEF MduWrite, write, script
    <2> QED
      BY <1>1, <2>1 DEF MduTypeOK
  <1>7. ASSUME NEW p \in ToHandle, MduRead(p)
        PROVE  MduTypeOK' /\ elapsed' \in Nat /\ result' \in Int32 \cup {Trap}
    <2>1. opA' = opA /\ opB' = opB /\ wait_left' = Start /\ elapsed' \in {0, elapsed}
      BY <1>7 DEF MduRead, read
    <2>2. result' \in Int32 \cup {Trap}
      BY <1>1, <1>7, CalculateType DEF MduRead
    <2>3. wait_left' \in -1 .. wait_states
      BY <1>1, <2>1, WaitAssumption DEF Start
    <2> QED
      BY <1>1, <2>1, <2>2, <2>3 DEF MduTypeOK
  <1>8. CASE UNCHANGED system_vars
    BY <1>1, <1>2, <1>8 DEF system_vars, script
  <1> QED
    BY <1>3, <1>4, <1>5, <1>6, <1>7, <1>8 DEF SystemNext, ClockEdge, BusEdge

LEMMA ScriptTypeStep ==
  ASSUME SystemTypeOK, [SystemNext]_system_vars
  PROVE  /\ test' \in Testcases /\ step' \in {"start", "opA", "opB", "read", "stopped"}
         /\ printed' \in Seq(Printed)
  <1>1. test' \in Testcases
    BY TestStays DEF SystemTypeOK
  <1>2. CASE PrintResult
    <2>1. [test |-> test, result |-> result] \in Printed
      BY DEF SystemTypeOK, Printed
    <2>2. printed' \in Seq(Printed)
      BY <1>2, <2>1 DEF PrintResult, SystemTypeOK, Printed
    <2> QED
      BY <1>1, <1>2, <2>2 DEF PrintResult
  <1>3. CASE ~PrintResult
    <2>1. /\ printed' = printed
          /\ step' \in {step, "start", "opA", "opB", "read", "stopped"}
      BY <1>3 DEF SystemNext, MasterRuns, ClockEdge, StartTestcase, WriteB, ReadResult,
        StopSimulation, ReturnFromCall, RisingEdge, IdleEdge, BusEdge, MduWrite, MduRead,
        script, system_vars
    <2> QED
      BY <1>1, <2>1 DEF SystemTypeOK, Printed
  <1> QED
    BY <1>2, <1>3

LEMMA SystemTypeStep == SystemTypeOK /\ [SystemNext]_system_vars => SystemTypeOK'
  <1> SUFFICES ASSUME SystemTypeOK, [SystemNext]_system_vars PROVE SystemTypeOK'
    OBVIOUS
  <1>1. TypeOK'
    BY SystemStepIsBusStep, TypeStep DEF SystemTypeOK
  <1> QED
    BY <1>1, MduTypeStep, ScriptTypeStep DEF SystemTypeOK, Printed

\* Types of the whole program; in particular the MDU never counts below -1 or
\* above wait_states, and what it returns fits in an int.
THEOREM SystemTypes == SystemSpec => []SystemTypeOK
  BY SystemTypeInit, SystemTypeStep, PTL DEF SystemSpec

-------------------------------------------------------------------------------
(* The program implements the calculator *)

\* The address of the call that was made last.
CallAddress == IF step = "opA" THEN OpA ELSE IF step = "opB" THEN OpB ELSE test.op

\* The form of the master describes the call in progress, and each finished
\* call has had its effect: this is what makes the printed result the right one.
FormMatchesCall ==
    pc[mdu_master] = "transfer" =>
       /\ address[mdu_priority] = CallAddress
       /\ end_address[mdu_priority] = CallAddress
       /\ do_write[mdu_priority] = (step # "read")
Finished == pc[mdu_master] # "transfer"
CallsHaveEffect ==
    /\ step \in {"start", "stopped"} => pc[mdu_master] = "idle"
    /\ step \in {"opA", "opB", "read"} => Len(printed) < MaxTests
    /\ step \in {"opB", "read"} \/ (step = "opA" /\ Finished) => opA = test.a
    /\ step = "read" \/ (step = "opB" /\ Finished) => opB = test.b
    /\ step = "read" /\ Finished => result \in calculate(test.op, test.a, test.b)
    /\ pc[mdu_master] # "poll"
CalcInv == SystemTypeOK /\ BusInv /\ FormMatchesCall /\ CallsHaveEffect

\* The addresses the program uses are aligned, inside the MDU and far from the
\* end of the address space.
LEMMA CallAddressFacts ==
  ASSUME SystemTypeOK
  PROVE  /\ CallAddress \in Nat /\ CallAddress % 4 = 0
         /\ StartAddr <= CallAddress /\ CallAddress <= EndAddr
         /\ CallAddress < AddressSpace /\ CallAddress + 4 < AddressSpace
         /\ get_slave(CallAddress) # {}
  <1>1. test.op \in {MLow, MHigh, Div, Mod}
    BY TestcaseType DEF SystemTypeOK
  <1>2. CallAddress \in {256, 260, 264, 268, 272, 276}
    BY <1>1 DEF CallAddress, OpA, OpB, MLow, MHigh, Div, Mod
  <1>3. EndAddr + 4 < AddressSpace /\ AddressSpace \in Nat
    BY SystemAssumption, SpaceAssumption
  <1>4. "MDU" \in get_slave(CallAddress)
    BY <1>2, SystemAssumption DEF get_slave, StartAddr, EndAddr
  <1> QED
    BY <1>2, <1>3, <1>4 DEF StartAddr, EndAddr

\* The call of one word at an address of the MDU is put in the form as it is.
LEMMA CallFillsForm ==
  ASSUME TypeOK, NEW addr \in Nat, addr < AddressSpace, NEW w \in BOOLEAN,
         CallOf([do_write |-> w, address |-> addr, length |-> 1])
  PROVE  /\ address'[mdu_priority] = addr /\ end_address'[mdu_priority] = addr
         /\ do_write'[mdu_priority] = w
         /\ pc'[mdu_master] = "transfer" /\ pc[mdu_master] = "idle"
         /\ opA' = opA /\ opB' = opB
  <1> DEFINE c == [do_write |-> w, address |-> addr, length |-> 1]
  <1>1. BurstCall(mdu_master, c, FALSE) /\ UNCHANGED mdu_vars
    BY DEF CallOf
  <1>2. EndOfBurst(c) = addr
    <2>1. EndOfBurst(c) = (addr + (1 - 1) * 4) % AddressSpace
      BY DEF EndOfBurst
    <2>2. addr + (1 - 1) * 4 = addr
      OBVIOUS
    <2> QED
      BY <2>1, <2>2, ModOfWord
  <1>3. Fill(mdu_priority, c, FALSE)
    BY <1>1, SystemFacts DEF BurstCall
  <1> QED
    BY <1>1, <1>2, <1>3, SystemFacts DEF BurstCall, Fill, TypeOK, mdu_vars

LEMMA CalcInit == SystemInit => CalcInv
  <1> SUFFICES ASSUME SystemInit PROVE CalcInv
    OBVIOUS
  <1>1. SystemTypeOK /\ BusInv
    BY SystemTypeInit, BusInit DEF SystemInit
  <1>2. pc[mdu_master] = "idle" /\ step = "start"
    BY SystemFacts DEF SystemInit, Init
  <1> QED
    BY <1>1, <1>2 DEF CalcInv, FormMatchesCall, CallsHaveEffect

\* A falling edge serves the call in progress, at an address of the MDU.
LEMMA EdgeServesCall ==
  ASSUME CalcInv, NEW p \in ToHandle
  PROVE  /\ p = mdu_priority /\ pc[mdu_master] = "transfer" /\ Reached(p)
         /\ address[p] = CallAddress /\ end_address[p] = CallAddress
         /\ do_write[p] = (step # "read") /\ step \in {"opA", "opB", "read"}
         /\ Done(p)
  <1>1. p \in Pending /\ p = mdu_priority
    BY HandledIsPending, SystemFacts DEF CalcInv, BusInv, Pending
  <1>2. pc[mdu_master] = "transfer"
    BY <1>1, SystemFacts
    DEF CalcInv, BusInv, ReturnsFinal, Pending, Final, CallsHaveEffect, TypeOK, PcValues
  <1>3. address[p] = CallAddress /\ end_address[p] = CallAddress
        /\ do_write[p] = (step # "read")
    BY <1>1, <1>2 DEF CalcInv, FormMatchesCall
  <1>4. step \in {"opA", "opB", "read"}
    BY <1>2 DEF CalcInv, CallsHaveEffect, SystemTypeOK
  <1>5. Reached(p)
    BY <1>3, CallAddressFacts DEF CalcInv, Reached
  <1>6. (CallAddress + 4) % AddressSpace = CallAddress + 4
    BY CallAddressFacts, ModOfWord DEF CalcInv
  <1>7. Done(p)
    BY <1>3, <1>6, CallAddressFacts DEF CalcInv, Done
  <1> QED
    BY <1>1, <1>2, <1>3, <1>4, <1>5, <1>7

\* With the answer WAIT the call goes on; with OK it ends.
LEMMA AnswerOutcome ==
  ASSUME CalcInv, NEW p \in ToHandle, NEW answer \in {"OK", "WAIT"},
         HandleAnswer(p, answer)
  PROVE  /\ answer = "WAIT" => UNCHANGED <<pc, address, end_address, do_write>>
         /\ answer = "OK" => pc'[mdu_master] = "edge"
  <1>1. ~Reject(p)
    BY EdgeServesCall DEF Reject
  <1>2. CASE answer = "WAIT" /\ SlaveWait(p)
    BY <1>2 DEF SlaveWait, FallingEdge, form
  <1>3. CASE answer = "OK" /\ SlaveOK(p)
    <2>1. pc' = Notified(p)
      BY <1>3, EdgeServesCall DEF SlaveOK
    <2>2. pc'[mdu_master] = "edge"
      BY <2>1, EdgeServesCall, SystemFacts DEF Notified
    <2> QED
      BY <1>3, <2>2
  <1> QED
    BY <1>1, <1>2, <1>3 DEF HandleAnswer

LEMMA WriteStep ==
  ASSUME CalcInv, NEW p \in ToHandle, MduWrite(p)
  PROVE  FormMatchesCall' /\ CallsHaveEffect'
  <1> USE EdgeServesCall
  <1>1. step \in {"opA", "opB"} /\ address[p] = CallAddress /\ UNCHANGED script
    BY DEF MduWrite
  <1>2. address[p] = (IF step = "opA" THEN OpA ELSE OpB) /\ OpA # OpB
    BY <1>1 DEF CallAddress, OpA, OpB
  <1>3. write_status(address[p]) = IF wait_left >= 0 THEN "WAIT" ELSE "OK"
    BY <1>1, <1>2 DEF write_status
  <1>4. HandleAnswer(p, write_status(address[p])) /\ write(address[p], Value)
    BY DEF MduWrite
  <1>5. CASE wait_left >= 0
    <2>1. UNCHANGED <<pc, address, end_address, do_write>>
      BY <1>3, <1>4, <1>5, AnswerOutcome
    <2>2. opA' = opA /\ opB' = opB
      BY <1>3, <1>4, <1>5 DEF write
    <2> QED
      BY <1>1, <2>1, <2>2
      DEF CalcInv, FormMatchesCall, CallsHaveEffect, Finished, CallAddress, script
  <1>6. CASE ~(wait_left >= 0)
    <2>1. pc'[mdu_master] = "edge"
      BY <1>3, <1>4, <1>6, AnswerOutcome
    <2>2. /\ step = "opA" => opA' = test.a
          /\ step = "opB" => opB' = test.b /\ opA' = opA
      BY <1>1, <1>2, <1>3, <1>4, <1>6 DEF write, Register, Value
    <2> QED
      BY <1>1, <2>1, <2>2 DEF CalcInv, FormMatchesCall, CallsHaveEffect, Finished, script
  <1> QED
    BY <1>5, <1>6

LEMMA ReadStep ==
  ASSUME CalcInv, NEW p \in ToHandle, MduRead(p)
  PROVE  FormMatchesCall' /\ CallsHaveEffect'
  <1> USE EdgeServesCall
  <1>1. step = "read" /\ address[p] = test.op /\ UNCHANGED <<test, step, printed>>
    BY DEF MduRead, CallAddress
  <1>2. opA' = opA /\ opB' = opB /\ HandleAnswer(p, read_status)
    BY DEF MduRead, read
  <1>3. opA = test.a /\ opB = test.b
    BY <1>1 DEF CalcInv, CallsHaveEffect
  <1>4. CASE read_status = "OK"
    <2>1. pc'[mdu_master] = "edge"
      BY <1>2, <1>4, AnswerOutcome
    <2>2. result' \in calculate(test.op, test.a, test.b)
      BY <1>1, <1>3, <1>4 DEF MduRead
    <2> QED
      BY <1>1, <1>2, <2>1, <2>2 DEF CalcInv, FormMatchesCall, CallsHaveEffect, Finished,
        calculate, Undefined
  <1>5. CASE read_status = "WAIT"
    <2>1. UNCHANGED <<pc, address, end_address, do_write>>
      BY <1>2, <1>5, AnswerOutcome
    <2> QED
      BY <1>1, <1>2, <1>3, <2>1
      DEF CalcInv, FormMatchesCall, CallsHaveEffect, Finished, CallAddress
  <1> QED
    BY <1>4, <1>5 DEF read_status

LEMMA CalcStep == CalcInv /\ [SystemNext]_system_vars => CalcInv'
  <1> SUFFICES ASSUME CalcInv, [SystemNext]_system_vars PROVE CalcInv'
    OBVIOUS
  <1>t. SystemTypeOK /\ TypeOK /\ test \in Testcases
    BY DEF CalcInv, SystemTypeOK
  <1>1. SystemTypeOK' /\ BusInv'
    BY <1>t, SystemTypeStep, SystemStepIsBusStep, SystemIsUnique, BusStep DEF CalcInv
  <1>2. CASE StartTestcase
    <2>1. CallOf([do_write |-> TRUE, address |-> OpA, length |-> 1])
      BY <1>2 DEF StartTestcase, WriteTo
    <2>2. OpA \in Nat /\ OpA < AddressSpace
      BY SystemAssumption, SpaceAssumption DEF OpA, EndAddr
    <2>3. FormMatchesCall'
      BY <1>t, <1>2, <2>1, <2>2, CallFillsForm DEF StartTestcase, FormMatchesCall, CallAddress
    <2>4. CallsHaveEffect'
      BY <1>t, <1>2, <2>1, <2>2, CallFillsForm DEF StartTestcase, CallsHaveEffect, Finished
    <2> QED
      BY <1>1, <2>3, <2>4 DEF CalcInv
  <1>3. CASE WriteB
    <2>1. CallOf([do_write |-> TRUE, address |-> OpB, length |-> 1])
      BY <1>3 DEF WriteB, WriteTo
    <2>2. OpB \in Nat /\ OpB < AddressSpace
      BY SystemAssumption, SpaceAssumption DEF OpB, EndAddr
    <2>3. FormMatchesCall'
      BY <1>t, <1>3, <2>1, <2>2, CallFillsForm DEF WriteB, FormMatchesCall, CallAddress
    <2>4. CallsHaveEffect'
      BY <1>t, <1>3, <2>1, <2>2, CallFillsForm DEF CalcInv, WriteB, CallsHaveEffect, Finished
    <2> QED
      BY <1>1, <2>3, <2>4 DEF CalcInv
  <1>4. CASE ReadResult
    <2>1. CallOf([do_write |-> FALSE, address |-> test.op, length |-> 1])
      BY <1>4 DEF ReadResult, ReadFrom
    <2>2. test.op \in Nat /\ test.op < AddressSpace
      BY <1>t, TestcaseType, SystemAssumption, SpaceAssumption
      DEF MLow, MHigh, Div, Mod, EndAddr
    <2>3. FormMatchesCall'
      BY <1>t, <1>4, <2>1, <2>2, CallFillsForm DEF ReadResult, FormMatchesCall, CallAddress
    <2>4. CallsHaveEffect'
      BY <1>t, <1>4, <2>1, <2>2, CallFillsForm
      DEF CalcInv, ReadResult, CallsHaveEffect, Finished
    <2> QED
      BY <1>1, <2>3, <2>4 DEF CalcInv
  <1>5. CASE PrintResult
    BY <1>1, <1>5 DEF PrintResult, CalcInv, FormMatchesCall, CallsHaveEffect, Finished, vars
  <1>6. CASE StopSimulation
    BY <1>1, <1>6 DEF StopSimulation, CalcInv, FormMatchesCall, CallsHaveEffect, Finished,
      vars
  <1>7. CASE ReturnFromCall
    <2>1. pc[mdu_master] = "ready" /\ pc'[mdu_master] = "idle"
      BY <1>t, <1>7, SystemFacts DEF ReturnFromCall, Return, TypeOK
    <2> QED
      BY <1>1, <1>7, <2>1 DEF ReturnFromCall, CalcInv, FormMatchesCall, CallsHaveEffect,
        Finished, mdu_vars, script, calculate, Undefined
  <1>8. CASE RisingEdge
    <2>1. /\ pc[mdu_master] \in {"transfer", "edge"}
          /\ pc[mdu_master] = "transfer" <=> pc'[mdu_master] = "transfer"
          /\ pc'[mdu_master] # "poll"
      BY <1>t, <1>8, SystemFacts DEF RisingEdge, MasterBlocked, PosEdge, TypeOK
    <2>2. UNCHANGED <<address, end_address, do_write, opA, opB, test, step, result, printed>>
      BY <1>8 DEF RisingEdge, PosEdge, update_wait_left, form, script
    <2> QED
      BY <1>1, <2>1, <2>2 DEF CalcInv, FormMatchesCall, CallsHaveEffect, Finished,
        CallAddress, calculate, Undefined
  <1>9. CASE IdleEdge
    <2>1. UNCHANGED <<pc, address, end_address, do_write, opA, opB, script>>
      BY <1>9 DEF IdleEdge, NothingPending, FallingEdge, form, mdu_vars
    <2> QED
      BY <1>1, <2>1 DEF CalcInv, FormMatchesCall, CallsHaveEffect, Finished,
        CallAddress, calculate, Undefined, script
  <1>10. CASE BusEdge
    BY <1>1, <1>10, WriteStep, ReadStep DEF BusEdge, CalcInv
  <1>11. CASE UNCHANGED system_vars
    BY <1>1, <1>11 DEF system_vars, vars, form, mdu_vars, script, CalcInv, FormMatchesCall,
      CallsHaveEffect, Finished, CallAddress, calculate, Undefined
  <1> QED
    BY <1>2, <1>3, <1>4, <1>5, <1>6, <1>7, <1>8, <1>9, <1>10, <1>11
    DEF SystemNext, MasterRuns, ClockEdge

\* A step of the program prints the right result, stops after the last one, or
\* shows nothing to the outside.
LEMMA StepIsAbstractStep ==
  ASSUME CalcInv, [SystemNext]_system_vars
  PROVE  [Abstract!Next]_<<printed, stopped>>
  <1>1. CASE PrintResult
    <2>1. /\ test \in Testcases /\ step = "read" /\ Finished /\ Len(printed) < MaxTests
      BY <1>1 DEF PrintResult, CalcInv, SystemTypeOK, CallsHaveEffect, Finished
    <2>2. result \in ResultsOf[test]
      BY <2>1 DEF CalcInv, CallsHaveEffect, ResultsOf
    <2>3. ~stopped /\ stopped' = stopped
      BY <1>1 DEF PrintResult, stopped
    <2>4. printed' = Append(printed, [test |-> test, result |-> result])
      BY <1>1 DEF PrintResult
    <2>5. Abstract!Report
      BY <2>1, <2>2, <2>3, <2>4 DEF Abstract!Report
    <2> QED
      BY <2>5 DEF Abstract!Next
  <1>2. CASE StopSimulation
    BY <1>2 DEF StopSimulation, stopped, Abstract!Next, Abstract!Stop
  <1>3. CASE ~PrintResult /\ ~StopSimulation
    <2>1. printed' = printed /\ (stopped' <=> stopped)
      BY <1>3 DEF SystemNext, MasterRuns, ClockEdge, StartTestcase, WriteB, ReadResult,
        ReturnFromCall, RisingEdge, IdleEdge, BusEdge, MduWrite, MduRead, script,
        system_vars, stopped
    <2> QED
      BY <2>1 DEF stopped
  <1> QED
    BY <1>1, <1>2, <1>3

\* Whatever the testcases, the width of the ints and the number of wait states,
\* the program prints only right results, in order, and stops only after the
\* last one: the safety part of ImplementsCalculator.
THEOREM SystemCalculates == SystemSpec => CalculatorSafety
  <1>1. SystemInit => Abstract!Init
    BY DEF SystemInit, Abstract!Init, stopped
  <1>2. CalcInv /\ [SystemNext]_system_vars => [Abstract!Next]_<<printed, stopped>>
    BY StepIsAbstractStep
  <1> QED
    BY <1>1, <1>2, CalcInit, CalcStep, PTL DEF SystemSpec, CalculatorSafety

-------------------------------------------------------------------------------
(* The wait states *)

\* A calculation has exactly its missing cycles before it, and between two
\* calls of the master there is no calculation.
WaitInv ==
    /\ wait_left >= 0 => elapsed + wait_left = wait_states
    /\ pc[mdu_master] = "edge" => wait_left <= 0
    /\ pc[mdu_master] \in {"ready", "idle"} => wait_left = -1
    /\ pc[mdu_master] = "transfer" /\ step # "read" => wait_left = -1

LEMMA WaitInit == SystemInit => WaitInv
  <1> SUFFICES ASSUME SystemInit PROVE WaitInv
    OBVIOUS
  <1>1. pc[mdu_master] = "idle" /\ wait_left = -1
    BY SystemFacts DEF SystemInit, Init, MduInit
  <1> QED
    BY <1>1 DEF WaitInv

LEMMA WaitStep == CalcInv /\ WaitInv /\ [SystemNext]_system_vars => WaitInv'
  <1> SUFFICES ASSUME CalcInv, WaitInv, [SystemNext]_system_vars PROVE WaitInv'
    OBVIOUS
  <1>t. /\ TypeOK /\ wait_left \in -1 .. wait_states /\ elapsed \in Nat
        /\ pc[mdu_master] \in PcValues
    BY SystemFacts DEF CalcInv, SystemTypeOK, MduTypeOK, TypeOK
  <1>1. CASE StartTestcase \/ WriteB \/ ReadResult
    <2>1. pc[mdu_master] = "idle" /\ pc'[mdu_master] = "transfer"
      BY <1>t, <1>1, SystemFacts DEF StartTestcase, WriteB, ReadResult, CallOf, BurstCall,
        TypeOK
    <2>2. wait_left' = wait_left /\ elapsed' = elapsed
      BY <1>1 DEF StartTestcase, WriteB, ReadResult, CallOf, mdu_vars
    <2> QED
      BY <2>1, <2>2 DEF WaitInv
  <1>2. CASE PrintResult \/ StopSimulation
    <2>1. pc[mdu_master] = "idle" /\ pc' = pc
      BY <1>2 DEF PrintResult, StopSimulation, vars, CalcInv, CallsHaveEffect
    <2> QED
      BY <1>2, <2>1 DEF PrintResult, StopSimulation, mdu_vars, WaitInv
  <1>3. CASE ReturnFromCall
    <2>1. pc[mdu_master] = "ready" /\ pc'[mdu_master] = "idle"
      BY <1>t, <1>3, SystemFacts DEF ReturnFromCall, Return, TypeOK
    <2> QED
      BY <1>3, <2>1 DEF ReturnFromCall, mdu_vars, WaitInv
  <1>4. CASE RisingEdge
    <2>1. /\ wait_left' = CountDown(wait_left) /\ step' = step
          /\ elapsed' = elapsed + (IF wait_left >= 0 THEN 1 ELSE 0)
      BY <1>4 DEF RisingEdge, update_wait_left, script
    <2>2. \/ /\ pc[mdu_master] = "transfer" /\ pc'[mdu_master] = "transfer"
          \/ /\ pc[mdu_master] = "edge" /\ pc'[mdu_master] = "ready"
      BY <1>t, <1>4, SystemFacts DEF RisingEdge, MasterBlocked, PosEdge, TypeOK
    <2>3. wait_left' = -1 \/ wait_left' = wait_left - 1
      BY <1>t, <2>1 DEF CountDown
    <2>4. wait_left' >= 0 => elapsed' + wait_left' = wait_states
      BY <1>t, <2>1 DEF CountDown, WaitInv
    <2>5. wait_left <= 0 => wait_left' = -1
      BY <1>t, <2>1 DEF CountDown
    <2> QED
      BY <1>t, <2>1, <2>2, <2>4, <2>5 DEF WaitInv
  <1>5. CASE IdleEdge
    BY <1>5 DEF IdleEdge, NothingPending, mdu_vars, script, WaitInv
  <1>6. ASSUME NEW p \in ToHandle, MduWrite(p) PROVE WaitInv'
    <2>1. wait_left = -1 /\ wait_left' = -1 /\ step' = step
      BY <1>6, EdgeServesCall DEF WaitInv, MduWrite, write, script
    <2> QED
      BY <2>1 DEF WaitInv
  <1>7. ASSUME NEW p \in ToHandle, MduRead(p) PROVE WaitInv'
    <2>1. step = "read" /\ step' = "read" /\ pc[mdu_master] = "transfer"
      BY <1>7, EdgeServesCall DEF MduRead
    <2>2. /\ wait_left' = Start /\ elapsed' = IF wait_left < 0 THEN 0 ELSE elapsed
          /\ HandleAnswer(p, read_status)
      BY <1>7 DEF MduRead, read
    <2>3. wait_left' >= 0 => elapsed' + wait_left' = wait_states
      BY <1>t, <2>2, WaitAssumption DEF Start, WaitInv
    <2>4. CASE read_status = "OK"
      <3>1. pc'[mdu_master] = "edge" /\ wait_left = 0 /\ wait_left' = 0
        BY <1>t, <2>2, <2>4, AnswerOutcome DEF read_status, Start
      <3> QED
        BY <2>3, <3>1 DEF WaitInv
    <2>5. CASE read_status = "WAIT"
      <3>1. pc'[mdu_master] = "transfer"
        BY <2>1, <2>2, <2>5, AnswerOutcome
      <3> QED
        BY <2>1, <2>3, <3>1 DEF WaitInv
    <2> QED
      BY <2>4, <2>5 DEF read_status
  <1>8. CASE UNCHANGED system_vars
    BY <1>8 DEF system_vars, vars, mdu_vars, script, WaitInv
  <1> QED
    BY <1>1, <1>2, <1>3, <1>4, <1>5, <1>6, <1>7, <1>8
    DEF SystemNext, MasterRuns, ClockEdge, BusEdge

\* A write never finds the calculation of the read before it still running,
\* whatever the number of wait states.
THEOREM WritesFindMduFree == SystemSpec => []WriteFindsMduFree
  <1>1. CalcInv /\ WaitInv => WriteFindsMduFree
    <2> SUFFICES ASSUME CalcInv, WaitInv, mdu_priority \in ToHandle, do_write[mdu_priority]
                 PROVE  wait_left = -1
      BY DEF WriteFindsMduFree
    <2> QED
      BY EdgeServesCall DEF WaitInv
  <1> QED
    BY <1>1, CalcInit, CalcStep, WaitInit, WaitStep, PTL DEF SystemSpec

\* Every read is answered after exactly wait_states cycles.
THEOREM ReadsTakeWaitStates == SystemSpec => TakesWaitStates
  <1> DEFINE OnTime == status'[mdu_priority] = "OK" /\ status[mdu_priority] # "OK"
                         => do_write[mdu_priority] \/ elapsed = wait_states
  <1>1. CalcInv /\ WaitInv /\ [SystemNext]_system_vars => [OnTime]_system_vars
    <2> SUFFICES ASSUME CalcInv, WaitInv, SystemNext,
                        status'[mdu_priority] = "OK", status[mdu_priority] # "OK",
                        ~do_write[mdu_priority]
                 PROVE  elapsed = wait_states
      OBVIOUS
    <2>t. TypeOK /\ mdu_priority \in Priority /\ elapsed \in Nat
      BY SystemFacts DEF CalcInv, SystemTypeOK
    <2>1. ASSUME NEW c, CallOf(c) PROVE FALSE
      BY <2>t, <2>1, SystemFacts DEF CallOf, BurstCall, Fill, TypeOK
    <2>2. CASE BusEdge
      <3>1. PICK p \in ToHandle : MduWrite(p) \/ MduRead(p)
        BY <2>2 DEF BusEdge
      <3>2. p = mdu_priority /\ MduRead(p)
        BY <3>1, EdgeServesCall DEF MduWrite
      <3>3. read_status = "OK"
        <4> SUFFICES ASSUME read_status = "WAIT" PROVE FALSE
          BY DEF read_status
        <4>1. SlaveWait(p)
          BY <3>2, EdgeServesCall DEF MduRead, HandleAnswer, Reject
        <4> QED
          BY <2>t, <3>2, <4>1 DEF SlaveWait, TypeOK
      <3> QED
        BY <2>t, <3>3 DEF read_status, WaitInv
    <2>3. CASE ~BusEdge
      BY <2>1, <2>3 DEF SystemNext, MasterRuns, ClockEdge, StartTestcase, WriteB, ReadResult,
        PrintResult, StopSimulation, ReturnFromCall, Return, RisingEdge, PosEdge, IdleEdge,
        NothingPending, vars
    <2> QED
      BY <2>2, <2>3
  <1> QED
    BY <1>1, CalcInit, CalcStep, WaitInit, WaitStep, PTL DEF SystemSpec, TakesWaitStates
===============================================================================
