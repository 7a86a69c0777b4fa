------------------------------ MODULE MduSystem ------------------------------
(***************************************************************************)
(* The program src/main.cpp builds: one mdu_master, the bus, the MDU.  The *)
(* bus is SimpleBus with the answers of the MDU in place of any answers;   *)
(* the rising edge also counts the MDU's cycles.                           *)
(*                                                                         *)
(* The master of main runs nine fixed testcases; here it runs MaxTests of  *)
(* Testcases, in any order.  It never uses the statuses its calls return.  *)
(***************************************************************************)
EXTENDS SimpleBus, Mdu, Sequences

CONSTANTS Testcases,    \* the [a, b, op] that do_testcase may be called with
          MaxTests      \* the calls of do_testcase in main_action

mdu_master == "mdu_master"
mdu_priority == 1
SystemMaster == {mdu_master}

ASSUME SystemAssumption ==
    /\ Master = SystemMaster /\ Blocking = SystemMaster
    /\ PriorityOf = [m \in SystemMaster |-> mdu_priority]
    /\ LockFlags = [m \in SystemMaster |-> {FALSE}]
    /\ Slave = {"MDU"} /\ StartAddress = [s \in Slave |-> StartAddr]
    /\ EndAddress = [s \in Slave |-> EndAddr] /\ EndAddr + 4 < AddressSpace
    /\ Calls = [m \in SystemMaster |->
          [do_write : {TRUE}, address : {OpA, OpB}, length : {1}]
          \cup [do_write : {FALSE}, address : {MLow, MHigh, Div, Mod}, length : {1}]]
    /\ MaxTests \in Nat

\* The testcase that divides by zero is commented out (mdu_master.h:51).
ASSUME TestcaseAssumption ==
    \A t \in Testcases :
       /\ t \in [a : Int32, b : Int32, op : {MLow, MHigh, Div, Mod}]
       /\ t.op \in {Div, Mod} => DivisionDefined(t.a, t.b)

VARIABLES
    test,           \* the testcase being run: the locals opA and opB, the opcode
    step,           \* how far do_testcase is: which call was made last
    result,         \* the local variable of read, uninitialised at each call
    printed,        \* the testcases that ended, each with the result printed
    elapsed         \* history: rising edges since the calculation was started

script == <<test, step, result, printed>>
system_vars == <<vars, mdu_vars, script, elapsed>>
stopped == step = "stopped"

SystemInit ==
    /\ Init /\ MduInit
    /\ test \in Testcases /\ step = "start" /\ result = 0
    /\ printed = << >> /\ elapsed = 0

-------------------------------------------------------------------------------
(* mdu_master.  Between two calls it runs without giving up control, so no *)
(* edge comes while it is not inside a call.                               *)

WriteTo(addr) == [do_write |-> TRUE, address |-> addr, length |-> 1]
ReadFrom(addr) == [do_write |-> FALSE, address |-> addr, length |-> 1]

\* The next call of do_testcase.
CallOf(c) == BurstCall(mdu_master, c, FALSE) /\ UNCHANGED <<mdu_vars, elapsed>>

StartTestcase ==
    /\ step = "start" /\ Len(printed) < MaxTests
    /\ \E t \in Testcases : test' = t
    /\ step' = "opA" /\ CallOf(WriteTo(OpA))
    /\ UNCHANGED <<result, printed>>
WriteB ==
    /\ step = "opA" /\ step' = "opB" /\ CallOf(WriteTo(OpB))
    /\ UNCHANGED <<test, result, printed>>
ReadResult ==
    /\ step = "opB" /\ step' = "read" /\ CallOf(ReadFrom(test.op))
    /\ result' \in Int32
    /\ UNCHANGED <<test, printed>>

PrintResult ==
    /\ step = "read" /\ pc[mdu_master] = "idle"
    /\ printed' = Append(printed, [test |-> test, result |-> result])
    /\ step' = "start"
    /\ UNCHANGED <<vars, mdu_vars, elapsed, test, result>>

\* sc_stop
StopSimulation ==
    /\ step = "start" /\ Len(printed) = MaxTests
    /\ step' = "stopped"
    /\ UNCHANGED <<vars, mdu_vars, elapsed, test, result, printed>>

ReturnFromCall ==
    Return(mdu_master) /\ UNCHANGED <<mdu_vars, script, elapsed>>

MasterRuns == StartTestcase \/ WriteB \/ ReadResult \/ PrintResult
              \/ StopSimulation \/ ReturnFromCall

-------------------------------------------------------------------------------
(* The clock. *)

MasterBlocked == pc[mdu_master] \in {"transfer", "edge"}

RisingEdge ==
    /\ MasterBlocked /\ PosEdge /\ update_wait_left
    /\ elapsed' = elapsed + (IF wait_left >= 0 THEN 1 ELSE 0)
    /\ UNCHANGED script

\* The MDU is given the pointer to the local variable of the call in progress.
Value == IF step = "opA" THEN test.a ELSE test.b

MduWrite(p) ==
    /\ do_write[p]
    /\ HandleAnswer(p, write_status(address[p]))
    /\ write(address[p], Value)
    /\ UNCHANGED <<script, elapsed>>
MduRead(p) ==
    /\ ~do_write[p]
    /\ HandleAnswer(p, read_status)
    /\ read
    /\ IF read_status = "OK" THEN result' \in calculate(address[p], opA, opB)
                             ELSE UNCHANGED result
    /\ elapsed' = IF wait_left < 0 THEN 0 ELSE elapsed
    /\ UNCHANGED <<test, step, printed>>

BusEdge ==
    /\ MasterBlocked
    /\ \E p \in ToHandle : MduWrite(p) \/ MduRead(p)

\* A falling edge with nothing to do only happens if a caller sleeps without a
\* pending form.
IdleEdge == MasterBlocked /\ NothingPending /\ UNCHANGED <<mdu_vars, script, elapsed>>
ClockEdge == RisingEdge \/ (IF ToHandle = {} THEN IdleEdge ELSE BusEdge)

SystemNext == MasterRuns \/ ClockEdge

\* The kernel runs a thread that is ready and moves the clock otherwise, until
\* sc_stop.
SystemSpec == SystemInit /\ [][SystemNext]_system_vars
              /\ WF_system_vars(MasterRuns) /\ WF_system_vars(ClockEdge)

-------------------------------------------------------------------------------
(* Properties. *)

SystemTypeOK ==
    /\ TypeOK /\ MduTypeOK
    /\ test \in Testcases /\ step \in {"start", "opA", "opB", "read", "stopped"}
    /\ result \in Int32 \cup {Trap} /\ elapsed \in Nat
    /\ printed \in Seq([test : Testcases, result : Int32 \cup {Trap}])

\* Every testcase ends with the result of its own operands: no operand of
\* another testcase, no uninitialised value and no result of an unfinished
\* calculation is ever printed, and the program runs all its testcases.
ResultsOf == [t \in Testcases |-> calculate(t.op, t.a, t.b)]
Abstract == INSTANCE Calculator WITH Results <- ResultsOf
ImplementsCalculator == Abstract!Spec
CalculatorSafety == Abstract!Init /\ [][Abstract!Next]_<<printed, stopped>>

\* Every read takes wait_states cycles, neither more nor fewer: it is answered
\* at the falling edge after wait_states rising edges have gone by since the
\* one that started the calculation (README.md:8, mdu.h:16).
TakesWaitStates ==
    [][status'[mdu_priority] = "OK" /\ status[mdu_priority] # "OK"
          => do_write[mdu_priority] \/ elapsed = wait_states]_system_vars

\* The MDU is free again when a write reaches it: the write that follows a read
\* never finds the calculation of that read still running (mdu.h:87).
WriteFindsMduFree ==
    clk = "high" /\ MasterBlocked /\ mdu_priority \in ToHandle
    /\ do_write[mdu_priority]
    => wait_left = -1

\* The program ends after its testcases (mdu_master.h:59).
ProgramEnds == <>stopped
===============================================================================
