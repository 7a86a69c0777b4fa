---------------------------------- MODULE Mdu ----------------------------------
(***************************************************************************)
(* The multiply-divide unit (include/mdu.h): a slave with two operand      *)
(* registers and four result addresses.  Its operations are relations      *)
(* between its state and the next one, for the modules that connect it to  *)
(* a bus.                                                                  *)
(***************************************************************************)
EXTENDS MduArithmetic

CONSTANT wait_states    \* cycles from the start of a calculation to its end

ASSUME WaitAssumption == wait_states \in Nat

OpA == 256
OpB == 260
MLow == 264
MHigh == 268
Div == 272
Mod == 276
StartAddr == 256
EndAddr == 319

VARIABLES
    opA, opB,       \* the operand registers, uninitialised at first
    wait_left       \* cycles left of the calculation, -1 when there is none

mdu_vars == <<opA, opB, wait_left>>

\* A division that C++ leaves undefined can give any int or end the program
\* with a signal, for which a number stands that no int has.
Trap == Half
Undefined == Int32 \cup {Trap}

\* What calculate can return.
calculate(addr, a, b) ==
    CASE addr = MLow -> {LowWord(a, b)}
      [] addr = MHigh -> {HighWord(a, b)}
      [] addr = Div -> IF DivisionDefined(a, b) THEN {Quotient(a, b)} ELSE Undefined
      [] addr = Mod -> IF DivisionDefined(a, b) THEN {Remainder(a, b)} ELSE Undefined
      [] OTHER -> {0}

MduInit == opA \in Int32 /\ opB \in Int32 /\ wait_left = -1

MduTypeOK == opA \in Int32 /\ opB \in Int32 /\ wait_left \in -1 .. wait_states

\* update_wait_left, at the rising edge.  The mutants leave a finished
\* calculation running, and count on when there is none.
CountDownToZero(w) == IF w > 0 THEN w - 1 ELSE w
CountDownPast(w) == w - 1
CountDown(w) == IF w >= 0 THEN w - 1 ELSE w
update_wait_left == wait_left' = CountDown(wait_left) /\ UNCHANGED <<opA, opB>>

\* The bus interface.  A read that finds no calculation starts one; the mutant
\* starts it one cycle short.
read_status == IF wait_left = 0 THEN "OK" ELSE "WAIT"
StartShort == IF wait_left < 0 THEN wait_states - 1 ELSE wait_left
Start == IF wait_left < 0 THEN wait_states ELSE wait_left
read == wait_left' = Start /\ UNCHANGED <<opA, opB>>

write_status(addr) ==
    IF wait_left >= 0 THEN "WAIT"
    ELSE IF addr \in {OpA, OpB} THEN "OK" ELSE "ERROR"

\* The register an accepted write goes to; the mutant mixes the two up.
SwappedRegister(addr) == IF addr = OpA THEN "B" ELSE "A"
Register(addr) == IF addr = OpA THEN "A" ELSE "B"
write(addr, value) ==
    /\ opA' = IF write_status(addr) = "OK" /\ Register(addr) = "A" THEN value ELSE opA
    /\ opB' = IF write_status(addr) = "OK" /\ Register(addr) = "B" THEN value ELSE opB
    /\ UNCHANGED wait_left
===============================================================================
