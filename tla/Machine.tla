-------------------------------- MODULE Machine --------------------------------
(***************************************************************************)
(* A processor as its programmer sees it: one instruction at a time, each  *)
(* in one step that always comes, until the program ends; and resets, one  *)
(* of which may fall into an instruction.                                  *)
(***************************************************************************)
EXTENDS Naturals

CONSTANTS
    Outcomes(_),        \* the [state, phase] an instruction may lead to,
    AfterReset(_)       \* and a reset, with the instruction it disturbs

VARIABLES
    state,              \* registers and memory
    phase,              \* "running"; or "stopped" or "exited", the program's end
    resets              \* how many there were

vars == <<state, phase, resets>>

Init == phase = "running" /\ resets = 0

Instruction ==
    /\ phase = "running"
    /\ \E s \in {state} : \E o \in Outcomes(s) : state' = o.state /\ phase' = o.phase
    /\ UNCHANGED resets

\* It may come before the end of the program is noticed.
Reset ==
    /\ phase # "exited"
    /\ \E s \in {state} : \E o \in AfterReset(s) : state' = o.state /\ phase' = o.phase
    /\ resets' > resets

Next == Instruction \/ Reset

Spec == Init /\ [][Next]_vars /\ WF_vars(Instruction)
===============================================================================
