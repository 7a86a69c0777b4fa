------------------------------ MODULE Calculator ------------------------------
(***************************************************************************)
(* What the MDU promises a program: every testcase it runs ends, in order, *)
(* with the result of the operation on the operands the program gave.      *)
(***************************************************************************)
EXTENDS Naturals, Sequences

CONSTANTS
    Testcases,          \* the [a, b, op] a program may run
    MaxTests,           \* how many it runs
    Results             \* the results each testcase may have

VARIABLES
    printed,            \* the testcases that ended, each with its result
    stopped             \* the program has ended the simulation

Init == printed = << >> /\ stopped = FALSE

Report ==
    /\ ~stopped /\ Len(printed) < MaxTests
    /\ \E t \in Testcases : \E r \in Results[t] :
          printed' = Append(printed, [test |-> t, result |-> r])
    /\ UNCHANGED stopped

Stop == ~stopped /\ Len(printed) = MaxTests /\ stopped' = TRUE /\ UNCHANGED printed

Next == Report \/ Stop
Spec == Init /\ [][Next]_<<printed, stopped>> /\ WF_<<printed, stopped>>(Next)
===============================================================================
