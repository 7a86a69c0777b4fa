----------------------------- MODULE MCMduSystem -----------------------------
(***************************************************************************)
(* The program with ints of three bits (-4 .. 3) and two testcases.        *)
(***************************************************************************)
EXTENDS MduSystem

MCPriority == [m \in SystemMaster |-> 1]
MCFlags == [m \in SystemMaster |-> {FALSE}]
MCStart == [s \in {"MDU"} |-> StartAddr]
MCEnd == [s \in {"MDU"} |-> EndAddr]
MCCalls == [m \in SystemMaster |->
    [do_write : {TRUE}, address : {OpA, OpB}, length : {1}]
    \cup [do_write : {FALSE}, address : {MLow, MHigh, Div, Mod}, length : {1}]]

\* Operands whose order matters to every operation, and the extreme ones.
MCTestcases == [a : {-4, 3}, b : {-3, 2}, op : {MLow, MHigh, Div, Mod}]
===============================================================================
