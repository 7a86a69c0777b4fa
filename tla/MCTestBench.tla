----------------------------- MODULE MCTestBench -----------------------------
(***************************************************************************)
(* The test bench with two words in each memory: a block of three words    *)
(* lies across both, and the other master goes over the last two of them,  *)
(* one fast and one slow, which the monitor reads too.                     *)
(***************************************************************************)
EXTENDS TestBench

MCPriority == [m \in BenchMaster |-> IF m = master_b THEN 4 ELSE 3]
MCFlags == [m \in BenchMaster |-> BOOLEAN]
MCSlave == {mem_fast, mem_slow}
MCStart == [s \in MCSlave |-> IF s = mem_fast THEN 0 ELSE 8]
MCEnd == [s \in MCSlave |-> IF s = mem_fast THEN 7 ELSE 15]
MCTimeout == [m \in Thread |-> CASE m = master_b -> 3 [] m = master_nb -> 2 [] m = master_d -> 5]
MCCalls == [m \in BenchMaster |->
    IF m = master_b
    THEN [do_write : BOOLEAN, address : {0}, length : {3}]
    ELSE [do_write : BOOLEAN, length : {1}, address : {4, 8}]]
===============================================================================
