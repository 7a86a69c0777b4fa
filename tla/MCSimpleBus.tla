----------------------------- MODULE MCSimpleBus -----------------------------
(***************************************************************************)
(* Instances of SimpleBus for TLC.  An address space of 32 bytes stands    *)
(* for 2^32.  "fast" has four words from 0, "slow" one word at 20; there   *)
(* is nothing from 16 to 19 nor from 24 on.                                *)
(***************************************************************************)
EXTENDS SimpleBus

MCSlave == {"fast", "slow"}
MCStart == [s \in MCSlave |-> IF s = "fast" THEN 0 ELSE 20]
MCEnd == [s \in MCSlave |-> IF s = "fast" THEN 15 ELSE 23]

Burst(a, n) == [do_write |-> FALSE, address |-> a, length |-> n]
Write(a) == [do_write |-> TRUE, address |-> a, length |-> 1]

\* A non-blocking master that always locks and also uses addresses no slave
\* has, a blocking one that never does, and a blocking one that mixes locked
\* and unlocked calls.
TrafficMaster == {"single", "plain", "locked"}
TrafficBlocking == {"plain", "locked"}
TrafficPriority == [m \in TrafficMaster |->
    CASE m = "single" -> 1 [] m = "plain" -> 2 [] m = "locked" -> 4]
TrafficFlags == [m \in TrafficMaster |->
    CASE m = "single" -> {TRUE} [] m = "plain" -> {FALSE} [] m = "locked" -> BOOLEAN]
TrafficCalls == [m \in TrafficMaster |->
    CASE m = "single" -> {Write(20), Burst(2, 1), Burst(16, 1)}
      [] m = "plain" -> {Burst(4, 1), Burst(0, 2)}
      [] m = "locked" -> {Burst(20, 1), Burst(4, 2), Burst(4, 3)}]

\* A locked burst of three words and an urgent single word.
DuelMaster == {"urgent", "locked"}
DuelPriority == [m \in DuelMaster |-> IF m = "urgent" THEN 1 ELSE 2]
SamePriority == [m \in DuelMaster |-> 1]
DuelFlags == [m \in DuelMaster |-> {m = "locked"}]
DuelCalls == [m \in DuelMaster |->
    IF m = "urgent" THEN {Write(20)} ELSE {Burst(4, 3)}]
UnmappedCalls == [m \in DuelMaster |->
    IF m = "urgent" THEN {Write(20)} ELSE {Burst(16, 1)}]
===============================================================================
