---------------------------- MODULE SharedMemory ----------------------------
(***************************************************************************)
(* What the test bench looks like from its memory: the single-word program *)
(* adds its counter to one word after another, in one step each; the burst *)
(* program reads its block word by word, adds to each word its index, and  *)
(* writes the block back word by word.  A monitor looks at some words at   *)
(* once.  All of them go on for ever.                                      *)
(***************************************************************************)
EXTENDS Integers

CONSTANTS
    Block,          \* the addresses of the block, a function from indices
    Length,         \* how many there are
    Round,          \* the addresses of the single-word program, likewise
    Rounds,         \* the index of the last of them
    Watched,        \* the addresses of the monitor, likewise
    ValueCount      \* the ints: 2^32 in the code

VARIABLES
    memory,         \* from addresses to values
    block,          \* the copy the burst program works on
    phase, moved,   \* "read" or "write", and how many words of it are done
    turn,           \* which address is next for the single-word program, and
                    \* what it adds
    seen            \* what the monitor saw last

vars == <<memory, block, phase, moved, turn, seen>>
burst_vars == <<block, phase, moved>>

Init ==
    /\ \A a \in DOMAIN memory : memory[a] = 0
    /\ phase = "read" /\ moved = 0 /\ turn = 0

Add ==
    /\ memory' = [memory EXCEPT ![Round[turn]] = (@ + turn) % ValueCount]
    /\ turn' = IF turn = Rounds THEN 0 ELSE turn + 1
    /\ UNCHANGED <<burst_vars, seen>>

ReadWord ==
    /\ phase = "read" /\ moved < Length
    /\ block' = [block EXCEPT ![moved] = memory[Block[moved]]]
    /\ moved' = moved + 1
    /\ UNCHANGED <<memory, phase, turn, seen>>
AddIndices ==
    /\ phase = "read" /\ moved = Length
    /\ block' = [i \in DOMAIN block |-> (block[i] + i) % ValueCount]
    /\ phase' = "write" /\ moved' = 0
    /\ UNCHANGED <<memory, turn, seen>>
WriteWord ==
    /\ phase = "write" /\ moved < Length
    /\ memory' = [memory EXCEPT ![Block[moved]] = block[moved]]
    /\ moved' = moved + 1
    /\ UNCHANGED <<block, phase, turn, seen>>
StartAgain ==
    /\ phase = "write" /\ moved = Length
    /\ phase' = "read" /\ moved' = 0
    /\ UNCHANGED <<memory, block, turn, seen>>

Observe ==
    /\ seen' = [i \in DOMAIN Watched |-> memory[Watched[i]]]
    /\ UNCHANGED <<memory, burst_vars, turn>>

BurstStep == ReadWord \/ AddIndices \/ WriteWord \/ StartAgain
Next == Add \/ BurstStep \/ Observe
Spec ==
    /\ Init /\ [][Next]_vars
    /\ WF_vars(Add) /\ WF_vars(BurstStep) /\ WF_vars(Observe)
===============================================================================
