------------------------------ MODULE TestBench ------------------------------
(***************************************************************************)
(* The test bench of the bus (simple_bus_headers/simple_bus_test.h): the   *)
(* bus of SimpleBus with a fast and a slow memory, a blocking master that  *)
(* updates a block of words, a non-blocking one that updates one word      *)
(* after another, and a monitor that reads some words past the bus.  All   *)
(* threads wait for the rising edge; a timeout is a number of rising       *)
(* edges, one per nanosecond.                                              *)
(***************************************************************************)
EXTENDS SimpleBus

CONSTANTS
    mylength,           \* words in the block, 0x10 in the code
    m_address,          \* where the block is, 0x4c
    m_start_address,    \* where the other master starts, 0x38
    Span,               \* and how far it goes, 0x80
    m_timeout,          \* the timeouts of the three, 300, 20 and 100
    m_address_d,        \* where the monitor reads, 0x78
    Window,             \* how many words, 4
    m_nr_wait_states,   \* of the slow memory, 1
    ValueCount,         \* an int has 2^32 values
    Garbage             \* what an int may hold that nobody has set

master_b == "master_b"
master_nb == "master_nb"
master_d == "master_d"
BenchMaster == {master_b, master_nb}
Thread == BenchMaster \cup {master_d}
priority_b == 4
priority_nb == 3
mem_fast == "mem_fast"
mem_slow == "mem_slow"

Value == 0 .. ValueCount - 1
BlockIndex == 0 .. mylength - 1
WindowIndex == 0 .. Window - 1
Size(s) == (EndAddress[s] - StartAddress[s] + 1) \div 4

\* The values simple_bus_test gives its masters and memories; the memories
\* check their addresses in their constructors.
ASSUME BenchAssumption ==
    /\ Master = BenchMaster /\ Blocking = {master_b}
    /\ PriorityOf = [m \in BenchMaster |->
          IF m = master_b THEN priority_b ELSE priority_nb]
    /\ Slave = {mem_fast, mem_slow}
    /\ \A s \in Slave : StartAddress[s] % 4 = 0 /\ Size(s) > 0
                        /\ EndAddress[s] = StartAddress[s] + 4 * Size(s) - 1
    /\ mylength \in Nat \ {0} /\ m_timeout \in [Thread -> Nat \ {0}]
    /\ m_start_address \in Word /\ Span \in Nat
    /\ m_address_d \in Word /\ Window \in Nat \ {0}
    /\ m_nr_wait_states \in Nat \ {0} /\ ValueCount \in Nat \ {0}
    /\ Garbage \subseteq Value /\ Garbage # {}
    /\ Calls = [m \in BenchMaster |->
          IF m = master_b
          THEN [do_write : BOOLEAN, address : {m_address}, length : {mylength}]
          ELSE [do_write : BOOLEAN, length : {1}, address :
                  {a \in m_start_address .. m_start_address + Span :
                     (a - m_start_address) % 4 = 0}]]
    /\ BurstsFit /\ \A m \in Master : \A c \in Calls[m] : Mapped(c)

VARIABLES
    MEM,                \* the words of each memory
    m_wait_count,       \* of the slow memory
    mydata,             \* the buffers of the masters, by priority, which are
                        \* uninitialised at first
    at,                 \* the call a master makes next, or is in
    sleep,              \* the rising edges a thread waits for before that
    addr, cnt,          \* the variables of the non-blocking master
    shown               \* what the monitor read, uninitialised at first

memory_vars == <<MEM, m_wait_count>>
master_vars == <<mydata, at, sleep, addr, cnt, shown>>
bench_vars == <<vars, memory_vars, master_vars>>

BenchInit ==
    /\ Init
    /\ MEM = [s \in Slave |-> [i \in 0 .. Size(s) - 1 |-> 0]] /\ m_wait_count = -1
    /\ mydata \in [Priority -> [BlockIndex -> Garbage]]
    /\ at = [m \in BenchMaster |-> "read"] /\ sleep = [m \in Thread |-> 1]
    /\ addr = m_start_address /\ cnt = 0 /\ shown \in [WindowIndex -> Garbage]

-------------------------------------------------------------------------------
(* The masters, between a rising and a falling edge. *)

Runs(m) == clk = "high" /\ sleep[m] = 0
CallOf(m, a, n) == [do_write |-> at[m] = "write", address |-> a, length |-> n]

BlockCall ==
    /\ Runs(master_b)
    /\ \E flag \in LockFlags[master_b] :
          BurstCall(master_b, CallOf(master_b, m_address, mylength), flag)
    /\ UNCHANGED <<memory_vars, master_vars>>

\* Back from burst_read: each word gets its index, one per rising edge.
BlockRead ==
    /\ Runs(master_b) /\ at[master_b] = "read" /\ Return(master_b)
    /\ mydata' = [mydata EXCEPT ![priority_b] =
          [i \in BlockIndex |-> (@[i] + i) % ValueCount]]
    /\ at' = [at EXCEPT ![master_b] = "write"]
    /\ sleep' = [sleep EXCEPT ![master_b] = mylength]
    /\ UNCHANGED <<memory_vars, addr, cnt, shown>>

\* Back from burst_write.
BlockWritten ==
    /\ Runs(master_b) /\ at[master_b] = "write" /\ Return(master_b)
    /\ at' = [at EXCEPT ![master_b] = "read"]
    /\ sleep' = [sleep EXCEPT ![master_b] = m_timeout[master_b]]
    /\ UNCHANGED <<memory_vars, mydata, addr, cnt, shown>>

WordCall ==
    /\ Runs(master_nb)
    /\ \E flag \in LockFlags[master_nb] :
          SingleCall(master_nb, CallOf(master_nb, addr, 1), flag)
    /\ UNCHANGED <<memory_vars, master_vars>>

\* get_status sees the end of read: the write is issued in the same cycle.
\* The mutant waits for a rising edge in between.
ReadToWriteLate == 1
ReadToWrite == 0
WordRead ==
    /\ Runs(master_nb) /\ at[master_nb] = "read" /\ GetStatus(master_nb)
    /\ mydata' = [mydata EXCEPT ![priority_nb][0] = (@ + cnt) % ValueCount]
    /\ cnt' = cnt + 1
    /\ at' = [at EXCEPT ![master_nb] = "write"]
    /\ sleep' = [sleep EXCEPT ![master_nb] = ReadToWrite]
    /\ UNCHANGED <<memory_vars, addr, shown>>

\* get_status sees the end of write; the next address is only used when the
\* timeout is over.
Wraps == addr + 4 > m_start_address + Span
WordWritten ==
    /\ Runs(master_nb) /\ at[master_nb] = "write" /\ GetStatus(master_nb)
    /\ addr' = IF Wraps THEN m_start_address ELSE addr + 4
    /\ cnt' = IF Wraps THEN 0 ELSE cnt
    /\ at' = [at EXCEPT ![master_nb] = "read"]
    /\ sleep' = [sleep EXCEPT ![master_nb] = m_timeout[master_nb]]
    /\ UNCHANGED <<memory_vars, mydata, shown>>

BlockMaster == BlockCall \/ BlockRead \/ BlockWritten
WordMaster == WordCall \/ WordRead \/ WordWritten

-------------------------------------------------------------------------------
(* The memories. *)

SlaveOf(a) == CHOOSE s \in get_slave(a) : TRUE
WordIndex(s, a) == (a - StartAddress[s]) \div 4

\* wait_loop of the slow memory; the mutant counts on when nothing waits.
wait_loop_past == m_wait_count' = m_wait_count - 1
wait_loop == m_wait_count' = IF m_wait_count >= 0 THEN m_wait_count - 1 ELSE m_wait_count

\* read and write of either memory: the status, and the count of the slow one.
\* The mutant accepts a call while the count of another is running out.
AnswerEarly(s) ==
    IF s = mem_slow /\ m_wait_count > 1 THEN "WAIT" ELSE "OK"
Answer(s) ==
    IF s = mem_slow /\ m_wait_count # 0 THEN "WAIT" ELSE "OK"
Counts(s) ==
    m_wait_count' = IF s = mem_slow /\ m_wait_count < 0 THEN m_nr_wait_states
                    ELSE m_wait_count

\* The data an accepted access moves.
Moves(p, s) ==
    LET w == WordIndex(s, address[p]) IN
    IF do_write[p]
    THEN MEM' = [MEM EXCEPT ![s][w] = mydata[p][data[p]]] /\ UNCHANGED mydata
    ELSE mydata' = [mydata EXCEPT ![p][data[p]] = MEM[s][w]] /\ UNCHANGED MEM

\* direct_read of the bus, with a false return ignored, and of the memories.
\* Only the fast one answers it with its read, which counts no wait states;
\* the mutant does the same in the slow one.
direct_read(old, a) ==
    IF a % 4 = 0 /\ get_slave(a) # {} THEN MEM[SlaveOf(a)][WordIndex(SlaveOf(a), a)]
    ELSE old
DirectCountsByRead ==
    \E i \in WindowIndex : Counts(SlaveOf(m_address_d + 4 * i))
DirectCounts == UNCHANGED m_wait_count

\* The monitor, master_d, reads its words without waiting in between.  (It
\* starts at time 0 before the first rising edge, when nothing is different.)
Monitor ==
    /\ Runs(master_d)
    /\ shown' = [i \in WindowIndex |-> direct_read(shown[i], m_address_d + 4 * i)]
    /\ sleep' = [sleep EXCEPT ![master_d] = m_timeout[master_d]]
    /\ DirectCounts
    /\ UNCHANGED <<vars, MEM, mydata, at, addr, cnt>>

-------------------------------------------------------------------------------
(* The clock: no falling edge while a master can run. *)

CanRun(m) ==
    /\ Runs(m)
    /\ \/ m = master_d
       \/ m \in BenchMaster /\ pc[m] \in {"idle", "ready"}
       \/ m \in BenchMaster /\ pc[m] = "poll" /\ status[PriorityOf[m]] \in Final

RisingEdge ==
    /\ PosEdge /\ wait_loop
    /\ sleep' = [m \in Thread |-> IF sleep[m] > 0 THEN sleep[m] - 1 ELSE 0]
    /\ UNCHANGED <<MEM, mydata, at, addr, cnt, shown>>

ServeWord(p) ==
    /\ p \in ToHandle
    /\ LET s == SlaveOf(address[p]) IN
          /\ HandleAnswer(p, Answer(s))
          /\ Counts(s)
          /\ IF Answer(s) = "OK" THEN Moves(p, s) ELSE UNCHANGED <<MEM, mydata>>
    /\ UNCHANGED <<at, sleep, addr, cnt, shown>>

FallingBench ==
    /\ \A m \in Thread : ~CanRun(m)
    /\ \/ NothingPending /\ UNCHANGED <<memory_vars, master_vars>>
       \/ \E p \in Priority : ServeWord(p)

BenchNext == BlockMaster \/ WordMaster \/ Monitor \/ RisingEdge \/ FallingBench

\* The kernel runs every thread that can run, and the clock never stops.
BenchSpec ==
    /\ BenchInit /\ [][BenchNext]_bench_vars
    /\ WF_bench_vars(BlockMaster) /\ WF_bench_vars(WordMaster)
    /\ WF_bench_vars(Monitor)
    /\ WF_bench_vars(RisingEdge) /\ WF_bench_vars(FallingBench)

-------------------------------------------------------------------------------
(* Properties. *)

BenchTypeOK ==
    /\ TypeOK
    /\ MEM \in [Slave -> UNION {[0 .. Size(s) - 1 -> Value] : s \in Slave}]
    /\ m_wait_count \in -1 .. m_nr_wait_states
    /\ mydata \in [Priority -> [BlockIndex -> Value]]
    /\ at \in [BenchMaster -> {"read", "write"}] /\ sleep \in [Thread -> Nat]
    /\ shown \in [WindowIndex -> Value]
    /\ addr \in m_start_address .. m_start_address + Span
    /\ cnt \in 0 .. (Span \div 4) + 1

\* The count of the slow memory always belongs to the word being served: when
\* the bus turns to a new form no count of an earlier one, and none that a direct
\* read has started, is left over, which would answer the new one too early.
SlowMemoryFresh == clk = "high" /\ m_current_request = None => m_wait_count = -1

\* The memory the bus sees as one, the words of it that the threads name, and
\* how far the masters are.
WordAt(a) == MEM[SlaveOf(a)][WordIndex(SlaveOf(a), a)]
MappedWords == {a \in Word : a % 4 = 0 /\ get_slave(a) # {}}
OneMemory == [a \in MappedWords |-> WordAt(a)]
BlockWords == [i \in BlockIndex |-> m_address + 4 * i]
RoundWords == [i \in 0 .. Span \div 4 |-> m_start_address + 4 * i]
WindowWords == [i \in WindowIndex |-> m_address_d + 4 * i]
BlockDone == IF pc[master_b] = "idle" THEN 0 ELSE data[priority_b]
WordDone == at[master_nb] = "write" /\ pc[master_nb] = "poll"
            /\ status[priority_nb] = "OK"
Turn == IF WordDone THEN (IF Wraps THEN 0 ELSE cnt)
        ELSE IF at[master_nb] = "write" THEN cnt - 1 ELSE cnt
Mapping == INSTANCE SharedMemory WITH
    Block <- BlockWords, Length <- mylength,
    Round <- RoundWords, Rounds <- Span \div 4, Watched <- WindowWords,
    memory <- OneMemory, block <- mydata[priority_b], phase <- at[master_b],
    moved <- BlockDone, turn <- Turn, seen <- shown

\* The non-blocking master, though it never locks the bus, updates each word
\* in one atomic step: no word of a burst is written between its read and its
\* write, because it is more urgent and issues the write in the cycle in which
\* it sees the read finished.  Bursts move their words one by one, in order,
\* from and to the right words of the right memory, and no master starves.  The
\* words the monitor prints were in the memory together, though a burst may be
\* half done then; and what it does disturbs nobody.
ImplementsSharedMemory == Mapping!Spec
SharedMemorySafety == Mapping!Init /\ [][Mapping!Next]_(Mapping!vars)
===============================================================================
