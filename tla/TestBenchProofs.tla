--------------------------- MODULE TestBenchProofs ---------------------------
(***************************************************************************)
(* The test bench: whatever the addresses, the lengths, the timeouts, the  *)
(* wait states, the lock flags and the width of an int, it is an instance  *)
(* of the bus, its slow memory starts each access with a fresh count, and  *)
(* every step of it is a step of the programs of SharedMemory, which       *)
(* update a word at once.                                                  *)
(***************************************************************************)
EXTENDS TestBench, SimpleBusProofs

-------------------------------------------------------------------------------
(* The program is an instance of the bus *)

LEMMA BenchFacts ==
  /\ Master = {master_b, master_nb} /\ master_b # master_nb /\ Blocking = {master_b}
  /\ PriorityOf[master_b] = priority_b /\ PriorityOf[master_nb] = priority_nb
  /\ Priority = {priority_b, priority_nb} /\ priority_b # priority_nb
  /\ BenchMaster = Master /\ BenchMaster \subseteq Thread /\ master_d \in Thread
  /\ master_d \notin BenchMaster
  <1>1. Master = {master_b, master_nb} /\ Blocking = {master_b} /\ master_b # master_nb
    BY BenchAssumption DEF BenchMaster, master_b, master_nb
  <1>2. PriorityOf[master_b] = priority_b /\ PriorityOf[master_nb] = priority_nb
    BY <1>1, BenchAssumption DEF BenchMaster
  <1>3. Priority = {priority_b, priority_nb}
    BY <1>1, <1>2 DEF Priority
  <1> QED
    BY <1>1, <1>2, <1>3 DEF priority_b, priority_nb, BenchMaster, Thread, master_b, master_nb,
      master_d

LEMMA BenchNumbers ==
  /\ mylength \in Nat /\ mylength > 0 /\ m_start_address \in Nat /\ Span \in Nat
  /\ Window \in Nat /\ m_nr_wait_states \in Nat /\ m_nr_wait_states > 0
  /\ ValueCount \in Nat /\ ValueCount > 0 /\ Garbage \subseteq Value /\ m_address_d \in Nat
  /\ Span \div 4 \in Nat /\ 0 \in BlockIndex /\ 0 \in Value
  /\ m_timeout \in [Thread -> Nat]
  BY BenchAssumption DEF Word, BlockIndex, Value

LEMMA BenchIsUnique == UniquePriorities
  BY BenchFacts DEF UniquePriorities

\* The bursts of the bench fit in the address space and only name memories.
LEMMA BenchCallsMapped ==
  BurstsFit /\ BlockingCallsMapped /\ \A m \in Master : \A c \in Calls[m] : Mapped(c)
  <1>1. BurstsFit /\ \A m \in Master : \A c \in Calls[m] : Mapped(c)
    BY BenchAssumption
  <1> QED
    BY <1>1, BenchFacts DEF BlockingCallsMapped

LEMMA CallIsCall ==
  ASSUME NEW w \in BOOLEAN
  PROVE  /\ [do_write |-> w, address |-> m_address, length |-> mylength] \in Calls[master_b]
         /\ \A a \in m_start_address .. m_start_address + Span : (a - m_start_address) % 4 = 0
              => [do_write |-> w, address |-> a, length |-> 1] \in Calls[master_nb]
  <1>1. Calls[master_b] = [do_write : BOOLEAN, address : {m_address}, length : {mylength}]
    BY BenchAssumption DEF BenchMaster
  <1>2. Calls[master_nb] =
          [do_write : BOOLEAN, length : {1}, address :
             {a \in m_start_address .. m_start_address + Span : (a - m_start_address) % 4 = 0}]
    BY BenchAssumption, BenchFacts DEF BenchMaster
  <1> QED
    BY <1>1, <1>2

\* Every word the masters name is aligned, lies in a memory and does not reach
\* the end of the address space.
LEMMA NamedWords ==
  /\ m_address \in Nat
  /\ \A i \in BlockIndex :
       /\ (m_address + 4 * i) % 4 = 0 /\ get_slave(m_address + 4 * i) # {}
       /\ m_address + 4 * i \in Word
  /\ \A a \in m_start_address .. m_start_address + Span : (a - m_start_address) % 4 = 0
       => a % 4 = 0 /\ get_slave(a) # {} /\ a \in Word
  <1>1. ASSUME NEW c \in Calls[master_b], c.address = m_address, c.length = mylength
        PROVE  /\ m_address \in Nat
               /\ \A i \in BlockIndex :
                    /\ (m_address + 4 * i) % 4 = 0 /\ get_slave(m_address + 4 * i) # {}
                    /\ m_address + 4 * i \in Word
    <2>1. m_address \in Word /\ m_address + mylength * 4 < AddressSpace /\ Mapped(c)
      BY <1>1, BenchFacts, BenchCallsMapped, MasterAssumption DEF BurstsFit, Call
    <2> SUFFICES ASSUME NEW i \in BlockIndex
                 PROVE  /\ (m_address + 4 * i) % 4 = 0 /\ get_slave(m_address + 4 * i) # {}
                        /\ m_address + 4 * i \in Word
      BY <2>1 DEF Word
    <2>2. i \in 0 .. c.length - 1 /\ m_address % 4 = 0 /\ get_slave(m_address + 4 * i) # {}
      BY <1>1, <2>1 DEF Mapped, BlockIndex
    <2>3. (m_address + 4 * i) % 4 = 0
      BY <2>1, <2>2 DEF Word, BlockIndex
    <2>4. m_address + 4 * i \in Word
      BY <2>1, BenchNumbers, SpaceAssumption DEF Word, BlockIndex
    <2> QED
      BY <2>2, <2>3, <2>4
  <1>2. ASSUME NEW a \in m_start_address .. m_start_address + Span,
               NEW c \in Calls[master_nb], c.address = a, c.length = 1
        PROVE  a % 4 = 0 /\ get_slave(a) # {} /\ a \in Word
    <2>1. Mapped(c) /\ a \in Word
      BY <1>2, BenchFacts, BenchCallsMapped, MasterAssumption DEF Call
    <2>2. 0 \in 0 .. c.length - 1 /\ a + 4 * 0 = a
      BY <1>2, BenchNumbers
    <2> QED
      BY <1>2, <2>1, <2>2 DEF Mapped
  <1>3. [do_write |-> TRUE, address |-> m_address, length |-> mylength] \in Calls[master_b]
    BY CallIsCall
  <1>4. \A a \in m_start_address .. m_start_address + Span : (a - m_start_address) % 4 = 0
          => [do_write |-> TRUE, address |-> a, length |-> 1] \in Calls[master_nb]
    BY CallIsCall
  <1> QED
    BY <1>1, <1>2, <1>3, <1>4

\* Where the masters are in their programs, and the non-blocking one in its
\* round: addr and cnt go together, though cnt is a step ahead in between.
RoundInv ==
    /\ at \in [BenchMaster -> {"read", "write"}] /\ sleep \in [Thread -> Nat]
    /\ cnt \in 0 .. (Span \div 4) + 1
    /\ addr \in m_start_address .. m_start_address + Span
    /\ at[master_nb] = "read" => addr = m_start_address + 4 * cnt
    /\ at[master_nb] = "write" => cnt > 0 /\ addr = m_start_address + 4 * (cnt - 1)

LEMMA RoundFacts ==
  ASSUME RoundInv
  PROVE  /\ (addr - m_start_address) % 4 = 0 /\ addr \in Nat /\ cnt \in Nat
         /\ addr % 4 = 0 /\ get_slave(addr) # {} /\ addr \in Word
  <1>1. addr \in Nat /\ cnt \in Nat
    BY BenchNumbers DEF RoundInv
  <1>2. at[master_nb] \in {"read", "write"}
    BY BenchFacts DEF RoundInv
  <1>3. (addr - m_start_address) % 4 = 0
    BY <1>1, <1>2, BenchNumbers DEF RoundInv
  <1> QED
    BY <1>1, <1>3, NamedWords DEF RoundInv

LEMMA RoundInit == BenchInit => RoundInv
  BY BenchNumbers, BenchFacts DEF BenchInit, RoundInv, BenchMaster

LEMMA RoundStep == RoundInv /\ [BenchNext]_bench_vars => RoundInv'
  <1> SUFFICES ASSUME RoundInv, [BenchNext]_bench_vars PROVE RoundInv'
    OBVIOUS
  <1> USE BenchFacts, BenchNumbers
  <1>1. CASE BlockCall \/ WordCall \/ UNCHANGED bench_vars
    BY <1>1 DEF BlockCall, WordCall, master_vars, bench_vars, RoundInv
  <1>2. CASE BlockRead
    BY <1>2 DEF BlockRead, RoundInv
  <1>3. CASE BlockWritten
    BY <1>3 DEF BlockWritten, RoundInv
  <1>4. CASE WordRead
    <2>1. /\ at[master_nb] = "read" /\ cnt' = cnt + 1 /\ addr' = addr
          /\ at' = [at EXCEPT ![master_nb] = "write"]
          /\ sleep' = [sleep EXCEPT ![master_nb] = 0]
      BY <1>4 DEF WordRead, ReadToWrite
    <2>2. at' \in [BenchMaster -> {"read", "write"}] /\ sleep' \in [Thread -> Nat]
          /\ at'[master_nb] = "write"
      BY <2>1 DEF RoundInv
    <2>3. cnt \in Nat /\ cnt <= Span \div 4
      BY <2>1 DEF RoundInv
    <2> QED
      BY <2>1, <2>2, <2>3 DEF RoundInv
  <1>5. CASE WordWritten
    <2>1. /\ at[master_nb] = "write" /\ at' = [at EXCEPT ![master_nb] = "read"]
          /\ sleep' = [sleep EXCEPT ![master_nb] = m_timeout[master_nb]]
          /\ Wraps => addr' = m_start_address /\ cnt' = 0
          /\ ~Wraps => addr' = addr + 4 /\ cnt' = cnt
      BY <1>5 DEF WordWritten
    <2>2. at' \in [BenchMaster -> {"read", "write"}] /\ sleep' \in [Thread -> Nat]
          /\ at'[master_nb] = "read"
      BY <2>1 DEF RoundInv
    <2>3. CASE Wraps
      BY <2>1, <2>2, <2>3 DEF RoundInv
    <2>4. CASE ~Wraps
      BY <2>1, <2>2, <2>4 DEF RoundInv, Wraps
    <2> QED
      BY <2>3, <2>4
  <1>6. CASE Monitor
    BY <1>6 DEF Monitor, RoundInv
  <1>7. CASE RisingEdge
    BY <1>7 DEF RisingEdge, RoundInv
  <1>8. CASE FallingBench
    BY <1>8 DEF FallingBench, ServeWord, master_vars, RoundInv
  <1> QED
    BY <1>1, <1>2, <1>3, <1>4, <1>5, <1>6, <1>7, <1>8 DEF BenchNext, BlockMaster, WordMaster

LEMMA AnswerIsRequest ==
  ASSUME NEW p, NEW answer, HandleAnswer(p, answer)
  PROVE  HandleRequest(p)
  BY DEF HandleRequest, HandleAnswer

\* A step of the program is a step of the bus or leaves the bus alone.
LEMMA BenchStepIsBusStep ==
  ASSUME RoundInv, [BenchNext]_bench_vars
  PROVE  [Next]_vars
  <1> USE BenchFacts
  <1>1. CASE BlockCall
    <2>1. CallOf(master_b, m_address, mylength) \in Calls[master_b]
      BY CallIsCall DEF CallOf
    <2> QED
      BY <1>1, <2>1 DEF BlockCall, Next, MasterStep
  <1>2. CASE WordCall
    <2>1. CallOf(master_nb, addr, 1) \in Calls[master_nb]
      BY CallIsCall, RoundFacts DEF CallOf, RoundInv
    <2> QED
      BY <1>2, <2>1 DEF WordCall, Next, MasterStep
  <1>3. CASE BlockRead \/ BlockWritten
    BY <1>3 DEF BlockRead, BlockWritten, Next, MasterStep
  <1>4. CASE WordRead \/ WordWritten
    BY <1>4 DEF WordRead, WordWritten, Next, MasterStep
  <1>5. CASE Monitor \/ UNCHANGED bench_vars
    BY <1>5 DEF Monitor, bench_vars
  <1>6. CASE RisingEdge
    BY <1>6 DEF RisingEdge, Next
  <1>7. CASE FallingBench
    BY <1>7, AnswerIsRequest DEF FallingBench, ServeWord, Next, NegEdge
  <1> QED
    BY <1>1, <1>2, <1>3, <1>4, <1>5, <1>6, <1>7 DEF BenchNext, BlockMaster, WordMaster

\* The test bench refines the bus: all its theorems hold of it.
THEOREM TestBenchIsABus == BenchSpec => Spec
  <1>1. BenchInit => Init
    BY DEF BenchInit
  <1>2. RoundInv /\ [BenchNext]_bench_vars => [Next]_vars
    BY BenchStepIsBusStep
  <1> QED
    BY <1>1, <1>2, RoundInit, RoundStep, PTL DEF BenchSpec, Spec

LEMMA BenchBus == BenchSpec => [](BusInv /\ WordsInv)
  <1>1. Spec => []BusInv
    BY BusSafety, BenchIsUnique
  <1>2. BusInv /\ WordsInv /\ [Next]_vars => WordsInv'
    BY WordsStep, BenchCallsMapped
  <1> QED
    BY <1>1, <1>2, WordsInit, TestBenchIsABus, PTL DEF Spec

-------------------------------------------------------------------------------
(* The forms *)

\* The form of a master is that of the call it is in.
BlockForm ==
    /\ pc[master_b] \in {"idle", "transfer", "edge", "ready"}
    /\ status[priority_b] # "ERROR"
    /\ pc[master_b] # "idle" =>
          /\ do_write[priority_b] <=> at[master_b] = "write"
          /\ asked[priority_b].length = mylength
          /\ address[priority_b] = m_address + 4 * data[priority_b]
    /\ pc[master_b] = "transfer" => priority_b \in Pending

\* A form for one word only waits for its slave.
WordForm ==
    /\ pc[master_nb] \in {"idle", "poll"}
    /\ status[priority_nb] # "ERROR"
    /\ status[priority_nb] = "WAIT" => m_current_request = priority_nb
    /\ pc[master_nb] = "poll" =>
          /\ sleep[master_nb] = 0
          /\ do_write[priority_nb] <=> at[master_nb] = "write"
          /\ asked[priority_nb].length = 1
          /\ priority_nb \in Pending => address[priority_nb] = addr /\ data[priority_nb] = 0

FormsInv == BusInv /\ WordsInv /\ RoundInv /\ BlockForm /\ WordForm

LEMMA PendingAddress ==
  ASSUME FormsInv, NEW p \in Pending
  PROVE  /\ address[p] % 4 = 0 /\ get_slave(address[p]) # {} /\ address[p] \in Word
         /\ data[p] \in BlockIndex /\ p \in Priority
         /\ p = priority_b => /\ pc[master_b] = "transfer" /\ data[p] \in BlockIndex
                              /\ address[p] = m_address + 4 * data[p]
                              /\ asked[p].length = mylength
                              /\ do_write[p] <=> at[master_b] = "write"
         /\ p = priority_nb => /\ pc[master_nb] = "poll" /\ data[p] = 0 /\ address[p] = addr
                               /\ sleep[master_nb] = 0
                               /\ do_write[p] <=> at[master_nb] = "write"
  <1> USE BenchFacts, BenchNumbers
  <1>t. TypeOK /\ p \in Priority /\ status[p] \notin Final
    BY DEF FormsInv, BusInv, Pending, Final
  <1>1. CASE p = priority_b
    <2>1. pc[master_b] = "transfer"
      BY <1>t, <1>1 DEF FormsInv, BusInv, BlockForm, ReturnsFinal
    <2>2. /\ address[p] = m_address + 4 * data[p] /\ asked[p].length = mylength
          /\ do_write[p] <=> at[master_b] = "write"
      BY <1>1, <2>1 DEF FormsInv, BlockForm
    <2>3. data[p] \in Nat /\ data[p] < mylength
      BY <1>t, <2>2 DEF FormsInv, WordsInv, PendingProgress, TypeOK
    <2>4. data[p] \in BlockIndex
      BY <2>3 DEF BlockIndex
    <2> QED
      BY <1>t, <1>1, <2>1, <2>2, <2>4, NamedWords
  <1>2. CASE p = priority_nb
    <2>1. pc[master_nb] = "poll"
      BY <1>t, <1>2 DEF FormsInv, BusInv, WordForm, ReturnsFinal
    <2>2. /\ address[p] = addr /\ data[p] = 0 /\ sleep[master_nb] = 0
          /\ do_write[p] <=> at[master_nb] = "write"
      BY <1>2, <2>1 DEF FormsInv, WordForm
    <2> QED
      BY <1>t, <1>2, <2>1, <2>2, RoundFacts DEF FormsInv
  <1> QED
    BY <1>t, <1>1, <1>2

\* What one falling edge with a request does: the memory answers it.
LEMMA ServeOutcome ==
  ASSUME FormsInv, NEW p, ServeWord(p)
  PROVE  /\ p \in Pending /\ p \in ToHandle
         /\ Answer(SlaveOf(address[p])) = "OK" => SlaveOK(p)
         /\ Answer(SlaveOf(address[p])) # "OK" => SlaveWait(p)
         /\ at' = at /\ sleep' = sleep /\ addr' = addr /\ cnt' = cnt /\ shown' = shown
         /\ do_write' = do_write /\ asked' = asked /\ end_address' = end_address
  <1>1. p \in Pending /\ p \in ToHandle
    BY HandledIsPending DEF ServeWord, FormsInv, BusInv
  <1>2. Reached(p)
    BY <1>1, PendingAddress DEF Reached
  <1>3. HandleAnswer(p, Answer(SlaveOf(address[p])))
    BY DEF ServeWord
  <1>4. Answer(SlaveOf(address[p])) \in {"OK", "WAIT"}
    BY DEF Answer
  <1>5. \/ Answer(SlaveOf(address[p])) = "OK" /\ SlaveOK(p)
        \/ Answer(SlaveOf(address[p])) = "WAIT" /\ SlaveWait(p)
    BY <1>2, <1>3, <1>4 DEF HandleAnswer, Reject
  <1>6. UNCHANGED form
    BY <1>5 DEF SlaveOK, SlaveWait, FallingEdge
  <1> QED
    BY <1>1, <1>5, <1>6 DEF ServeWord, form

\* The arbiter's form gets the answer, and nothing happens to the other one.
LEMMA ServedForms ==
  ASSUME FormsInv, NEW p \in Pending, NEW q \in Priority, q # p, SlaveOK(p) \/ SlaveWait(p)
  PROVE  status'[q] = status[q] /\ address'[q] = address[q] /\ data'[q] = data[q]
  <1>1. TypeOK
    BY DEF FormsInv, BusInv
  <1>2. CASE SlaveOK(p)
    BY <1>1, <1>2 DEF SlaveOK, TypeOK
  <1>3. CASE SlaveWait(p)
    BY <1>1, <1>3 DEF SlaveWait, TypeOK
  <1> QED
    BY <1>2, <1>3

LEMMA RestFits ==
  ASSUME NEW a \in Nat, NEW n \in Nat, NEW d \in Nat, d < n, NEW e \in Nat, NEW top \in Nat,
         a + 4 * (n - d) = e + 4, e + 4 < top
  PROVE  a + 4 < top
  OBVIOUS

LEMMA BlockFormServed ==
  ASSUME FormsInv, NEW p, ServeWord(p)
  PROVE  BlockForm'
  <1> USE BenchFacts, BenchNumbers
  <1>t. TypeOK /\ p \in Pending /\ p \in Priority
    BY ServeOutcome DEF FormsInv, BusInv, Pending
  <1>s. SlaveOK(p) \/ SlaveWait(p)
    BY ServeOutcome
  <1>u. at' = at /\ do_write' = do_write /\ asked' = asked
    BY ServeOutcome
  <1>1. CASE p # priority_b
    <2>1. pc'[master_b] = pc[master_b]
      BY <1>s, <1>1 DEF SlaveOK, SlaveWait, Notified
    <2>2. /\ status'[priority_b] = status[priority_b] /\ data'[priority_b] = data[priority_b]
          /\ address'[priority_b] = address[priority_b]
      BY <1>t, <1>s, <1>1, ServedForms
    <2> QED
      BY <1>u, <2>1, <2>2 DEF FormsInv, BlockForm, Pending
  <1>2. CASE p = priority_b
    <2>0. /\ pc[master_b] = "transfer" /\ address[p] = m_address + 4 * data[p]
          /\ data[p] \in BlockIndex /\ asked[p].length = mylength /\ address[p] \in Word
          /\ do_write[p] <=> at[master_b] = "write"
      BY <1>t, <1>2, PendingAddress
    <2>1. CASE SlaveWait(p)
      <3>1. pc' = pc /\ status'[p] = "WAIT" /\ address' = address /\ data' = data
        BY <1>t, <2>1 DEF SlaveWait, TypeOK
      <3> QED
        BY <1>2, <1>u, <2>0, <3>1 DEF BlockForm, Pending
    <2>2. CASE SlaveOK(p)
      <3>1. data'[p] = data[p] + 1 /\ address'[p] = (address[p] + 4) % AddressSpace
        BY <1>t, <2>2 DEF SlaveOK, NextPointer, TypeOK
      <3>2. address[p] + 4 < AddressSpace /\ address[p] \in Nat
        <4>1. /\ data[p] \in Nat /\ data[p] < mylength /\ end_address[p] \in Nat
              /\ address[p] + 4 * (mylength - data[p]) = end_address[p] + 4
              /\ end_address[p] + 4 < AddressSpace
          BY <1>t, <2>0 DEF FormsInv, WordsInv, PendingProgress, PendingFits, TypeOK, Word
        <4>2. address[p] \in Nat
          BY <2>0 DEF Word
        <4> QED
          BY <4>1, <4>2, RestFits, SpaceAssumption
      <3>3. address'[p] = address[p] + 4
        BY <3>1, <3>2, ModOfWord
      <3>4. address'[p] = m_address + 4 * data'[p]
        <4>1. data[p] \in Nat /\ m_address \in Nat
          BY <2>0, NamedWords DEF BlockIndex
        <4>2. m_address + 4 * data[p] + 4 = m_address + 4 * (data[p] + 1)
          BY <4>1
        <4> QED
          BY <2>0, <3>1, <3>3, <4>2
      <3>5. status'[p] = IF Done(p) THEN "OK" ELSE "WAIT"
        BY <1>t, <2>2 DEF SlaveOK, TypeOK
      <3>6. pc'[master_b] = IF Done(p) THEN "edge" ELSE "transfer"
        BY <1>2, <2>0, <2>2 DEF SlaveOK, Notified
      <3> QED
        BY <1>2, <1>u, <2>0, <3>4, <3>5, <3>6 DEF BlockForm, Pending
    <2> QED
      BY <1>s, <2>1, <2>2
  <1> QED
    BY <1>1, <1>2

LEMMA WordIsDone ==
  ASSUME FormsInv, priority_nb \in Pending
  PROVE  Done(priority_nb)
  <1> DEFINE p == priority_nb
  <1>1. TypeOK /\ p \in Priority /\ data[p] = 0 /\ asked[p].length = 1
    BY PendingAddress, BenchFacts DEF FormsInv, BusInv, WordForm
  <1>2. /\ address[p] \in Nat /\ end_address[p] \in Nat
        /\ address[p] + 4 * (asked[p].length - data[p]) = end_address[p] + 4
        /\ end_address[p] + 4 < AddressSpace
    BY <1>1 DEF FormsInv, WordsInv, PendingProgress, PendingFits, TypeOK, Word
  <1>3. address[p] + 4 < AddressSpace /\ address[p] = end_address[p]
    BY <1>1, <1>2, SpaceAssumption
  <1>4. (address[p] + 4) % AddressSpace = address[p] + 4
    BY <1>2, <1>3, ModOfWord
  <1> QED
    BY <1>2, <1>3, <1>4 DEF Done

LEMMA WordFormServed ==
  ASSUME FormsInv, NEW p, ServeWord(p)
  PROVE  WordForm'
  <1> USE BenchFacts, BenchNumbers
  <1>t. TypeOK /\ p \in Pending /\ p \in Priority
    BY ServeOutcome DEF FormsInv, BusInv, Pending
  <1>s. SlaveOK(p) \/ SlaveWait(p)
    BY ServeOutcome
  <1>u. at' = at /\ do_write' = do_write /\ addr' = addr /\ sleep' = sleep /\ asked' = asked
    BY ServeOutcome
  <1>m. pc[master_nb] \in {"idle", "poll"} => pc'[master_nb] = pc[master_nb]
    BY <1>s DEF SlaveOK, SlaveWait, Notified
  <1>1. CASE p # priority_nb
    <2>1. /\ status'[priority_nb] = status[priority_nb]
          /\ data'[priority_nb] = data[priority_nb]
          /\ address'[priority_nb] = address[priority_nb]
      BY <1>t, <1>s, <1>1, ServedForms
    <2>2. status[priority_nb] # "WAIT"
      <3>1. m_current_request # None => p = m_current_request
        BY ServeOutcome DEF ToHandle
      <3>2. priority_nb # None
        BY PriorityIsNat
      <3> QED
        BY <1>1, <3>1, <3>2 DEF FormsInv, WordForm
    <2> QED
      BY <1>u, <1>m, <2>1, <2>2 DEF FormsInv, WordForm, Pending
  <1>2. CASE p = priority_nb
    <2>0. /\ pc[master_nb] = "poll" /\ data[p] = 0 /\ address[p] = addr /\ sleep[master_nb] = 0
          /\ do_write[p] <=> at[master_nb] = "write"
      BY <1>t, <1>2, PendingAddress
    <2>l. asked[p].length = 1
      BY <1>2, <2>0 DEF FormsInv, WordForm
    <2>1. CASE SlaveWait(p)
      <3>1. pc' = pc /\ status'[p] = "WAIT" /\ address' = address /\ data' = data
            /\ m_current_request' = p
        BY <1>t, <2>1 DEF SlaveWait, TypeOK
      <3> QED
        BY <1>2, <1>u, <2>0, <2>l, <3>1 DEF WordForm, Pending
    <2>2. CASE SlaveOK(p)
      <3>1. Done(p)
        BY <1>t, <1>2, WordIsDone
      <3>2. status'[p] = "OK"
        BY <1>t, <2>2, <3>1 DEF SlaveOK, TypeOK
      <3> QED
        BY <1>2, <1>u, <1>m, <2>0, <2>l, <3>2 DEF WordForm, Pending
    <2> QED
      BY <1>s, <2>1, <2>2
  <1> QED
    BY <1>1, <1>2

\* A call fills the form of its master, and no other one.
LEMMA FillOutcome ==
  ASSUME FormsInv, NEW p \in Priority, NEW c, NEW flag, Fill(p, c, flag)
  PROVE  /\ status'[p] = "REQUEST" /\ address'[p] = c.address /\ data'[p] = 0
         /\ do_write'[p] = c.do_write /\ asked'[p].length = c.length
         /\ \A q \in Priority : q # p =>
              /\ status'[q] = status[q] /\ address'[q] = address[q] /\ data'[q] = data[q]
              /\ do_write'[q] = do_write[q] /\ asked'[q] = asked[q] /\ lock'[q] = lock[q]
  <1>1. TypeOK
    BY DEF FormsInv, BusInv
  <1> QED
    BY <1>1 DEF Fill, TypeOK

LEMMA CallFields ==
  ASSUME NEW m, NEW a, NEW n
  PROVE  /\ CallOf(m, a, n).do_write <=> at[m] = "write"
         /\ CallOf(m, a, n).address = a /\ CallOf(m, a, n).length = n
  BY Zenon DEF CallOf

LEMMA BlockCallOutcome ==
  ASSUME FormsInv, BlockCall
  PROVE  /\ pc[master_b] = "idle" /\ pc' = [pc EXCEPT ![master_b] = "transfer"]
         /\ \E flag \in BOOLEAN : Fill(priority_b, CallOf(master_b, m_address, mylength), flag)
         /\ UNCHANGED <<clk, m_current_request, memory_vars, master_vars>>
  <1>1. PICK flag \in LockFlags[master_b] :
          BurstCall(master_b, CallOf(master_b, m_address, mylength), flag)
    BY DEF BlockCall
  <1>2. flag \in BOOLEAN
    BY BenchFacts, MasterAssumption
  <1> QED
    BY <1>1, <1>2, BenchFacts DEF BurstCall, BlockCall

\* The assertion of read and write does not fail.
LEMMA WordCallOutcome ==
  ASSUME FormsInv, WordCall
  PROVE  /\ pc[master_nb] = "idle" /\ pc' = [pc EXCEPT ![master_nb] = "poll"]
         /\ \E flag \in BOOLEAN : Fill(priority_nb, CallOf(master_nb, addr, 1), flag)
         /\ clk = "high" /\ sleep[master_nb] = 0
         /\ UNCHANGED <<clk, m_current_request, memory_vars, master_vars>>
  <1>1. PICK flag \in LockFlags[master_nb] :
          SingleCall(master_nb, CallOf(master_nb, addr, 1), flag)
    BY DEF WordCall
  <1>2. flag \in BOOLEAN
    BY BenchFacts, MasterAssumption
  <1>3. pc[master_nb] = "idle" /\ status[priority_nb] \in Final
    BY <1>1, BenchFacts DEF SingleCall, FormsInv, BusInv, ReturnsFinal
  <1> QED
    BY <1>1, <1>2, <1>3, BenchFacts DEF SingleCall, WordCall, Runs

LEMMA FormsStep ==
  ASSUME FormsInv, [BenchNext]_bench_vars
  PROVE  BlockForm' /\ WordForm'
  <1> USE BenchFacts
  <1>t. TypeOK
    BY DEF FormsInv, BusInv
  <1>1. CASE BlockCall
    <2>1. /\ pc[master_b] = "idle" /\ pc' = [pc EXCEPT ![master_b] = "transfer"]
          /\ UNCHANGED <<m_current_request, master_vars>>
      BY <1>1, BlockCallOutcome
    <2>2. PICK flag \in BOOLEAN : Fill(priority_b, CallOf(master_b, m_address, mylength), flag)
      BY <1>1, BlockCallOutcome
    <2>3. /\ status'[priority_b] = "REQUEST" /\ address'[priority_b] = m_address
          /\ data'[priority_b] = 0 /\ asked'[priority_b].length = mylength
          /\ do_write'[priority_b] <=> at[master_b] = "write"
      BY <2>2, FillOutcome, CallFields
    <2>4. /\ status'[priority_nb] = status[priority_nb]
          /\ address'[priority_nb] = address[priority_nb]
          /\ data'[priority_nb] = data[priority_nb] /\ asked'[priority_nb] = asked[priority_nb]
          /\ do_write'[priority_nb] = do_write[priority_nb]
      BY <2>2, FillOutcome
    <2>5. pc'[master_b] = "transfer" /\ pc'[master_nb] = pc[master_nb]
      BY <1>t, <2>1 DEF TypeOK
    <2>6. m_address = m_address + 4 * 0
      BY NamedWords
    <2>7. BlockForm'
      BY <2>1, <2>3, <2>5, <2>6 DEF BlockForm, Pending, master_vars
    <2>8. WordForm'
      BY <2>1, <2>4, <2>5 DEF FormsInv, WordForm, Pending, master_vars
    <2> QED
      BY <2>7, <2>8
  <1>2. CASE WordCall
    <2>1. /\ pc[master_nb] = "idle" /\ pc' = [pc EXCEPT ![master_nb] = "poll"]
          /\ sleep[master_nb] = 0 /\ UNCHANGED <<m_current_request, master_vars>>
      BY <1>2, WordCallOutcome
    <2>2. PICK flag \in BOOLEAN : Fill(priority_nb, CallOf(master_nb, addr, 1), flag)
      BY <1>2, WordCallOutcome
    <2>3. /\ status'[priority_nb] = "REQUEST" /\ address'[priority_nb] = addr
          /\ data'[priority_nb] = 0 /\ asked'[priority_nb].length = 1
          /\ do_write'[priority_nb] <=> at[master_nb] = "write"
      BY <2>2, FillOutcome, CallFields
    <2>4. /\ status'[priority_b] = status[priority_b]
          /\ address'[priority_b] = address[priority_b]
          /\ data'[priority_b] = data[priority_b] /\ asked'[priority_b] = asked[priority_b]
          /\ do_write'[priority_b] = do_write[priority_b]
      BY <2>2, FillOutcome
    <2>5. pc'[master_nb] = "poll" /\ pc'[master_b] = pc[master_b]
      BY <1>t, <2>1 DEF TypeOK
    <2>6. BlockForm'
      BY <2>1, <2>4, <2>5 DEF FormsInv, BlockForm, Pending, master_vars
    <2>7. WordForm'
      BY <2>1, <2>3, <2>5 DEF FormsInv, WordForm, Pending, master_vars
    <2> QED
      BY <2>6, <2>7
  <1>3. CASE BlockRead \/ BlockWritten
    <2>1. /\ Return(master_b) /\ addr' = addr
          /\ \E x : at' = [at EXCEPT ![master_b] = x]
          /\ \E x : sleep' = [sleep EXCEPT ![master_b] = x]
      BY <1>3 DEF BlockRead, BlockWritten
    <2>2. pc'[master_b] = "idle" /\ pc'[master_nb] = pc[master_nb]
      BY <1>t, <2>1 DEF Return, TypeOK
    <2>3. at'[master_nb] = at[master_nb] /\ sleep'[master_nb] = sleep[master_nb]
      BY <2>1 DEF FormsInv, RoundInv
    <2>4. BlockForm'
      BY <2>1, <2>2 DEF FormsInv, BlockForm, Return, form, Pending
    <2>5. WordForm'
      BY <2>1, <2>2, <2>3 DEF FormsInv, WordForm, Return, form, Pending
    <2> QED
      BY <2>4, <2>5
  <1>4. CASE WordRead \/ WordWritten
    <2>1. /\ GetStatus(master_nb)
          /\ \E x : at' = [at EXCEPT ![master_nb] = x]
          /\ \E x : sleep' = [sleep EXCEPT ![master_nb] = x]
      BY <1>4 DEF WordRead, WordWritten
    <2>2. pc'[master_nb] = "idle" /\ pc'[master_b] = pc[master_b]
      BY <1>t, <2>1 DEF GetStatus, TypeOK
    <2>3. at'[master_b] = at[master_b]
      BY <2>1 DEF FormsInv, RoundInv
    <2>4. BlockForm'
      BY <2>1, <2>2, <2>3 DEF FormsInv, BlockForm, GetStatus, form, Pending
    <2>5. WordForm'
      BY <2>1, <2>2 DEF FormsInv, WordForm, GetStatus, form
    <2> QED
      BY <2>4, <2>5
  <1>5. CASE Monitor
    <2>1. sleep'[master_nb] = sleep[master_nb]
      BY <1>5 DEF Monitor, FormsInv, RoundInv
    <2> QED
      BY <1>5, <2>1 DEF Monitor, vars, form, FormsInv, BlockForm, WordForm, Pending
  <1>6. CASE RisingEdge
    <2>1. /\ pc'[master_nb] = IF pc[master_nb] = "edge" THEN "ready" ELSE pc[master_nb]
          /\ pc'[master_b] = IF pc[master_b] = "edge" THEN "ready" ELSE pc[master_b]
      BY <1>6 DEF RisingEdge, PosEdge
    <2>2. sleep[master_nb] = 0 => sleep'[master_nb] = 0
      BY <1>6 DEF RisingEdge
    <2>3. UNCHANGED <<status, address, data, form, m_current_request, at, addr>>
      BY <1>6 DEF RisingEdge, PosEdge
    <2>4. BlockForm'
      BY <2>1, <2>3 DEF FormsInv, BlockForm, Pending, form
    <2>5. WordForm'
      BY <2>1, <2>2, <2>3 DEF FormsInv, WordForm, Pending, form
    <2> QED
      BY <2>4, <2>5
  <1>7. CASE FallingBench
    <2>1. CASE NothingPending /\ UNCHANGED <<memory_vars, master_vars>>
      <3>1. /\ UNCHANGED <<pc, status, address, data, m_current_request, form>>
            /\ at' = at /\ addr' = addr /\ sleep' = sleep
        BY <2>1 DEF NothingPending, FallingEdge, master_vars
      <3> QED
        BY <3>1 DEF FormsInv, BlockForm, WordForm, Pending, form
    <2>2. CASE \E p \in Priority : ServeWord(p)
      BY <2>2, BlockFormServed, WordFormServed
    <2> QED
      BY <1>7, <2>1, <2>2 DEF FallingBench
  <1>8. CASE UNCHANGED bench_vars
    BY <1>8 DEF bench_vars, master_vars, vars, form, FormsInv, BlockForm, WordForm, Pending
  <1> QED
    BY <1>1, <1>2, <1>3, <1>4, <1>5, <1>6, <1>7, <1>8 DEF BenchNext, BlockMaster, WordMaster

LEMMA FormsInit == BenchInit => BlockForm /\ WordForm
  <1> SUFFICES ASSUME BenchInit PROVE BlockForm /\ WordForm
    OBVIOUS
  <1>1. pc[master_b] = "idle" /\ pc[master_nb] = "idle"
    BY BenchFacts DEF BenchInit, Init
  <1>2. status[priority_b] = "OK" /\ status[priority_nb] = "OK"
    BY BenchFacts DEF BenchInit, Init
  <1> QED
    BY <1>1, <1>2 DEF BlockForm, WordForm

LEMMA BenchForms == BenchSpec => []FormsInv
  <1>1. BenchSpec => []RoundInv
    BY RoundInit, RoundStep, PTL DEF BenchSpec
  <1>2. BusInv /\ WordsInv /\ RoundInv /\ BlockForm /\ WordForm /\ [BenchNext]_bench_vars
        => BlockForm' /\ WordForm'
    BY FormsStep DEF FormsInv
  <1>3. FormsInv <=> BusInv /\ WordsInv /\ RoundInv /\ BlockForm /\ WordForm
    BY DEF FormsInv
  <1> QED
    BY <1>1, <1>2, <1>3, BenchBus, FormsInit, PTL DEF BenchSpec

-------------------------------------------------------------------------------
(* The wait states of the slow memory *)

\* The count runs for the current request, if there is one, and for no other.
CountInv ==
    /\ m_current_request = None =>
          /\ clk = "high" => m_wait_count = -1
          /\ clk = "low" => m_wait_count \in {-1, 0}
    /\ m_current_request # None =>
          /\ SlaveOf(address[m_current_request]) = mem_slow
          /\ clk = "high" => m_wait_count \in 0 .. m_nr_wait_states - 1
          /\ clk = "low" => m_wait_count \in 1 .. m_nr_wait_states

LEMMA CountInit == BenchInit => CountInv
  BY DEF BenchInit, Init, CountInv

\* A call never touches the form a slave works on.
LEMMA FillKeepsCurrent ==
  ASSUME FormsInv, NEW m \in Master, pc[m] = "idle", NEW c, NEW flag,
         Fill(PriorityOf[m], c, flag), m_current_request # None
  PROVE  /\ m_current_request # PriorityOf[m]
         /\ address'[m_current_request] = address[m_current_request]
  <1>1. status[m_current_request] = "WAIT" /\ m_current_request \in Priority
    BY DEF FormsInv, BusInv, CurrentWaits, TypeOK
  <1>2. status[PriorityOf[m]] \in Final
    BY DEF FormsInv, BusInv, ReturnsFinal
  <1>3. m_current_request # PriorityOf[m]
    BY <1>1, <1>2 DEF Final
  <1> QED
    BY <1>1, <1>3, FillOutcome, PriorityInPriority

LEMMA CountServed ==
  ASSUME FormsInv, CountInv, NEW p, ServeWord(p)
  PROVE  CountInv'
  <1> DEFINE s == SlaveOf(address[p])
  <1> USE BenchNumbers
  <1>1. clk = "high" /\ clk' = "low" /\ p # None
    BY PriorityIsNat, PendingAddress, ServeOutcome DEF SlaveOK, SlaveWait, FallingEdge
  <1>2. m_current_request # None => p = m_current_request
    BY ServeOutcome DEF ToHandle
  <1>3. /\ s = mem_slow /\ m_wait_count < 0 => m_wait_count' = m_nr_wait_states
        /\ ~(s = mem_slow /\ m_wait_count < 0) => m_wait_count' = m_wait_count
    BY DEF ServeWord, Counts
  <1>4. CASE Answer(s) = "OK"
    <2>1. m_current_request' = None
      BY <1>4, ServeOutcome DEF SlaveOK
    <2>2. s = mem_slow => m_wait_count = 0
      BY <1>4 DEF Answer
    <2>3. s # mem_slow => m_current_request = None
      BY <1>2 DEF CountInv
    <2>4. m_wait_count' \in {-1, 0}
      BY <1>1, <1>3, <2>2, <2>3 DEF CountInv
    <2> QED
      BY <1>1, <2>1, <2>4 DEF CountInv
  <1>5. CASE Answer(s) # "OK"
    <2>1. m_current_request' = p /\ address' = address
      BY <1>5, ServeOutcome DEF SlaveWait
    <2>2. s = mem_slow /\ m_wait_count # 0
      BY <1>5 DEF Answer
    <2>3. m_wait_count' \in 1 .. m_nr_wait_states
      BY <1>1, <1>3, <2>2 DEF CountInv
    <2> QED
      BY <1>1, <2>1, <2>2, <2>3 DEF CountInv, SlaveOf, get_slave
  <1> QED
    BY <1>4, <1>5

LEMMA CountStep ==
  ASSUME FormsInv, CountInv, [BenchNext]_bench_vars
  PROVE  CountInv'
  <1> USE BenchFacts
  <1>0. ASSUME NEW m \in Master, pc[m] = "idle", NEW c, NEW flag, Fill(PriorityOf[m], c, flag),
               UNCHANGED <<clk, m_current_request, m_wait_count>>
        PROVE  CountInv'
    BY <1>0, FillKeepsCurrent DEF CountInv, SlaveOf, get_slave
  <1>1. CASE BlockCall
    BY <1>0, <1>1, BlockCallOutcome DEF memory_vars
  <1>2. CASE WordCall
    BY <1>0, <1>2, WordCallOutcome DEF memory_vars
  <1>3. CASE BlockRead \/ BlockWritten \/ WordRead \/ WordWritten
    <2>1. UNCHANGED <<clk, m_current_request, m_wait_count, address>>
      BY <1>3 DEF BlockRead, BlockWritten, WordRead, WordWritten, Return, GetStatus, memory_vars
    <2> QED
      BY <2>1 DEF CountInv, SlaveOf, get_slave
  <1>4. CASE Monitor \/ UNCHANGED bench_vars
    <2>1. UNCHANGED <<clk, m_current_request, m_wait_count, address>>
      BY <1>4 DEF Monitor, DirectCounts, bench_vars, vars, memory_vars
    <2> QED
      BY <2>1 DEF CountInv, SlaveOf, get_slave
  <1>5. CASE RisingEdge
    <2>1. /\ clk = "low" /\ clk' = "high" /\ UNCHANGED <<m_current_request, address>>
          /\ m_wait_count >= 0 => m_wait_count' = m_wait_count - 1
          /\ ~(m_wait_count >= 0) => m_wait_count' = m_wait_count
      BY <1>5 DEF RisingEdge, PosEdge, wait_loop
    <2>2. CASE m_current_request = None
      BY <2>1, <2>2 DEF CountInv
    <2>3. CASE m_current_request # None
      <3>1. m_wait_count' \in 0 .. m_nr_wait_states - 1
        BY <2>1, <2>3, BenchNumbers DEF CountInv
      <3> QED
        BY <2>1, <2>3, <3>1 DEF CountInv, SlaveOf, get_slave
    <2> QED
      BY <2>2, <2>3
  <1>6. CASE FallingBench
    <2>1. CASE NothingPending /\ UNCHANGED <<memory_vars, master_vars>>
      <3>1. /\ clk = "high" /\ clk' = "low" /\ m_wait_count' = m_wait_count
            /\ m_current_request' = m_current_request /\ ToHandle = {}
        BY <2>1 DEF NothingPending, FallingEdge, memory_vars
      <3>2. m_current_request = None
        BY <3>1 DEF ToHandle
      <3> QED
        BY <3>1, <3>2 DEF CountInv
    <2>2. CASE \E p \in Priority : ServeWord(p)
      BY <2>2, CountServed
    <2> QED
      BY <1>6, <2>1, <2>2 DEF FallingBench
  <1> QED
    BY <1>1, <1>2, <1>3, <1>4, <1>5, <1>6 DEF BenchNext, BlockMaster, WordMaster

\* Each access of the slow memory waits for its own wait states: no count of an
\* earlier one is left when the bus turns to a new form, for any number of wait
\* states, any blocks and any timeouts.
THEOREM SlowMemoryIsFresh == BenchSpec => []SlowMemoryFresh
  <1>1. FormsInv /\ CountInv /\ [BenchNext]_bench_vars => CountInv'
    BY CountStep
  <1>2. CountInv => SlowMemoryFresh
    BY DEF CountInv, SlowMemoryFresh
  <1> QED
    BY <1>1, <1>2, CountInit, BenchForms, PTL DEF BenchSpec

-------------------------------------------------------------------------------
(* Types *)

MemoryType ==
    /\ MEM \in [Slave -> UNION {[0 .. Size(s) - 1 -> Value] : s \in Slave}]
    /\ \A s \in Slave : MEM[s] \in [0 .. Size(s) - 1 -> Value]
DataType ==
    /\ MemoryType /\ mydata \in [Priority -> [BlockIndex -> Value]]
    /\ shown \in [WindowIndex -> Value]

\* Every aligned address of a memory is that of one of its words.
LEMMA WordOfSlave ==
  ASSUME NEW a \in Int, a % 4 = 0, get_slave(a) # {}
  PROVE  /\ SlaveOf(a) \in Slave /\ WordIndex(SlaveOf(a), a) \in 0 .. Size(SlaveOf(a)) - 1
         /\ a = StartAddress[SlaveOf(a)] + 4 * WordIndex(SlaveOf(a), a)
  <1> DEFINE s == SlaveOf(a)
             first == StartAddress[s]
             n == Size(s)
  <1>1. s \in get_slave(a)
    BY DEF SlaveOf
  <1>2. s \in Slave /\ first <= a /\ a <= EndAddress[s]
    BY <1>1 DEF get_slave
  <1>3. first % 4 = 0 /\ n > 0 /\ EndAddress[s] = first + 4 * n - 1
    BY <1>2, BenchAssumption
  <1>4. first \in Nat /\ EndAddress[s] \in Nat
    BY <1>2, SlaveAssumption DEF Word
  <1>5. n \in Int
    BY <1>4 DEF Size
  <1>6. WordIndex(s, a) = (a - first) \div 4
    BY DEF WordIndex
  <1> HIDE DEF s, first, n
  <1>7. (a - first) % 4 = 0 /\ a - first \in 0 .. 4 * n - 1
    BY <1>2, <1>3, <1>4, <1>5
  <1>8. (a - first) \div 4 \in 0 .. n - 1 /\ a = first + 4 * ((a - first) \div 4)
    BY <1>4, <1>5, <1>7
  <1> QED
    BY <1>2, <1>6, <1>8 DEF s, first, n

LEMMA WordInValue ==
  ASSUME MemoryType, NEW a \in Int, a % 4 = 0, get_slave(a) # {}
  PROVE  WordAt(a) \in Value
  BY WordOfSlave DEF MemoryType, WordAt

LEMMA ModIsValue == \A a \in Int : a % ValueCount \in Value
  BY BenchNumbers DEF Value

LEMMA DataInit == BenchInit => DataType
  <1> SUFFICES ASSUME BenchInit PROVE DataType
    OBVIOUS
  <1>1. \A s \in Slave : MEM[s] = [i \in 0 .. Size(s) - 1 |-> 0]
    BY DEF BenchInit
  <1>2. \A s \in Slave : MEM[s] \in [0 .. Size(s) - 1 -> Value]
    BY <1>1, BenchNumbers
  <1>3. MEM = [s \in Slave |-> MEM[s]]
    BY DEF BenchInit
  <1>4. MEM \in [Slave -> UNION {[0 .. Size(s) - 1 -> Value] : s \in Slave}]
    BY <1>2, <1>3
  <1>5. mydata \in [Priority -> [BlockIndex -> Value]] /\ shown \in [WindowIndex -> Value]
    BY BenchNumbers DEF BenchInit
  <1> QED
    BY <1>2, <1>4, <1>5 DEF DataType, MemoryType

LEMMA DataServed ==
  ASSUME FormsInv, DataType, NEW p, ServeWord(p)
  PROVE  DataType'
  <1> DEFINE s == SlaveOf(address[p])
             w == WordIndex(s, address[p])
  <1>1. /\ p \in Priority /\ data[p] \in BlockIndex /\ address[p] \in Int
        /\ address[p] % 4 = 0 /\ get_slave(address[p]) # {} /\ shown' = shown
    BY ServeOutcome, PendingAddress DEF Word
  <1>2. s \in Slave /\ w \in 0 .. Size(s) - 1 /\ MEM[s][w] \in Value
    BY <1>1, WordOfSlave, WordInValue DEF DataType, WordAt
  <1>3. CASE UNCHANGED <<MEM, mydata>>
    BY <1>1, <1>3 DEF DataType, MemoryType, Size
  <1>4. CASE Answer(s) = "OK"
    <2>1. Moves(p, s)
      BY <1>4 DEF ServeWord
    <2>2. CASE do_write[p]
      <3> DEFINE v == mydata[p][data[p]]
      <3>1. MEM' = [MEM EXCEPT ![s][w] = v] /\ mydata' = mydata
        BY <2>1, <2>2 DEF Moves
      <3>2. v \in Value
        BY <1>1 DEF DataType
      <3> HIDE DEF s, w, v
      <3>3. MEM' = [MEM EXCEPT ![s] = [MEM[s] EXCEPT ![w] = v]]
        BY <3>1
      <3>4. [MEM[s] EXCEPT ![w] = v] \in [0 .. Size(s) - 1 -> Value]
        BY <1>2, <3>2 DEF DataType, MemoryType
      <3>5. MemoryType'
        BY <1>2, <3>3, <3>4 DEF DataType, MemoryType, Size
      <3> QED
        BY <1>1, <3>1, <3>5 DEF DataType
    <2>3. CASE ~do_write[p]
      <3>1. mydata' = [mydata EXCEPT ![p][data[p]] = MEM[s][w]] /\ MEM' = MEM
        BY <2>1, <2>3 DEF Moves
      <3>2. mydata' \in [Priority -> [BlockIndex -> Value]]
        BY <1>1, <1>2, <3>1 DEF DataType
      <3> QED
        BY <1>1, <3>1, <3>2 DEF DataType, MemoryType, Size
    <2> QED
      BY <2>2, <2>3
  <1> QED
    BY <1>3, <1>4 DEF ServeWord

LEMMA DataStep ==
  ASSUME FormsInv, DataType, [BenchNext]_bench_vars
  PROVE  DataType'
  <1> USE BenchFacts, BenchNumbers
  <1>1. CASE UNCHANGED <<MEM, mydata, shown>>
    BY <1>1 DEF DataType, MemoryType, Size
  <1>2. CASE BlockRead
    <2> DEFINE B == [i \in BlockIndex |-> (mydata[priority_b][i] + i) % ValueCount]
    <2>1. mydata' = [mydata EXCEPT ![priority_b] = B] /\ UNCHANGED <<MEM, shown>>
      BY <1>2 DEF BlockRead, memory_vars
    <2>2. B \in [BlockIndex -> Value]
      <3>1. \A i \in BlockIndex : mydata[priority_b][i] + i \in Int
        BY DEF DataType, Value, BlockIndex
      <3> QED
        BY <3>1, ModIsValue
    <2> HIDE DEF B
    <2>3. mydata' \in [Priority -> [BlockIndex -> Value]]
      BY <2>1, <2>2 DEF DataType
    <2> QED
      BY <2>1, <2>3 DEF DataType, MemoryType, Size
  <1>3. CASE WordRead
    <2> DEFINE v == (mydata[priority_nb][0] + cnt) % ValueCount
    <2>1. mydata' = [mydata EXCEPT ![priority_nb][0] = v] /\ UNCHANGED <<MEM, shown>>
      BY <1>3 DEF WordRead, memory_vars
    <2>2. v \in Value
      BY ModIsValue, RoundFacts DEF DataType, Value, FormsInv
    <2> HIDE DEF v
    <2>3. mydata' \in [Priority -> [BlockIndex -> Value]]
      BY <2>1, <2>2 DEF DataType
    <2> QED
      BY <2>1, <2>3 DEF DataType, MemoryType, Size
  <1>4. CASE Monitor
    <2>1. /\ UNCHANGED <<MEM, mydata>>
          /\ shown' = [i \in WindowIndex |-> direct_read(shown[i], m_address_d + 4 * i)]
      BY <1>4 DEF Monitor
    <2>2. \A i \in WindowIndex : direct_read(shown[i], m_address_d + 4 * i) \in Value
      BY WordInValue DEF direct_read, DataType, WindowIndex, WordAt
    <2>3. shown' \in [WindowIndex -> Value]
      BY <2>1, <2>2
    <2> QED
      BY <2>1, <2>3 DEF DataType, MemoryType, Size
  <1>5. CASE \E p \in Priority : ServeWord(p)
    BY <1>5, DataServed
  <1> QED
    BY <1>1, <1>2, <1>3, <1>4, <1>5
    DEF BenchNext, BlockMaster, WordMaster, BlockCall, BlockWritten, WordCall, WordWritten,
      RisingEdge, FallingBench, memory_vars, master_vars, bench_vars

\* Every variable of the test bench keeps its type.
THEOREM TestBenchTypes == BenchSpec => []BenchTypeOK
  <1>1. FormsInv /\ DataType /\ [BenchNext]_bench_vars => DataType'
    BY DataStep
  <1>2. FormsInv /\ CountInv /\ [BenchNext]_bench_vars => CountInv'
    BY CountStep
  <1>3. FormsInv /\ CountInv /\ DataType => BenchTypeOK
    <2> SUFFICES ASSUME FormsInv, CountInv, DataType PROVE BenchTypeOK
      OBVIOUS
    <2>1. TypeOK /\ clk \in {"high", "low"}
      BY DEF FormsInv, BusInv, TypeOK
    <2>2. m_wait_count \in -1 .. m_nr_wait_states
      BY <2>1, BenchNumbers DEF CountInv
    <2> QED
      BY <2>1, <2>2 DEF FormsInv, RoundInv, DataType, MemoryType, BenchTypeOK
  <1> QED
    BY <1>1, <1>2, <1>3, CountInit, DataInit, BenchForms, PTL DEF BenchSpec

-------------------------------------------------------------------------------
(* The update of one word *)

\* Between the end of the read of a word and the end of its write ...
Updating ==
    \/ at[master_nb] = "read" /\ pc[master_nb] = "poll" /\ status[priority_nb] = "OK"
    \/ at[master_nb] = "write" /\ ~WordDone

\* ... the buffer still agrees with the word, because the non-blocking master
\* is the next one the bus serves: no slave makes the other master wait, whose
\* lock, if it is set, was asked for in the meantime and not honoured yet.
Agrees ==
    /\ at[master_nb] = "read" => mydata[priority_nb][0] = WordAt(addr)
    /\ at[master_nb] = "write" => mydata[priority_nb][0] = (WordAt(addr) + (cnt - 1)) % ValueCount
IsNext ==
    /\ m_current_request = None /\ lock[priority_b] # "GRANTED"
    /\ lock[priority_b] = "SET" => status[priority_b] = "REQUEST"
    /\ at[master_nb] = "write" => clk = "high" /\ sleep[master_nb] = 0
UpdateInv ==
    Updating => Agrees /\ (m_current_request # priority_nb => IsNext)

BenchInv == FormsInv /\ DataType /\ UpdateInv

LEMMA UpdateInit == BenchInit => UpdateInv
  <1> SUFFICES ASSUME BenchInit PROVE UpdateInv
    OBVIOUS
  <1>1. at[master_nb] = "read" /\ pc[master_nb] = "idle"
    BY BenchFacts DEF BenchInit, Init
  <1> QED
    BY <1>1 DEF UpdateInv, Updating

\* While nothing is served, a word is being updated only as long as the
\* non-blocking master waits for its write.
LEMMA UpdatingAtEdge ==
  ASSUME FormsInv, UpdateInv, clk = "high", ~CanRun(master_nb)
  PROVE  /\ Updating => at[master_nb] = "write" /\ priority_nb \in Pending
         /\ ~Updating => at[master_nb] = "read"
  <1> USE BenchFacts
  <1>1. /\ status[priority_nb] \in {"REQUEST", "WAIT", "OK"} /\ pc[master_nb] \in {"idle", "poll"}
        /\ at[master_nb] \in {"read", "write"}
        /\ pc[master_nb] = "poll" => sleep[master_nb] = 0
    BY DEF FormsInv, BusInv, WordForm, TypeOK, Status, RoundInv
  <1>2. pc[master_nb] = "poll" => status[priority_nb] # "OK"
    BY <1>1 DEF CanRun, Runs, Final
  <1>3. pc[master_nb] = "idle" => ~(at[master_nb] = "write")
    <2> SUFFICES ASSUME pc[master_nb] = "idle", at[master_nb] = "write" PROVE FALSE
      OBVIOUS
    <2>1. Updating
      BY DEF Updating, WordDone
    <2>2. m_current_request # priority_nb
      BY PriorityIsNat DEF FormsInv, BusInv, CurrentWaits, ReturnsFinal, Final
    <2>3. sleep[master_nb] = 0
      BY <2>1, <2>2 DEF UpdateInv, IsNext
    <2> QED
      BY <2>3 DEF CanRun, Runs
  <1> QED
    BY <1>1, <1>2, <1>3 DEF Updating, WordDone, Pending

\* Then it is the one the bus serves.
LEMMA UpdatingIsServed ==
  ASSUME FormsInv, UpdateInv, Updating, priority_nb \in Pending
  PROVE  ToHandle = {priority_nb}
  <1> USE BenchFacts
  <1>1. CASE m_current_request = priority_nb
    BY <1>1, PriorityIsNat DEF ToHandle
  <1>2. CASE m_current_request # priority_nb
    <2>1. IsNext
      BY <1>2 DEF UpdateInv
    <2>2. LockedBurst(Pending, status, lock) = {}
      BY <1>2, <2>1 DEF LockedBurst, IsNext, Pending, FormsInv, WordForm
    <2>3. LockGranted(Pending, lock) \subseteq {priority_nb}
      BY <2>1 DEF LockGranted, IsNext, Pending
    <2>4. MostUrgent(Pending) = {priority_nb}
      BY DEF MostUrgent, Pending, priority_b, priority_nb
    <2>5. ToHandle = Arbitrate(Pending, status, lock)
      BY <2>1 DEF ToHandle, IsNext
    <2> QED
      BY <2>2, <2>3, <2>4, <2>5 DEF Arbitrate
  <1> QED
    BY <1>1, <1>2

\* An access moves one word: a write changes the memory at its address only, a
\* read the buffer at its pointer only.
LEMMA ServedWord ==
  ASSUME FormsInv, DataType, NEW p, ServeWord(p), Answer(SlaveOf(address[p])) = "OK"
  PROVE  /\ do_write[p] => /\ mydata' = mydata
                           /\ \A a \in MappedWords : WordAt(a)' =
                                IF a = address[p] THEN mydata[p][data[p]] ELSE WordAt(a)
         /\ ~do_write[p] => /\ MEM' = MEM
                            /\ mydata' = [mydata EXCEPT ![p][data[p]] = WordAt(address[p])]
  <1> DEFINE s == SlaveOf(address[p])
             w == WordIndex(s, address[p])
             v == mydata[p][data[p]]
  <1>1. address[p] \in MappedWords
    BY ServeOutcome, PendingAddress DEF MappedWords
  <1>2. Moves(p, s)
    BY DEF ServeWord
  <1>3. do_write[p] => MEM' = [MEM EXCEPT ![s][w] = v] /\ mydata' = mydata
    BY <1>2 DEF Moves
  <1>4. ~do_write[p] => /\ MEM' = MEM
                        /\ mydata' = [mydata EXCEPT ![p][data[p]] = WordAt(address[p])]
    BY <1>2 DEF Moves, WordAt
  <1>5. ASSUME do_write[p], NEW a \in MappedWords
        PROVE  WordAt(a)' = IF a = address[p] THEN v ELSE WordAt(a)
    <2> DEFINE t == SlaveOf(a)
               u == WordIndex(t, a)
    <2>1. /\ t \in Slave /\ u \in 0 .. Size(t) - 1 /\ a = StartAddress[t] + 4 * u
          /\ s \in Slave /\ w \in 0 .. Size(s) - 1 /\ address[p] = StartAddress[s] + 4 * w
      BY <1>1, WordOfSlave DEF MappedWords, Word
    <2>2. WordAt(a)' = MEM'[t][u] /\ WordAt(a) = MEM[t][u]
      BY DEF WordAt, SlaveOf, get_slave, WordIndex
    <2>3. MEM[t] \in [0 .. Size(t) - 1 -> Value] /\ MEM = [x \in Slave |-> MEM[x]]
      BY <2>1 DEF DataType, MemoryType
    <2>4. a = address[p] => t = s /\ u = w
      OBVIOUS
    <2>5. t = s /\ u = w => a = address[p]
      BY <2>1
    <2> HIDE DEF t, u, s, w, v
    <2>6. MEM'[t][u] = IF t = s /\ u = w THEN v ELSE MEM[t][u]
      <3>1. MEM' = [MEM EXCEPT ![s] = [MEM[s] EXCEPT ![w] = v]]
        BY <1>3, <1>5
      <3>2. CASE t = s
        BY <2>1, <2>3, <3>1, <3>2
      <3>3. CASE t # s
        BY <2>1, <2>3, <3>1, <3>3
      <3> QED
        BY <3>2, <3>3
    <2> QED
      BY <2>2, <2>4, <2>5, <2>6
  <1> QED
    BY <1>3, <1>4, <1>5

LEMMA WordAtStays ==
  ASSUME MEM' = MEM
  PROVE  \A a : WordAt(a)' = WordAt(a)
  BY DEF WordAt, SlaveOf, get_slave, WordIndex

LEMMA AgreesStays ==
  ASSUME Agrees, UNCHANGED <<MEM, addr, cnt>>, at'[master_nb] = at[master_nb],
         mydata'[priority_nb][0] = mydata[priority_nb][0]
  PROVE  Agrees'
  <1>1. WordAt(addr)' = WordAt(addr)
    BY DEF WordAt, SlaveOf, get_slave, WordIndex
  <1> QED
    BY <1>1 DEF Agrees

\* A step that leaves the non-blocking master and the clock alone.
LEMMA UpdateStays ==
  ASSUME UpdateInv, UNCHANGED <<MEM, addr, cnt, clk, m_current_request, lock, status>>,
         at'[master_nb] = at[master_nb], sleep'[master_nb] = sleep[master_nb],
         pc'[master_nb] = pc[master_nb], mydata'[priority_nb][0] = mydata[priority_nb][0]
  PROVE  UpdateInv'
  <1>1. Updating' => Updating
    BY DEF Updating, WordDone
  <1>2. Updating => Agrees'
    BY AgreesStays DEF UpdateInv
  <1>3. IsNext => IsNext'
    BY DEF IsNext
  <1> QED
    BY <1>1, <1>2, <1>3 DEF UpdateInv

LEMMA UpdateBlockCall ==
  ASSUME FormsInv, UpdateInv, BlockCall
  PROVE  UpdateInv'
  <1> USE BenchFacts
  <1>t. TypeOK
    BY DEF FormsInv, BusInv
  <1>1. /\ pc[master_b] = "idle" /\ pc' = [pc EXCEPT ![master_b] = "transfer"]
        /\ UNCHANGED <<clk, m_current_request, MEM, mydata, at, sleep, addr, cnt>>
    BY BlockCallOutcome DEF memory_vars, master_vars
  <1>2. PICK flag \in BOOLEAN : Fill(priority_b, CallOf(master_b, m_address, mylength), flag)
    BY BlockCallOutcome
  <1>3. pc'[master_nb] = pc[master_nb] /\ status'[priority_nb] = status[priority_nb]
        /\ status'[priority_b] = "REQUEST"
    BY <1>t, <1>1, <1>2, FillOutcome DEF TypeOK
  <1>4. Updating' => Updating
    BY <1>1, <1>3 DEF Updating, WordDone
  <1>5. Updating => Agrees'
    BY <1>1, AgreesStays DEF UpdateInv
  <1>6. IsNext => IsNext'
    <2> SUFFICES ASSUME IsNext PROVE IsNext'
      OBVIOUS
    <2>1. lock[priority_b] = "NO"
      <3>1. status[priority_b] \in Final /\ lock[priority_b] \in LockStatus
        BY <1>t, <1>1 DEF FormsInv, BusInv, ReturnsFinal, TypeOK
      <3> QED
        BY <3>1 DEF IsNext, Final, LockStatus
    <2>2. lock'[priority_b] \in {"NO", "SET"}
      BY <1>t, <1>2, <2>1 DEF Fill, AskLock, TypeOK
    <2> QED
      BY <1>1, <1>3, <2>2 DEF IsNext
  <1> QED
    BY <1>1, <1>4, <1>5, <1>6 DEF UpdateInv

\* The write of a word is asked for while it is still the next thing to do.
LEMMA UpdateWordCall ==
  ASSUME FormsInv, UpdateInv, WordCall
  PROVE  UpdateInv'
  <1> USE BenchFacts
  <1>t. TypeOK
    BY DEF FormsInv, BusInv
  <1>1. /\ pc[master_nb] = "idle"
        /\ UNCHANGED <<clk, m_current_request, MEM, mydata, at, sleep, addr, cnt>>
    BY WordCallOutcome DEF memory_vars, master_vars
  <1>2. PICK flag \in BOOLEAN : Fill(priority_nb, CallOf(master_nb, addr, 1), flag)
    BY WordCallOutcome
  <1>3. /\ status'[priority_nb] = "REQUEST" /\ status'[priority_b] = status[priority_b]
        /\ lock'[priority_b] = lock[priority_b]
    BY <1>2, FillOutcome
  <1>4. CASE at[master_nb] # "write"
    BY <1>1, <1>3, <1>4 DEF UpdateInv, Updating, WordDone
  <1>5. CASE at[master_nb] = "write"
    <2>1. Updating
      BY <1>1, <1>5 DEF Updating, WordDone
    <2>2. m_current_request # priority_nb
      BY <1>1, PriorityIsNat DEF FormsInv, BusInv, CurrentWaits, ReturnsFinal, Final
    <2>3. Agrees' /\ IsNext
      BY <1>1, <2>1, <2>2, AgreesStays DEF UpdateInv
    <2> QED
      BY <1>1, <1>3, <2>3 DEF UpdateInv, IsNext
  <1> QED
    BY <1>4, <1>5

\* The counter is added to the word in the cycle in which its read is seen.
LEMMA UpdateWordRead ==
  ASSUME FormsInv, DataType, UpdateInv, WordRead
  PROVE  UpdateInv'
  <1> USE BenchFacts
  <1>t. TypeOK /\ RoundInv
    BY DEF FormsInv, BusInv
  <1>1. /\ clk = "high" /\ at[master_nb] = "read" /\ GetStatus(master_nb)
        /\ mydata' = [mydata EXCEPT ![priority_nb][0] = (@ + cnt) % ValueCount]
        /\ cnt' = cnt + 1 /\ at' = [at EXCEPT ![master_nb] = "write"]
        /\ sleep' = [sleep EXCEPT ![master_nb] = 0] /\ UNCHANGED <<MEM, addr>>
    BY DEF WordRead, Runs, ReadToWrite, memory_vars
  <1>2. /\ pc[master_nb] = "poll" /\ status[priority_nb] = "OK"
        /\ UNCHANGED <<clk, m_current_request, lock, status>>
    BY <1>1 DEF GetStatus, Final, FormsInv, WordForm
  <1>3. m_current_request # priority_nb
    BY <1>2, PriorityIsNat DEF FormsInv, BusInv, CurrentWaits
  <1>4. Agrees /\ IsNext
    BY <1>1, <1>2, <1>3 DEF UpdateInv, Updating
  <1>5. at'[master_nb] = "write" /\ sleep'[master_nb] = 0
    BY <1>t, <1>1 DEF RoundInv
  <1>6. IsNext'
    BY <1>1, <1>2, <1>4, <1>5 DEF IsNext
  <1>7. WordAt(addr)' = WordAt(addr)
    BY <1>1 DEF WordAt, SlaveOf, get_slave, WordIndex
  <1>8. mydata'[priority_nb][0] = (WordAt(addr) + cnt) % ValueCount
    BY <1>1, <1>4, BenchNumbers DEF DataType, Agrees
  <1>9. cnt' - 1 = cnt
    BY <1>t, <1>1, RoundFacts
  <1>10. Agrees'
    BY <1>5, <1>7, <1>8, <1>9 DEF Agrees
  <1> QED
    BY <1>6, <1>10 DEF UpdateInv

LEMMA UpdateServed ==
  ASSUME BenchInv, ~CanRun(master_nb), NEW p, ServeWord(p)
  PROVE  UpdateInv'
  <1> USE BenchFacts
  <1>t. /\ FormsInv /\ DataType /\ UpdateInv /\ TypeOK
        /\ p \in Pending /\ p \in Priority /\ p \in ToHandle
    BY ServeOutcome DEF BenchInv, FormsInv, BusInv, Pending
  <1>u. /\ at' = at /\ sleep' = sleep /\ addr' = addr /\ cnt' = cnt /\ clk = "high"
        /\ SlaveOK(p) \/ SlaveWait(p)
    BY <1>t, ServeOutcome DEF SlaveOK, SlaveWait, FallingEdge
  <1>m. pc'[master_nb] = pc[master_nb]
    BY <1>t, <1>u DEF SlaveOK, SlaveWait, Notified, FormsInv, WordForm
  <1>1. CASE Updating
    <2>1. at[master_nb] = "write" /\ p = priority_nb
      BY <1>1, <1>t, <1>u, UpdatingAtEdge, UpdatingIsServed
    <2>2. pc[master_nb] = "poll"
      BY <1>t, <2>1, PendingAddress
    <2>3. CASE Answer(SlaveOf(address[p])) = "OK"
      <3>1. status'[priority_nb] = "OK"
        BY <1>t, <2>1, <2>3, ServeOutcome, WordIsDone DEF SlaveOK, TypeOK
      <3> QED
        BY <1>u, <1>m, <2>1, <2>2, <3>1 DEF UpdateInv, Updating, WordDone
    <2>4. CASE Answer(SlaveOf(address[p])) # "OK"
      <3>1. m_current_request' = priority_nb
        BY <1>t, <2>1, <2>4, ServeOutcome DEF SlaveWait
      <3>2. UNCHANGED <<MEM, mydata>>
        BY <2>4 DEF ServeWord
      <3>3. Agrees'
        BY <1>1, <1>t, <1>u, <3>2, AgreesStays DEF UpdateInv
      <3> QED
        BY <3>1, <3>3 DEF UpdateInv
    <2> QED
      BY <2>3, <2>4
  <1>2. CASE ~Updating
    <2>1. at[master_nb] = "read"
      BY <1>2, <1>t, <1>u, UpdatingAtEdge
    <2> SUFFICES ASSUME Updating' PROVE Agrees' /\ IsNext'
      BY DEF UpdateInv
    <2>2. pc[master_nb] = "poll" /\ status'[priority_nb] = "OK" /\ status[priority_nb] # "OK"
      BY <1>2, <1>u, <1>m, <2>1 DEF Updating, WordDone
    <2>3. p = priority_nb
      BY <1>t, <1>u, <2>2, ServedForms
    <2>4. SlaveOK(p) /\ Answer(SlaveOf(address[p])) = "OK"
      <3>1. ~SlaveWait(p)
        BY <1>t, <2>2, <2>3 DEF SlaveWait, TypeOK
      <3> QED
        BY <1>u, <3>1, ServeOutcome, <1>t
    <2>5. address[p] = addr /\ data[p] = 0 /\ ~do_write[p]
      BY <1>t, <2>1, <2>3, PendingAddress
    <2>6. MEM' = MEM /\ mydata' = [mydata EXCEPT ![p][0] = WordAt(addr)]
      BY <1>t, <2>4, <2>5, ServedWord
    <2>7. mydata'[priority_nb][0] = WordAt(addr)
      BY <1>t, <2>3, <2>6, BenchNumbers DEF DataType
    <2>8. WordAt(addr)' = WordAt(addr)
      BY <1>u, <2>6 DEF WordAt, SlaveOf, get_slave, WordIndex
    <2>9. Agrees'
      BY <1>u, <2>1, <2>7, <2>8 DEF Agrees
    <2>10. m_current_request' = None /\ lock' = clear_locks(LockTaken(p))
           /\ status'[priority_b] = status[priority_b]
      BY <1>t, <2>3, <2>4, ServedForms DEF SlaveOK
    <2>11. lock'[priority_b] = IF lock[priority_b] = "GRANTED" THEN "SET" ELSE "NO"
      BY <1>t, <2>3, <2>10, LockTakenElsewhere DEF clear_locks
    <2>12. lock[priority_b] = "GRANTED" => status[priority_b] = "REQUEST"
      <3>1. m_current_request # priority_b
        BY <1>t, <2>3, PriorityIsNat DEF ToHandle
      <3> QED
        BY <1>t, <3>1 DEF FormsInv, BusInv, LockInv
    <2>13. IsNext'
      BY <1>u, <2>1, <2>10, <2>11, <2>12 DEF IsNext
    <2> QED
      BY <2>9, <2>13
  <1> QED
    BY <1>1, <1>2

LEMMA UpdateStep ==
  ASSUME BenchInv, [BenchNext]_bench_vars
  PROVE  UpdateInv'
  <1> USE BenchFacts
  <1>t. FormsInv /\ DataType /\ UpdateInv /\ TypeOK
    BY DEF BenchInv, FormsInv, BusInv
  <1>1. CASE BlockCall \/ WordCall \/ WordRead
    BY <1>1, <1>t, UpdateBlockCall, UpdateWordCall, UpdateWordRead
  <1>2. CASE BlockRead \/ BlockWritten
    <2>1. /\ Return(master_b) /\ UNCHANGED <<MEM, addr, cnt>>
          /\ \E x : at' = [at EXCEPT ![master_b] = x]
          /\ \E x : sleep' = [sleep EXCEPT ![master_b] = x]
          /\ \E x : mydata' = [mydata EXCEPT ![priority_b] = x] \/ mydata' = mydata
      BY <1>2 DEF BlockRead, BlockWritten, memory_vars
    <2>2. /\ pc'[master_nb] = pc[master_nb]
          /\ UNCHANGED <<clk, m_current_request, lock, status>>
      BY <1>t, <2>1 DEF Return, TypeOK
    <2>3. at'[master_nb] = at[master_nb] /\ sleep'[master_nb] = sleep[master_nb]
      BY <1>t, <2>1 DEF FormsInv, RoundInv
    <2>4. mydata'[priority_nb][0] = mydata[priority_nb][0]
      BY <1>t, <2>1 DEF DataType
    <2> QED
      BY <1>t, <2>1, <2>2, <2>3, <2>4, UpdateStays
  <1>3. CASE WordWritten
    <2>1. at' = [at EXCEPT ![master_nb] = "read"] /\ GetStatus(master_nb)
      BY <1>3 DEF WordWritten
    <2>2. at'[master_nb] = "read" /\ pc'[master_nb] = "idle"
      BY <1>t, <2>1 DEF GetStatus, TypeOK, FormsInv, RoundInv
    <2> QED
      BY <2>2 DEF UpdateInv, Updating
  <1>4. CASE Monitor
    <2>1. /\ UNCHANGED <<vars, MEM, mydata, at, addr, cnt>>
          /\ sleep'[master_nb] = sleep[master_nb]
      BY <1>4, <1>t DEF Monitor, FormsInv, RoundInv
    <2> QED
      BY <1>t, <2>1, UpdateStays DEF vars
  <1>5. CASE RisingEdge
    <2>1. /\ clk = "low" /\ clk' = "high" /\ UNCHANGED <<m_current_request, lock, status>>
          /\ UNCHANGED <<MEM, mydata, at, addr, cnt>>
          /\ sleep[master_nb] = 0 => sleep'[master_nb] = 0
          /\ pc[master_nb] \in {"idle", "poll"} => pc'[master_nb] = pc[master_nb]
      BY <1>5 DEF RisingEdge, PosEdge
    <2>2. Updating' => Updating
      BY <1>t, <2>1 DEF Updating, WordDone, FormsInv, WordForm
    <2>3. Updating => Agrees'
      BY <1>t, <2>1, AgreesStays DEF UpdateInv
    <2>4. IsNext => IsNext'
      BY <2>1 DEF IsNext
    <2> QED
      BY <1>t, <2>1, <2>2, <2>3, <2>4 DEF UpdateInv
  <1>6. CASE FallingBench
    <2>0. ~CanRun(master_nb)
      BY <1>6 DEF FallingBench
    <2>1. CASE NothingPending /\ UNCHANGED <<memory_vars, master_vars>>
      <3>1. /\ clk = "high" /\ ToHandle = {} /\ UNCHANGED <<pc, status>>
            /\ UNCHANGED <<at, m_current_request>>
        BY <2>1 DEF NothingPending, FallingEdge, master_vars
      <3>2. ~Updating
        BY <1>t, <2>0, <3>1, UpdatingAtEdge, UpdatingIsServed
      <3> QED
        BY <3>1, <3>2 DEF UpdateInv, Updating, WordDone
    <2>2. CASE \E p \in Priority : ServeWord(p)
      BY <2>0, <2>2, UpdateServed
    <2> QED
      BY <1>6, <2>1, <2>2 DEF FallingBench
  <1>7. CASE UNCHANGED bench_vars
    BY <1>t, <1>7, UpdateStays DEF bench_vars, memory_vars, master_vars, vars
  <1> QED
    BY <1>1, <1>2, <1>3, <1>4, <1>5, <1>6, <1>7 DEF BenchNext, BlockMaster, WordMaster

LEMMA BenchUpdates == BenchSpec => []BenchInv
  <1>1. FormsInv /\ DataType /\ [BenchNext]_bench_vars => DataType'
    BY DataStep
  <1>2. BenchInv /\ [BenchNext]_bench_vars => UpdateInv'
    BY UpdateStep
  <1>3. BenchInv <=> FormsInv /\ DataType /\ UpdateInv
    BY DEF BenchInv
  <1> QED
    BY <1>1, <1>2, <1>3, DataInit, UpdateInit, BenchForms, PTL DEF BenchSpec

-------------------------------------------------------------------------------
(* The programs of SharedMemory *)

\* The words of the monitor are in a memory, as those at 0x78 are: its reads
\* never fail.
WatchedMapped ==
    \A i \in WindowIndex : (m_address_d + 4 * i) % 4 = 0 /\ get_slave(m_address_d + 4 * i) # {}

\* What the programs of SharedMemory see of the memories and of the masters.
block_view == <<mydata[priority_b], at[master_b], BlockDone>>
view == <<OneMemory, block_view, Turn, shown>>

LEMMA ViewIsVars == UNCHANGED view => UNCHANGED Mapping!vars
  BY DEF view, block_view, Mapping!vars

LEMMA MemoryView ==
  /\ OneMemory' = [a \in MappedWords |-> WordAt(a)']
  /\ MEM' = MEM => OneMemory' = OneMemory
  <1>1. OneMemory' = [a \in MappedWords |-> WordAt(a)']
    BY DEF OneMemory, MappedWords, get_slave
  <1> QED
    BY <1>1, WordAtStays DEF OneMemory

\* The block master is seen as before.
LEMMA BlockView ==
  ASSUME FormsInv, pc'[master_b] = pc[master_b], data'[priority_b] = data[priority_b],
         at'[master_b] = at[master_b], mydata'[priority_b] = mydata[priority_b]
  PROVE  UNCHANGED block_view
  BY DEF block_view, BlockDone

\* Which word the other one is at.
LEMMA TurnView ==
  ASSUME FormsInv, status'[priority_nb] = "OK" <=> status[priority_nb] = "OK",
         pc'[master_nb] = pc[master_nb],
         at'[master_nb] = at[master_nb], addr' = addr, cnt' = cnt
  PROVE  Turn' = Turn
  BY DEF Turn, WordDone, Wraps

\* A step of the bus that moves no word is not seen.
LEMMA QuietServe ==
  ASSUME BenchInv, ~CanRun(master_nb), NEW p, ServeWord(p), SlaveWait(p)
  PROVE  UNCHANGED view
  <1> USE BenchFacts
  <1>1. /\ FormsInv /\ TypeOK /\ p \in Pending /\ p \in Priority
        /\ UNCHANGED <<at, addr, cnt, shown>>
    BY ServeOutcome DEF BenchInv, FormsInv, BusInv, Pending
  <1>2. Answer(SlaveOf(address[p])) # "OK"
    <2>1. SlaveOK(p) => data' # data
      <3>1. SlaveOK(p) => data'[p] = data[p] + 1 /\ data[p] \in Nat
        BY <1>1 DEF SlaveOK, NextPointer, TypeOK
      <3> QED
        BY <3>1
    <2> QED
      BY <1>1, <2>1, ServeOutcome DEF SlaveWait
  <1>3. UNCHANGED <<MEM, mydata>>
    BY <1>2 DEF ServeWord
  <1>4. /\ status'[priority_nb] = "OK" <=> status[priority_nb] = "OK"
        /\ pc' = pc /\ data' = data
    BY <1>1 DEF SlaveWait, TypeOK, Pending
  <1>5. UNCHANGED block_view /\ Turn' = Turn
    BY <1>1, <1>3, <1>4, BlockView, TurnView
  <1> QED
    BY <1>1, <1>3, <1>5, MemoryView DEF view

\* A word of the block is moved: one word is read or written.
LEMMA BlockMoves ==
  ASSUME BenchInv, ServeWord(priority_b), Answer(SlaveOf(address[priority_b])) = "OK"
  PROVE  Mapping!Next
  <1> USE BenchFacts
  <1> DEFINE p == priority_b
             i == data[p]
  <1>1. /\ FormsInv /\ DataType /\ TypeOK /\ p \in Pending /\ SlaveOK(p)
        /\ UNCHANGED <<at, addr, cnt, shown>>
    BY ServeOutcome DEF BenchInv, FormsInv, BusInv
  <1>2. /\ pc[master_b] = "transfer" /\ i \in BlockIndex /\ address[p] = BlockWords[i]
        /\ do_write[p] <=> at[master_b] = "write"
        /\ address[p] \in MappedWords
    BY <1>1, PendingAddress DEF BlockWords, MappedWords
  <1>3. pc'[master_b] \in {"transfer", "edge"} /\ pc'[master_nb] = pc[master_nb]
        /\ data'[p] = i + 1 /\ status'[priority_nb] = status[priority_nb]
    BY <1>1, <1>2 DEF SlaveOK, Notified, NextPointer, TypeOK
  <1>4. Turn' = Turn
    BY <1>1, <1>3, TurnView
  <1>5. BlockDone = i /\ BlockDone' = i + 1 /\ i < mylength
    BY <1>2, <1>3, BenchNumbers DEF BlockDone, BlockIndex
  <1>6. CASE do_write[p]
    <2>1. /\ mydata' = mydata
          /\ \A a \in MappedWords : WordAt(a)' =
               IF a = address[p] THEN mydata[p][i] ELSE WordAt(a)
      BY <1>1, <1>6, ServedWord
    <2>2. OneMemory' = [OneMemory EXCEPT ![BlockWords[i]] = mydata[p][i]]
      BY <1>2, <2>1, MemoryView DEF OneMemory
    <2>3. at[master_b] = "write"
      BY <1>2, <1>6
    <2>4. Mapping!WriteWord
      BY <1>1, <1>4, <1>5, <2>1, <2>2, <2>3 DEF Mapping!WriteWord
    <2> QED
      BY <2>4 DEF Mapping!Next, Mapping!BurstStep
  <1>7. CASE ~do_write[p]
    <2>1. MEM' = MEM /\ mydata' = [mydata EXCEPT ![p][i] = WordAt(address[p])]
      BY <1>1, <1>7, ServedWord
    <2>2. at[master_b] = "read"
      BY <1>1, <1>2, <1>7 DEF FormsInv, RoundInv
    <2>3. OneMemory[BlockWords[i]] = WordAt(address[p])
      BY <1>2 DEF OneMemory
    <2>4. mydata'[p] = [mydata[p] EXCEPT ![i] = OneMemory[BlockWords[i]]]
      BY <1>1, <2>1, <2>3 DEF DataType
    <2>5. Mapping!ReadWord
      BY <1>1, <1>4, <1>5, <2>1, <2>2, <2>4, MemoryView DEF Mapping!ReadWord
    <2> QED
      BY <2>5 DEF Mapping!Next, Mapping!BurstStep
  <1> QED
    BY <1>6, <1>7

\* The word of the other master is read unseen, and written in the step that
\* adds the counter to what the word is at that moment.
LEMMA WordMoves ==
  ASSUME BenchInv, ~CanRun(master_nb), ServeWord(priority_nb),
         Answer(SlaveOf(address[priority_nb])) = "OK"
  PROVE  Mapping!Next \/ UNCHANGED view
  <1> USE BenchFacts
  <1> DEFINE p == priority_nb
  <1>1. /\ FormsInv /\ DataType /\ UpdateInv /\ TypeOK /\ RoundInv /\ p \in Pending /\ SlaveOK(p)
        /\ UNCHANGED <<at, addr, cnt, shown>>
    BY ServeOutcome DEF BenchInv, FormsInv, BusInv
  <1>2. /\ pc[master_nb] = "poll" /\ data[p] = 0 /\ address[p] = addr
        /\ do_write[p] <=> at[master_nb] = "write"
        /\ address[p] \in MappedWords
    BY <1>1, PendingAddress DEF MappedWords
  <1>3. /\ pc'[master_b] = pc[master_b] /\ pc'[master_nb] = "poll"
        /\ data'[priority_b] = data[priority_b]
        /\ status'[p] = "OK" /\ status[p] # "OK"
    BY <1>1, <1>2, WordIsDone DEF SlaveOK, Notified, TypeOK, Pending
  <1>4. CASE do_write[p]
    <2>1. /\ mydata' = mydata
          /\ \A a \in MappedWords : WordAt(a)' =
               IF a = address[p] THEN mydata[p][0] ELSE WordAt(a)
      BY <1>1, <1>2, <1>4, ServedWord
    <2>2. at[master_nb] = "write" /\ Turn = cnt - 1 /\ Turn' = IF Wraps THEN 0 ELSE cnt
      BY <1>1, <1>2, <1>3, <1>4 DEF Turn, WordDone, Wraps
    <2>3. mydata[p][0] = (WordAt(addr) + Turn) % ValueCount
      BY <1>1, <1>3, <2>2 DEF UpdateInv, Updating, WordDone, Agrees
    <2>4. /\ Turn \in 0 .. Span \div 4 /\ addr = RoundWords[Turn]
          /\ Turn' = IF Turn = Span \div 4 THEN 0 ELSE Turn + 1
      <3>1. /\ cnt \in 1 .. (Span \div 4) + 1 /\ addr = m_start_address + 4 * (cnt - 1)
            /\ addr \in m_start_address .. m_start_address + Span
        BY <1>1, <2>2 DEF RoundInv
      <3>2. Turn \in 0 .. Span \div 4 /\ addr = m_start_address + 4 * Turn
        BY <2>2, <3>1, BenchNumbers
      <3>3. Wraps <=> Turn = Span \div 4
        BY <2>2, <3>1, <3>2, BenchNumbers DEF Wraps
      <3>4. cnt = Turn + 1
        BY <2>2, <3>1
      <3> QED
        BY <2>2, <3>2, <3>3, <3>4 DEF RoundWords
    <2>5. OneMemory' = [OneMemory EXCEPT ![RoundWords[Turn]] =
                          (OneMemory[RoundWords[Turn]] + Turn) % ValueCount]
      BY <1>2, <2>1, <2>3, <2>4, MemoryView DEF OneMemory
    <2>6. UNCHANGED block_view
      BY <1>1, <1>3, <2>1, BlockView
    <2>7. Mapping!Add
      BY <1>1, <2>4, <2>5, <2>6 DEF Mapping!Add, Mapping!burst_vars, block_view
    <2> QED
      BY <2>7 DEF Mapping!Next
  <1>5. CASE ~do_write[p]
    <2>1. MEM' = MEM /\ mydata' = [mydata EXCEPT ![p][data[p]] = WordAt(address[p])]
      BY <1>1, <1>5, ServedWord
    <2>2. mydata'[priority_b] = mydata[priority_b]
      BY <1>1, <2>1 DEF DataType
    <2>3. Turn' = Turn
      BY <1>1, <1>2, <1>5 DEF Turn, WordDone
    <2>4. UNCHANGED block_view
      BY <1>1, <1>3, <2>2, BlockView
    <2> QED
      BY <1>1, <2>1, <2>3, <2>4, MemoryView DEF view
  <1> QED
    BY <1>4, <1>5

\* The last word of a burst is done before the block master goes on.
LEMMA BlockReturns ==
  ASSUME FormsInv, Return(master_b)
  PROVE  /\ BlockDone = mylength /\ BlockDone' = 0
         /\ pc'[master_nb] = pc[master_nb] /\ status' = status
  <1> USE BenchFacts
  <1>1. TypeOK /\ pc[master_b] = "ready" /\ status[priority_b] \in Final
    BY DEF FormsInv, BusInv, ReturnsFinal, Return
  <1>2. status[priority_b] = "OK" /\ asked[priority_b].length = mylength
    BY <1>1 DEF FormsInv, BlockForm, Final
  <1>3. data[priority_b] = mylength
    BY <1>2 DEF FormsInv, WordsInv, OKMeansAllWords
  <1> QED
    BY <1>1, <1>3 DEF BlockDone, Return, TypeOK

LEMMA BenchStepIsProgramStep ==
  ASSUME WatchedMapped, BenchInv, [BenchNext]_bench_vars
  PROVE  Mapping!Next \/ UNCHANGED view
  <1> USE BenchFacts
  <1>t. FormsInv /\ DataType /\ TypeOK /\ RoundInv
    BY DEF BenchInv, FormsInv, BusInv
  <1>1. CASE BlockCall
    <2>1. /\ pc[master_b] = "idle" /\ pc' = [pc EXCEPT ![master_b] = "transfer"]
          /\ UNCHANGED <<memory_vars, master_vars>>
      BY <1>1, <1>t, BlockCallOutcome
    <2>2. PICK flag \in BOOLEAN : Fill(priority_b, CallOf(master_b, m_address, mylength), flag)
      BY <1>1, <1>t, BlockCallOutcome
    <2>3. data'[priority_b] = 0 /\ status'[priority_nb] = status[priority_nb]
      BY <1>t, <2>2, FillOutcome
    <2>4. pc'[master_nb] = pc[master_nb] /\ pc'[master_b] = "transfer"
      BY <1>t, <2>1 DEF TypeOK
    <2>5. BlockDone' = BlockDone
      BY <2>1, <2>3, <2>4 DEF BlockDone
    <2>6. Turn' = Turn
      BY <1>t, <2>1, <2>3, <2>4, TurnView DEF master_vars
    <2> QED
      BY <2>1, <2>5, <2>6, MemoryView DEF view, block_view, master_vars, memory_vars
  <1>2. CASE WordCall
    <2>1. /\ pc[master_nb] = "idle" /\ pc' = [pc EXCEPT ![master_nb] = "poll"]
          /\ UNCHANGED <<memory_vars, master_vars>>
      BY <1>2, <1>t, WordCallOutcome
    <2>2. PICK flag \in BOOLEAN : Fill(priority_nb, CallOf(master_nb, addr, 1), flag)
      BY <1>2, <1>t, WordCallOutcome
    <2>3. data'[priority_b] = data[priority_b] /\ status'[priority_nb] = "REQUEST"
      BY <1>t, <2>2, FillOutcome
    <2>4. pc'[master_b] = pc[master_b]
      BY <1>t, <2>1 DEF TypeOK
    <2>5. UNCHANGED block_view
      BY <1>t, <2>1, <2>3, <2>4, BlockView DEF master_vars
    <2>6. Turn' = Turn
      BY <2>1, <2>3 DEF Turn, WordDone, Wraps, master_vars
    <2> QED
      BY <2>1, <2>5, <2>6, MemoryView DEF view, master_vars, memory_vars
  <1>3. CASE BlockRead
    <2>1. /\ Return(master_b) /\ at[master_b] = "read" /\ at' = [at EXCEPT ![master_b] = "write"]
          /\ mydata' = [mydata EXCEPT ![priority_b] =
               [i \in BlockIndex |-> (@[i] + i) % ValueCount]]
          /\ UNCHANGED <<MEM, addr, cnt, shown>>
      BY <1>3 DEF BlockRead, memory_vars
    <2>2. at'[master_b] = "write" /\ at'[master_nb] = at[master_nb]
      BY <1>t, <2>1 DEF RoundInv
    <2>3. mydata'[priority_b] =
            [i \in DOMAIN mydata[priority_b] |-> (mydata[priority_b][i] + i) % ValueCount]
      BY <1>t, <2>1 DEF DataType
    <2>4. Turn' = Turn
      BY <1>t, <2>1, <2>2, BlockReturns, TurnView
    <2>5. Mapping!AddIndices
      BY <1>t, <2>1, <2>2, <2>3, <2>4, BlockReturns, MemoryView DEF Mapping!AddIndices
    <2> QED
      BY <2>5 DEF Mapping!Next, Mapping!BurstStep
  <1>4. CASE BlockWritten
    <2>1. /\ Return(master_b) /\ at[master_b] = "write" /\ at' = [at EXCEPT ![master_b] = "read"]
          /\ UNCHANGED <<MEM, mydata, addr, cnt, shown>>
      BY <1>4 DEF BlockWritten, memory_vars
    <2>2. at'[master_b] = "read" /\ at'[master_nb] = at[master_nb]
      BY <1>t, <2>1 DEF RoundInv
    <2>3. Turn' = Turn
      BY <1>t, <2>1, <2>2, BlockReturns, TurnView
    <2>4. Mapping!StartAgain
      BY <1>t, <2>1, <2>2, <2>3, BlockReturns, MemoryView DEF Mapping!StartAgain
    <2> QED
      BY <2>4 DEF Mapping!Next, Mapping!BurstStep
  <1>5. CASE WordRead \/ WordWritten
    <2>1. /\ GetStatus(master_nb) /\ UNCHANGED <<MEM, shown>>
          /\ \E x : at' = [at EXCEPT ![master_nb] = x]
          /\ mydata' = mydata \/ \E x : mydata' = [mydata EXCEPT ![priority_nb][0] = x]
      BY <1>5 DEF WordRead, WordWritten, memory_vars
    <2>2. /\ pc[master_nb] = "poll" /\ pc'[master_nb] = "idle" /\ pc'[master_b] = pc[master_b]
          /\ data' = data /\ status[priority_nb] = "OK"
      BY <1>t, <2>1 DEF GetStatus, TypeOK, Final, FormsInv, WordForm
    <2>3. at'[master_b] = at[master_b] /\ mydata'[priority_b] = mydata[priority_b]
      BY <1>t, <2>1 DEF RoundInv, DataType
    <2>4. UNCHANGED block_view
      BY <1>t, <2>2, <2>3, BlockView
    <2>5. Turn' = Turn
      <3>1. CASE WordRead
        <4>1. at[master_nb] = "read" /\ at'[master_nb] = "write" /\ cnt' = cnt + 1
          BY <1>t, <3>1 DEF WordRead, RoundInv
        <4>2. Turn = cnt /\ Turn' = cnt' - 1
          BY <2>2, <4>1 DEF Turn, WordDone
        <4> QED
          BY <1>t, <4>1, <4>2, RoundFacts
      <3>2. CASE WordWritten
        <4>1. /\ at[master_nb] = "write" /\ at'[master_nb] = "read"
              /\ cnt' = IF Wraps THEN 0 ELSE cnt
          BY <1>t, <3>2 DEF WordWritten, RoundInv
        <4>2. Turn = (IF Wraps THEN 0 ELSE cnt) /\ Turn' = cnt'
          BY <2>2, <4>1 DEF Turn, WordDone, Wraps
        <4> QED
          BY <4>1, <4>2
      <3> QED
        BY <1>5, <3>1, <3>2
    <2> QED
      BY <2>1, <2>4, <2>5, MemoryView DEF view
  <1>6. CASE Monitor
    <2>1. /\ UNCHANGED <<vars, MEM, mydata, at, addr, cnt>>
          /\ shown' = [i \in WindowIndex |-> direct_read(shown[i], m_address_d + 4 * i)]
      BY <1>6 DEF Monitor
    <2>2. ASSUME NEW i \in WindowIndex
          PROVE  direct_read(shown[i], m_address_d + 4 * i) = OneMemory[WindowWords[i]]
      <3>1. /\ (m_address_d + 4 * i) % 4 = 0 /\ get_slave(m_address_d + 4 * i) # {}
            /\ m_address_d + 4 * i \in Nat /\ WindowWords[i] = m_address_d + 4 * i
        BY BenchNumbers DEF WatchedMapped, WindowIndex, WindowWords
      <3>2. m_address_d + 4 * i \in MappedWords
        BY <3>1, SlaveAssumption, SpaceAssumption DEF MappedWords, get_slave, Word
      <3> QED
        BY <3>1, <3>2 DEF direct_read, OneMemory, WordAt
    <2>3. shown' = [i \in DOMAIN WindowWords |-> OneMemory[WindowWords[i]]]
      BY <2>1, <2>2 DEF WindowWords
    <2>4. UNCHANGED block_view /\ Turn' = Turn
      BY <1>t, <2>1, BlockView, TurnView DEF vars
    <2>5. Mapping!Observe
      BY <2>1, <2>3, <2>4, MemoryView DEF Mapping!Observe, Mapping!burst_vars, block_view
    <2> QED
      BY <2>5 DEF Mapping!Next
  <1>7. CASE RisingEdge
    <2>1. /\ UNCHANGED <<status, data, MEM, mydata, at, addr, cnt, shown>>
          /\ pc'[master_nb] = IF pc[master_nb] = "edge" THEN "ready" ELSE pc[master_nb]
          /\ pc'[master_b] = IF pc[master_b] = "edge" THEN "ready" ELSE pc[master_b]
      BY <1>7 DEF RisingEdge, PosEdge
    <2>2. BlockDone' = BlockDone
      BY <2>1 DEF BlockDone
    <2>3. Turn' = Turn
      BY <1>t, <2>1, TurnView DEF FormsInv, WordForm
    <2> QED
      BY <2>1, <2>2, <2>3, MemoryView DEF view, block_view
  <1>8. CASE FallingBench
    <2>0. ~CanRun(master_nb)
      BY <1>8 DEF FallingBench
    <2>1. CASE NothingPending /\ UNCHANGED <<memory_vars, master_vars>>
      <3>1. UNCHANGED <<pc, status, data, MEM, mydata, at, addr, cnt, shown>>
        BY <2>1 DEF NothingPending, memory_vars, master_vars
      <3> QED
        BY <1>t, <3>1, BlockView, TurnView, MemoryView DEF view
    <2>2. CASE \E p \in Priority : ServeWord(p)
      <3>1. PICK p \in Priority : ServeWord(p)
        BY <2>2
      <3>2. CASE Answer(SlaveOf(address[p])) # "OK"
        BY <1>t, <2>0, <3>1, <3>2, ServeOutcome, QuietServe
      <3>3. CASE Answer(SlaveOf(address[p])) = "OK"
        BY <2>0, <3>1, <3>3, BlockMoves, WordMoves
      <3> QED
        BY <3>2, <3>3
    <2> QED
      BY <1>8, <2>1, <2>2 DEF FallingBench
  <1>9. CASE UNCHANGED bench_vars
    BY <1>t, <1>9, BlockView, TurnView, MemoryView
    DEF view, bench_vars, memory_vars, master_vars, vars
  <1> QED
    BY <1>1, <1>2, <1>3, <1>4, <1>5, <1>6, <1>7, <1>8, <1>9
    DEF BenchNext, BlockMaster, WordMaster

LEMMA ProgramsInit == BenchInit => Mapping!Init
  <1> SUFFICES ASSUME BenchInit PROVE Mapping!Init
    OBVIOUS
  <1> USE BenchFacts
  <1>1. ASSUME NEW a \in MappedWords PROVE OneMemory[a] = 0
    <2>1. /\ SlaveOf(a) \in Slave
          /\ WordIndex(SlaveOf(a), a) \in 0 .. Size(SlaveOf(a)) - 1
      BY WordOfSlave DEF MappedWords, Word
    <2>2. MEM[SlaveOf(a)] = [i \in 0 .. Size(SlaveOf(a)) - 1 |-> 0]
      BY <2>1 DEF BenchInit
    <2> QED
      BY <2>1, <2>2 DEF OneMemory, WordAt
  <1>2. pc[master_b] = "idle" /\ at[master_b] = "read" /\ at[master_nb] = "read" /\ cnt = 0
    BY DEF BenchInit, Init
  <1>3. BlockDone = 0 /\ Turn = 0
    BY <1>2 DEF BlockDone, Turn, WordDone
  <1> QED
    BY <1>1, <1>2, <1>3 DEF Mapping!Init, OneMemory

\* The test bench keeps the words of its memories consistent without a lock: every
\* step of it is a step of the programs of SharedMemory, in which the
\* non-blocking master updates a word at once, the words of a block are moved
\* one by one and in order, and the monitor sees its words together.
THEOREM TestBenchIsSharedMemory == WatchedMapped => (BenchSpec => SharedMemorySafety)
  <1> SUFFICES ASSUME WatchedMapped PROVE BenchSpec => SharedMemorySafety
    OBVIOUS
  <1>1. BenchInv /\ [BenchNext]_bench_vars => [Mapping!Next]_(Mapping!vars)
    BY BenchStepIsProgramStep, ViewIsVars
  <1> QED
    BY <1>1, BenchUpdates, ProgramsInit, PTL DEF BenchSpec, SharedMemorySafety
===============================================================================
