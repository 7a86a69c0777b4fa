# simple_bus, the MDU and the MIPS memory in TLA+

This directory models the SystemC program of this repository: the simple_bus and
its arbiter, the multiply-divide unit (MDU) with its two test programs, the test
bench that came with the bus, the MIPS processor with the memory that it
reaches over the bus, and the sequential simulator that processor was ported from.
TLC checks each model on a small instance; TLAPS proves, for every value of the
constants, the safety of the bus, of the MDU program, of the memory behind its
wrapper, of the test bench, and of the processor, which executes one instruction
at a time, and what its port from the simulator changed.

    tlc -workers 2 -config bus_safety.cfg MCSimpleBus      # a run
    tlapm SimpleBusProofs.tla                              # a module of proofs

## 1. The system

Everything runs in one SystemC simulation with one clock. A thread runs until it
waits; the clock has a rising edge, at which threads and the counters of slaves
run, and a falling edge, at which the bus runs. All interleaving is therefore
between edges, and between threads woken by the same edge.

| component | code | state | operations |
|---|---|---|---|
| bus | `src/simple_bus.cpp`, `simple_bus_headers/simple_bus.h`, `simple_bus_request.h` | one request form per priority; the request a slave makes wait | `burst_read/write` (block), `read/write/get_status` (poll), `direct_read/write`; `main_action` at the falling edge |
| arbiter | `src/simple_bus_arbiter.cpp` | none; it upgrades the lock of the winner | `arbitrate`: three rules |
| MDU | `include/mdu.h` | `opA`, `opB`, `wait_left` | bus and direct `read`/`write`, `update_wait_left` at the rising edge |
| MDU programs | `include/mdu_master.h`, `include/mdu_direct_master.h`, `src/main.cpp` | the testcase in progress | `do_testcase`: two writes and a read |
| test bench | `src/simple_bus_master_*.cpp`, `simple_bus_test.h` | buffers, addresses, counters | read a block, add, write it back; the same word by word; look at four words past the bus |
| bench memories | `simple_bus_fast_mem.h`, `simple_bus_slow_mem.h` | `MEM`, `m_wait_count` | `read`, `write`, `wait_loop` at the rising edge |
| MIPS memory | `include/mem_mips.h` | `mem`, `op_type_reg`, `addr_reg`, `wait_left` | `lb` .. `sw`, bus `read`/`write`, `update_wait` |
| its wrapper | `include/mem_mips_bus_wrapper.h` | locals | each load or store is three bus calls |
| processor | `include/mips_v0.h` | `pc`, `breg`, `hi`, `lo`, `ri` | `fetch`, `decode`, `execute`; `init` when `reset` changes |
| simulator | `MipsCpp/mips.cpp`, `MipsCpp/memoria.cpp` | the same registers, an array of words | `fetch`, `decode`, `execute`, `lb` .. `sw` |

How they interact: a master fills the form of its priority and sleeps or polls;
at each falling edge the bus serves one word of one form by calling a slave,
which answers OK, WAIT or ERROR; when a request ends the bus notifies an event,
and the caller returns at the next rising edge with the status in the form. A
slave that says WAIT is asked again at every falling edge. Slaves with wait
states count them at rising edges.

What is hard to test in it, and which property watches it, is listed with its
line under `hazards` in `PROJECT.json`. In short:

* the lock goes through SET, GRANTED and a downgrade after every word;
* an event that nobody waits for is lost; a status is read one edge after it was set;
* other requests are served between two words of a burst, and between the bus
  calls of what a program takes for one operation;
* a slave's count must be at exactly 0 when the bus asks, and must not be left
  over for the next caller;
* a reset, or a direct read, comes in the middle of an access of the bus;
* an urgent master, or one that renews its lock, may keep the others waiting;
* values wrap, shift and change sign at the edges of their types.

## 2. The modules

| module | models | remarks |
|---|---|---|
| `SimpleBusArbiter` | `arbitrate` | operators on the pending forms; a set of possible winners, so that "the first found" is shown not to matter |
| `SimpleBus` | the bus, any masters, any slaves | the core; a slave may answer anything at any time |
| `MduArithmetic`, `Mdu` | `MDU::calculate`; the slave | ints of `2 * Half` values; undefined divisions give any int or end the program |
| `MduSystem` | `main.cpp`: `mdu_master`, bus, MDU | refines `Calculator` |
| `MduDirect` | `main.cpp` with `mdu_direct_master` | nothing waits: a testcase is a step |
| `Calculator` | *abstract*: right results, in order, then the end | |
| `TestBench` | the masters and memories of `simple_bus_test` on `SimpleBus` | refines `SharedMemory` |
| `SharedMemory` | *abstract*: atomic one-word updates against word-wise bursts | |
| `MemArray`, `MemMips` | the load and store functions of `mem_mips`; the slave | an int is four bytes |
| `MemWrapper`, `MemSystem` | `mem_mips_bus_wrapper`; with the bus, the memory and any caller | refines `MemIf` |
| `MemIf` | *abstract*: each load or store takes effect once, between call and return | |
| `Mips`, `MipsMachine` | what the instructions compute; where each instruction, and a reset that falls into it, leads from a state of registers and memory | no bus and no time |
| `MipsSystem` | the processor with bus, memory and MDU, and `reset` | refines `Machine`, with the outcomes of `MipsMachine` |
| `Machine` | *abstract*: one instruction, or one reset, is one step | |
| `MipsCpp` | the simulator of `MipsCpp/`, on the states of `MipsMachine` | |
| `MipsPort` | a program on either processor | compares their instructions |
| `MipsPrograms` | the programs both are run on | |
| `MC*` | the instances for TLC | |
| `SimpleBusProofs`, `MduValueProofs`, `MduProofs`, `MduSystemProofs`, `MemWrapperProofs`, `MemSystemProofs`, `TestBenchProofs`, `MipsSystemProofs` | the theorems | `MduValueProofs` and `MemWrapperProofs` hold the lemmas about products, divisions, bytes, words and the answers of the memory that the others share |

### The bus

`status`, `lock`, `do_write`, `address`, `end_address`, `data` are the fields of
`simple_bus_request`, as functions of the priority; pointers are word offsets.
`pc[m]` is where the thread of a master is: in its own code (`idle`), in
`wait(transfer_done)` (`transfer`), waiting for the rising edge (`edge`), woken
(`ready`), or polling. `BurstCall`, `SingleCall`, `GetStatus` and `Return` are the
calls, `PosEdge` the rising edge. `main_action` is one action per outcome:
`NothingPending`, `Reject` (no slave), `SlaveOK`, `SlaveWait`, `SlaveError`, each
with `get_next_request`, `handle_request` and `clear_locks` in it. `asked` and
`served` are history variables. No edge of the clock comes while a woken thread
still has to run (`FallingEdge`), as in the kernel.

The modules that connect slaves conjoin `HandleAnswer(p, answer)` with the slave's
own relation, so the answer is the slave's. In `MduSystemProofs` this is a
theorem: `SystemIsABus`.

### The MDU

`read` starts a calculation when none runs (`Start`), and `calculate` happens when
the answer is given. `MduSystem` has one action per bus call of `do_testcase`. Its
`elapsed` is a history variable that counts rising edges since the start.

### The test bench

`sleep` counts the rising edges a thread still waits for: a `wait()` is one, a
timeout of n ns is n, the clock having a period of 1 ns. A falling edge comes only
when neither master can run, so the poll that sees the end of a read and the call
of the write are in one cycle, as in the code. The direct master (`Monitor`) reads
its words without waiting, after any rising edge it wakes at, before or after the
other threads; `shown` is what it would print. `direct_read` of the slow memory
leaves the count of wait states alone, that of the fast one is its `read`.

### The MIPS memory

`check_address_range` compares with `>`, so the word after the last one passes:
reading it gives `Garbage`, writing it changes nothing the model has. An access
further out ends the program (`exited`). The offsets of loads and stores have the
widths of their parameter types, `uint16_t` and `sc_uint<5>`. In `MemSystem` the clock
stands still while the caller is between two calls: the memory is free and the bus has
no request then, so an edge would change `clk` and `served` and nothing else.

### The processor

`MipsSystem` is the commented-out part of `main.cpp`. One thread calls the bus in
two roles, priority 1 for the MDU and 2 for the memory, hence two masters `mips`
and `pmem` that are never active together. `stage` and `step` say where the thread
is; `Fetch`, `Decode`, `StartBus`, `WithoutBus`, `NextCall`, `NextChar` and
`EndBus` are the stretches of `run` between two bus calls. `decode` is a table
(`Decoded`), since the ints of a small instance have no room for its bit fields;
what the instructions compute is `Mips`. The refinement mapping shows the
programmer's state: until an instruction has had its effect, the registers from
before it, which `before` keeps.

`Reset` is `init` run because `reset` changed, which may happen whenever the thread
waits, or at the edge that wakes it. `ResetsOf` in `MipsMachine` says where that may
lead: to the start of the program, if it comes between two instructions; if it
comes during a fetch, the old instruction is executed with the new registers and
the first of the program is skipped; if it comes during a bus call, the call goes on
with its old address and what it brings is written over the cleared registers, and
MUL and DIV may take one operand from before and one from after it. `init` does not
touch bus, memory or MDU, and that they need no reset is part of the refinement.

### The port

`MipsCpp` says in the terms of `MipsMachine` what `MipsCpp/mips.cpp` does; where the
two sources agree it uses the same operators. `MipsPort` runs a program on one of
the two and asks in every state whether the *other* would have done the same with
the next instruction (`StepOf` against `CppStep`). `PortKeepsMeaning` lists the
differences, and no others exist:

* `kte16` is an `int16_t` in `mips_v0.h` and sixteen bits without a sign in
  `mips.cpp`: branches backward, `ANDI`, `ORI`, `XORI` and `SLTIU` of negative constants;
* products that are not ints: `mips.cpp` multiplies ints and keeps no high word;
* half-words with a sign: `lh` of `memoria.cpp` returns an `int32_t`;
* `LB` and `LHU` index words in `mips.cpp`, and bytes in `mips_v0.h`; stores of
  `mips_v0.h` keep five bits of their offset;
* services: `SYSCALL` of `mips.cpp` switches on the number of the register instead
  of its value, and falls through to `SLL`.

The first three are stated as *if and only if*.

## 3. The runs

| run | instance | shows | states |
|---|---|---|---|
| `bus_safety` | a polling master that always locks, a blocking one that never does, a blocking one that mixes both; bursts of 1 to 3; two slaves, gaps between them; 32 bytes of addresses | types, final statuses, lock mutual exclusion, one winner, no lost wake-up, whole transfers, failed ones that stop at the failing word, holders served next, unlocked calls that wait their turn, starvation only behind more urgent calls or locks | 55 334 |
| `mdu_system` | 3-bit ints, 16 testcases, any 2 of them, 2 wait states | the program implements `Calculator`, liveness included; exact wait states; writes find the MDU free | 17 904 |
| `mdu_direct` | all pairs of 3-bit operands | joined product; laws of quotient and remainder; range of results | 848 |
| `testbench` | 2 words per memory, block of 3 across both, the other master and the monitor on 2 of them; one wait state; any lock flags | implements `SharedMemory`: no lost update, bursts in order, consistent direct reads, no starvation; the slow memory is never left with an old count | 30 924 |
| `mem_system` | 2 words, bytes of 4 values, 12 requests: every type, aligned or not, wrapping, at the end and beyond | implements `MemIf`; byte-exact loads and stores; the memory is free between calls | 10 030 |
| `mips_system` | 8-bit ints, 16 words, six programs that use every instruction; `reset` changes up to twice, at any time | implements `Machine`: each instruction is one step and ends; a reset disturbs only the one it falls into | 87 914 |
| `mips_port` | the same and four more programs, on both processors | which instructions changed their meaning in the port | 1 275 |

Five further runs show that the code does not do what a text of the repository
says (`findings` in `PROJECT.json` quotes both sides):

* `bus_locked_burst`: `clear_locks` drops a lock that is `SET` after each word, and
  rule 1 does not renew it; a locked burst of three words is interrupted before its
  third. For the same reason it ends without a lock and reserves nothing for the
  next call, against `simple_bus_headers/README:136-139`.
* `bus_blocking_returns`: `handle_request` returns without a notification when no
  slave has the address; the caller never wakes.
* `bus_duplicate_priority`: two masters with one priority share a form, and the
  arbiter's check can never see them.
* `mdu_zero_wait`: with `wait_states` 0 the count passes 0 before the bus asks again.
* `mem_store_offset`: stores take their offset as an `sc_uint<5>`.

### Bounds

All are in the MC modules and the `.cfg` files. Three masters are enough for one to
overtake another while a third holds the bus; bursts of three words are the least
in which a lock is lost in the middle; one-word calls show the upgrade of a lock
that stays. Unsigned wrap-around happens in small address spaces as in large ones.
Two wait states make a read be asked for before, in and after its count. Two
testcases, chosen from all combinations of extreme and asymmetric operands, let one
leave its operands for the next. In the test bench the two words both masters use
lie on the two sides of the boundary between the memories, and each round of the
one overlaps with each word of the other; values modulo 3 tell a lost update from
a done one. Timeouts of 3 and 2 cycles have no common factor with the lengths of
the rounds; the property was also seen to hold with others from 1 to 4. The monitor
wakes every 5 cycles, so it meets every phase of the others. Bytes of
four values have two signs and two magnitudes of each.
`Garbage` is what uninitialised ints may hold: two values with different signs.

`MaxResets = 2` is one pulse, both of whose edges may fall into one instruction or
into two. `Operands`, what the MDU holds when the processor first writes it, and
`Anything`, what an undefined division gives, are a few ints and, for the latter,
the end of the program: all others would be overwritten or moved alike. Each of the
inputs of `cin` (-3, 2 and 54) is an address outside of the memory, a small number, or the address of a byte of data. The four programs
that only `mips_port` runs have negative constants over words with and without high
bits, products inside and outside of the ints, and loads and stores at offsets on
both sides of every boundary; every clause of `PortKeepsMeaning` is needed in some
state of the run.

### Fairness

`FairSpec` and the specifications of the systems put weak fairness on the threads
that can run and on the two edges. The SystemC scheduler runs every runnable
thread and advances time when there is none, so neither is ever passed over; no
thread of the repository loops without waiting. Nothing is assumed of masters that
need not call (`CallMem` in `MemSystem`, the masters of `SimpleBus`), of arbitrary
slaves, or of `reset`. `StarvesOnlyBehindThem` assumes in its own text that slaves
go on answering. The test bench needs no strong fairness: the more urgent master sleeps for
its timeout between two words, and the block gets the bus then.

`CHECK_DEADLOCK FALSE` stands where the program can end: `sc_stop` in `mdu_master`
and `mips_v0`, `exit(-1)` in `mem_mips`, a trapping division in `mdu_direct`.

## 4. The proofs

From the assumptions named in the modules (sizes, disjoint slaves, single-word
polling calls), and where stated `UniquePriorities`, `BurstsFit`,
`BlockingCallsMapped`, which describe the users of the bus and hold of every master in
the repository:

* `TypeCorrect`: the types of the bus, with no further assumption.
* `BusSafety`: the inductive invariant is `BusInv`: types, no failed assertion,
  final statuses of callers that are not inside a call, `CurrentWaits`, `LockInv`;
  `CallsReturnFinal`, `OnePromise` and `AssertionsHold` are the parts a reader of the
  code would ask for.
  `LockInv` is not inductive alone: a new call may only touch a form the bus is
  done with, which is what the statuses say.
* `ArbitrationIsDeterministic`, `HolderIsServedNext`: consequences of `LockInv`;
  two honoured locks are never pending at once, so rules 1 and 2 match one form, and
  rule 3 has one form per priority.
* `UnlockedCallsWait`: for masters that lock some of their calls, all or none. `LockAsked`
  says that a lock granted to a request was asked for by the call that made it, which
  holds because the bus downgrades every lock of a form it is done with; that a
  form waiting for its turn in a burst has moved a word; and that forms of masters that
  never lock carry no lock. What a leftover lock does to the later words of an unlocked burst is
  told in section 5.
* `RestIsPending`, `WholeTransfers`: `PendingProgress` with `PendingFits`; without `BurstsFit` a burst to
  the last word wraps and never ends.
* `FailedCallsStop`: a form comes to `ERROR` only from a pending state and without moving
  a word, so it keeps what `PendingProgress` says of it.
* `SleepersAreServed`: `WakeInv` says that the rest of each blocking call is aligned
  and has slaves, so that `Reject` never ends it.
* `DirectResults`, `DirectTypes`: for ints of any width; truncating division is derived from the
  Euclidean division of TLA+ by cases on the signs (`MduValueProofs`).
* `SystemIsABus`: the MDU program is an instance of the bus, which carries all of the
  above over to it.
* `SystemTypes`, `SystemCalculates`: the invariant `CalcInv` says that the form is the
  call in progress and that the calls that have returned had their effect on the
  operand registers. `SystemCalculates` is the safety part of `ImplementsCalculator`.
* `WritesFindMduFree`, `ReadsTakeWaitStates`: `WaitInv`, `elapsed + wait_left =
  wait_states` during a calculation and `wait_left = -1` outside of one. With `wait_states`
  0 no read is answered (`mdu_zero_wait`), so `ReadsTakeWaitStates` says something of positive numbers only.

* `MemSystemIsABus`, `TestBenchIsABus`, `MipsIsABus`: so are the memory, the test bench
  and the processor: each of their steps is a step of the bus or leaves it alone.
* `MemSystemTypes`, `MipsTypes`: ints stay ints and bytes bytes, through sign extension,
  shifts, reads beyond the memory and resets in the middle of anything. `MipsTypeInv`
  adds the types of the call in progress.
* `MemSystemIsMemory`, `LoadsAreRight`, `StoresAreRight`, `MemoryIsFree`: the first is the
  safety part of `ImplementsMemIf`; the next two are about aligned accesses inside the memory,
  of stores at the address that is left after the offset was truncated. `AccessInv` says at which of its three bus calls the
  wrapper is, what each of them has left in the memory and in the form, and that the
  effect of a store is there exactly from its last call on; `FreeInv` ties the wait
  count to the call.
* `TestBenchIsSharedMemory`: the safety part of `ImplementsSharedMemory`. `FormsInv` says
  that each form is that of the call its master is in, and `UpdateInv` why no update is
  lost: from the edge that reads the word to the one that writes it back, the buffer
  agrees with the memory (`Agrees`), and whenever the form of the update is not the
  current one it is the next to be served (`IsNext`): nothing is current, the other
  form holds no lock that counts, and the write is called before the clock falls.
  `WatchedMapped` is assumed: the words of the monitor are in a memory, as those at
  0x78 are; that the other words are is an assumption of `TestBench`.
* `SlowMemoryIsFresh`, `TestBenchTypes`: `CountInv`, on the count of the slow memory in the
  manner of `FreeInv`; `DataType`.

* `MipsIsAMachine`: the safety part of `ImplementsMachine`. Its invariant `MipsInv`
  follows an instruction through its stages. `CallInv` says that the form in use is the
  call in progress and that nobody else is calling; `MemInv` what each of the three calls
  of an access has left in the memory, as `AccessInv` does for the memory alone. `FetchInv` and
  `ExecuteInv` are about what the programmer must not see: the instruction is one the
  fetch may return; it began (`Began`) from the registers before it, or from those of a reset
  that fell into its fetch or its calls; and what it has done since (`Performing`: a load or store,
  `Calculating` on the MDU, `Printing` the n-th character of a text) leads to an outcome of the
  abstract step. A text that is printed without leaving the memory is no longer than the
  memory (`TextFits`), which is why the abstract step may bound it. A step of the code then either changes nothing
  the abstract processor shows (`MachineKept`), or is an instruction, or a reset.
* `PortTypes`: the types of a program on either processor.
* `PortMeaning`: follows from the types alone, state by state and instruction by
  instruction (`Keeps`). What the logical instructions make of a negative constant needs
  that an int is determined by its bits: `BitsOfBits` says that `OfBits(B)` has the bits
  B, and `BitsOfNegative` that a sign fills the bits above the field and no others.
  Products rest on `SignOfProduct` (the high word is the sign of the low one exactly if
  the product is an int), half-words on `HalfSigns`, branches on `AsIntDiffers` (two
  targets less than a whole turn apart are not the same). `Power` and the sum in `OfBits`
  are recursive functions of the bits. `RecursionDefines` shows that such a function
  exists, and `UpToAll` takes the place of induction: a set of numbers that has 0 and the
  successor of each of its members up to n has all of them; it comes from the least number that
  were missing (`LeastElement`, by the well-foundedness of <).

What the assumptions on constants say of the MIPS modules (`MipsAssumption`): an int has
`IntBits` bits; `kte16` has at most three bits less (16 of 32 in the code), so that four
times a constant is less than a turn of `pc`; and `DATA_SEGMENT_START`, which is 0x2000,
is a positive int, so that the word below it, where the stack pointer starts, is an int
as well.

Only model-checked: everything about liveness (that the MDU program ends, that
bursts of the test bench, loads, stores and instructions do), since the prover has
no rules for fairness, and so of `ImplementsMachine` and the other refinements that each
instruction, access or round ends. Every other invariant and action property that a
passing run checks is stated by a theorem.

## 5. Not modelled

* `direct_write` of the bus and of the bench memories, and both direct functions of
  `mem_mips`: no program calls them over the bus;
* `lbu`, `lhu`, `dump_mem` of `mem_mips`: never called; `load_mem` is the choice of
  the initial memory, here and in `MipsCpp`;
* the bit fields of `decode`, and everything that is printed;
* an MDU used over the bus and directly at once: no program does;
* `src/simple_bus_tools.cpp`, `src/simple_bus_types.cpp`: formatted output;
* the tests and the debugging output of `MipsCpp/main.cpp` that are commented out.

Seen on the way: a call without the lock leaves the `SET` of the call before it in
the form (`simple_bus.cpp:228`); rule 3 of the arbiter grants it with the first
word, so the second word of an unlocked burst that comes right after a locked
one-word call is served before a more urgent request, although "Intrusion to a
non-locked burst-mode transaction is possible" (`simple_bus.cpp:35-36`). No master
of the repository mixes its calls so; `bus_safety` has one that does, and
`UnlockedKeepTheirTurn` says what holds of it: the conclusion `asked[p].lock` alone
does not.

`check_address_range` compares with `>`, so that the word after the last one passes,
although its message is about addresses "fora dos limites da memoria"
(`mem_mips.h:76-81`); the models let it pass on both levels.

With no text of the repository against them: `LHU` loads a whole word; negative
offsets of `LH` and `LW` become large `uint16_t`s and end the program; a read of a
register of `mem_mips` waits for ever, by the loop of `mdu_zero_wait`, though the
comments at `mem_mips.h:28-29` call the registers readable; `ANDI`, `ORI` and `XORI`
extend their constant with its sign.

## 6. Plan

The order of the modules was: the arbiter and the bus, on which all else rests; the
MDU and its programs, the purpose of the repository; the test bench, the only place
with real contention; the memory, its wrapper, the processor.

Then came the monitor of the test bench, `reset`, the fairness of the bus, and
`MipsCpp` with what the port changed.

Proved since: the memory, the test bench and the processor against their abstract
specifications, and the port. What no theorem states is liveness, for the reason given in
section 4.
