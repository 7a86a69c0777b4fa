------------------------------ MODULE MipsMachine ------------------------------
(***************************************************************************)
(* The processor of include/mips_v0.h without bus, clock and wait states:  *)
(* where each instruction, and each change of reset, leads from a state    *)
(* [pc, lo, hi, breg, memory].                                             *)
(***************************************************************************)
EXTENDS Mips, MemArray

CONSTANTS
    Inputs,             \* the ints that cin may give
    Anything            \* what an undefined division may give

\* Stands for a signal that ends the program instead.
Signal == Half

ASSUME MipsMachineAssumption ==
    /\ ByteCount * ByteCount * ByteCount * ByteCount = Modulus /\ UintCount = Modulus
    /\ LoadOffsets = Power[ImmediateBits]
    /\ Inputs \subseteq Int32 /\ Inputs # {}
    /\ Anything \subseteq Int32 \cup {Signal} /\ Anything # {}

\* Ints and their bytes, and what each byte counts.
Weight == [i \in 0 .. 3 |-> CASE i = 0 -> 1
                            [] i = 1 -> ByteCount
                            [] i = 2 -> ByteCount * ByteCount
                            [] i = 3 -> ByteCount * ByteCount * ByteCount]
ToInt(w) == AsInt(w[0] + ByteCount * (w[1] + ByteCount * (w[2] + ByteCount * w[3])))
ToBytes(n) == [i \in 0 .. 3 |-> (AsUnsigned(n) \div Weight[i]) % ByteCount]

-------------------------------------------------------------------------------
(* The requests of an instruction. *)

Of(kind, type, addr, kte, dado) ==
    [kind |-> kind, type |-> type, addr |-> AsUnsigned(addr), kte |-> kte,
     dado |-> ToBytes(dado)]
FetchRequest(a) == Of("load", "Word", a, 0, 0)
CharRequest(a) == Of("load", "Byte", a, 0, 0)

\* lb and the lw of LHU are given the sum; lh, lw and the stores the offset.
DataRequest(i, R) ==
    CASE i.op = "LB" -> Of("load", "Byte", Plus(R[i.rs], i.kte16), 0, 0)
      [] i.op = "LHU" -> Of("load", "Word", Plus(R[i.rs], i.kte16), 0, 0)
      [] i.op = "LH" -> Of("load", "Half", R[i.rs], i.kte16, 0)
      [] i.op = "LW" -> Of("load", "Word", R[i.rs], i.kte16, 0)
      [] i.op = "SB" -> Of("store", "Byte", R[i.rs], i.kte16, R[i.rt])
      [] i.op = "SH" -> Of("store", "Half", R[i.rs], i.kte16, R[i.rt])
      [] i.op = "SW" -> Of("store", "Word", R[i.rs], i.kte16, R[i.rt])
MduRequest(i) == Of(i.op, "Word", 0, 0, 0)

UsesBus(i, R) == i.op \in LoadOp \cup StoreOp \cup MduOp
                 \/ (i.op = "SYSCALL" /\ R[V0] = 4)

-------------------------------------------------------------------------------
(* The instructions. *)

WithPc(s, c) == [s EXCEPT !.pc = c]
Running(s) ==
    [state |-> s, phase |-> IF s.pc < DATA_SEGMENT_START THEN "running" ELSE "stopped"]
Exit(s) == [state |-> s, phase |-> "exited"]
Ends10(i, R) == i.op = "SYSCALL" /\ R[V0] = 10

\* Where the instruction i leads that takes its operands from the registers R
\* and sets those of the state t; s is the one before the fetch.
AfterLoad(t, i, R) ==
    {Running([t EXCEPT !.breg[i.rt] = ToInt(w)]) :
        w \in Load(t.memory, DataRequest(i, R).type, AddressOf(DataRequest(i, R)))}
ResultsOf(op, a, b) ==
    IF op = "MUL" THEN [lo |-> {LowWord(a, b)}, hi |-> {HighWord(a, b)}]
    ELSE IF DivisionDefined(a, b) THEN [lo |-> {Quotient(a, b)}, hi |-> {Remainder(a, b)}]
    ELSE [lo |-> Anything, hi |-> Anything]
AfterMdu(s, t, results) ==
    {Running([t EXCEPT !.lo = l, !.hi = h]) :
        l \in results.lo \ {Signal}, h \in results.hi \ {Signal}}
    \cup {o \in {Exit(s)} : Signal \in results.lo \cup results.hi}

\* SYSCALL 4 ends at the first byte that is 0, or with the memory.
MayBeZero(t, a) == \E w \in Load(t.memory, "Byte", a) : ToInt(w) = 0
MayGoOn(t, a, n) ==
    \A k \in 0 .. n - 1 : \E w \in Load(t.memory, "Byte", (a + k) % UintCount) : ToInt(w) # 0
PrintEnds(t, a) ==
    \E n \in 0 .. 4 * size + 4 :
       /\ \A k \in 0 .. n : InRange((a + k) % UintCount)
       /\ MayGoOn(t, a, n) /\ MayBeZero(t, (a + n) % UintCount)
PrintExits(t, a) ==
    \E n \in 0 .. 4 * size + 4 :
       /\ \A k \in 0 .. n - 1 : InRange((a + k) % UintCount)
       /\ MayGoOn(t, a, n) /\ ~InRange((a + n) % UintCount)

Executes(s, t, i, R) ==
    LET text == AsUnsigned(R[A0]) IN
    CASE i.op \in LoadOp ->
            IF FailsOf(DataRequest(i, R)) THEN {Exit(s)} ELSE AfterLoad(t, i, R)
      [] i.op \in StoreOp ->
            IF FailsOf(DataRequest(i, R)) THEN {Exit(s)}
            ELSE {Running([t EXCEPT !.memory = EffectOf(@, DataRequest(i, R))])}
      [] i.op \in MduOp -> AfterMdu(s, t, ResultsOf(i.op, R[i.rs], R[i.rt]))
      [] i.op = "SYSCALL" /\ R[V0] = 4 ->
            {o \in {Running(t)} : PrintEnds(t, text)} \cup {o \in {Exit(s)} : PrintExits(t, text)}
      [] i.op = "SYSCALL" /\ R[V0] = 5 ->
            {Running([t EXCEPT !.breg[V0] = n]) : n \in Inputs}
      [] OTHER ->
            LET u == [WithPc(t, Target(i, R, t.pc)) EXCEPT !.breg = Computes(i, R, t.pc)] IN
            {IF Ends10(i, R) THEN [state |-> u, phase |-> "stopped"] ELSE Running(u)}

Visible(o) == [o EXCEPT !.state.breg[ZERO] = 0]
Fetched(s) == {Decoded[ToInt(w)] : w \in Load(s.memory, "Word", AsUnsigned(s.pc))}
FetchFails(s) == ~InRange(AsUnsigned(s.pc))
StepOf(s, i) ==
    {Visible(o) : o \in Executes(s, WithPc(s, Plus(s.pc, 4)), i, s.breg)}
OutcomesOf(s) ==
    IF FetchFails(s) THEN {Exit(s)} ELSE UNION {StepOf(s, i) : i \in Fetched(s)}

\* What init sets, besides ri, which is not used before it is fetched again.
InitialBreg == [r \in Reg |-> IF r = SP THEN DATA_SEGMENT_START - 4 ELSE 0]

\* A reset restarts the program if it comes between two instructions.  If the
\* old one is being fetched it is executed all the same, with the new registers,
\* and the first of the program is skipped.  If it waits for the bus it ends: its
\* addresses are old, and what it sets later is not cleared; MUL and DIV take
\* each operand from the register when it is transferred.  Both edges of reset
\* may fall into one instruction.
Restarted(s) == [s EXCEPT !.pc = 0, !.lo = 0, !.hi = 0, !.breg = InitialBreg]
ResetInFetch(s, i) ==
    LET t == Restarted(s) IN Executes(s, WithPc(t, 4), i, t.breg)
ResetInMdu(s, i, R) ==
    LET t == Restarted(s)
        after(a, b) ==
            LET results == ResultsOf(i.op, a, b) IN
            AfterMdu(s, t, results)
            \cup {Running([t EXCEPT !.hi = h]) : h \in results.hi \ {Signal}} IN
    after(R[i.rs], R[i.rt]) \cup after(R[i.rs], t.breg[i.rt])
    \cup after(t.breg[i.rs], t.breg[i.rt])
ResetInExecute(s, i, R) ==
    IF ~UsesBus(i, R) THEN {}
    ELSE IF i.op \in MduOp THEN ResetInMdu(s, i, R)
    ELSE Executes(s, Restarted(s), i, R)
ResetsOf(s) ==
    {Running(Restarted(s))}
    \cup IF FetchFails(s) THEN {Exit(s)}
         ELSE UNION {{Visible(o) : o \in ResetInFetch(s, i) \cup
                                         UNION {ResetInExecute(s, i, R) :
                                                R \in {s.breg, InitialBreg}}} :
                     i \in Fetched(s)}
================================================================================
