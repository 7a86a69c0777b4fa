-------------------------------- MODULE MipsCpp --------------------------------
(***************************************************************************)
(* The sequential simulator (MipsCpp/mips.cpp, MipsCpp/memoria.cpp) that   *)
(* include/mips_v0.h was made from: one instruction after another on an    *)
(* array of words.  States are those of MipsMachine.                       *)
(***************************************************************************)
EXTENDS MipsMachine

\* breg is a global variable, and init leaves it alone.
CppInitialBreg == [r \in Reg |-> 0]

\* kte16 keeps its bits without a sign; some instructions cast it to a short.
\* The mutant casts it for all.
FieldCast(i) == i
Field(i) == [i EXCEPT !.kte16 = @ % Power[ImmediateBits]]
CppComputes(i, R, counter) ==
    Computes(IF i.op \in {"SLTIU", "ANDI", "ORI", "XORI"} THEN Field(i) ELSE i, R, counter)
CppTarget(i, R, counter) == Target(Field(i), R, counter)

\* Loads and stores add the offset as an uint16_t; but LB and LHU take the sum
\* for the index of a word, which nobody checks.
CppAddress(i, R) == LoadAddress(AsUnsigned(R[i.rs]), i.kte16)
CppIndex(i, R) == Plus(R[i.rs], Field(i).kte16)
WordAt(m, n) == IF n \in 0 .. size - 1 THEN {m[n]} ELSE Garbage
CppHalf(w, a) == IF a % 2 # 0 THEN MinusOne ELSE ZeroExtended(Shifted(w, a % 4), 2)
CppLoad(m, i, R) ==
    LET a == CppAddress(i, R) IN
    CASE i.op = "LB" -> {SignExtended(w, 1) : w \in WordAt(m, CppIndex(i, R))}
      [] i.op = "LHU" -> WordAt(m, CppIndex(i, R))
      [] i.op = "LH" -> {CppHalf(w, a) : w \in WordAt(m, a \div 4)}
      [] i.op = "LW" -> WordAt(m, a \div 4)
CppStore(m, i, R) ==
    LET type == IF i.op = "SB" THEN "Byte" ELSE IF i.op = "SH" THEN "Half" ELSE "Word" IN
    Store(m, type, CppAddress(i, R), ToBytes(R[i.rt]))

\* The range check ends the program; a word far from the array may.
Unchecked(i) == i.op \in {"LB", "LHU"}
MayCrash(i, R) ==
    IF Unchecked(i) THEN CppIndex(i, R) \notin 0 .. size - 1 ELSE ~InRange(CppAddress(i, R))
MayGetBy(i, R) == Unchecked(i) \/ InRange(CppAddress(i, R))

\* The product is an int before it becomes an int64_t: it wraps around in the
\* builds at hand.
CppResults(op, a, b) ==
    IF op = "MUL"
    THEN [lo |-> {LowWord(a, b)}, hi |-> {IF LowWord(a, b) < 0 THEN -1 ELSE 0}]
    ELSE ResultsOf(op, a, b)

\* SYSCALL looks at the number of the register V0, which is 2, does nothing, and
\* falls through to SLL.
CppExecutes(s, t, i, R) ==
    CASE i.op \in LoadOp ->
            {o \in {Exit(s)} : MayCrash(i, R)}
            \cup {Running([t EXCEPT !.breg[i.rt] = ToInt(w)]) :
                    w \in {v \in CppLoad(t.memory, i, R) : MayGetBy(i, R)}}
      [] i.op \in StoreOp ->
            IF MayCrash(i, R) THEN {Exit(s)}
            ELSE {Running([t EXCEPT !.memory = CppStore(@, i, R)])}
      [] i.op \in MduOp -> AfterMdu(s, t, CppResults(i.op, R[i.rs], R[i.rt]))
      [] i.op = "SYSCALL" ->
            {Running([t EXCEPT !.breg = Computes([i EXCEPT !.op = "SLL"], R, t.pc)])}
      [] OTHER ->
            {Running([WithPc(t, CppTarget(i, R, t.pc)) EXCEPT
                        !.breg = CppComputes(i, R, t.pc)])}

\* fetch, decode and execute.
CppStep(s, i) ==
    {Visible(o) : o \in CppExecutes(s, WithPc(s, Plus(s.pc, 4)), i, s.breg)}
CppOutcomesOf(s) ==
    IF FetchFails(s) THEN {Exit(s)} ELSE UNION {CppStep(s, i) : i \in Fetched(s)}
================================================================================
