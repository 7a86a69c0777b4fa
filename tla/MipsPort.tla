------------------------------- MODULE MipsPort -------------------------------
(***************************************************************************)
(* One program on either of the two processors, and what became of its     *)
(* instructions when MipsCpp was turned into include/mips_v0.h.            *)
(***************************************************************************)
EXTENDS MipsCpp

VARIABLES
    processor,          \* "mips_v0" or "MipsCpp"
    state, phase        \* as in Machine

port_vars == <<processor, state, phase>>

PortInit ==
    /\ processor \in {"mips_v0", "MipsCpp"}
    /\ \E m \in Loaded : state =
          [pc |-> 0, lo |-> 0, hi |-> 0, memory |-> m,
           breg |-> IF processor = "mips_v0" THEN InitialBreg ELSE CppInitialBreg]
    /\ phase = Running(state).phase

StepTo(o) == state' = o.state /\ phase' = o.phase /\ UNCHANGED processor
MipsStep ==
    /\ processor = "mips_v0" /\ phase = "running"
    /\ \E o \in OutcomesOf(state) : StepTo(o)
MipsCppStep ==
    /\ processor = "MipsCpp" /\ phase = "running"
    /\ \E o \in CppOutcomesOf(state) : StepTo(o)

PortNext == MipsStep \/ MipsCppStep
PortSpec == PortInit /\ [][PortNext]_port_vars

-------------------------------------------------------------------------------
(* Properties. *)

PortTypeOK ==
    /\ processor \in {"mips_v0", "MipsCpp"}
    /\ phase \in {"running", "stopped", "exited"}
    /\ state \in [pc : Int32, lo : Int32, hi : Int32, breg : [Reg -> Int32],
                  memory : Memory]

\* The instructions that the two execute in different ways.
High(x) == {b \in BitsOf(x) : b >= ImmediateBits}
NegativeConstant(i, R) ==
    /\ i.kte16 < 0
    /\ \/ Taken(i, R)
       \/ /\ i.rt # ZERO
          /\ \/ i.op = "ANDI" /\ High(R[i.rs]) # {}
             \/ i.op = "ORI" /\ High(R[i.rs]) # High(-1)
             \/ i.op = "XORI"
             \/ /\ i.op = "SLTIU"
                /\ AsUnsigned(R[i.rs]) \in Field(i).kte16 .. AsUnsigned(i.kte16) - 1
LongProduct(i, R) == i.op = "MUL" /\ R[i.rs] * R[i.rt] \notin Int32
NegativeHalf(i, R, m) ==
    /\ i.op = "LH" /\ i.rt # ZERO /\ InRange(CppAddress(i, R)) /\ CppAddress(i, R) % 2 = 0
    /\ \E w \in Load(m, "Half", CppAddress(i, R)) : ToInt(w) < 0
Alters(i, R, m) == NegativeConstant(i, R) \/ LongProduct(i, R) \/ NegativeHalf(i, R, m)

\* Those that look at another place of the memory, or ask for a service, and may
\* differ.
OtherPlace(i, R) ==
    \/ i.op \in {"LB", "LHU"} /\ ~(CppIndex(i, R) = 0 /\ i.kte16 >= 0)
    \/ i.op \in StoreOp /\ i.kte16 \notin 0 .. StoreOffsets - 1
Service(i, R) ==
    i.op = "SYSCALL" /\ (R[V0] \in {4, 5, 10} \/ Computes([i EXCEPT !.op = "SLL"], R, 0) # R)

\* mips_v0 kept the meaning of every instruction of MipsCpp in every state, but
\* for those in which it was meant to change or a type did: constants that are
\* negative, products that are not ints, half-words with a sign, places in the
\* memory and services; and the first three always show.
PortKeepsMeaning ==
    phase = "running" /\ ~FetchFails(state) =>
        \A i \in Fetched(state) :
           /\ StepOf(state, i) # CppStep(state, i) =>
                 \/ Alters(i, state.breg, state.memory)
                 \/ OtherPlace(i, state.breg) \/ Service(i, state.breg)
           /\ Alters(i, state.breg, state.memory) => StepOf(state, i) # CppStep(state, i)
===============================================================================
