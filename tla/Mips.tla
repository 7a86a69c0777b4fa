---------------------------------- MODULE Mips ----------------------------------
(***************************************************************************)
(* What the instructions of the processor compute (execute in              *)
(* include/mips_v0.h) from the values of its registers.  decode is the     *)
(* function Decoded: the ints of a small model cannot hold its fields.     *)
(***************************************************************************)
EXTENDS MduArithmetic

CONSTANTS
    IntBits,            \* 32: the bits of an int,
    ImmediateBits,      \* 16: of kte16
    JumpSpan,           \* 2^28: a jump keeps the bits of pc from there on
    Decoded,            \* from ints to instructions
    DATA_SEGMENT_START  \* 0x2000: the program ends there

ComputeOp == {"SLL", "SRL", "SRA", "ADD", "ADDU", "SUB", "AND", "OR", "XOR", "NOR",
    "SLT", "ADDI", "ADDIU", "SLTI", "SLTIU", "ANDI", "ORI", "XORI", "LUI", "JAL"}
BranchOp == {"JR", "J", "BEQ", "BNE", "BLEZ", "BGTZ"}
LoadOp == {"LB", "LH", "LW", "LHU"}
StoreOp == {"SB", "SH", "SW"}
MduOp == {"MUL", "DIV"}
\* INVALID stands for every opcode and funct that execute does not know.
Op == ComputeOp \cup BranchOp \cup LoadOp \cup StoreOp \cup MduOp
      \cup {"SYSCALL", "INVALID"}

Reg == 0 .. 31
ZERO == 0
V0 == 2
A0 == 4
SP == 29
RA == 31

\* The powers of 2 that ints and their fields go by.
Power[n \in 0 .. IntBits] == IF n = 0 THEN 1 ELSE 2 * Power[n - 1]

Instruction == [op : Op, rs : Reg, rt : Reg, rd : Reg, shamt : 0 .. IntBits - 1,
    kte16 : -Power[ImmediateBits - 1] .. Power[ImmediateBits - 1] - 1,
    kte26 : 0 .. (JumpSpan \div 4) - 1]

ASSUME MipsAssumption ==
    /\ IntBits \in Nat /\ Modulus = Power[IntBits]
    /\ ImmediateBits \in 1 .. IntBits - 3 /\ JumpSpan \in Nat \ {0} /\ JumpSpan % 4 = 0
    /\ Decoded \in [Int32 -> Instruction]
    /\ DATA_SEGMENT_START \in Int32 /\ DATA_SEGMENT_START > 0

-------------------------------------------------------------------------------
(* Bits of an int. *)

Bits == 0 .. IntBits - 1
BitsOf(x) == {i \in Bits : (AsUnsigned(x) \div Power[i]) % 2 = 1}
OfBits(B) ==
    LET sum[n \in 0 .. IntBits] ==
            IF n = 0 THEN 0
            ELSE sum[n - 1] + (IF n - 1 \in B THEN Power[n - 1] ELSE 0) IN
    AsInt(sum[IntBits])

-------------------------------------------------------------------------------
(* execute, on the registers R; it first sets R[ZERO] to 0.  The mutant does *)
(* not.                                                                      *)

NotZeroed(R) == R
Zeroed(R) == [R EXCEPT ![ZERO] = 0]

\* int addition wraps around in the builds at hand; the mutant's does not.
PlusUnbounded(a, b) == a + b
Plus(a, b) == AsInt(a + b)
Truth(b) == IF b THEN 1 ELSE 0

Lesser(a, b) == IF a < b THEN a ELSE b

\* The register an instruction of ComputeOp sets, and its value; counter is pc.
Destination(i) ==
    IF i.op = "JAL" THEN RA
    ELSE IF i.op \in {"ADDI", "ADDIU", "SLTI", "SLTIU", "ANDI", "ORI", "XORI", "LUI"}
    THEN i.rt ELSE i.rd
Computed(i, R, counter) ==
    LET a == R[i.rs]
        b == R[i.rt] IN
    CASE i.op = "SLL" -> OfBits({k \in Bits : k - i.shamt \in BitsOf(b)})
      [] i.op = "SRL" -> OfBits({k \in Bits : k + i.shamt \in BitsOf(b)})
      [] i.op = "SRA" -> OfBits({k \in Bits : Lesser(k + i.shamt, IntBits - 1) \in BitsOf(b)})
      [] i.op \in {"ADD", "ADDU"} -> Plus(a, b)
      [] i.op = "SUB" -> Plus(a, -b)
      [] i.op = "AND" -> OfBits(BitsOf(a) \cap BitsOf(b))
      [] i.op = "OR" -> OfBits(BitsOf(a) \cup BitsOf(b))
      [] i.op = "XOR" -> OfBits((BitsOf(a) \cup BitsOf(b)) \ (BitsOf(a) \cap BitsOf(b)))
      [] i.op = "NOR" -> OfBits(Bits \ (BitsOf(a) \cup BitsOf(b)))
      [] i.op = "SLT" -> Truth(a < b)
      [] i.op \in {"ADDI", "ADDIU"} -> Plus(a, i.kte16)
      [] i.op = "SLTI" -> Truth(a < i.kte16)
      [] i.op = "SLTIU" -> Truth(AsUnsigned(a) < AsUnsigned(i.kte16))
      [] i.op = "ANDI" -> OfBits(BitsOf(a) \cap BitsOf(i.kte16))
      [] i.op = "ORI" -> OfBits(BitsOf(a) \cup BitsOf(i.kte16))
      [] i.op = "XORI" -> OfBits((BitsOf(a) \cup BitsOf(i.kte16))
                                 \ (BitsOf(a) \cap BitsOf(i.kte16)))
      [] i.op = "LUI" -> AsInt(i.kte16 * Power[ImmediateBits])
      [] i.op = "JAL" -> counter

\* The condition of a branch, and pc after it.
Taken(i, R) ==
    CASE i.op = "BEQ" -> R[i.rs] = R[i.rt]
      [] i.op = "BNE" -> R[i.rs] # R[i.rt]
      [] i.op = "BLEZ" -> R[i.rs] <= 0
      [] i.op = "BGTZ" -> R[i.rs] > 0
      [] OTHER -> FALSE
Target(i, R, counter) ==
    IF i.op = "JR" THEN R[i.rs]
    ELSE IF i.op \in {"J", "JAL"}
    THEN AsInt((counter - (counter % JumpSpan)) + 4 * i.kte26)
    ELSE IF Taken(i, R) THEN Plus(counter, 4 * i.kte16)
    ELSE counter

\* The rest of execute for an instruction that uses no bus.
Computes(i, R, counter) ==
    IF i.op \in ComputeOp
    THEN [R EXCEPT ![Destination(i)] = Computed(i, R, counter)] ELSE R
===============================================================================
