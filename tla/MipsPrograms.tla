----------------------------- MODULE MipsPrograms -----------------------------
(***************************************************************************)
(* Programs of a few instructions for processors of 8-bit ints, whose      *)
(* words are four bytes of two bits, with 4-bit offsets.  Instruction n of *)
(* Table is the one that the int n stands for.                             *)
(***************************************************************************)
EXTENDS Integers, Sequences

I(op, rs, rt, rd, shamt, kte16, kte26) ==
    [op |-> op, rs |-> rs, rt |-> rt, rd |-> rd, shamt |-> shamt,
     kte16 |-> kte16, kte26 |-> kte26]
R3(op, rd, rs, rt) == I(op, rs, rt, rd, 0, 0, 0)
Shift(op, rd, rt, n) == I(op, 0, rt, rd, n, 0, 0)
Imm(op, rt, rs, k) == I(op, rs, rt, 0, 0, k, 0)
Jump(op, k) == I(op, 0, 0, 0, 0, 0, k)
Syscall == R3("SYSCALL", 0, 0, 0)

Calculate ==      \* a product and a quotient of an input, and $zero written
    <<Imm("ADDI", 2, 0, 5), Syscall, Imm("ADDI", 8, 0, -7), R3("MUL", 0, 2, 8),
      R3("DIV", 0, 8, 2), R3("ADD", 0, 2, 8), R3("SLT", 9, 0, 8), R3("SUB", 10, 8, 2),
      Imm("ADDI", 2, 0, 5), Imm("ADDI", 2, 2, 5), Syscall>>
Logic ==            \* bit operations and shifts of a negative int
    <<Imm("LUI", 8, 0, -3), Imm("ORI", 8, 8, 5), Shift("SRA", 9, 8, 3), Shift("SRL", 10, 8, 3),
      Shift("SLL", 11, 8, 3), R3("AND", 12, 8, 9), R3("OR", 13, 8, 10), R3("XOR", 14, 8, 11),
      R3("NOR", 15, 8, 9), Imm("XORI", 16, 8, 6), Imm("ANDI", 17, 8, -6)>>
Compares ==         \* sums that wrap, comparisons, an invalid instruction
    <<Imm("ADDI", 8, 0, -1), Imm("SLTI", 9, 8, 0), Imm("SLTIU", 10, 8, 2),
      Imm("ADDIU", 8, 8, 2), R3("ADDU", 8, 8, 8), R3("SUB", 8, 8, 9), R3("ADD", 8, 8, 8),
      Shift("SLL", 8, 8, 6), R3("ADD", 8, 8, 8), R3("SLT", 9, 8, 0), R3("INVALID", 0, 0, 0)>>
Loads ==           \* from the stack pointer and the data behind it
    <<Imm("LB", 8, 29, -1), Imm("LH", 9, 29, 6), Imm("LW", 10, 29, 4), Imm("LHU", 11, 29, 4),
      Imm("SB", 10, 29, 3), Imm("SH", 8, 29, 2), Imm("SW", 9, 29, 1), Imm("LH", 12, 29, 1),
      Imm("LW", 13, 29, -4)>>
Branches ==        \* counts an input down, and returns from a call
    <<Imm("ADDI", 2, 0, 5), Syscall, Imm("BLEZ", 0, 2, 2), Imm("ADDI", 2, 2, -1),
      Imm("BGTZ", 0, 2, -2), Imm("BEQ", 0, 2, 1), Jump("JAL", 9), Imm("BNE", 0, 2, 1),
      Jump("J", 11), R3("JR", 0, 31, 0)>>
Prints ==          \* the bytes from 44 on, and from an input on
    <<Imm("ADDI", 2, 0, 4), Imm("ADDI", 4, 29, 0), Syscall, Imm("ADDI", 2, 0, 5), Syscall,
      R3("ADD", 4, 2, 0), Imm("ADDI", 2, 0, 4), Syscall, Imm("ADDI", 2, 0, 1), Syscall,
      Jump("J", 15)>>

Constants ==       \* negative constants with zeros and ones above them
    <<Imm("ADDI", 8, 0, 6), Imm("ANDI", 9, 8, -3), Imm("ORI", 10, 8, -3),
      Imm("XORI", 11, 8, -3), Imm("SLTIU", 12, 8, -3), Imm("ADDI", 8, 0, -5),
      Imm("ANDI", 9, 8, -3), Imm("ORI", 10, 8, -3), Imm("XORI", 0, 8, -3),
      Imm("SLTIU", 12, 8, -3), R3("SYSCALL", 9, 0, 8)>>
Products ==        \* that are ints, and that are not
    <<Imm("ADDI", 8, 0, -8), Shift("SLL", 9, 8, 2), R3("MUL", 0, 8, 9), R3("MUL", 0, 8, 8),
      Imm("ADDI", 10, 0, 3), R3("MUL", 0, 10, 9), R3("DIV", 0, 9, 10), R3("DIV", 0, 9, 0),
      Imm("ADDI", 2, 0, 5), Imm("ADDI", 2, 2, 5), Syscall>>
Places ==          \* the memory, and past its end, from a register of one's own
    <<Imm("ADDI", 8, 0, 5), Shift("SLL", 9, 8, 3), Imm("LB", 10, 8, 3), Imm("LHU", 10, 0, 0),
      Imm("LHU", 11, 9, 2), Imm("LH", 12, 9, 6), Imm("LH", 12, 9, -4), Imm("SW", 9, 9, 5),
      Imm("SB", 9, 9, 3), Imm("SH", 9, 9, -2), Imm("LW", 13, 9, 5)>>
Loop ==            \* back to its second instruction
    <<Imm("ADDI", 8, 0, 3), Imm("ADDI", 8, 8, -1), Imm("BGTZ", 0, 8, -2),
      Imm("BLEZ", 0, 8, -3), Imm("BNE", 8, 0, 0), Jump("J", 12)>>

Basic == {Calculate, Logic, Compares, Loads, Branches, Prints}
Programs == Basic \cup {Constants, Products, Places, Loop}

Table == Calculate \o Logic \o Compares \o Loads \o Branches \o Prints
         \o Constants \o Products \o Places \o Loop
Ints == -128 .. 127
CodeOf(i) == CHOOSE n \in 1 .. Len(Table) : Table[n] = i
MCDecoded == [n \in Ints |-> IF n \in 1 .. Len(Table) THEN Table[n] ELSE Shift("SLL", 0, 0, 0)]

Bytes4(n) == [i \in 0 .. 3 |-> (n \div 4 ^ i) % 4]
Image(program) == [k \in 0 .. 15 |->
    IF k < Len(program) THEN Bytes4(CodeOf(program[k + 1]))
    ELSE CASE k = 11 -> Bytes4(1 + 16 * 2) [] k = 12 -> Bytes4(3 + 4 * 2 + 64)
           [] k = 13 -> Bytes4(2 + 4 * 3 + 16) [] OTHER -> Bytes4(0)]
===============================================================================
