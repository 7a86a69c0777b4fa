------------------------------- MODULE MemArray -------------------------------
(***************************************************************************)
(* The memory of the processor as an array of words: the load and store    *)
(* functions of mem_if (include/mem_if.h) in include/mem_mips.h.  An int   *)
(* is the function from its four bytes, the least significant one first.   *)
(***************************************************************************)
EXTENDS Integers

CONSTANTS
    ByteCount,          \* 256 in the code
    UintCount,          \* 2^32: the sums of addresses and offsets wrap
    LoadOffsets,        \* 2^16: the offset of a load is an uint16_t, and
    StoreOffsets,       \* 2^5: that of a store an sc_uint<5>
    size,               \* of the array, in words
    Loaded,             \* what load_mem may have put there
    Garbage             \* what an int may hold that nobody has set

ASSUME MemoryAssumption ==
    /\ ByteCount \in Nat \ {0} /\ ByteCount % 2 = 0
    /\ UintCount \in Nat \ {0} /\ LoadOffsets \in Nat \ {0}
    /\ StoreOffsets \in Nat \ {0}
    /\ size \in Nat \ {0}
    /\ Loaded \subseteq [0 .. size - 1 -> [0 .. 3 -> 0 .. ByteCount - 1]]
    /\ Garbage # {} /\ Garbage \subseteq [0 .. 3 -> 0 .. ByteCount - 1]

Byte == 0 .. ByteCount - 1
Int4 == [0 .. 3 -> Byte]
Memory == [0 .. size - 1 -> Int4]
OpType == {"Byte", "Half", "Word"}

-------------------------------------------------------------------------------
(* The functions of mem_if. *)

LoadAddress(addr, kte) == (addr + (kte % LoadOffsets)) % UintCount
StoreAddress(addr, kte) == (addr + (kte % StoreOffsets)) % UintCount

\* check_address_range ends the program beyond the word after the last one,
\* and lets that word pass: it is read and written outside of the array.
InRange(a) == a \div 4 <= size
Outside(a) == a \div 4 = size

\* The n least significant bytes of w, with the sign of the last of them; the
\* mutant extends with zeros, as lbu and lhu do.
ZeroExtended(w, n) == [i \in 0 .. 3 |-> IF i < n THEN w[i] ELSE 0]
SignExtended(w, n) ==
    [i \in 0 .. 3 |-> IF i < n THEN w[i]
                      ELSE IF w[n - 1] < ByteCount \div 2 THEN 0 ELSE ByteCount - 1]
MinusOne == [i \in 0 .. 3 |-> ByteCount - 1]

\* w >> 8 * k, for the bytes that are used.
Shifted(w, k) == [i \in 0 .. 3 |-> IF i + k <= 3 THEN w[i + k] ELSE 0]

\* lb, lh, lw on the word w that holds address a.
lb(w, a) == SignExtended(Shifted(w, a % 4), 1)
lh(w, a) == IF a % 2 # 0 THEN MinusOne ELSE SignExtended(Shifted(w, a % 4), 2)
lw(w, a) == w
LoadWord(type, w, a) ==
    IF type = "Byte" THEN lb(w, a) ELSE IF type = "Half" THEN lh(w, a) ELSE lw(w, a)

\* What a load may return: outside of the array, garbage of its type.
Load(m, type, a) ==
    {LoadWord(type, w, a) : w \in IF Outside(a) THEN Garbage ELSE {m[a \div 4]}}

\* sb, sh, sw into the word w that holds address a: an odd half-word address
\* is reported, and its half-word written.  The mutant forgets pb += bi.
HalfOf(a) == IF (a % 4) \div 2 = 1 THEN 2 ELSE 0
sb_first(w, a, dado) == [w EXCEPT ![0] = dado[0]]
sb(w, a, dado) == [w EXCEPT ![a % 4] = dado[0]]
sh(w, a, dado) == [w EXCEPT ![HalfOf(a)] = dado[0], ![HalfOf(a) + 1] = dado[1]]
sw(w, a, dado) == dado
StoreWord(type, w, a, dado) ==
    IF type = "Byte" THEN sb(w, a, dado)
    ELSE IF type = "Half" THEN sh(w, a, dado) ELSE sw(w, a, dado)

Store(m, type, a, dado) ==
    IF Outside(a) THEN m
    ELSE [m EXCEPT ![a \div 4] = StoreWord(type, @, a, dado)]

-------------------------------------------------------------------------------
(* A request, [kind, type, addr, kte, dado], on a memory at once. *)

AddressOf(r) == IF r.kind = "store" THEN StoreAddress(r.addr, r.kte)
                ELSE LoadAddress(r.addr, r.kte)

RepliesOf(m, r, nothing) ==
    IF r.kind = "load" THEN Load(m, r.type, AddressOf(r)) ELSE {nothing}
EffectOf(m, r) ==
    IF r.kind = "store" THEN Store(m, r.type, AddressOf(r), r.dado) ELSE m
FailsOf(r) == ~InRange(AddressOf(r))
===============================================================================
