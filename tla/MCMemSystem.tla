----------------------------- MODULE MCMemSystem -----------------------------
(***************************************************************************)
(* A memory of two words of bytes 0 to 3, of which 2 and 3 are negative.   *)
(* An unsigned int goes to 63, an offset of a load to 15, of a store to 3. *)
(***************************************************************************)
EXTENDS MemSystem

MCPriority == [m \in MemMaster |-> 2]
MCFlags == [m \in MemMaster |-> {FALSE}]
MCStart == [s \in {"mem"} |-> MemStartAddr]
MCEnd == [s \in {"mem"} |-> MemEndAddr]
MCCalls == [m \in MemMaster |->
    [do_write : {TRUE}, address : {OpTypeReg, AddrReg, MemAddr}, length : {1}]
    \cup [do_write : {FALSE}, address : {MemAddr}, length : {1}]]

Bytes(a, b, c, d) == [i \in 0 .. 3 |->
    CASE i = 0 -> a [] i = 1 -> b [] i = 2 -> c [] i = 3 -> d]
MCLoaded == {[i \in 0 .. 1 |-> IF i = 0 THEN Bytes(0, 1, 2, 3) ELSE Bytes(3, 0, 2, 1)]}
MCGarbage == {Bytes(3, 2, 1, 0), Bytes(0, 3, 0, 3)}
Of(kind, type, addr, kte, dado) ==
    [kind |-> kind, type |-> type, addr |-> addr, kte |-> kte, dado |-> dado]
Zero == Bytes(0, 0, 0, 0)

\* Loads and stores of every type, aligned and not, with offsets that wrap, at
\* the word after the array and beyond.
MCRequests ==
    {Of("load", "Byte", 4, 2, Zero), Of("load", "Half", 4, 1, Zero),
     Of("load", "Half", 0, 2, Zero), Of("load", "Word", 60, 8, Zero),
     Of("load", "Byte", 8, 0, Zero), Of("load", "Word", 12, 0, Zero),
     Of("store", "Byte", 5, 2, Bytes(1, 2, 3, 0)),
     Of("store", "Half", 3, 0, Bytes(2, 3, 1, 0)),
     Of("store", "Half", 4, 2, Bytes(2, 3, 1, 0)),
     Of("store", "Word", 0, 4, Bytes(1, 2, 3, 0)),
     Of("store", "Word", 8, 0, Bytes(1, 1, 1, 1)),
     Of("store", "Byte", 13, 0, Zero)}

\* A store with an offset that an sc_uint<5> cannot hold.
FarStores == {Of("store", "Word", 0, 4, Bytes(1, 2, 3, 0))}
===============================================================================
