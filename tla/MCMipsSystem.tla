----------------------------- MODULE MCMipsSystem -----------------------------
(***************************************************************************)
(* The basic programs for the processor on the bus.                        *)
(***************************************************************************)
EXTENDS MipsSystem, MipsPrograms

MCLoaded == {Image(p) : p \in Basic}
MCGarbage == {Bytes4(0), Bytes4(27)}
MCInputs == {-3, 2, 54}
MCOperands == {-101}
MCAnything == {Trap, -1}

MCFlags == [m \in MipsMaster |-> {FALSE}]
MCCalls == [m \in MipsMaster |->
    IF m = cpu
    THEN [do_write : {TRUE}, address : {OpA, OpB}, length : {1}]
         \cup [do_write : {FALSE}, address : {MLow, MHigh, Div, Mod}, length : {1}]
    ELSE [do_write : {TRUE}, address : {OpTypeReg, AddrReg, MemAddr}, length : {1}]
         \cup [do_write : {FALSE}, address : {MemAddr}, length : {1}]]
===============================================================================
