------------------------------ MODULE MCMipsPort ------------------------------
(***************************************************************************)
(* All programs on both processors.                                        *)
(***************************************************************************)
EXTENDS MipsPort, MipsPrograms

MCLoaded == {Image(p) : p \in Programs}
MCGarbage == {Bytes4(0), Bytes4(27), Bytes4(238)}
MCInputs == {-128, -3, 0, 2, 54, 127}
MCAnything == {Signal, -1, 0}
===============================================================================
