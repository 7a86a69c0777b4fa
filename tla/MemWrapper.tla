------------------------------ MODULE MemWrapper ------------------------------
(***************************************************************************)
(* mem_mips_bus_wrapper (include/mem_mips_bus_wrapper.h): each load or     *)
(* store of mem_if is three calls of the bus, and what the bus does with   *)
(* them when mem_mips is the slave.                                        *)
(***************************************************************************)
EXTENDS SimpleBus, MemMips, Sequences

wrapper == "pmem"
mem_priority == 2

VARIABLES
    request,            \* the [kind, type, addr, kte, dado] in progress, or the
                        \* last one
    step,               \* how many of its bus calls were made
    reply,              \* the local data of load, not initialised
    exited              \* the program ended, in check_address_range

user == <<request, step, reply>>

\* The bus calls of a request, in order; the mutant forgets to set the mode.
WriteTo(a) == [do_write |-> TRUE, address |-> a, length |-> 1]
ReadFrom(a) == [do_write |-> FALSE, address |-> a, length |-> 1]
AccessesWithoutMode(r) ==
    <<WriteTo(AddrReg), IF r.kind = "load" THEN ReadFrom(MemAddr) ELSE WriteTo(MemAddr)>>
Accesses(r) ==
    <<WriteTo(OpTypeReg), WriteTo(AddrReg),
      IF r.kind = "load" THEN ReadFrom(MemAddr) ELSE WriteTo(MemAddr)>>

\* The variable whose address a write is given.
MemValue ==
    CASE address[mem_priority] = OpTypeReg -> request.type
      [] address[mem_priority] = AddrReg -> AddressOf(request)
      [] OTHER -> request.dado

\* The next call of a load or store: data is declared before it is read into.
WrapperCall(r, n) ==
    LET call == Accesses(r)[n] IN
    /\ BurstCall(wrapper, call, FALSE)
    /\ IF call.do_write THEN UNCHANGED reply ELSE reply' \in Garbage

\* The falling edge that asks mem_mips.
MemWrite(p) ==
    /\ do_write[p]
    /\ exited' = WriteExits(address[p])
    /\ IF exited' THEN UNCHANGED <<vars, mem_vars>>
       ELSE /\ HandleAnswer(p, mem_write_status)
            /\ mem_write(MemValue, address[p])
    /\ UNCHANGED user
MemRead(p) ==
    /\ ~do_write[p]
    /\ exited' = ReadExits
    /\ IF exited' THEN UNCHANGED <<vars, mem_vars, reply>>
       ELSE /\ HandleAnswer(p, mem_read_status)
            /\ mem_read(address[p])
            /\ IF mem_read_status = "OK" THEN reply' \in mem_direct_read
                                         ELSE UNCHANGED reply
    /\ UNCHANGED <<request, step>>

===============================================================================
