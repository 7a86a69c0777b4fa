------------------------------- MODULE MemMips -------------------------------
(***************************************************************************)
(* The memory of the processor as a slave (include/mem_mips.h): it         *)
(* performs loads and stores by way of a mode and an address register.     *)
(***************************************************************************)
EXTENDS MemArray

CONSTANT mem_wait_states    \* cycles that reading the array takes

ASSUME MemWaitAssumption == mem_wait_states \in Nat \ {0}

\* Registers on the bus.
MemStartAddr == 1024
OpTypeReg == 1028
AddrReg == 1032
MemAddr == 1036
MemEndAddr == 1039

VARIABLES
    mem,
    op_type_reg, addr_reg,
    mem_wait_left       \* cycles left of the read, -1 when there is none

mem_vars == <<mem, op_type_reg, addr_reg, mem_wait_left>>

MemInit ==
    /\ mem \in Loaded
    /\ op_type_reg = "Word" /\ addr_reg = 0 /\ mem_wait_left = -1

MemTypeOK ==
    /\ mem \in Memory /\ op_type_reg \in OpType
    /\ addr_reg \in 0 .. UintCount - 1
    /\ mem_wait_left \in -1 .. mem_wait_states

\* update_wait, at the rising edge; the mutants keep the count of a finished
\* read, and count on when there is none.
update_wait_past ==
    /\ mem_wait_left' = mem_wait_left - 1
    /\ UNCHANGED <<mem, op_type_reg, addr_reg>>
update_wait_stuck ==
    /\ mem_wait_left' = IF mem_wait_left > 0 THEN mem_wait_left - 1 ELSE mem_wait_left
    /\ UNCHANGED <<mem, op_type_reg, addr_reg>>
update_wait ==
    /\ mem_wait_left' = IF mem_wait_left >= 0 THEN mem_wait_left - 1 ELSE mem_wait_left
    /\ UNCHANGED <<mem, op_type_reg, addr_reg>>

\* read.  Only the array takes its time; but a read of another address that
\* starts at 0 is counted down before it is asked for again.
mem_read_status == IF mem_wait_left = 0 THEN "OK" ELSE "WAIT"
mem_read(a) ==
    /\ mem_wait_left' = IF mem_wait_left >= 0 THEN mem_wait_left
                        ELSE IF a = MemAddr THEN mem_wait_states ELSE 0
    /\ UNCHANGED <<mem, op_type_reg, addr_reg>>

\* direct_read, whatever the address.
mem_direct_read == Load(mem, op_type_reg, addr_reg)

\* check_address_range ends the program: a read of any address loads, a write
\* to MemAddr stores.
ReadExits == mem_read_status = "OK" /\ ~InRange(addr_reg)

\* write and direct_write.
mem_write_status == IF mem_wait_left >= 0 THEN "WAIT" ELSE "OK"
WriteExits(a) == mem_write_status = "OK" /\ a = MemAddr /\ ~InRange(addr_reg)
mem_direct_write(value, a) ==
    /\ op_type_reg' = IF a = OpTypeReg THEN value ELSE op_type_reg
    /\ addr_reg' = IF a = AddrReg THEN value ELSE addr_reg
    /\ mem' = IF a = MemAddr THEN Store(mem, op_type_reg, addr_reg, value) ELSE mem
mem_write(value, a) ==
    /\ IF mem_write_status = "OK" THEN mem_direct_write(value, a)
       ELSE UNCHANGED <<mem, op_type_reg, addr_reg>>
    /\ UNCHANGED mem_wait_left
===============================================================================
