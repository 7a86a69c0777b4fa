--------------------------- MODULE MemWrapperProofs ---------------------------
(***************************************************************************)
(* What the proofs about the programs with a memory share: what its loads  *)
(* and stores do to the bytes of a word, and the bus calls of its wrapper. *)
(***************************************************************************)
EXTENDS MemWrapper, SimpleBusProofs

-------------------------------------------------------------------------------
(* Bytes *)

\* Remainders and quotients of addresses.
LEMMA DivisionOf ==
  ASSUME NEW a \in Int, NEW d \in Nat, d > 0
  PROVE  /\ a \div d \in Int /\ a % d \in 0 .. d - 1
         /\ a = d * (a \div d) + (a % d)
  OBVIOUS

LEMMA BytesFacts ==
  /\ ByteCount \in Nat /\ ByteCount >= 2 /\ 0 \in Byte /\ ByteCount - 1 \in Byte
  /\ UintCount \in Nat /\ UintCount > 0 /\ size \in Nat /\ size > 0
  /\ LoadOffsets \in Nat /\ LoadOffsets > 0 /\ StoreOffsets \in Nat /\ StoreOffsets > 0
  /\ Garbage \subseteq Int4 /\ Loaded \subseteq Memory /\ MinusOne \in Int4
  <1>1. ByteCount \in Nat /\ ByteCount # 0 /\ ByteCount % 2 = 0
    BY MemoryAssumption
  <1>2. ByteCount >= 2
    BY <1>1
  <1>3. 0 \in Byte /\ ByteCount - 1 \in Byte
    BY <1>1, <1>2 DEF Byte
  <1> QED
    BY <1>1, <1>2, <1>3, MemoryAssumption DEF Int4, Memory, Byte, MinusOne

\* What a load takes from a word is made of bytes.
LEMMA LoadWordType ==
  ASSUME NEW w \in Int4, NEW type \in OpType, NEW a \in Nat
  PROVE  LoadWord(type, w, a) \in Int4
  <1>1. ASSUME NEW v \in Int4, NEW n \in 1 .. 3 PROVE SignExtended(v, n) \in Int4
    BY BytesFacts DEF SignExtended, Int4
  <1>2. a % 4 \in 0 .. 3
    OBVIOUS
  <1>3. Shifted(w, a % 4) \in Int4
    BY <1>2, BytesFacts DEF Shifted, Int4
  <1> QED
    BY <1>1, <1>3, BytesFacts DEF LoadWord, lb, lh, lw, OpType

LEMMA LoadType ==
  ASSUME NEW m \in Memory, NEW type \in OpType, NEW a \in Nat, InRange(a)
  PROVE  Load(m, type, a) \subseteq Int4
  <1>1. a \div 4 \in Nat /\ a \div 4 <= size
    BY DEF InRange
  <1>2. ~Outside(a) => m[a \div 4] \in Int4
    BY <1>1, BytesFacts DEF Outside, Memory
  <1> QED
    BY <1>2, BytesFacts, LoadWordType DEF Load

LEMMA StoreWordType ==
  ASSUME NEW w \in Int4, NEW type \in OpType, NEW a \in Nat, NEW dado \in Int4
  PROVE  StoreWord(type, w, a, dado) \in Int4
  <1>1. dado[0] \in Byte /\ dado[1] \in Byte
    BY DEF Int4
  <1> QED
    BY <1>1 DEF StoreWord, sb, sh, sw, Int4

LEMMA StoreType ==
  ASSUME NEW m \in Memory, NEW type \in OpType, NEW a \in Nat, InRange(a),
         NEW dado \in Int4
  PROVE  Store(m, type, a, dado) \in Memory
  <1>1. a \div 4 \in Nat /\ a \div 4 <= size
    BY DEF InRange
  <1>2. CASE Outside(a)
    BY <1>2 DEF Store
  <1>3. CASE ~Outside(a)
    <2>1. a \div 4 \in 0 .. size - 1
      BY <1>1, <1>3, BytesFacts DEF Outside
    <2>2. StoreWord(type, m[a \div 4], a, dado) \in Int4
      BY <2>1, StoreWordType DEF Memory
    <2> QED
      BY <1>3, <2>1, <2>2 DEF Store, Memory
  <1> QED
    BY <1>2, <1>3

-------------------------------------------------------------------------------
(* Bus calls *)

\* The three bus calls of a request: the mode, the address, then the data.
AccessAddress(n) == IF n = 1 THEN OpTypeReg ELSE IF n = 2 THEN AddrReg ELSE MemAddr
Reads(r, n) == r.kind = "load" /\ n = 3

LEMMA AccessFacts ==
  ASSUME NEW r, NEW n \in 1 .. 3
  PROVE  /\ Len(Accesses(r)) = 3
         /\ Reads(r, n) => Accesses(r)[n] = ReadFrom(AccessAddress(n))
         /\ ~Reads(r, n) => Accesses(r)[n] = WriteTo(AccessAddress(n))
  <1>1. Len(Accesses(r)) = 3
    BY DEF Accesses
  <1>2. /\ Accesses(r)[1] = WriteTo(OpTypeReg) /\ Accesses(r)[2] = WriteTo(AddrReg)
        /\ Accesses(r)[3] = IF r.kind = "load" THEN ReadFrom(MemAddr) ELSE WriteTo(MemAddr)
    BY DEF Accesses
  <1> QED
    BY <1>1, <1>2 DEF Reads, AccessAddress

LEMMA AccessLength == \A r : Len(Accesses(r)) = 3
  BY DEF Accesses

LEMMA MemAnswerIsRequest ==
  ASSUME NEW p, NEW answer, HandleAnswer(p, answer)
  PROVE  HandleRequest(p)
  BY DEF HandleRequest, HandleAnswer

LEMMA MemToHandle ==
  ASSUME TypeOK
  PROVE  ToHandle \subseteq Priority
  BY DEF ToHandle, Arbitrate, LockedBurst, LockGranted, MostUrgent, Pending, TypeOK

-------------------------------------------------------------------------------
(* What the slave does at a falling edge *)

\* What a write brings has the type of the register it is for.
LEMMA MemWriteType ==
  ASSUME MemTypeOK, request.type \in OpType, request.dado \in Int4,
         AddressOf(request) \in 0 .. UintCount - 1, MemWrite(mem_priority)
  PROVE  MemTypeOK' /\ UNCHANGED user /\ exited' \in BOOLEAN
  <1>1. /\ mem \in Memory /\ op_type_reg \in OpType /\ addr_reg \in 0 .. UintCount - 1
        /\ mem_wait_left \in -1 .. mem_wait_states /\ addr_reg \in Nat
    BY BytesFacts DEF MemTypeOK
  <1>3. UNCHANGED user /\ exited' \in BOOLEAN
    BY DEF MemWrite, WriteExits
  <1>4. CASE exited'
    BY <1>1, <1>3, <1>4 DEF MemWrite, mem_vars, MemTypeOK
  <1>5. CASE ~exited'
    <2>1. mem_write(MemValue, address[mem_priority]) /\ ~WriteExits(address[mem_priority])
      BY <1>5 DEF MemWrite
    <2>2. CASE mem_write_status # "OK"
      BY <1>1, <1>3, <2>1, <2>2 DEF mem_write, MemTypeOK
    <2>3. CASE mem_write_status = "OK"
      <3>1. mem_direct_write(MemValue, address[mem_priority])
            /\ mem_wait_left' = mem_wait_left
        BY <2>1, <2>3 DEF mem_write
      <3>2. /\ address[mem_priority] = OpTypeReg => MemValue \in OpType
            /\ address[mem_priority] = AddrReg => MemValue \in 0 .. UintCount - 1
            /\ address[mem_priority] = MemAddr => MemValue \in Int4
        BY DEF MemValue, OpTypeReg, AddrReg, MemAddr
      <3>3. address[mem_priority] = MemAddr =>
              Store(mem, op_type_reg, addr_reg, MemValue) \in Memory
        BY <1>1, <2>1, <2>3, <3>2, StoreType DEF WriteExits
      <3> QED
        BY <1>1, <1>3, <3>1, <3>2, <3>3 DEF mem_direct_write, MemTypeOK
    <2> QED
      BY <2>2, <2>3
  <1> QED
    BY <1>3, <1>4, <1>5

LEMMA MemReadType ==
  ASSUME MemTypeOK, reply \in Int4, NEW p, MemRead(p)
  PROVE  /\ MemTypeOK' /\ UNCHANGED <<request, step>> /\ reply' \in Int4
         /\ exited' \in BOOLEAN
  <1>1. /\ mem \in Memory /\ op_type_reg \in OpType /\ addr_reg \in 0 .. UintCount - 1
        /\ mem_wait_left \in -1 .. mem_wait_states /\ addr_reg \in Nat
    BY BytesFacts DEF MemTypeOK
  <1>2. UNCHANGED <<request, step>> /\ exited' \in BOOLEAN
    BY DEF MemRead, ReadExits
  <1>3. CASE exited'
    BY <1>1, <1>2, <1>3 DEF MemRead, mem_vars, MemTypeOK
  <1>4. CASE ~exited'
    <2>1. mem_read(address[p]) /\ ~ReadExits
          /\ reply' \in IF mem_read_status = "OK" THEN mem_direct_read ELSE {reply}
      BY <1>4 DEF MemRead
    <2>2. MemTypeOK'
      BY <1>1, <2>1, MemWaitAssumption DEF mem_read, MemTypeOK
    <2>3. mem_read_status = "OK" => mem_direct_read \subseteq Int4
      BY <1>1, <2>1, LoadType DEF ReadExits, mem_direct_read
    <2> QED
      BY <1>1, <1>2, <2>1, <2>2, <2>3
  <1> QED
    BY <1>3, <1>4

===============================================================================
