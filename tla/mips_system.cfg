SPECIFICATION MipsSpec
CONSTANTS
  Master <- MipsMaster
  Blocking <- MipsMaster
  PriorityOf <- Priorities
  LockFlags <- MCFlags
  Calls <- MCCalls
  Slave <- MipsSlave
  StartAddress <- Starts
  EndAddress <- Ends
  AddressSpace = 2048
  None = None
  Half = 128
  wait_states = 2
  ByteCount = 4
  UintCount = 256
  LoadOffsets = 16
  StoreOffsets = 4
  size = 16
  Loaded <- MCLoaded
  Garbage <- MCGarbage
  mem_wait_states = 2
  IntBits = 8
  ImmediateBits = 4
  JumpSpan = 64
  Decoded <- MCDecoded
  DATA_SEGMENT_START = 48
  Inputs <- MCInputs
  Operands <- MCOperands
  Anything <- MCAnything
  MaxResets = 2
INVARIANTS
  MipsTypeOK
PROPERTIES
  ImplementsMachine
CHECK_DEADLOCK FALSE
