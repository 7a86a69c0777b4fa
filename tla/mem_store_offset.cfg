SPECIFICATION MemSystemSpec
CONSTANTS
  Master <- MemMaster
  Blocking <- MemMaster
  PriorityOf <- MCPriority
  LockFlags <- MCFlags
  Calls <- MCCalls
  Slave = {"mem"}
  StartAddress <- MCStart
  EndAddress <- MCEnd
  AddressSpace = 2048
  None = None
  ByteCount = 4
  UintCount = 64
  LoadOffsets = 16
  StoreOffsets = 4
  size = 2
  Loaded <- MCLoaded
  Garbage <- MCGarbage
  mem_wait_states = 2
  Requests <- FarStores
PROPERTY StoreReachesOffset
CHECK_DEADLOCK FALSE
