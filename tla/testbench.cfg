SPECIFICATION BenchSpec
CONSTANTS
  Master <- BenchMaster
  Blocking = {"master_b"}
  PriorityOf <- MCPriority
  LockFlags <- MCFlags
  Calls <- MCCalls
  Slave <- MCSlave
  StartAddress <- MCStart
  EndAddress <- MCEnd
  AddressSpace = 32
  None = None
  mylength = 3
  m_address = 0
  m_start_address = 4
  Span = 4
  m_address_d = 4
  Window = 2
  m_timeout <- MCTimeout
  m_nr_wait_states = 1
  ValueCount = 4
  Garbage = {0, 3}
INVARIANTS
  BenchTypeOK
  SlowMemoryFresh
PROPERTIES
  ImplementsSharedMemory
