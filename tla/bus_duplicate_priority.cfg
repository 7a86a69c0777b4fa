SPECIFICATION Spec
CONSTANTS
  Master <- DuelMaster
  Blocking <- DuelMaster
  PriorityOf <- SamePriority
  LockFlags <- DuelFlags
  Calls <- DuelCalls
  Slave <- MCSlave
  StartAddress <- MCStart
  EndAddress <- MCEnd
  AddressSpace = 32
  None = None
INVARIANTS
  DuplicatesAbort
