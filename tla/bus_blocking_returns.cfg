SPECIFICATION FairSpec
CONSTANTS
  Master <- DuelMaster
  Blocking <- DuelMaster
  PriorityOf <- DuelPriority
  LockFlags <- DuelFlags
  Calls <- UnmappedCalls
  Slave <- MCSlave
  StartAddress <- MCStart
  EndAddress <- MCEnd
  AddressSpace = 32
  None = None
PROPERTIES
  BlockingCallReturns
