SPECIFICATION FairSpec
CONSTANTS
  Master <- TrafficMaster
  Blocking <- TrafficBlocking
  PriorityOf <- TrafficPriority
  LockFlags <- TrafficFlags
  Calls <- TrafficCalls
  Slave <- MCSlave
  StartAddress <- MCStart
  EndAddress <- MCEnd
  AddressSpace = 32
  None = None
INVARIANTS
  TypeOK
  ReturnsFinal
  LockInv
  OneWinner
  NoLostWakeup
  NeverAborts
  OKMeansAllWords
  PendingProgress
  ErrorKeepsRest
PROPERTIES
  HolderServedNext
  UnlockedKeepTheirTurn
  StarvesOnlyBehindThem
