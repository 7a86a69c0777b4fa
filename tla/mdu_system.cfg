SPECIFICATION SystemSpec
CONSTANTS
  Master <- SystemMaster
  Blocking <- SystemMaster
  PriorityOf <- MCPriority
  LockFlags <- MCFlags
  Calls <- MCCalls
  Slave = {"MDU"}
  StartAddress <- MCStart
  EndAddress <- MCEnd
  AddressSpace = 512
  None = None
  Half = 4
  wait_states = 2
  Testcases <- MCTestcases
  MaxTests = 2
INVARIANTS
  SystemTypeOK
  WriteFindsMduFree
PROPERTIES
  TakesWaitStates
  ImplementsCalculator
CHECK_DEADLOCK FALSE
