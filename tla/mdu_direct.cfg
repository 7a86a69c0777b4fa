SPECIFICATION DirectSpec
CONSTANTS
  None = None
  Half = 4
  wait_states = 2
INVARIANTS
  DirectTypeOK
  JoinedProduct
  DivisionLaws
CHECK_DEADLOCK FALSE
