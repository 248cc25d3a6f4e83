SPECIFICATION Spec
CONSTANTS
  maxStatusesQuantity = 2
  MaxPods = 4
INVARIANTS
  TypeOK
  OutcomeIsOrderFree
  ReadyPodsFinish
CHECK_DEADLOCK FALSE
