SPECIFICATION SuccessionFairSpec
CONSTANTS
  maxStatusesQuantity = 1
  Operators = {o1}
  Pods = {p1}
  Texts = {"a", "b"}
  Images = {"v1", "v2"}
  Sizes = {"1Gi", "2Gi", "1.5Gi"}
  Uncanonical = {"1.5Gi"}
  UserSpecs <- SuccessorSpecs
  Absent = Absent
  MaxCreates = 2
  MaxEdits = 0
  MaxFaults = 0
  MaxCrashes = 0
  MaxDeletes = 1
INVARIANTS
  OwnersKnown
PROPERTIES
  OwnedObjectsGo
  SuccessorSettles
  PassesStayWithTheirResource
  KeepsOwnership
CHECK_DEADLOCK FALSE
