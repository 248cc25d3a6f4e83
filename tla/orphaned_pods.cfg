SPECIFICATION LifecycleFairSpec
CONSTANTS
  maxStatusesQuantity = 2
  Operators = {o1}
  Pods = {p1}
  Texts = {"a", "b"}
  Images = {"v1", "v2"}
  Sizes = {"1Gi", "2Gi", "1.5Gi"}
  Uncanonical = {"1.5Gi"}
  UserSpecs <- FullSpecs
  Absent = Absent
  MaxCreates = 1
  MaxEdits = 1
  MaxFaults = 0
  MaxCrashes = 0
  MaxDeletes = 1
PROPERTIES
  CollectorGoes
CHECK_DEADLOCK FALSE
