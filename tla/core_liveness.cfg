SPECIFICATION FairSpec
CONSTANTS
  maxStatusesQuantity = 1
  Operators = {o1}
  Pods = {p1}
  Texts = {"a", "b"}
  Images = {"v1", "v2"}
  Sizes = {"1Gi", "2Gi", "1.5Gi"}
  Uncanonical = {"1.5Gi"}
  UserSpecs <- LiveSpecs
  Absent = Absent
  MaxCreates = 1
  MaxEdits = 2
  MaxFaults = 0
  MaxCrashes = 0
PROPERTIES
  PauseSettles
  RunSettles
  RunningReported
