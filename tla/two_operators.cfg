SPECIFICATION SettledSpec
CONSTANTS
  maxStatusesQuantity = 1
  Operators = {o1, o2}
  Pods = {}
  Texts = {"a", "b"}
  Images = {"v1", "v2"}
  Sizes = {"1Gi", "2Gi", "1.5Gi"}
  Uncanonical = {"1.5Gi"}
  UserSpecs <- PauseSpecs
  Absent = Absent
  MaxCreates = 1
  MaxEdits = 1
  MaxFaults = 0
  MaxCrashes = 0
PROPERTIES
  PauseSettles
  RunSettles
