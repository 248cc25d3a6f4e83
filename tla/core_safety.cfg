SPECIFICATION OriginsSpec
CONSTANTS
  maxStatusesQuantity = 2
  Operators = {o1}
  Pods = {p1}
  Texts = {"a", "b"}
  Images = {"v1", "v2"}
  Sizes = {"1Gi", "2Gi", "1.5Gi"}
  Uncanonical = {"1.5Gi"}
  UserSpecs <- SafetySpecs
  Absent = Absent
  MaxCreates = 1
  MaxEdits = 1
  MaxFaults = 1
  MaxCrashes = 0
INVARIANTS
  TypeOK
  StatusCoherent
  MountsBeforeJob
  OriginInv
PROPERTIES
  OperatorKeepsIntent
  ConditionsGrow
  KeepsPromise
