SPECIFICATION FairSpec
CONSTANTS
  MaxUrls = 2
  MaxEdits = 2
  MaxFlaps = 2
  MaxLost = 1
INVARIANTS
  OutcomesAgree
  JobIsChecked
PROPERTIES
  SuccessIsWhole
  CheckSettles
