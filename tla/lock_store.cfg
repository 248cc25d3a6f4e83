SPECIFICATION FairSpec
CONSTANTS
  Workers = {w1, w2, w3}
  Namespaces = {n1, n2}
  Names = {x}
  NoRequest = NoRequest
INVARIANTS
  LockInv
  PassesExclude
  LocksAreSeparate
PROPERTIES
  ImplementsPasses
  RequestsAreServed
