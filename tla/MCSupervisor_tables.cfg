SPECIFICATION MCSpec
CONSTANTS
  w1 = w1
  w2 = w2
  k1 = k1
  k2 = k2
  p1 = p1
  Instances = {w1, w2}
  Chains = {ETH, BSC}
  TTL = 3
  RenewWithin = 2
  FaultKinds = {"crash", "redis"}
  MaxFaults = 3
  Contracts = {k1, k2}
  Pool = {p1}
  MaxValue = 1
  MaxEdits = 2
  MaxFailures = 2
INVARIANTS
  OneRenewer
  OneListener
  KeptLock
  SomeoneListens
  OneList
  TokenIsListed
PROPERTIES
  Freed
  EventuallyFiltered
CHECK_DEADLOCK FALSE
