SPECIFICATION FairSpec
CONSTANTS
  w1 = w1
  w2 = w2
  Instances = {w1, w2}
  Chains = {ETH}
  TTL = 3
  RenewWithin = 2
  FaultKinds = {"crash"}
  MaxFaults = 1
PROPERTIES
  Takeover
CHECK_DEADLOCK FALSE
