SPECIFICATION Spec
CONSTANTS
  w1 = w1
  w2 = w2
  Instances = {w1, w2}
  Chains = {ETH, BSC}
  TTL = 3
  RenewWithin = 2
  FaultKinds = {}
  MaxFaults = 0
INVARIANTS
  OneListenerPerChain
CHECK_DEADLOCK FALSE
