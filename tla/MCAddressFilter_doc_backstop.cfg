SPECIFICATION FairSpec
CONSTANTS
  s1 = s1
  s2 = s2
  Subs = {s1, s2}
  ChainOf <- MCChainOf
  AddrOf <- MCAddrOf
  Chains = {"ETH", "BSC"}
  Later = {"BSC"}
  PageSize = 1
  FaultKinds = {}
  MaxFaults = 0
PROPERTIES
  Watched
CHECK_DEADLOCK FALSE
