SPECIFICATION Spec
CONSTANTS
  e1 = e1
  a1 = a1
  a2 = a2
  d1 = d1
  d2 = d2
  Events = {e1}
  Watchers <- MCWatchers
  Routable <- MCRoutable
  Addrs = {a1}
  Instances = {d1}
  FaultKinds = {}
  MaxFaults = 0
  MaxMatched = 1
  MaxResends = 0
INVARIANTS
  AtMostThreeRetries
CHECK_DEADLOCK FALSE
