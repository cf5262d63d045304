SPECIFICATION MCSpec
CONSTANTS
  d1 = d1
  d2 = d2
  u1 = u1
  t1 = t1
  t2 = t2
  a1 = a1
  a2 = a2
  NoURL = NoURL
  Native = Native
  Dispatchers = {d1, d2}
  URLs = {u1}
  Contracts = {t1, t2}
  MaxEdits = 2
  FaultKinds = {"crash", "api", "redis", "db"}
  MaxFaults = 1
  Apps = {a1, a2}
  Expanders = {d1, d2}
  TTL = 3
  Within = 2
  SubFaultKinds = {"crash", "api", "redis", "db"}
  MaxSubFaults = 2
INVARIANTS
  OneVersion
  Perishable
  BoundedStaleness
PROPERTIES
  EventuallyFresh
