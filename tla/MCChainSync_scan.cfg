SPECIFICATION RecoveringSpec
CONSTANTS
  Content <- MCContent
  W = 5
  Head0 = 9
  MaxHead = 11
  Confirmations = 3
  ChCap = 2
  WorkerCount = 2
  PersistEvery = 2
  FaultKinds = {"crash", "early", "redis", "store", "primary", "call", "half", "body", "publish"}
  MaxFaults = 2
INVARIANTS
  NeverAhead
  NoGap
PROPERTIES
  EventuallyPublished
CHECK_DEADLOCK FALSE
