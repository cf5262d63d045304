SPECIFICATION Spec
CONSTANTS
  e1 = e1
  a1 = a1
  a2 = a2
  d1 = d1
  d2 = d2
  Events = {e1}
  Watchers <- MCWatchers
  Routable <- MCRoutable
  Addrs = {a1, a2}
  Instances = {d1, d2}
  FaultKinds = {"crash", "conn", "db", "publish"}
  MaxFaults = 1
  MaxMatched = 1
  MaxResends = 0
SYMMETRY Symmetry
INVARIANTS
  RetryDiscipline
  NoWatcherForgotten
  FailedIsRetried
  LogsSurviveConnLost
  UniqueLog
  DeadMeansExhausted
PROPERTIES
  KeepsPromise
CHECK_DEADLOCK FALSE
