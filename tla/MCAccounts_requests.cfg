SPECIFICATION Spec
CONSTANTS
  u1 = u1
  s1 = s1
  s2 = s2
  n1 = n1
  n2 = n2
  l1 = l1
  Users = {u1}
  Slots = {s1, s2}
  Names = {n1, n2}
  URLs = {l1}
  None = None
  Ops = {"Register", "ResendVerify", "VerifyEmail", "Login", "Refresh", "Logout", "Create", "Update", "Delete"}
  MaxRequests = 6
  FaultKinds = {"abort", "answer"}
  MaxFaults = 2
SYMMETRY Symmetry
INVARIANTS
  TypeOK
  UsedIsVerified
  OneToken
  LogoutIsFinal
  DuplicatesOverlap
CHECK_DEADLOCK FALSE
