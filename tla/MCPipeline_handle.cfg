SPECIFICATION MCSpec
CONSTANTS
  g1 = g1
  g2 = g2
  Chains = {"ETH", "TRON", "SOL"}
  Inputs <- MCInputs
  Names <- MCNames
  Contracts <- MCContracts
  Pool = {g1, g2}
  Cap = 2
  maxBatch = 2
  MaxEvents = 6
  FaultKinds = {"insert", "stop", "query", "publish"}
  MaxEdits = 1
  MaxFaults = 2
  Programs <- MCPrograms
  SigCap = 2
  MaxTx = 2
  SolFaultKinds = {"connect", "break", "rpc"}
  MaxSolFaults = 2
INVARIANTS
  TypeOK
  InOrder
  
  OnlyLogsCollide
  SolTypeOK
  RecordedIsEmitted
PROPERTIES
  EventuallyWritten
  EventuallyEmitted
CHECK_DEADLOCK FALSE
