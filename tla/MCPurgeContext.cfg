CONSTANTS
  p1 = p1  p2 = p2  r1 = r1  r2 = r2  r3 = r3  k1 = k1
  Locks = {p1, p2}
  Hashes = {k1}
  HashOf <- MCHashOf
  NumSlots = 1
  Base <- MCBase
  StealMs = 1
  NoHash = NoHash
  Requests = {r1, r2, r3}
  ProcOf <- MCProcOf
  TimeoutMs = 1
  MaxContentionRetries = 1
  MaxFailures = 2
  MaxKills = 1
  Pollers = {p2}
  MaxPolls = 1
  MaxTime = 2
SPECIFICATION Spec
INVARIANTS OneChainWaits FileKeepsPromise PurgesReachProcesses
CONSTRAINT SecondFailureAlone
SYMMETRY Symmetry
CHECK_DEADLOCK FALSE
