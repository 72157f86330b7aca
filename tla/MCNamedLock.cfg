SPECIFICATION Spec
CONSTANTS
  c1 = c1  c2 = c2  c3 = c3  c4 = c4  p1 = p1  p2 = p2  k1 = k1  k2 = k2
  Locks = {c1, c2, c3, c4}
  Hashes = {k1, k2}
  HashOf <- MCKeyOf
  NumSlots = 2
  Base <- MCBase
  StealMs = 1
  NoHash = NoHash
  Procs = {p1, p2}
  ProcOf <- MCProcOf
  MaxTime = 2
  MaxCrashes = 1
  Null = Null
SYMMETRY Symmetric
INVARIANTS LocksConsistent OneRewritePerKey EndsClean
CHECK_DEADLOCK FALSE
