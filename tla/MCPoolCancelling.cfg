SPECIFICATION Spec
CONSTANTS
  Seqs = {s1, s2}
  Functions = {f1, f2, f3}
  Workers = {w1}
  Clients = {c1, c2}
  None = None
  MaxQueueSize = 0
  LoadShedding = 1
  CancelsPending = TRUE
  AddsDuringShutDown = FALSE
INVARIANTS PoolConsistent
PROPERTIES ShutDownReturns EveryFunctionAnswered
\* Every function has been answered.
CHECK_DEADLOCK FALSE
