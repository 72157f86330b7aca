SPECIFICATION Spec
CONSTANTS
  Seqs = {s1, s2}
  Functions = {f1, f2, f3}
  Workers = {w1, w2}
  Clients = {c1, c2}
  None = None
  MaxQueueSize = 0
  LoadShedding = 0
  CancelsPending = TRUE
  AddsDuringShutDown = FALSE
SYMMETRY Symmetric
INVARIANT Sequential
CHECK_DEADLOCK FALSE
