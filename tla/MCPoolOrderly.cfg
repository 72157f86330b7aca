SPECIFICATION Spec
CONSTANTS
  Seqs = {s1, s2}
  Functions = {f1, f2, f3}
  Workers = {w1, w2}
  Clients = {c1, c2}
  None = None
  MaxQueueSize = 2
  LoadShedding = 0
  CancelsPending = FALSE
  AddsDuringShutDown = FALSE
INVARIANTS ServedByOne
PROPERTIES IsSequencer
\* Every function has been answered.
CHECK_DEADLOCK FALSE
