SPECIFICATION BatcherSpec
CONSTANTS
  k1 = k1  k2 = k2  k3 = k3
  c1 = c1  c2 = c2  c3 = c3  c4 = c4  c5 = c5  c6 = c6
  Keys = {k1, k2, k3}
  Gets = {c1, c2, c3, c4, c5, c6}
  KeyOf <- MCKeyOf
  MaxParallelLookups = 2
  MaxPendingGets = 3
  ShutsDownBusy = FALSE
INVARIANTS GetsAccounted ExtractFinds
PROPERTIES EveryGetAnswered
\* Every get has been answered.
CHECK_DEADLOCK FALSE
