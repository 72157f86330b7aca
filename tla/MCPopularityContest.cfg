SPECIFICATION Spec
CONSTANTS
  k1 = k1  k2 = k2  k3 = k3  k4 = k4
  c1 = c1  c2 = c2  c3 = c3  c4 = c4  c5 = c5  c6 = c6
  t1 = t1  t2 = t2
  Keys = {k1, k2, k3, k4}
  Callbacks = {c1, c2, c3, c4, c5, c6}
  Threads = {t1, t2}
  KeyOf <- MCKeyOf
  MaxRunning = 1
  MaxQueued = 3
  MaxTime = 1
  None = None
INVARIANTS StatesConsistent WorkConserving PopularityKept
PROPERTIES MostPopularFirst KeepsPromise
\* Every callback has been answered and reported: nothing is left to do.
CHECK_DEADLOCK FALSE
