SPECIFICATION Spec
CONSTANTS
  a = a  b = b  f1 = f1  f2 = f2  f3 = f3  f4 = f4  f5 = f5
  Hosts = {a, b}
  Fetches = {f1, f2, f3, f4, f5}
  HostOf <- MCHostOf
  Background = {f1, f2, f3, f5}
  MaxGlobalQueue = 1
  PerHostOutgoing = 1
  PerHostQueued = 1
  None = None
INVARIANTS CountsMatch NoEntryLeaks
PROPERTIES EveryFetchAnswered
\* Every fetch is done.
CHECK_DEADLOCK FALSE
