SPECIFICATION RpcSpec
CONSTANTS
  c1 = c1 c2 = c2 c3 = c3 k1 = k1 k2 = k2 p1 = p1
  Callbacks = {c1, c2, c3}
  Keys = {k1, k2}
  Procs = {p1}
  KeyOf <- MCKeyOf
  ProcOf <- MCProcOf
  Server = server
  Threads = {server}
  None = none
  MaxRunning = 1
  MaxQueued = 2
  MaxTime = 1
  PanicThreshold = 1
  ReconnectDelay = 1
  RetryDelay = 1
  MaxFaults = 1
INVARIANTS RpcConsistent
PROPERTIES EverythingSettles
CHECK_DEADLOCK FALSE
