CONSTANTS
  r = r  w = w  u = u  s = s  a1 = a1  a2 = a2  b1 = b1  b2 = b2  f1 = f1  f2 = f2
  None = None
  Threads <- MCThreads
  SchedulerThread = s
  Alarms <- MCAlarms
  WaitAlarms = {b1, b2}
  RequestThread = r
  Worker = w
  User = u
  Functions = {f1,f2}
  Delays = {1}
  FetchTimeout = 2
  MaxTime = 2
  Drops = TRUE
SPECIFICATION Spec
INVARIANTS AlarmsConsistent AnsweredOnce AddedInOrder WakeupNotLost
CHECK_DEADLOCK FALSE
SYMMETRY Symmetry
