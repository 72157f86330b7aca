---------------------------- MODULE RequestThread ----------------------------
(***************************************************************************)
(* A server's request thread, which runs the functions of its request      *)
(* itself: ApacheFetch::Wait (pagespeed/apache/apache_fetch.cc) in         *)
(* Scheduler::Sequence::RunTasksUntil (scheduler_sequence.cc) over the     *)
(* Scheduler it shares with every other request.  Workers add functions to *)
(* the sequence and say when the fetch is done; then what is left is       *)
(* forwarded to a pool.  Other users of the scheduler set alarms, wait and *)
(* signal; the scheduler thread runs what is due.                          *)
(***************************************************************************)
EXTENDS Scheduler

CONSTANTS RequestThread, Worker, User,   \* threads
          Functions,                     \* what workers add
          FetchTimeout,                  \* fetch_timeout_ms
          WaitAlarms                     \* the alarms the request thread uses

ASSUME RolesAssumption ==
  {RequestThread, Worker, User} \subseteq Threads /\ RequestThread # SchedulerThread
ASSUME WaitAssumption ==
  WaitAlarms \subseteq Alarms /\ FetchTimeout \in Nat \ {0}

VARIABLES
  work_queue,   \* of the scheduler sequence
  forwarded,    \* what went to the forwarding sequence; <<>> until it is set
  forwarding,   \* forwarding_sequence_ is set
  done,         \* done_ of the fetch
  added, ran,   \* history: functions added, and run by the request thread
  wait          \* whether Wait was not yet called ("no"), is running ("in") or "over"

requestVars == <<work_queue, forwarded, forwarding, done, added, ran, wait>>
vars == <<schedulerVars, requestVars>>

Init ==
  /\ SchedulerInit
  /\ work_queue = <<>> /\ forwarded = <<>> /\ forwarding = FALSE
  /\ done = FALSE /\ added = <<>> /\ ran = <<>> /\ wait = "no"

R == RequestThread

\* Sequence::Add.
Add(f) ==
  /\ f \notin Range(added)
  /\ added' = Append(added, f)
  /\ IF forwarding
     THEN /\ mutex = None /\ Outside(Worker, "idle")
          /\ forwarded' = Append(forwarded, f)
          /\ UNCHANGED <<work_queue, schedulerVars>>
     ELSE /\ Signal(Worker)
          /\ work_queue' = Append(work_queue, f)
          /\ UNCHANGED forwarded
  /\ UNCHANGED <<forwarding, done, ran, wait>>

\* Mutant of HandleDone: it does not signal.
HandleDoneSilently ==
  /\ ~done /\ done' = TRUE
  /\ mutex = None /\ Outside(Worker, "idle")
  /\ UNCHANGED <<schedulerVars, work_queue, forwarded, forwarding, added, ran, wait>>
HandleDone ==
  /\ ~done /\ done' = TRUE
  /\ Signal(Worker)
  /\ UNCHANGED <<work_queue, forwarded, forwarding, added, ran, wait>>

\* ApacheFetch::Wait takes the mutex and calls RunTasksUntil.
StartWait ==
  /\ wait = "no" /\ wait' = "in"
  /\ Enters(R, "idle")
  /\ thread' = [thread EXCEPT ![R].at = "tasks"]
  /\ UNCHANGED <<now, alarm, outstanding, waiting, stray, work_queue, forwarded,
                 forwarding, done, added, ran>>

\* RunTasksUntil: the next function, with the mutex dropped, ...
RunTask ==
  /\ Inside(R, "tasks") /\ ~done /\ work_queue # <<>>
  /\ work_queue' = Tail(work_queue)
  /\ ran' = Append(ran, Head(work_queue))
  /\ mutex' = None
  /\ thread' = [thread EXCEPT ![R].at = "task"]
  /\ UNCHANGED <<now, alarm, outstanding, waiting, stray, forwarded, forwarding,
                 done, added, wait>>
TaskReturns ==
  /\ Enters(R, "task")
  /\ thread' = [thread EXCEPT ![R].at = "tasks"]
  /\ UNCHANGED <<now, alarm, outstanding, waiting, stray, requestVars>>

\* The new Alarm is one that is not in use, or was deleted.
FreeWaitAlarms == {a \in WaitAlarms : Unused(a) \/ alarm[a].deletes = 1}
\* ... or a wait.  A wait that has come to the end of its time is followed by
\* another, by RunTasksUntil or by the loop around it.
WaitForTasks ==
  /\ FreeWaitAlarms # {}
  /\ Inside(R, "tasks") /\ ~done /\ work_queue = <<>>
  /\ BlockingTimedWaitUs(R, CHOOSE a \in FreeWaitAlarms : TRUE, FetchTimeout)
  /\ UNCHANGED <<mutex, requestVars>>
WaitReturns ==
  /\ Inside(R, "unblocked")
  /\ thread' = [thread EXCEPT ![R] = [IdleThread EXCEPT !.at = "tasks"]]
  /\ UNCHANGED <<now, mutex, alarm, outstanding, waiting, stray, requestVars>>

\* Mutant of SwitchToQueuedWorkerPool: what is queued is not transferred.
SwitchDropsQueue ==
  /\ Inside(R, "tasks") /\ done
  /\ wait' = "over"
  /\ forwarding' = TRUE /\ work_queue' = <<>>
  /\ UNCHANGED forwarded
  /\ mutex' = None
  /\ thread' = [thread EXCEPT ![R] = IdleThread]
  /\ UNCHANGED <<now, alarm, outstanding, waiting, stray, done, added, ran>>
\* The fetch is done: ForwardToSequence, with the mutex still held.
SwitchToQueuedWorkerPool ==
  /\ Inside(R, "tasks") /\ done
  /\ wait' = "over"
  /\ forwarding' = TRUE
  /\ forwarded' = work_queue /\ work_queue' = <<>>
  /\ mutex' = None
  /\ thread' = [thread EXCEPT ![R] = IdleThread]
  /\ UNCHANGED <<now, alarm, outstanding, waiting, stray, done, added, ran>>

RequestStep ==
  \/ RunTask \/ TaskReturns \/ WaitReturns \/ SwitchToQueuedWorkerPool
  \/ WaitForTasks

UserStep ==
  \/ \E a \in Alarms \ WaitAlarms :
       \/ \E d \in Delays : AddAlarmAtUs(User, a, d) \/ TimedWaitMs(User, a, d)
       \/ CancelAlarm(User, a)
  \/ ProcessAlarmsOrWaitUs(SchedulerThread)

Next ==
  \/ \E f \in Functions : Add(f)
  \/ HandleDone \/ StartWait \/ RequestStep
  \/ UserStep /\ UNCHANGED requestVars
  \/ (\E t \in Threads : Goes(t)) /\ UNCHANGED requestVars
  \/ Tick /\ UNCHANGED requestVars

Spec == Init /\ [][Next]_vars

-----------------------------------------------------------------------------
\* Every function a worker adds is run by the request thread or handed to the
\* pool, once, and in the order of adding: the switch from the one to the other
\* neither loses, doubles nor overtakes (Sequence::Add, RunTasksUntil and
\* ForwardToSequence).
AddedInOrder == added = ran \o work_queue \o forwarded

\* A request thread asleep in Wait learns that there is a function for it or that
\* its fetch is done: somebody has woken it, or is in a Signal that still will.
\* Between the thread's test of work_queue and done_ and its sleep, and while
\* Signal drops the mutex for other waiters' callbacks, no wakeup gets lost.
Signaling(t) == thread[t].at \in {"dispatch", "signaled"}
WakeupNotLost ==
  thread[R].at = "await" /\ (done \/ work_queue # <<>>)
    => thread[R].woken \/ \E t \in Threads : Signaling(t)
=============================================================================
