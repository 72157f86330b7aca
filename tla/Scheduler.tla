------------------------------ MODULE Scheduler ------------------------------
(***************************************************************************)
(* Scheduler (pagespeed/kernel/thread/scheduler.cc): alarms in the order   *)
(* of their times, and condition-variable waits that are alarms as well.   *)
(* A waiting alarm is in outstanding_alarms, where time runs it, and in    *)
(* waiting_alarms, where Signal cancels it.                                *)
(*                                                                         *)
(* The mutex is a variable here, because functions that hold it drop it in *)
(* the middle, while a user's callback runs, and go on with alarms that    *)
(* other threads may have run or deleted since.  `at` is where a thread    *)
(* is; whoever is inside RunAlarms, Signal or the end of a wait holds the  *)
(* mutex, whoever is in a callback or asleep does not.                     *)
(*                                                                         *)
(* signal_count_, which is only compared with an earlier value, is a flag  *)
(* per sleeping thread; insertion order stands for index_.                 *)
(***************************************************************************)
EXTENDS Integers, FiniteSets, SequencesExt

CONSTANTS Threads,
          SchedulerThread,  \* the one that loops in ProcessAlarmsOrWaitUs
          Alarms,           \* Alarm objects
          Delays,           \* timeouts that are asked for
          MaxTime,          \* bound on now
          Drops,            \* whether wait callbacks drop the mutex: BOOLEAN
          None

ASSUME ThreadsAssumption == SchedulerThread \in Threads /\ None \notin Threads \cup Alarms
ASSUME TimesAssumption == Delays \subseteq Nat \ {0} /\ MaxTime \in Nat /\ Drops \in BOOLEAN

VARIABLES
  now,          \* timer_->NowUs()
  mutex,        \* its holder, or None
  alarm,        \* the Alarm objects
  outstanding,  \* outstanding_alarms_, in order
  waiting,      \* waiting_alarms_
  thread,       \* where each thread is
  stray         \* history: waits that had returned when their flag was set

schedulerVars == <<now, mutex, alarm, outstanding, waiting, thread, stray>>

FreshAlarm ==
  [kind |-> "none", wakeup |-> 0, in_wait_dispatch |-> FALSE, calls |-> <<>>,
   deletes |-> 0]
IdleThread ==
  [at |-> "idle", alarm |-> None, saved |-> FALSE, todo |-> {}, then |-> "leave",
   until |-> 0, woken |-> FALSE, ran |-> FALSE, blocked |-> None,
   timed_out |-> FALSE, signaled |-> FALSE]

SchedulerInit ==
  /\ now = 0
  /\ mutex = None
  /\ alarm = [a \in Alarms |-> FreshAlarm]
  /\ outstanding = <<>>
  /\ waiting = {}
  /\ thread = [t \in Threads |-> IdleThread]
  /\ stray = {}

At(t, place) == thread[t].at = place /\ (mutex = t \/ mutex = None)
Inside(t, place) == thread[t].at = place /\ mutex = t
Outside(t, place) == thread[t].at = place
\* Takes the mutex.
Enters(t, place) == thread[t].at = place /\ mutex = None /\ mutex' = t

\* condvar_->Broadcast() reaches those asleep.
Broadcast(th) == [u \in Threads |-> [th[u] EXCEPT !.woken = @ \/ th[u].at = "await"]]

\* InsertAlarmAtUsMutexHeld.
Earlier(w) == Cardinality({i \in DOMAIN outstanding : alarm[outstanding[i]].wakeup <= w})
Insert(a, kind, w) ==
  /\ alarm' = [alarm EXCEPT ![a] = [FreshAlarm EXCEPT !.kind = kind, !.wakeup = w]]
  /\ outstanding' = InsertAt(outstanding, Earlier(w) + 1, a)
FirstChanges(w) == outstanding = <<>> \/ w < alarm[Head(outstanding)].wakeup
Inserted(th, w) == IF FirstChanges(w) THEN Broadcast(th) ELSE th

\* outstanding_alarms_.erase(a).
Erased(s, a) ==
  IF a \in Range(s) THEN RemoveAt(s, CHOOSE i \in DOMAIN s : s[i] = a) ELSE s

\* Whether a wait's callback runs with the mutex held, or drops it.
DropsOrKeeps(t) == mutex' = t \/ (Drops /\ mutex' = None)
Unused(a) == alarm[a].kind = "none"

-----------------------------------------------------------------------------
(* What users call.  Each enters with the mutex free and goes on in        *)
(* RunAlarms, in Signal or in a callback.                                  *)

AddAlarmAtUs(t, a, d) ==
  /\ Unused(a) /\ Enters(t, "idle")
  /\ Insert(a, "function", now + d)
  /\ thread' = Inserted([thread EXCEPT ![t].at = "run", ![t].then = "leave"], now + d)
  /\ UNCHANGED <<now, waiting, stray>>

TimedWaitMs(t, a, d) ==
  /\ Unused(a) /\ Enters(t, "idle")
  /\ Insert(a, "callback", now + d)
  /\ waiting' = waiting \cup {a}
  /\ thread' = Inserted([thread EXCEPT ![t].at = "run", ![t].then = "leave"], now + d)
  /\ UNCHANGED <<now, stray>>

\* BlockingTimedWaitUs, by a thread that holds the mutex already.
BlockingTimedWaitUs(t, a, d) ==
  /\ Insert(a, "block", now + d)
  /\ waiting' = waiting \cup {a}
  /\ thread' = Inserted([thread EXCEPT ![t].at = "run", ![t].then = "block",
                          ![t].blocked = a, ![t].timed_out = FALSE,
                          ![t].signaled = FALSE], now + d)
  /\ UNCHANGED <<now, stray>>

\* The alarms that Signal takes from waiting_alarms_, marked as its own.
Taken == [a \in Alarms |->
            IF a \in waiting THEN [alarm[a] EXCEPT !.in_wait_dispatch = TRUE] ELSE alarm[a]]
\* Signal, by a thread that holds the mutex, up to its loop.
DoSignal(t) ==
  /\ alarm' = Taken
  /\ waiting' = {}
  /\ thread' = [u \in Threads |->
       IF u = t THEN [thread[u] EXCEPT !.at = "dispatch", !.todo = waiting,
                                       !.then = "leave"]
       ELSE [thread[u] EXCEPT !.signaled = @ \/ thread[u].blocked # None]]
  /\ UNCHANGED <<now, outstanding, stray>>
Signal(t) == Enters(t, "idle") /\ DoSignal(t)

\* Mutant of CancelAlarm: it does not take the alarm out of the set.
CancelAlarmKeeps(t, a) ==
  /\ alarm[a].kind = "function" /\ alarm[a].calls = <<>>
  /\ Outside(t, "idle") /\ mutex = None
  /\ a \in Range(outstanding)
  /\ thread' = [thread EXCEPT ![t].at = "cancel", ![t].alarm = a, ![t].then = "leave"]
  /\ UNCHANGED <<now, mutex, alarm, outstanding, waiting, stray>>
\* CancelAlarm of a function whose callback has not returned, as its user must
\* see to; it returns false when the alarm is being run.
CancelAlarm(t, a) ==
  /\ alarm[a].kind = "function" /\ alarm[a].calls = <<>>
  /\ Outside(t, "idle") /\ mutex = None
  /\ a \in Range(outstanding)
  /\ outstanding' = Erased(outstanding, a)
  /\ thread' = [thread EXCEPT ![t].at = "cancel", ![t].alarm = a, ![t].then = "leave"]
  /\ UNCHANGED <<now, mutex, alarm, waiting, stray>>

ProcessAlarmsOrWaitUs(t) ==
  /\ Enters(t, "idle")
  /\ thread' = [thread EXCEPT ![t].at = "run", ![t].then = "process", ![t].ran = FALSE]
  /\ UNCHANGED <<now, alarm, outstanding, waiting, stray>>

-----------------------------------------------------------------------------
(* RunAlarms: one alarm at a time, the mutex held between.                 *)

Due == outstanding # <<>> /\ alarm[Head(outstanding)].wakeup <= now

RunFunction(t) ==
  /\ Inside(t, "run") /\ Due
  /\ alarm[Head(outstanding)].kind = "function"
  /\ outstanding' = Tail(outstanding)
  /\ thread' = [thread EXCEPT ![t].at = "function", ![t].alarm = Head(outstanding),
                              ![t].ran = TRUE]
  /\ mutex' = None
  /\ UNCHANGED <<now, alarm, waiting, stray>>

\* CondVarTimeout::RunAlarm sets a flag on the stack of the thread that waits.
RunBlock(t) ==
  LET a == Head(outstanding)
      waiters == {u \in Threads : thread[u].blocked = a}
  IN  /\ Inside(t, "run") /\ Due /\ alarm[a].kind = "block"
      /\ outstanding' = Tail(outstanding)
      /\ waiting' = waiting \ {a}
      /\ alarm' = [alarm EXCEPT ![a].deletes =
                     IF alarm[a].in_wait_dispatch THEN @ ELSE @ + 1]
      /\ thread' = [u \in Threads |->
           [thread[u] EXCEPT !.timed_out = @ \/ u \in waiters, !.ran = @ \/ u = t]]
      /\ stray' = IF waiters = {} THEN stray \cup {a} ELSE stray
      /\ UNCHANGED <<now, mutex>>

\* CondVarCallbackTimeout::RunAlarm: the callback, which may drop the mutex,
\* runs before the alarm is deleted, and the flag is read before that.
RunCallback(t) ==
  LET a == Head(outstanding)
  IN  /\ Inside(t, "run") /\ Due /\ alarm[a].kind = "callback"
      /\ outstanding' = Tail(outstanding)
      /\ waiting' = waiting \ {a}
      /\ thread' = [thread EXCEPT ![t].at = "timeout", ![t].alarm = a,
                      ![t].saved = alarm[a].in_wait_dispatch, ![t].ran = TRUE]
      /\ alarm' = [alarm EXCEPT ![a].calls = Append(@, "run")]
      /\ DropsOrKeeps(t)
      /\ UNCHANGED <<now, stray>>

\* Nothing is due: RunAlarms returns the next deadline, or 0, to its caller.
NextWakeup == IF outstanding = <<>> THEN 0 ELSE alarm[Head(outstanding)].wakeup
Sleeps(t, until) ==
  thread' = [thread EXCEPT ![t].at = "await", ![t].until = until, ![t].woken = FALSE]

\* Whether BlockingTimedWaitUs goes to sleep (again).
WaitsOn(t) == ~thread[t].signaled /\ ~thread[t].timed_out /\ NextWakeup > 0

RunAlarmsReturns(t) ==
  /\ Inside(t, "run") /\ ~Due
  /\ \/ /\ thread[t].then = "block" /\ WaitsOn(t)
        /\ mutex' = None
        /\ Sleeps(t, Min({alarm[thread[t].blocked].wakeup, NextWakeup}))
     \/ /\ thread[t].then = "block" /\ ~WaitsOn(t)
        /\ UNCHANGED mutex
        /\ thread' = [thread EXCEPT ![t].at = "unblocked", ![t].blocked = None,
             ![t].timed_out = FALSE, ![t].signaled = FALSE]
     \/ /\ thread[t].then = "process" /\ ~thread[t].ran
        /\ mutex' = None
        /\ thread' = [thread EXCEPT ![t].at = "await", ![t].woken = FALSE, ![t].then = "leave",
             ![t].until = IF NextWakeup = 0 THEN MaxTime + 1 ELSE NextWakeup]
     \/ /\ thread[t].then = "leave" \/ (thread[t].then = "process" /\ thread[t].ran)
        /\ mutex' = None
        /\ thread' = [thread EXCEPT ![t] = IdleThread]
  /\ UNCHANGED <<now, alarm, outstanding, waiting, stray>>

Wakes(t) ==
  /\ thread[t].woken \/ thread[t].until <= now
  /\ Enters(t, "await")
  /\ thread' = [thread EXCEPT ![t].at = "run", ![t].woken = FALSE, ![t].until = 0]
  /\ UNCHANGED <<now, alarm, outstanding, waiting, stray>>

-----------------------------------------------------------------------------
(* Callbacks, and what is done when they return.                           *)

\* FunctionAlarm: the function is called and the alarm deleted, and the mutex is
\* taken again.
FunctionReturns(t) ==
  LET a == thread[t].alarm
  IN  /\ Enters(t, "function")
      /\ alarm' = [alarm EXCEPT ![a].calls = Append(@, "run"), ![a].deletes = @ + 1]
      /\ thread' = [thread EXCEPT ![t].at = "run", ![t].alarm = None]
      /\ UNCHANGED <<now, outstanding, waiting, stray>>
\* The same for a cancellation, after which nothing else is run.
CancelReturns(t) ==
  LET a == thread[t].alarm
  IN  /\ Outside(t, "cancel") /\ mutex = None
      /\ alarm' = [alarm EXCEPT ![a].calls = Append(@, "cancel"), ![a].deletes = @ + 1]
      /\ thread' = [thread EXCEPT ![t] = IdleThread]
      /\ UNCHANGED <<now, mutex, outstanding, waiting, stray>>

\* Mutant of TimeoutReturns: it deletes whether Signal owns the alarm or not.
TimeoutReturnsDeletes(t) ==
  /\ At(t, "timeout") /\ mutex' = t
  /\ thread' = [thread EXCEPT ![t].at = "run", ![t].alarm = None, ![t].saved = FALSE]
  /\ alarm' = [alarm EXCEPT ![thread[t].alarm].deletes = @ + 1]
  /\ UNCHANGED <<now, outstanding, waiting, stray>>
\* A wait callback run by a timeout returns, the mutex held again.
TimeoutReturns(t) ==
  /\ At(t, "timeout") /\ mutex' = t
  /\ thread' = [thread EXCEPT ![t].at = "run", ![t].alarm = None, ![t].saved = FALSE]
  /\ alarm' = IF thread[t].saved THEN alarm
              ELSE [alarm EXCEPT ![thread[t].alarm].deletes = @ + 1]
  /\ UNCHANGED <<now, outstanding, waiting, stray>>

(* Signal's loop over the alarms it took, in their order.                  *)
FirstOf(S) ==
  CHOOSE a \in S : \A b \in S : alarm[a].wakeup <= alarm[b].wakeup

DispatchNext(t) ==
  LET a == FirstOf(thread[t].todo)
  IN  /\ Inside(t, "dispatch") /\ thread[t].todo # {}
      /\ outstanding' = Erased(outstanding, a)
      /\ IF a \in Range(outstanding) /\ alarm[a].kind = "callback"
         THEN \* CancelAlarm runs the callback, which may drop the mutex.
              /\ alarm' = [alarm EXCEPT ![a].calls = Append(@, "run")]
              /\ thread' = [thread EXCEPT ![t].at = "signaled", ![t].alarm = a,
                                          ![t].todo = @ \ {a}]
              /\ DropsOrKeeps(t)
         ELSE \* It deletes a blocked thread's alarm; or the alarm timed out.
              /\ alarm' = [alarm EXCEPT ![a].deletes = @ + 1]
              /\ thread' = [thread EXCEPT ![t].todo = @ \ {a}]
              /\ UNCHANGED mutex
      /\ UNCHANGED <<now, waiting, stray>>

SignaledReturns(t) ==
  /\ At(t, "signaled") /\ mutex' = t
  /\ thread' = [thread EXCEPT ![t].at = "dispatch", ![t].alarm = None]
  /\ alarm' = [alarm EXCEPT ![thread[t].alarm].deletes = @ + 1]
  /\ UNCHANGED <<now, outstanding, waiting, stray>>

DispatchDone(t) ==
  /\ Inside(t, "dispatch") /\ thread[t].todo = {}
  /\ thread' = Broadcast([thread EXCEPT ![t].at = "run"])
  /\ UNCHANGED <<now, mutex, alarm, outstanding, waiting, stray>>

Goes(t) ==
  \/ RunFunction(t) \/ RunBlock(t) \/ RunCallback(t) \/ RunAlarmsReturns(t)
  \/ Wakes(t) \/ FunctionReturns(t) \/ CancelReturns(t) \/ TimeoutReturns(t)
  \/ DispatchNext(t) \/ SignaledReturns(t) \/ DispatchDone(t)

Tick ==
  /\ now < MaxTime
  /\ now' = now + 1
  /\ UNCHANGED <<mutex, alarm, outstanding, waiting, thread, stray>>

-----------------------------------------------------------------------------
AlarmType ==
  [kind : {"none", "function", "callback", "block"}, wakeup : Nat,
   in_wait_dispatch : BOOLEAN, calls : Seq({"run", "cancel"}), deletes : 0..2]
SchedulerTypeOK ==
  /\ now \in 0..MaxTime
  /\ mutex \in Threads \cup {None}
  /\ alarm \in [Alarms -> AlarmType]
  /\ outstanding \in Seq(Alarms) /\ IsInjective(outstanding)
  /\ waiting \subseteq Alarms /\ stray \subseteq Alarms
  /\ \A t \in Threads :
       /\ thread[t].at \in {"idle", "run", "await", "unblocked", "function",
            "cancel", "timeout", "dispatch", "signaled", "tasks", "task"}
       /\ thread[t].at \in {"run", "unblocked", "dispatch", "tasks"} => mutex = t

Live(a) == alarm[a].kind # "none" /\ alarm[a].deletes = 0

\* Who owns an alarm: an alarm is deleted once, and never while one of the sets that compare
\* alarms by their contents, or a Signal or callback that will use it, still
\* holds it.
AlarmsLive ==
  /\ \A a \in Alarms : alarm[a].deletes <= 1
  /\ \A a \in Range(outstanding) \cup waiting : Live(a)
  /\ \A t \in Threads :
       /\ \A a \in thread[t].todo : Live(a)
       /\ thread[t].at \in {"function", "cancel", "signaled"} => Live(thread[t].alarm)

AlarmsConsistent == SchedulerTypeOK /\ AlarmsLive

\* Timeout and signal do not both answer a callback, nor does a cancellation
\* come on top of a run; and a deleted alarm has been answered.
AnsweredOnce ==
  \A a \in Alarms :
    /\ Len(alarm[a].calls) <= 1
    /\ alarm[a].kind \in {"function", "callback"} /\ alarm[a].deletes > 0
         => alarm[a].calls # <<>>

\* The flag that a timeout sets belongs to a thread that is still waiting.
TimeoutsFindTheirThread == stray = {}
=============================================================================
