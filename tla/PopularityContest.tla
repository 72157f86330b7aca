------------------------- MODULE PopularityContest -------------------------
(***************************************************************************)
(* PopularityContestScheduleRewriteController                              *)
(* (pagespeed/controller/popularity_contest_schedule_rewrite_controller).  *)
(* Rewrites are run in the order of most requested.  Every handler holds   *)
(* mutex_ from its first line to lock.Release(), so a critical section is  *)
(* one action; the callbacks it decided to cancel and to run are called    *)
(* after the release, as separate steps of the same thread, between which  *)
(* other threads take theirs.                                              *)
(*                                                                         *)
(* Abstracted: the two heaps are functions from keys to priorities (any    *)
(* key of highest priority may be popped first; the heap itself is         *)
(* priority_queue.h); statistics; a key without a Rewrite object has state *)
(* "ABSENT".                                                               *)
(***************************************************************************)
EXTENDS ScheduleRewriteCalls, Integers, FiniteSets

CONSTANTS Threads,
          MaxRunning,   \* max_running_rewrites_
          MaxQueued,    \* max_queued_rewrites_
          MaxTime,      \* bound on the clock; Nat in the proofs
          None          \* nullptr

ASSUME FiniteAssumption ==
  IsFiniteSet(Keys) /\ IsFiniteSet(Callbacks) /\ IsFiniteSet(Threads)
\* The CHECK_GTs of the constructor.
ASSUME LimitAssumption == MaxRunning \in Nat \ {0} /\ MaxQueued \in Nat \ {0}
ASSUME TimeAssumption == MaxTime \in Nat
ASSUME NoneAssumption == None \notin Callbacks /\ None \notin Int

VARIABLES
  state,             \* Rewrite::state of the entry of all_rewrites_, or "ABSENT"
  callback,          \* Rewrite::callback
  saved_priority,    \* Rewrite::saved_priority
  queue,             \* queue_: priority of a queued key, 0 when not in it
  retry_queue,       \* retry_queue_: the time of failure, None when not in it
  running_rewrites,  \* running_rewrites_
  now,               \* timer_->NowMs()
  toCancel, toRun,   \* per thread: callbacks to call after lock.Release()
  client,            \* what its client knows of each callback
  requests           \* history: requests for a key since its entry was created

controllerVars == <<state, callback, saved_priority, queue, retry_queue,
                    running_rewrites>>
vars == <<controllerVars, now, toCancel, toRun, client, requests>>

RewriteStates == {"ABSENT", "STOPPED", "QUEUED", "RUNNING", "AWAITING_RETRY"}
ClientStates == {"new", "waiting", "running", "cancelled", "done"}

Idle(t) == toCancel[t] = None /\ toRun[t] = None

ControllerInit ==
  /\ state = [k \in Keys |-> "ABSENT"]
  /\ callback = [k \in Keys |-> None]
  /\ saved_priority = [k \in Keys |-> 0]
  /\ queue = [k \in Keys |-> 0]
  /\ retry_queue = [k \in Keys |-> None]
  /\ running_rewrites = 0
  /\ toCancel = [t \in Threads |-> None]
  /\ toRun = [t \in Threads |-> None]
  /\ requests = [k \in Keys |-> 0]

Init ==
  /\ ControllerInit
  /\ now = 0
  /\ client = [c \in Callbacks |-> "new"]

-----------------------------------------------------------------------------
(* AttemptStartRewrite and StartRewrite, on the state, callbacks, saved    *)
(* priorities, queue and count the rest of the handler has computed.       *)

\* Mutant of SlotFree.
SlotFreeOneUnused(running) == running + 1 < MaxRunning

SlotFree(running) == running < MaxRunning

Empty(q) == \A k \in Keys : q[k] = 0

\* Mutant of Highest.
AnyQueued(q) == {k \in Keys : q[k] > 0}

\* What queue_.Top() may be.
Highest(q) == {k \in Keys : q[k] > 0 /\ \A j \in Keys : q[j] <= q[k]}

AttemptStartRewrite(t, st, cb, sp, q, running) ==
  \/ /\ ~SlotFree(running) \/ Empty(q)
     /\ state' = st /\ callback' = cb /\ saved_priority' = sp /\ queue' = q
     /\ running_rewrites' = running
     /\ UNCHANGED toRun
  \/ /\ SlotFree(running)
     /\ \E top \in Highest(q) :
          /\ saved_priority' = [sp EXCEPT ![top] = q[top]]
          /\ queue' = [q EXCEPT ![top] = 0]
          /\ state' = [st EXCEPT ![top] =
                         IF cb[top] # None THEN "RUNNING" ELSE "STOPPED"]
          /\ running_rewrites' = IF cb[top] # None THEN running + 1 ELSE running
          /\ callback' = [cb EXCEPT ![top] = None]
          /\ toRun' = [toRun EXCEPT ![t] = cb[top]]

-----------------------------------------------------------------------------
(* GetRewrite and ConsiderDroppingRetry: retries are popped, oldest first, *)
(* until a slot is free or none is left.                                   *)

Known == {k \in Keys : state[k] # "ABSENT"}
Awaiting == {k \in Keys : retry_queue[k] # None}

\* The sets of retries that may be dropped to make room for key k.
DroppedFor(k) ==
  IF k \in Known \/ Cardinality(Known) < MaxQueued THEN {{}}
  ELSE {D \in SUBSET Awaiting :
          /\ \A d \in D, j \in Awaiting \ D : retry_queue[d] <= retry_queue[j]
          /\ \/ Cardinality(Known \ D) = MaxQueued - 1
             \/ D = Awaiting /\ Cardinality(Known \ D) >= MaxQueued}

\* f with the entries of the dropped keys deleted.
Without(f, D, v) == [k \in Keys |-> IF k \in D THEN v ELSE f[k]]

-----------------------------------------------------------------------------
(* ScheduleRewrite, by the branch it takes.                                *)

Accept(t, c) ==
  /\ Idle(t)
  /\ client[c] = "new"
  /\ client' = [client EXCEPT ![c] = "waiting"]
  /\ UNCHANGED now

ScheduleRejectedQueueFull(t, c) ==
  /\ Accept(t, c)
  /\ KeyOf[c] \notin Known
  /\ \E D \in DroppedFor(KeyOf[c]) :
       /\ Cardinality(Known \ D) >= MaxQueued
       /\ state' = Without(state, D, "ABSENT")
       /\ saved_priority' = Without(saved_priority, D, 0)
       /\ retry_queue' = Without(retry_queue, D, None)
       /\ requests' = Without(requests, D, 0)
  /\ toCancel' = [toCancel EXCEPT ![t] = c]
  /\ UNCHANGED <<callback, queue, running_rewrites, toRun>>

\* Mutant of InProgress.
NeverInProgress(k) == FALSE

InProgress(k) == state[k] = "RUNNING"

ScheduleRejectedInProgress(t, c) ==
  /\ Accept(t, c)
  /\ InProgress(KeyOf[c])
  /\ saved_priority' = [saved_priority EXCEPT ![KeyOf[c]] = @ + 1]
  /\ requests' = [requests EXCEPT ![KeyOf[c]] = @ + 1]
  /\ toCancel' = [toCancel EXCEPT ![t] = c]
  /\ UNCHANGED <<state, callback, queue, retry_queue, running_rewrites, toRun>>

\* Mutant of CarriedOver.
CarriedOverForgotten(k) == 0

\* What a failed attempt left of the priority of k.
CarriedOver(k) == IF state[k] = "AWAITING_RETRY" THEN saved_priority[k] ELSE 0


\* retry_queue_.Remove
Removed(rq, k) == [rq EXCEPT ![k] = None]

\* Mutant of Displaced.
DisplacedForgotten(k) == None

\* old_callback_to_cancel
Displaced(k) == callback[k]

ScheduleQueued(t, c) ==
  LET k == KeyOf[c]
  IN  /\ Accept(t, c)
      /\ ~InProgress(k)
      /\ \E D \in DroppedFor(k) :
           /\ k \in Known \/ Cardinality(Known \ D) < MaxQueued
           /\ retry_queue' = Removed(Without(retry_queue, D, None), k)
           /\ requests' = [Without(requests, D, 0) EXCEPT ![k] = @ + 1]
           /\ AttemptStartRewrite(t,
                [Without(state, D, "ABSENT") EXCEPT ![k] = "QUEUED"],
                [callback EXCEPT ![k] = c],
                [Without(saved_priority, D, 0) EXCEPT
                   ![k] = IF state[k] = "AWAITING_RETRY" THEN 0 ELSE @],
                [queue EXCEPT ![k] = @ + 1 + CarriedOver(k)],
                running_rewrites)
      /\ toCancel' = [toCancel EXCEPT ![t] = Displaced(k)]

-----------------------------------------------------------------------------
(* The client of a callback that was run reports how the rewrite ended.     *)
(* The CHECK_EQ(rewrite->state, RUNNING) is the guard: ClientsRunTheirKeys  *)
(* says that it never fails.                                                *)

NotifyRewriteComplete(t, c) ==
  LET k == KeyOf[c]
  IN  /\ Idle(t)
      /\ client[c] = "running"
      /\ state[k] = "RUNNING"
      /\ client' = [client EXCEPT ![c] = "done"]
      /\ requests' = [requests EXCEPT ![k] = 0]
      /\ AttemptStartRewrite(t, [state EXCEPT ![k] = "ABSENT"], callback,
           [saved_priority EXCEPT ![k] = 0], queue, running_rewrites - 1)
      /\ UNCHANGED <<retry_queue, now, toCancel>>

NotifyRewriteFailed(t, c) ==
  LET k == KeyOf[c]
  IN  /\ Idle(t)
      /\ client[c] = "running"
      /\ state[k] = "RUNNING"
      /\ client' = [client EXCEPT ![c] = "done"]
      /\ retry_queue' = [retry_queue EXCEPT ![k] = now]
      /\ AttemptStartRewrite(t, [state EXCEPT ![k] = "AWAITING_RETRY"], callback,
           saved_priority, queue, running_rewrites - 1)
      /\ UNCHANGED <<now, toCancel, requests>>

-----------------------------------------------------------------------------
(* What a thread still has to call once it has released the lock: Cancel   *)
(* before Run, as the last lines of ScheduleRewrite do.                    *)

CallCancel(t) ==
  /\ toCancel[t] # None
  /\ client' = [client EXCEPT ![toCancel[t]] = "cancelled"]
  /\ toCancel' = [toCancel EXCEPT ![t] = None]
  /\ UNCHANGED <<controllerVars, now, toRun, requests>>

CallRun(t) ==
  /\ toCancel[t] = None
  /\ toRun[t] # None
  /\ client' = [client EXCEPT ![toRun[t]] = "running"]
  /\ toRun' = [toRun EXCEPT ![t] = None]
  /\ UNCHANGED <<controllerVars, now, toCancel, requests>>

Tick ==
  /\ now < MaxTime
  /\ now' = now + 1
  /\ UNCHANGED <<controllerVars, toCancel, toRun, client, requests>>

Notify(t, c) == NotifyRewriteComplete(t, c) \/ NotifyRewriteFailed(t, c)

Next ==
  \/ \E t \in Threads, c \in Callbacks :
       \/ ScheduleRejectedQueueFull(t, c)
       \/ ScheduleRejectedInProgress(t, c)
       \/ ScheduleQueued(t, c)
       \/ NotifyRewriteComplete(t, c)
       \/ NotifyRewriteFailed(t, c)
  \/ \E t \in Threads : CallCancel(t) \/ CallRun(t)
  \/ Tick

SafeSpec == Init /\ [][Next]_vars

\* A thread that has released the lock goes on, and a client whose callback
\* was run reports back (its context notifies from its destructor if nobody
\* did before).
Fairness ==
  /\ \A t \in Threads : WF_vars(CallCancel(t)) /\ WF_vars(CallRun(t))
  /\ \A c \in Callbacks : WF_vars(\E t \in Threads : Notify(t, c))

Spec == SafeSpec /\ Fairness

-----------------------------------------------------------------------------
(* Properties.                                                             *)

TypeOK ==
  /\ state \in [Keys -> RewriteStates]
  /\ callback \in [Keys -> Callbacks \cup {None}]
  /\ saved_priority \in [Keys -> Nat]
  /\ queue \in [Keys -> Nat]
  /\ retry_queue \in [Keys -> Nat \cup {None}]
  /\ running_rewrites \in 0..MaxRunning
  /\ now \in 0..MaxTime
  /\ toCancel \in [Threads -> Callbacks \cup {None}]
  /\ toRun \in [Threads -> Callbacks \cup {None}]
  /\ client \in [Callbacks -> ClientStates]
  /\ requests \in [Keys -> Nat]

\* Between critical sections no rewrite is STOPPED, queue_ holds exactly the
\* QUEUED ones, which are those that hold a callback, and retry_queue_ exactly
\* the AWAITING_RETRY ones: the state machine drawn in the header.
QueuesMatchStates ==
  \A k \in Keys :
    /\ state[k] # "STOPPED"
    /\ queue[k] > 0 <=> state[k] = "QUEUED"
    /\ callback[k] # None <=> state[k] = "QUEUED"
    /\ retry_queue[k] # None <=> state[k] = "AWAITING_RETRY"

RunningIn(st) == {k \in Keys : st[k] = "RUNNING"}
RunningKeys == RunningIn(state)

\* running_rewrites_ counts the RUNNING rewrites and no slot is left
\* free while a rewrite waits for one; all_rewrites_ keeps to its limit.
WorkConserving ==
  /\ running_rewrites = Cardinality(RunningKeys)
  /\ Cardinality(Known) <= MaxQueued
  /\ running_rewrites = MaxRunning \/ Empty(queue)

\* A key is RUNNING exactly while one client works on it, or is about to be
\* told to: the CHECKs of NotifyRewriteComplete and NotifyRewriteFailed never
\* fail, and no two clients rewrite one key.
HasSlot(c) == client[c] = "running" \/ \E t \in Threads : toRun[t] = c

ClientsRunTheirKeys ==
  /\ \A c \in Callbacks : HasSlot(c) => state[KeyOf[c]] = "RUNNING"
  /\ \A c, d \in Callbacks :
       HasSlot(c) /\ HasSlot(d) /\ KeyOf[c] = KeyOf[d] => c = d
  /\ \A k \in RunningKeys : \E c \in Callbacks : HasSlot(c) /\ KeyOf[c] = k

\* The controller's own picture of its rewrites agrees with itself and with its
\* clients' whenever mutex_ is free.
StatesConsistent == TypeOK /\ QueuesMatchStates /\ ClientsRunTheirKeys

\* The priority of a key is the number of requests made for it since its
\* Rewrite was created, whatever it went through: queueing, requests refused
\* while it ran, failures and retries.
PriorityOf(k) == IF state[k] = "QUEUED" THEN queue[k] ELSE saved_priority[k]

PopularityKept == \A k \in Keys : PriorityOf(k) = requests[k]

\* A rewrite that starts was requested at least as often as any that stays
\* in the queue.
MostPopularFirst ==
  [][\A k, j \in Keys :
       k \in RunningKeys' \ RunningKeys /\ state'[j] = "QUEUED"
         => requests'[j] <= requests'[k]]_vars

\* The controller keeps the promise of its interface, and answers every
\* callback, provided that clients stop asking (here: Callbacks is finite).
Interface == INSTANCE ScheduleRewriteSpec
KeepsPromise == Interface!Spec
=============================================================================
