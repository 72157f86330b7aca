------------------------ MODULE ScheduleRewriteProofs ------------------------
(***************************************************************************)
(* For any number of keys, callbacks and threads and any limits: the       *)
(* invariants of PopularityContest, MostPopularFirst, and that the         *)
(* controller implements the safety part of its interface.  And, for any   *)
(* number of worker processes and any failures: the invariant of           *)
(* ScheduleRewriteRpc, which puts the contest behind RPC.                  *)
(*                                                                         *)
(* Every handler of the contest ends in AttemptStartRewrite, which works   *)
(* on a state that no thread ever sees.  Between(...) says what that state *)
(* satisfies, the lemma AttemptStart takes Between to the invariant once,  *)
(* and each handler has to establish Between only.                         *)
(*                                                                         *)
(* Behind RPC the contest's invariant IInv is one part of RpcInv.  The     *)
(* others say how far the two ends of each stream can be apart (StreamOf), *)
(* how the two state machines of a handler and the controller's view of    *)
(* its client go together (Handlers), and what is in the registry          *)
(* (Registry).  A step of the one side leaves the other's part alone       *)
(* (ServerStays, ClientStays), and moves one stream (OtherStreams) or      *)
(* breaks some (OnlyBreaking).                                             *)
(***************************************************************************)
EXTENDS ScheduleRewriteRpc, FiniteSetTheorems, TLAPS

\* queue_, retry_queue_ and the callbacks agree with the states st.
Matched(st, cb, q, rq) ==
  \A k \in Keys :
    /\ st[k] # "STOPPED"
    /\ q[k] > 0 <=> st[k] = "QUEUED"
    /\ cb[k] # None <=> st[k] = "QUEUED"
    /\ rq[k] # None <=> st[k] = "AWAITING_RETRY"

\* The priority of every entry is its number of requests rs.
Counted(st, sp, q, rs) ==
  \A k \in Keys :
    /\ (IF st[k] = "QUEUED" THEN q[k] ELSE sp[k]) = rs[k]
    /\ st[k] = "ABSENT" => rs[k] = 0

SlotOf(c, cl, tr) == cl[c] = "running" \/ \E t \in Threads : tr[t] = c

\* The clients that have a slot are one for each RUNNING key.
Slots(st, cl, tr) ==
  /\ \A c \in Callbacks : SlotOf(c, cl, tr) => st[KeyOf[c]] = "RUNNING"
  /\ \A c, d \in Callbacks :
       SlotOf(c, cl, tr) /\ SlotOf(d, cl, tr) /\ KeyOf[c] = KeyOf[d] => c = d
  /\ \A k \in RunningIn(st) :
       \E c \in Callbacks : SlotOf(c, cl, tr) /\ KeyOf[c] = k

\* No callback is in two places, and all that are somewhere wait.
Separate(cb, cl, tc, tr) ==
  /\ \A k \in Keys : cb[k] # None => KeyOf[cb[k]] = k /\ cl[cb[k]] = "waiting"
  /\ \A t \in Threads : tr[t] # None => cl[tr[t]] = "waiting"
  /\ \A t \in Threads : tc[t] # None => cl[tc[t]] = "waiting"
  /\ \A t, u \in Threads : tr[t] # None /\ tr[t] = tr[u] => t = u
  /\ \A t, u \in Threads : tc[t] # None /\ tc[t] = tc[u] => t = u
  /\ \A t, u \in Threads : tr[t] # None => tr[t] # tc[u]
  /\ \A k \in Keys, t \in Threads :
       cb[k] # None => cb[k] # tr[t] /\ cb[k] # tc[t]

KnownIn(st) == {k \in Keys : st[k] # "ABSENT"}

IInv ==
  /\ TypeOK
  /\ Matched(state, callback, queue, retry_queue)
  /\ Counted(state, saved_priority, queue, requests)
  /\ Slots(state, client, toRun)
  /\ Separate(callback, client, toCancel, toRun)
  /\ running_rewrites = Cardinality(RunningIn(state))
  /\ running_rewrites = MaxRunning \/ Empty(queue)
  /\ Cardinality(KnownIn(state)) <= MaxQueued

\* What a handler of thread t hands to AttemptStartRewrite.
Between(t, st, cb, sp, q, run) ==
  /\ st \in [Keys -> RewriteStates]
  /\ cb \in [Keys -> Callbacks \cup {None}]
  /\ sp \in [Keys -> Nat]
  /\ q \in [Keys -> Nat]
  /\ run \in 0..MaxRunning
  /\ toRun[t] = None
  /\ Matched(st, cb, q, retry_queue')
  /\ Counted(st, sp, q, requests')
  /\ Slots(st, client', toRun)
  /\ Separate(cb, client', toCancel', toRun)
  /\ run = Cardinality(RunningIn(st))
  /\ \/ run + 1 >= MaxRunning
     \/ \E j \in Keys : \A k \in Keys \ {j} : q[k] = 0
  /\ Cardinality(KnownIn(st)) <= MaxQueued

\* The part of the type invariant AttemptStartRewrite does not assign.
RestOK ==
  /\ retry_queue \in [Keys -> Nat \cup {None}]
  /\ now \in 0..MaxTime
  /\ toCancel \in [Threads -> Callbacks \cup {None}]
  /\ client \in [Callbacks -> ClientStates]
  /\ requests \in [Keys -> Nat]

-----------------------------------------------------------------------------
\* How the number of RUNNING keys changes when one state does.
LEMMA RunningCount ==
  ASSUME NEW st \in [Keys -> RewriteStates], NEW k \in Keys,
         NEW s \in RewriteStates
  PROVE  /\ IsFiniteSet(RunningIn(st))
         /\ Cardinality(RunningIn(st)) \in Nat
         /\ st[k] # "RUNNING" /\ s = "RUNNING" =>
              Cardinality(RunningIn([st EXCEPT ![k] = s])) =
                Cardinality(RunningIn(st)) + 1
         /\ st[k] = "RUNNING" /\ s # "RUNNING" =>
              Cardinality(RunningIn([st EXCEPT ![k] = s])) =
                Cardinality(RunningIn(st)) - 1
         /\ st[k] # "RUNNING" /\ s # "RUNNING" =>
              RunningIn([st EXCEPT ![k] = s]) = RunningIn(st)
<1>1. IsFiniteSet(RunningIn(st)) /\ Cardinality(RunningIn(st)) \in Nat
  BY FS_Subset, FS_CardinalityType, FiniteAssumption DEF RunningIn
<1>2. ASSUME st[k] # "RUNNING", s = "RUNNING"
      PROVE  Cardinality(RunningIn([st EXCEPT ![k] = s])) =
               Cardinality(RunningIn(st)) + 1
  <2>1. RunningIn([st EXCEPT ![k] = s]) = RunningIn(st) \cup {k}
    BY <1>2 DEF RunningIn
  <2>2. k \notin RunningIn(st)
    BY <1>2 DEF RunningIn
  <2> QED BY <1>1, <2>1, <2>2, FS_AddElement
<1>3. ASSUME st[k] = "RUNNING", s # "RUNNING"
      PROVE  Cardinality(RunningIn([st EXCEPT ![k] = s])) =
               Cardinality(RunningIn(st)) - 1
  <2>1. RunningIn([st EXCEPT ![k] = s]) = RunningIn(st) \ {k}
    BY <1>3 DEF RunningIn
  <2>2. k \in RunningIn(st)
    BY <1>3 DEF RunningIn
  <2> QED BY <1>1, <2>1, <2>2, FS_RemoveElement
<1>4. ASSUME st[k] # "RUNNING", s # "RUNNING"
      PROVE  RunningIn([st EXCEPT ![k] = s]) = RunningIn(st)
  BY <1>4 DEF RunningIn
<1> QED BY <1>1, <1>2, <1>3, <1>4

\* AttemptStartRewrite ends every handler in a state that satisfies IInv.
LEMMA AttemptStart ==
  ASSUME NEW t \in Threads, NEW st, NEW cb, NEW sp, NEW q, NEW run,
         toRun \in [Threads -> Callbacks \cup {None}],
         RestOK', Between(t, st, cb, sp, q, run),
         AttemptStartRewrite(t, st, cb, sp, q, run)
  PROVE  IInv'
<1> USE DEF Between, RestOK
<1>1. CASE /\ ~SlotFree(run) \/ Empty(q)
           /\ state' = st /\ callback' = cb /\ saved_priority' = sp /\ queue' = q
           /\ running_rewrites' = run
           /\ UNCHANGED toRun
  <2>1. TypeOK'
    BY <1>1 DEF TypeOK
  <2>2. run = MaxRunning \/ Empty(q)
    BY <1>1, LimitAssumption DEF SlotFree
  <2> QED BY <1>1, <2>1, <2>2 DEF IInv
<1>2. ASSUME SlotFree(run),
             NEW top \in Highest(q),
             saved_priority' = [sp EXCEPT ![top] = q[top]],
             queue' = [q EXCEPT ![top] = 0],
             state' = [st EXCEPT ![top] =
                         IF cb[top] # None THEN "RUNNING" ELSE "STOPPED"],
             running_rewrites' = IF cb[top] # None THEN run + 1 ELSE run,
             callback' = [cb EXCEPT ![top] = None],
             toRun' = [toRun EXCEPT ![t] = cb[top]]
      PROVE  IInv'
  <2>1. /\ top \in Keys
        /\ q[top] > 0
        /\ st[top] = "QUEUED"
        /\ cb[top] # None
        /\ cb[top] \in Callbacks
        /\ KeyOf[cb[top]] = top
        /\ client'[cb[top]] = "waiting"
    BY <1>2 DEF Highest, Matched, Separate
  <2>2. /\ state' = [st EXCEPT ![top] = "RUNNING"]
        /\ running_rewrites' = run + 1
        /\ run < MaxRunning
    BY <1>2, <2>1 DEF SlotFree
  <2>3. TypeOK'
    BY <1>2, <2>1, <2>2, LimitAssumption DEF TypeOK, RewriteStates
  <2>4. Matched(state, callback, queue, retry_queue)'
    BY <1>2, <2>1, <2>2 DEF Matched
  <2>5. Counted(state, saved_priority, queue, requests)'
    BY <1>2, <2>1, <2>2 DEF Counted
  <2>6. Separate(callback, client, toCancel, toRun)'
    BY <1>2, <2>1 DEF Separate
  <2>7. Slots(state, client, toRun)'
    <3>1. \A c \in Callbacks :
            SlotOf(c, client', toRun') <=> SlotOf(c, client', toRun) \/ c = cb[top]
      BY <1>2, <2>1, NoneAssumption DEF SlotOf
    <3>2. \A c \in Callbacks : SlotOf(c, client', toRun) => KeyOf[c] # top
      BY <2>1 DEF Slots
    <3>3. \A k \in Keys : k \in RunningIn(state') <=> k \in RunningIn(st) \/ k = top
      BY <2>1, <2>2 DEF RunningIn
    <3>4. \A c \in Callbacks : KeyOf[c] \in Keys
      BY KeyOfAssumption
    <3>5. \A c \in Callbacks :
            SlotOf(c, client', toRun') => state'[KeyOf[c]] = "RUNNING"
      BY <2>1, <2>2, <3>1, <3>4 DEF Slots
    <3>6. \A c, d \in Callbacks :
            SlotOf(c, client', toRun') /\ SlotOf(d, client', toRun')
              /\ KeyOf[c] = KeyOf[d] => c = d
      BY <2>1, <3>1, <3>2 DEF Slots
    <3>7. \A k \in RunningIn(state') :
            \E c \in Callbacks : SlotOf(c, client', toRun') /\ KeyOf[c] = k
      <4> SUFFICES ASSUME NEW k \in RunningIn(state')
                   PROVE  \E c \in Callbacks :
                            SlotOf(c, client', toRun') /\ KeyOf[c] = k
        OBVIOUS
      <4>1. k \in Keys BY DEF RunningIn
      <4>2. CASE k = top BY <4>2, <2>1, <3>1
      <4>3. CASE k # top BY <4>1, <4>3, <3>1, <3>3 DEF Slots
      <4> QED BY <4>2, <4>3
    <3> QED BY <3>5, <3>6, <3>7 DEF Slots
  <2>8. running_rewrites' = Cardinality(RunningIn(state'))
    BY <2>1, <2>2, RunningCount DEF RewriteStates
  <2>9. running_rewrites' = MaxRunning \/ Empty(queue')
    BY <1>2, <2>1, <2>2, LimitAssumption DEF Empty
  <2>10. KnownIn(state') = KnownIn(st)
    BY <2>1, <2>2 DEF KnownIn
  <2> QED BY <2>3, <2>4, <2>5, <2>6, <2>7, <2>8, <2>9, <2>10 DEF IInv
<1> QED BY <1>1, <1>2 DEF AttemptStartRewrite

-----------------------------------------------------------------------------
\* Dropping retries for a new key changes neither the queue nor the RUNNING
\* rewrites, and dropped keys were awaiting a retry.
LEMMA Dropping ==
  ASSUME IInv, NEW k \in Keys, NEW D \in DroppedFor(k)
  PROVE  /\ \A d \in D : state[d] = "AWAITING_RETRY"
         /\ k \notin D
         /\ RunningIn(Without(state, D, "ABSENT")) = RunningIn(state)
         /\ KnownIn(Without(state, D, "ABSENT")) = Known \ D
         /\ IsFiniteSet(Known \ D)
         /\ Cardinality(Known \ D) <= MaxQueued
         /\ Cardinality(Known \ D) \in Nat
<1>1. D \subseteq Keys /\ \A d \in D : state[d] = "AWAITING_RETRY"
  BY DEF DroppedFor, Awaiting, IInv, Matched
<1>2. k \notin D
  BY <1>1 DEF DroppedFor, Known
<1>3. RunningIn(Without(state, D, "ABSENT")) = RunningIn(state)
  BY <1>1 DEF RunningIn, Without
<1>4. KnownIn(Without(state, D, "ABSENT")) = Known \ D
  BY <1>1 DEF KnownIn, Known, Without
<1>5. Known = KnownIn(state) /\ IsFiniteSet(Known)
  BY FiniteAssumption, FS_Subset DEF Known, KnownIn
<1>6. IsFiniteSet(Known \ D) /\ Cardinality(Known \ D) <= Cardinality(Known)
  BY <1>5, FS_Subset
<1>7. Cardinality(Known \ D) \in Nat /\ Cardinality(Known) \in Nat
  BY <1>5, <1>6, FS_CardinalityType
<1> QED BY <1>1, <1>2, <1>3, <1>4, <1>5, <1>6, <1>7, LimitAssumption DEF IInv

\* A key refused a Rewrite because all_rewrites_ is full.
LEMMA QueueFullStep ==
  ASSUME IInv, NEW t \in Threads, NEW c \in Callbacks,
         ScheduleRejectedQueueFull(t, c)
  PROVE  IInv'
<1> DEFINE k == KeyOf[c]
<1>1. k \in Keys
  BY KeyOfAssumption
<1>2. PICK D \in DroppedFor(k) :
        /\ state' = Without(state, D, "ABSENT")
        /\ saved_priority' = Without(saved_priority, D, 0)
        /\ retry_queue' = Without(retry_queue, D, None)
        /\ requests' = Without(requests, D, 0)
  BY DEF ScheduleRejectedQueueFull
<1>3. /\ client[c] = "new" /\ Idle(t)
      /\ client' = [client EXCEPT ![c] = "waiting"]
      /\ toCancel' = [toCancel EXCEPT ![t] = c]
      /\ UNCHANGED <<callback, queue, running_rewrites, toRun, now>>
  BY DEF ScheduleRejectedQueueFull, Accept
<1>4. /\ \A d \in D : state[d] = "AWAITING_RETRY"
      /\ RunningIn(state') = RunningIn(state)
      /\ KnownIn(state') = Known \ D
      /\ Cardinality(Known \ D) <= MaxQueued
  BY <1>1, <1>2, Dropping
<1>5. TypeOK'
  BY <1>2, <1>3 DEF IInv, TypeOK, Without, RewriteStates, ClientStates
<1>6. Matched(state, callback, queue, retry_queue)'
  BY <1>2, <1>3, <1>4 DEF IInv, Matched, Without
<1>7. Counted(state, saved_priority, queue, requests)'
  BY <1>2, <1>3, <1>4 DEF IInv, Counted, Without
<1>8. Slots(state, client, toRun)'
  <2>1. \A d \in Callbacks : SlotOf(d, client', toRun') <=> SlotOf(d, client, toRun)
    BY <1>3 DEF SlotOf, IInv, TypeOK
  <2>2. \A j \in Keys : state'[j] = "RUNNING" <=> state[j] = "RUNNING"
    BY <1>2, <1>4 DEF Without
  <2> QED BY <2>1, <2>2, <1>4, KeyOfAssumption DEF Slots, IInv
<1>9. Separate(callback, client, toCancel, toRun)'
  BY <1>3, NoneAssumption DEF IInv, Separate, TypeOK, Idle
<1> QED BY <1>3, <1>4, <1>5, <1>6, <1>7, <1>8, <1>9 DEF IInv

\* A callback refused because its key is RUNNING.
LEMMA InProgressStep ==
  ASSUME IInv, NEW t \in Threads, NEW c \in Callbacks,
         ScheduleRejectedInProgress(t, c)
  PROVE  IInv'
<1> USE DEF ScheduleRejectedInProgress, Accept, InProgress
<1>0. KeyOf[c] \in Keys
  BY KeyOfAssumption
<1>1. TypeOK'
  BY <1>0 DEF IInv, TypeOK, ClientStates
<1>2. Matched(state, callback, queue, retry_queue)'
  BY DEF IInv, Matched
<1>3. Counted(state, saved_priority, queue, requests)'
  BY <1>0 DEF IInv, Counted, TypeOK
<1>4. Slots(state, client, toRun)'
  <2>1. \A d \in Callbacks : SlotOf(d, client', toRun') <=> SlotOf(d, client, toRun)
    BY DEF SlotOf, IInv, TypeOK
  <2> QED BY <2>1 DEF Slots, IInv
<1>5. Separate(callback, client, toCancel, toRun)'
  BY NoneAssumption DEF IInv, Separate, TypeOK, Idle
<1> QED BY <1>1, <1>2, <1>3, <1>4, <1>5 DEF IInv

\* A callback that takes its place in the queue.
LEMMA QueuedStep ==
  ASSUME IInv, NEW t \in Threads, NEW c \in Callbacks, ScheduleQueued(t, c)
  PROVE  IInv'
<1> DEFINE k == KeyOf[c]
<1>1. k \in Keys
  BY KeyOfAssumption
<1>2. PICK D \in DroppedFor(k) :
        /\ k \in Known \/ Cardinality(Known \ D) < MaxQueued
        /\ retry_queue' = [Without(retry_queue, D, None) EXCEPT ![k] = None]
        /\ requests' = [Without(requests, D, 0) EXCEPT ![k] = @ + 1]
        /\ AttemptStartRewrite(t,
             [Without(state, D, "ABSENT") EXCEPT ![k] = "QUEUED"],
             [callback EXCEPT ![k] = c],
             [Without(saved_priority, D, 0) EXCEPT
                ![k] = IF state[k] = "AWAITING_RETRY" THEN 0 ELSE @],
             [queue EXCEPT ![k] = @ + 1 + CarriedOver(k)],
             running_rewrites)
  BY DEF ScheduleQueued, Removed
<1>3. /\ client[c] = "new" /\ Idle(t) /\ state[k] # "RUNNING"
      /\ client' = [client EXCEPT ![c] = "waiting"]
      /\ toCancel' = [toCancel EXCEPT ![t] = callback[k]]
      /\ UNCHANGED now
  BY DEF ScheduleQueued, Accept, InProgress, Displaced
<1>4. /\ D \subseteq Keys
      /\ \A d \in D : state[d] = "AWAITING_RETRY"
      /\ k \notin D
      /\ RunningIn(Without(state, D, "ABSENT")) = RunningIn(state)
      /\ KnownIn(Without(state, D, "ABSENT")) = Known \ D
      /\ IsFiniteSet(Known \ D)
      /\ Cardinality(Known \ D) <= MaxQueued
      /\ Cardinality(Known \ D) \in Nat
  BY <1>1, <1>2, Dropping DEF DroppedFor, Awaiting
<1> DEFINE st == [Without(state, D, "ABSENT") EXCEPT ![k] = "QUEUED"]
           cb == [callback EXCEPT ![k] = c]
           sp == [Without(saved_priority, D, 0) EXCEPT
                    ![k] = IF state[k] = "AWAITING_RETRY" THEN 0 ELSE @]
           q == [queue EXCEPT ![k] = @ + 1 + CarriedOver(k)]
<1>5. /\ st \in [Keys -> RewriteStates]
      /\ cb \in [Keys -> Callbacks \cup {None}]
      /\ sp \in [Keys -> Nat]
      /\ q \in [Keys -> Nat]
      /\ running_rewrites \in 0..MaxRunning
      /\ toRun[t] = None
  BY <1>1, <1>3 DEF IInv, TypeOK, Without, RewriteStates, CarriedOver, Idle
<1>6. RestOK'
  BY <1>1, <1>2, <1>3 DEF IInv, TypeOK, RestOK, Without, ClientStates
<1>7. Matched(st, cb, q, retry_queue')
  BY <1>1, <1>2, <1>4, NoneAssumption
  DEF IInv, TypeOK, Matched, Without, CarriedOver
<1>8. Counted(st, sp, q, requests')
  <2> SUFFICES ASSUME NEW j \in Keys
               PROVE  /\ (IF st[j] = "QUEUED" THEN q[j] ELSE sp[j]) = requests'[j]
                      /\ st[j] = "ABSENT" => requests'[j] = 0
    BY DEF Counted
  <2>1. /\ (IF state[j] = "QUEUED" THEN queue[j] ELSE saved_priority[j]) = requests[j]
        /\ state[j] = "ABSENT" => requests[j] = 0
        /\ state[j] = "QUEUED" <=> queue[j] > 0
        /\ queue[j] \in Nat /\ saved_priority[j] \in Nat
    BY DEF IInv, TypeOK, Matched, Counted
  <2>2. CASE j = k
    <3>1. requests'[j] = requests[j] + 1 /\ st[j] = "QUEUED"
      BY <1>2, <1>4, <2>2 DEF Without
    <3>2. q[j] = queue[j] + 1 + (IF state[j] = "AWAITING_RETRY"
                                 THEN saved_priority[j] ELSE 0)
      BY <2>2 DEF CarriedOver, IInv, TypeOK
    <3>3. state[j] \in {"ABSENT", "QUEUED", "AWAITING_RETRY"}
      BY <1>3, <2>2 DEF IInv, TypeOK, RewriteStates, Matched
    <3> QED BY <2>1, <3>1, <3>2, <3>3
  <2>3. CASE j # k
    <3>1. /\ st[j] = IF j \in D THEN "ABSENT" ELSE state[j]
          /\ q[j] = queue[j]
          /\ sp[j] = IF j \in D THEN 0 ELSE saved_priority[j]
          /\ requests'[j] = IF j \in D THEN 0 ELSE requests[j]
      BY <1>2, <2>3 DEF Without
    <3> QED BY <2>1, <3>1
  <2> QED BY <2>2, <2>3
<1>9. Slots(st, client', toRun)
  <2>1. \A d \in Callbacks : SlotOf(d, client', toRun) <=> SlotOf(d, client, toRun)
    BY <1>3 DEF SlotOf, IInv, TypeOK
  <2>2. \A j \in Keys : st[j] = "RUNNING" <=> state[j] = "RUNNING"
    BY <1>1, <1>3, <1>4 DEF Without
  <2> QED BY <2>1, <2>2, KeyOfAssumption DEF Slots, IInv, RunningIn
<1>10. Separate(cb, client', toCancel', toRun)
  BY <1>1, <1>3, NoneAssumption DEF IInv, Separate, TypeOK, Idle
<1>11. running_rewrites = Cardinality(RunningIn(st))
  <2>1. RunningIn(st) = RunningIn(state)
    BY <1>1, <1>3, <1>4 DEF RunningIn, Without
  <2> QED BY <2>1 DEF IInv
<1>12. \/ running_rewrites + 1 >= MaxRunning
       \/ \E j \in Keys : \A i \in Keys \ {j} : q[i] = 0
  BY <1>1, LimitAssumption DEF IInv, TypeOK, Empty
<1>13. Cardinality(KnownIn(st)) <= MaxQueued
  <2>1. KnownIn(st) = (Known \ D) \cup {k}
    BY <1>1, <1>4 DEF KnownIn, Known, Without
  <2>2. CASE k \in Known \ D
    BY <2>1, <2>2, <1>4
  <2>3. CASE k \notin Known \ D
    BY <2>1, <2>3, <1>2, <1>4, FS_AddElement, LimitAssumption
  <2> QED BY <2>2, <2>3
<1>14. Between(t, st, cb, sp, q, running_rewrites)
  BY <1>5, <1>7, <1>8, <1>9, <1>10, <1>11, <1>12, <1>13 DEF Between
<1> HIDE DEF st, cb, sp, q
<1>15. toRun \in [Threads -> Callbacks \cup {None}]
  BY DEF IInv, TypeOK
<1>16. AttemptStartRewrite(t, st, cb, sp, q, running_rewrites)
  BY <1>2 DEF st, cb, sp, q
<1> QED BY <1>6, <1>14, <1>15, <1>16, AttemptStart

-----------------------------------------------------------------------------
\* The slot a reporting client gives up is that of its key.
LEMMA GiveUpSlot ==
  ASSUME IInv, NEW t \in Threads, NEW c \in Callbacks, Idle(t),
         client[c] = "running", state[KeyOf[c]] = "RUNNING",
         client' = [client EXCEPT ![c] = "done"],
         NEW s \in RewriteStates, s # "RUNNING", toCancel' = toCancel
  PROVE  /\ Slots([state EXCEPT ![KeyOf[c]] = s], client', toRun)
         /\ Separate(callback, client', toCancel', toRun)
         /\ running_rewrites - 1 = Cardinality(RunningIn([state EXCEPT ![KeyOf[c]] = s]))
         /\ running_rewrites - 1 \in 0..MaxRunning
         /\ \/ running_rewrites - 1 + 1 >= MaxRunning
            \/ \E j \in Keys : \A k \in Keys \ {j} : queue[k] = 0
<1> DEFINE k == KeyOf[c]
           st == [state EXCEPT ![k] = s]
<1>1. k \in Keys
  BY KeyOfAssumption
<1>2. Separate(callback, client', toCancel', toRun)
  BY DEF IInv, Separate, TypeOK
<1>3. \A d \in Callbacks :
        SlotOf(d, client', toRun) <=> SlotOf(d, client, toRun) /\ d # c
  BY NoneAssumption DEF SlotOf, IInv, TypeOK, Separate
<1>4. SlotOf(c, client, toRun)
  BY DEF SlotOf
<1>5. Slots(st, client', toRun)
  <2>1. \A d \in Callbacks : SlotOf(d, client', toRun) => KeyOf[d] # k
    BY <1>3, <1>4 DEF Slots, IInv
  <2>2. \A j \in Keys : j \in RunningIn(st) <=> j \in RunningIn(state) /\ j # k
    BY <1>1 DEF RunningIn, IInv, TypeOK
  <2>3. \A d \in Callbacks : SlotOf(d, client', toRun) => st[KeyOf[d]] = "RUNNING"
    BY <1>3, <2>1, KeyOfAssumption DEF Slots, IInv, TypeOK
  <2>4. \A j \in RunningIn(st) :
          \E d \in Callbacks : SlotOf(d, client', toRun) /\ KeyOf[d] = j
    <3> SUFFICES ASSUME NEW j \in RunningIn(st)
                 PROVE  \E d \in Callbacks : SlotOf(d, client', toRun) /\ KeyOf[d] = j
      OBVIOUS
    <3>1. j \in RunningIn(state) /\ j # k
      BY <2>2 DEF RunningIn
    <3>2. PICK d \in Callbacks : SlotOf(d, client, toRun) /\ KeyOf[d] = j
      BY <3>1 DEF Slots, IInv
    <3> QED BY <1>3, <3>1, <3>2
  <2> QED BY <1>3, <2>3, <2>4 DEF Slots, IInv
<1>6. running_rewrites - 1 = Cardinality(RunningIn(st))
  <2>1. state \in [Keys -> RewriteStates]
    BY DEF IInv, TypeOK
  <2>2. Cardinality(RunningIn(st)) = Cardinality(RunningIn(state)) - 1
    BY <1>1, <2>1, RunningCount
  <2> QED BY <2>2 DEF IInv
<1>7. running_rewrites - 1 \in 0..MaxRunning
  <2>1. Cardinality(RunningIn(st)) \in Nat
    <3>1. st \in [Keys -> RewriteStates]
      BY DEF IInv, TypeOK
    <3> HIDE DEF st
    <3> QED BY <1>1, <3>1, RunningCount
  <2> QED BY <1>6, <2>1, LimitAssumption DEF IInv, TypeOK
<1>8. \/ running_rewrites - 1 + 1 >= MaxRunning
      \/ \E j \in Keys : \A i \in Keys \ {j} : queue[i] = 0
  BY <1>1, LimitAssumption DEF IInv, TypeOK, Empty
<1> QED BY <1>2, <1>5, <1>6, <1>7, <1>8

\* A successful rewrite: its entry is deleted and its slot passed on.
LEMMA CompleteStep ==
  ASSUME IInv, NEW t \in Threads, NEW c \in Callbacks,
         NotifyRewriteComplete(t, c)
  PROVE  IInv'
<1> DEFINE k == KeyOf[c]
           st == [state EXCEPT ![k] = "ABSENT"]
           sp == [saved_priority EXCEPT ![k] = 0]
<1>1. k \in Keys
  BY KeyOfAssumption
<1>2. /\ Idle(t) /\ client[c] = "running" /\ state[k] = "RUNNING"
      /\ client' = [client EXCEPT ![c] = "done"]
      /\ requests' = [requests EXCEPT ![k] = 0]
      /\ UNCHANGED <<retry_queue, now, toCancel>>
      /\ AttemptStartRewrite(t, st, callback, sp, queue, running_rewrites - 1)
  BY DEF NotifyRewriteComplete
<1>3. /\ st \in [Keys -> RewriteStates]
      /\ sp \in [Keys -> Nat]
      /\ callback \in [Keys -> Callbacks \cup {None}]
      /\ queue \in [Keys -> Nat]
      /\ toRun \in [Threads -> Callbacks \cup {None}]
      /\ toRun[t] = None
  BY <1>1, <1>2 DEF IInv, TypeOK, RewriteStates, Idle
<1>4. RestOK'
  BY <1>2 DEF IInv, TypeOK, RestOK, ClientStates
<1>5. Matched(st, callback, queue, retry_queue')
  BY <1>1, <1>2 DEF IInv, TypeOK, Matched
<1>6. Counted(st, sp, queue, requests')
  BY <1>1, <1>2 DEF IInv, TypeOK, Matched, Counted
<1>7. /\ Slots(st, client', toRun)
      /\ Separate(callback, client', toCancel', toRun)
      /\ running_rewrites - 1 = Cardinality(RunningIn(st))
      /\ running_rewrites - 1 \in 0..MaxRunning
      /\ \/ running_rewrites - 1 + 1 >= MaxRunning
         \/ \E j \in Keys : \A i \in Keys \ {j} : queue[i] = 0
  BY <1>2, GiveUpSlot DEF RewriteStates
<1>8. Cardinality(KnownIn(st)) <= MaxQueued
  <2>1. IsFiniteSet(KnownIn(state)) /\ KnownIn(st) \subseteq KnownIn(state)
    BY <1>1, <1>2, FiniteAssumption, FS_Subset DEF KnownIn, IInv, TypeOK
  <2>2. /\ Cardinality(KnownIn(st)) <= Cardinality(KnownIn(state))
        /\ Cardinality(KnownIn(st)) \in Nat /\ Cardinality(KnownIn(state)) \in Nat
    BY <2>1, FS_Subset, FS_CardinalityType
  <2> QED BY <2>2, LimitAssumption DEF IInv
<1>9. Between(t, st, callback, sp, queue, running_rewrites - 1)
  BY <1>3, <1>5, <1>6, <1>7, <1>8 DEF Between
<1> HIDE DEF st, sp
<1> QED BY <1>2, <1>3, <1>4, <1>9, AttemptStart

\* A failed rewrite: its entry waits for a retry and its slot is passed on.
LEMMA FailedStep ==
  ASSUME IInv, NEW t \in Threads, NEW c \in Callbacks,
         NotifyRewriteFailed(t, c)
  PROVE  IInv'
<1> DEFINE k == KeyOf[c]
           st == [state EXCEPT ![k] = "AWAITING_RETRY"]
<1>1. k \in Keys
  BY KeyOfAssumption
<1>2. /\ Idle(t) /\ client[c] = "running" /\ state[k] = "RUNNING"
      /\ client' = [client EXCEPT ![c] = "done"]
      /\ retry_queue' = [retry_queue EXCEPT ![k] = now]
      /\ UNCHANGED <<now, toCancel, requests>>
      /\ AttemptStartRewrite(t, st, callback, saved_priority, queue,
                             running_rewrites - 1)
  BY DEF NotifyRewriteFailed
<1>3. /\ st \in [Keys -> RewriteStates]
      /\ saved_priority \in [Keys -> Nat]
      /\ callback \in [Keys -> Callbacks \cup {None}]
      /\ queue \in [Keys -> Nat]
      /\ toRun \in [Threads -> Callbacks \cup {None}]
      /\ toRun[t] = None
      /\ now \in Nat
  BY <1>1, <1>2, TimeAssumption DEF IInv, TypeOK, RewriteStates, Idle
<1>4. RestOK'
  BY <1>2, <1>3 DEF IInv, TypeOK, RestOK, ClientStates
<1>5. Matched(st, callback, queue, retry_queue')
  BY <1>1, <1>2, <1>3, NoneAssumption DEF IInv, TypeOK, Matched
<1>6. Counted(st, saved_priority, queue, requests')
  BY <1>1, <1>2 DEF IInv, TypeOK, Matched, Counted
<1>7. /\ Slots(st, client', toRun)
      /\ Separate(callback, client', toCancel', toRun)
      /\ running_rewrites - 1 = Cardinality(RunningIn(st))
      /\ running_rewrites - 1 \in 0..MaxRunning
      /\ \/ running_rewrites - 1 + 1 >= MaxRunning
         \/ \E j \in Keys : \A i \in Keys \ {j} : queue[i] = 0
  BY <1>2, GiveUpSlot DEF RewriteStates
<1>8. Cardinality(KnownIn(st)) <= MaxQueued
  <2>1. KnownIn(st) = KnownIn(state)
    BY <1>1, <1>2 DEF KnownIn, IInv, TypeOK
  <2> QED BY <2>1 DEF IInv
<1>9. Between(t, st, callback, saved_priority, queue, running_rewrites - 1)
  BY <1>3, <1>5, <1>6, <1>7, <1>8 DEF Between
<1> HIDE DEF st
<1> QED BY <1>2, <1>3, <1>4, <1>9, AttemptStart

-----------------------------------------------------------------------------
\* A cancelled callback returns: only client changes.
LEMMA CallCancelStep ==
  ASSUME IInv, NEW t \in Threads, CallCancel(t)
  PROVE  IInv'
<1> USE DEF CallCancel, controllerVars
<1>1. toCancel[t] \in Callbacks /\ client[toCancel[t]] = "waiting"
  BY DEF IInv, TypeOK, Separate
<1>2. TypeOK'
  BY <1>1 DEF IInv, TypeOK, ClientStates
<1>3. Separate(callback, client, toCancel, toRun)'
  BY <1>1 DEF IInv, TypeOK, Separate
<1>4. Slots(state, client, toRun)'
  <2>1. \A d \in Callbacks : SlotOf(d, client', toRun') <=> SlotOf(d, client, toRun)
    BY <1>1 DEF SlotOf, IInv, TypeOK
  <2> QED BY <2>1 DEF Slots, IInv
<1> QED BY <1>2, <1>3, <1>4 DEF IInv, Matched, Counted

\* A callback that holds a slot is run: it had one to give.
LEMMA CallRunStep ==
  ASSUME IInv, NEW t \in Threads, CallRun(t)
  PROVE  IInv'
<1> USE DEF CallRun, controllerVars
<1>1. toRun[t] \in Callbacks /\ client[toRun[t]] = "waiting"
  BY DEF IInv, TypeOK, Separate
<1>2. TypeOK'
  BY <1>1 DEF IInv, TypeOK, ClientStates
<1>3. Separate(callback, client, toCancel, toRun)'
  BY <1>1 DEF IInv, TypeOK, Separate
<1>4. Slots(state, client, toRun)'
  <2>1. \A d \in Callbacks : SlotOf(d, client', toRun') <=> SlotOf(d, client, toRun)
    BY <1>1, NoneAssumption DEF SlotOf, IInv, TypeOK, Separate
  <2> QED BY <2>1 DEF Slots, IInv
<1> QED BY <1>2, <1>3, <1>4 DEF IInv, Matched, Counted

\* The invariant is inductive.
LEMMA Inductive == IInv /\ [Next]_vars => IInv'
<1> SUFFICES ASSUME IInv, [Next]_vars PROVE IInv'
  OBVIOUS
<1>1. ASSUME NEW t \in Threads, NEW c \in Callbacks,
             ScheduleRejectedQueueFull(t, c)
      PROVE  IInv'
  BY <1>1, QueueFullStep
<1>2. ASSUME NEW t \in Threads, NEW c \in Callbacks,
             ScheduleRejectedInProgress(t, c)
      PROVE  IInv'
  BY <1>2, InProgressStep
<1>3. ASSUME NEW t \in Threads, NEW c \in Callbacks, ScheduleQueued(t, c)
      PROVE  IInv'
  BY <1>3, QueuedStep
<1>4. ASSUME NEW t \in Threads, NEW c \in Callbacks, NotifyRewriteComplete(t, c)
      PROVE  IInv'
  BY <1>4, CompleteStep
<1>5. ASSUME NEW t \in Threads, NEW c \in Callbacks, NotifyRewriteFailed(t, c)
      PROVE  IInv'
  BY <1>5, FailedStep
<1>6. ASSUME NEW t \in Threads, CallCancel(t) PROVE IInv'
  BY <1>6, CallCancelStep
<1>7. ASSUME NEW t \in Threads, CallRun(t) PROVE IInv'
  BY <1>7, CallRunStep
<1>8. CASE Tick
  BY <1>8, TimeAssumption
  DEF Tick, IInv, TypeOK, Matched, Counted, Slots, SlotOf, Separate, controllerVars
<1>9. CASE UNCHANGED vars
  BY <1>9
  DEF vars, IInv, TypeOK, Matched, Counted, Slots, SlotOf, Separate, controllerVars
<1> QED BY <1>1, <1>2, <1>3, <1>4, <1>5, <1>6, <1>7, <1>8, <1>9 DEF Next

\* The controller starts in a state that satisfies the invariant.
LEMMA Initial == Init => IInv
<1> SUFFICES ASSUME Init PROVE IInv
  OBVIOUS
<1>1. TypeOK
  BY LimitAssumption, TimeAssumption DEF Init, ControllerInit, TypeOK, RewriteStates, ClientStates
<1>2. /\ Matched(state, callback, queue, retry_queue)
      /\ Counted(state, saved_priority, queue, requests)
      /\ Separate(callback, client, toCancel, toRun)
  BY DEF Init, ControllerInit, Matched, Counted, Separate
<1>3. RunningIn(state) = {} /\ KnownIn(state) = {}
  BY DEF Init, ControllerInit, RunningIn, KnownIn
<1>4. Slots(state, client, toRun)
  BY <1>3, NoneAssumption DEF Init, ControllerInit, Slots, SlotOf
<1> QED BY <1>1, <1>2, <1>3, <1>4, FS_EmptySet, LimitAssumption DEF IInv, Init, ControllerInit, Empty

\* Every reachable state satisfies the inductive invariant.
THEOREM Invariance == SafeSpec => []IInv
BY Initial, Inductive, PTL DEF SafeSpec

\* No handler and no interleaving of handlers takes a variable out of its type;
\* in particular running_rewrites_ stays between 0 and max_running_rewrites_.
THEOREM TypeCorrect == SafeSpec => []TypeOK
<1>1. IInv => TypeOK
  BY DEF IInv
<1> QED BY <1>1, Invariance, PTL

\* queue_, retry_queue_ and the callbacks agree with the states of the rewrites
\* whenever mutex_ is free.
THEOREM StateMachine == SafeSpec => []QueuesMatchStates
<1>1. IInv => QueuesMatchStates
  BY DEF IInv, Matched, QueuesMatchStates
<1> QED BY <1>1, Invariance, PTL

\* The limits are kept, and no slot is free while a rewrite is queued.
THEOREM NoSlotWasted == SafeSpec => []WorkConserving
<1>1. IInv => WorkConserving
  BY DEF IInv, WorkConserving, RunningKeys, Known, KnownIn
<1> QED BY <1>1, Invariance, PTL

\* The CHECKs of the Notify handlers hold, and no two clients work on one key.
THEOREM OneClientPerKey == SafeSpec => []ClientsRunTheirKeys
<1>1. IInv => ClientsRunTheirKeys
  BY DEF IInv, Slots, SlotOf, HasSlot, ClientsRunTheirKeys, RunningKeys
<1> QED BY <1>1, Invariance, PTL

\* Types, queues, states and clients agree in every reachable state.
THEOREM Consistency == SafeSpec => []StatesConsistent
<1>1. TypeOK /\ QueuesMatchStates /\ ClientsRunTheirKeys => StatesConsistent
  BY DEF StatesConsistent
<1> QED BY <1>1, TypeCorrect, StateMachine, OneClientPerKey, PTL

\* No request is forgotten by the priority of its key.
THEOREM PriorityIsPopularity == SafeSpec => []PopularityKept
<1>1. IInv => PopularityKept
  BY DEF IInv, Counted, PopularityKept, PriorityOf
<1> QED BY <1>1, Invariance, PTL

-----------------------------------------------------------------------------
\* In a step that ends in AttemptStartRewrite, the key that starts was requested
\* at least as often as any key left in the queue.
LEMMA StartsMostPopular ==
  ASSUME NEW t, NEW st, NEW cb, NEW sp, NEW q, NEW run, IInv',
         st \in [Keys -> RewriteStates], q \in [Keys -> Nat], sp \in [Keys -> Nat],
         AttemptStartRewrite(t, st, cb, sp, q, run),
         \A i \in Keys : st[i] = "RUNNING" => state[i] = "RUNNING",
         NEW k \in Keys, NEW j \in Keys,
         state[k] # "RUNNING", state'[k] = "RUNNING", state'[j] = "QUEUED"
  PROVE  requests'[j] <= requests'[k]
<1>1. /\ saved_priority'[k] = requests'[k]
      /\ queue'[j] = requests'[j]
  BY DEF IInv, Counted
<1>2. PICK top \in Highest(q) :
        /\ saved_priority' = [sp EXCEPT ![top] = q[top]]
        /\ queue' = [q EXCEPT ![top] = 0]
        /\ state' = [st EXCEPT ![top] =
                       IF cb[top] # None THEN "RUNNING" ELSE "STOPPED"]
  BY DEF AttemptStartRewrite
<1>3. k = top /\ j # top
  BY <1>2
<1>4. q[j] <= q[top]
  BY DEF Highest
<1> QED BY <1>1, <1>2, <1>3, <1>4

\* A rewrite that starts was requested at least as often as any left queued.
THEOREM PopularityOrder == SafeSpec => MostPopularFirst
<1> DEFINE Order ==
      \A k, j \in Keys :
        k \in RunningKeys' \ RunningKeys /\ state'[j] = "QUEUED"
          => requests'[j] <= requests'[k]
<1>1. IInv /\ IInv' /\ [Next]_vars => [Order]_vars
  <2> SUFFICES ASSUME IInv, IInv', Next,
                      NEW k \in Keys, NEW j \in Keys,
                      state[k] # "RUNNING", state'[k] = "RUNNING",
                      state'[j] = "QUEUED"
               PROVE  requests'[j] <= requests'[k]
    BY DEF RunningKeys, RunningIn
  <2> USE DEF IInv, TypeOK
  <2>1. CASE \E t \in Threads, c \in Callbacks : ScheduleRejectedQueueFull(t, c)
    BY <2>1 DEF ScheduleRejectedQueueFull, Without
  <2>2. CASE \E t \in Threads, c \in Callbacks : ScheduleRejectedInProgress(t, c)
    BY <2>2 DEF ScheduleRejectedInProgress
  <2>3. ASSUME NEW t \in Threads, NEW c \in Callbacks, ScheduleQueued(t, c)
        PROVE  requests'[j] <= requests'[k]
    <3> DEFINE kc == KeyOf[c]
    <3>1. PICK D \in DroppedFor(kc) :
            AttemptStartRewrite(t,
              [Without(state, D, "ABSENT") EXCEPT ![kc] = "QUEUED"],
              [callback EXCEPT ![kc] = c],
              [Without(saved_priority, D, 0) EXCEPT
                 ![kc] = IF state[kc] = "AWAITING_RETRY" THEN 0 ELSE @],
              [queue EXCEPT ![kc] = @ + 1 + CarriedOver(kc)],
              running_rewrites)
      BY <2>3 DEF ScheduleQueued
    <3> DEFINE st == [Without(state, D, "ABSENT") EXCEPT ![kc] = "QUEUED"]
               sp == [Without(saved_priority, D, 0) EXCEPT
                        ![kc] = IF state[kc] = "AWAITING_RETRY" THEN 0 ELSE @]
               q == [queue EXCEPT ![kc] = @ + 1 + CarriedOver(kc)]
    <3>2. st \in [Keys -> RewriteStates] /\ sp \in [Keys -> Nat]
            /\ q \in [Keys -> Nat]
      BY KeyOfAssumption DEF Without, RewriteStates, CarriedOver
    <3>3. \A i \in Keys : st[i] = "RUNNING" => state[i] = "RUNNING"
      BY KeyOfAssumption DEF Without
    <3> HIDE DEF st, sp, q
    <3>4. AttemptStartRewrite(t, st, [callback EXCEPT ![kc] = c], sp, q,
                              running_rewrites)
      BY <3>1 DEF st, sp, q
    <3> QED BY <3>2, <3>3, <3>4, StartsMostPopular
  <2>4. ASSUME NEW t \in Threads, NEW c \in Callbacks, NotifyRewriteComplete(t, c)
        PROVE  requests'[j] <= requests'[k]
    <3> DEFINE st == [state EXCEPT ![KeyOf[c]] = "ABSENT"]
               sp == [saved_priority EXCEPT ![KeyOf[c]] = 0]
    <3>1. st \in [Keys -> RewriteStates] /\ sp \in [Keys -> Nat]
            /\ \A i \in Keys : st[i] = "RUNNING" => state[i] = "RUNNING"
      BY KeyOfAssumption DEF RewriteStates
    <3>2. AttemptStartRewrite(t, st, callback, sp, queue, running_rewrites - 1)
      BY <2>4 DEF NotifyRewriteComplete
    <3> HIDE DEF st, sp
    <3> QED BY <3>1, <3>2, StartsMostPopular
  <2>5. ASSUME NEW t \in Threads, NEW c \in Callbacks, NotifyRewriteFailed(t, c)
        PROVE  requests'[j] <= requests'[k]
    <3> DEFINE st == [state EXCEPT ![KeyOf[c]] = "AWAITING_RETRY"]
    <3>1. st \in [Keys -> RewriteStates]
            /\ \A i \in Keys : st[i] = "RUNNING" => state[i] = "RUNNING"
      BY KeyOfAssumption DEF RewriteStates
    <3>2. AttemptStartRewrite(t, st, callback, saved_priority, queue,
                              running_rewrites - 1)
      BY <2>5 DEF NotifyRewriteFailed
    <3> HIDE DEF st
    <3> QED BY <3>1, <3>2, StartsMostPopular
  <2>6. CASE (\E t \in Threads : CallCancel(t) \/ CallRun(t)) \/ Tick
    BY <2>6 DEF CallCancel, CallRun, Tick, controllerVars
  <2> QED BY <2>1, <2>2, <2>3, <2>4, <2>5, <2>6 DEF Next
<1> QED BY <1>1, Invariance, PTL DEF SafeSpec, MostPopularFirst

-----------------------------------------------------------------------------
\* The clients that work, and one more with a slot, are no more than the limit.
LEMMA RunningClients ==
  ASSUME IInv, NEW c \in Callbacks, client[c] # "running",
         SlotOf(c, client, toRun)
  PROVE  Cardinality(Interface!Running) < MaxRunning
<1> DEFINE S == Interface!Running \cup {c}
           f == [d \in S |-> KeyOf[d]]
<1>1. /\ S \subseteq Callbacks
      /\ c \notin Interface!Running
      /\ \A d \in S : SlotOf(d, client, toRun)
  BY DEF Interface!Running, SlotOf
<1>2. f \in [S -> RunningIn(state)]
  BY <1>1, KeyOfAssumption DEF IInv, Slots, RunningIn
<1>3. \A d, e \in S : f[d] = f[e] => d = e
  BY <1>1 DEF IInv, Slots
<1>4. f \in Injection(S, RunningIn(state))
  BY <1>2, <1>3 DEF Injection, IsInjective
<1>5. IsFiniteSet(RunningIn(state))
  BY FiniteAssumption, FS_Subset DEF RunningIn
<1>6. IsFiniteSet(S) /\ Cardinality(S) <= Cardinality(RunningIn(state))
  BY <1>4, <1>5, FS_Injection
<1>7. IsFiniteSet(Interface!Running)
  BY <1>6, FS_Subset
<1>8. Cardinality(S) = Cardinality(Interface!Running) + 1
  BY <1>1, <1>7, FS_AddElement
<1> QED BY <1>6, <1>7, <1>8, FS_CardinalityType, LimitAssumption DEF IInv, TypeOK

\* The interface counts with the operator of its own copy of FiniteSets.
LEMMA SameCardinality == \A S : Interface!Cardinality(S) = Cardinality(S)
BY Zenon DEF Interface!Cardinality, Cardinality

\* The controller implements the safety part of ScheduleRewriteController: each
\* callback is run or cancelled, not both and once, one client at a time per key
\* and at most max_running_rewrites_ in all.
THEOREM ImplementsInterface == SafeSpec => Interface!SafeSpec
<1>1. Init => Interface!Init
  BY DEF Init, Interface!Init
<1>2. IInv /\ [Next]_vars => [Interface!Next]_client
  <2> SUFFICES ASSUME IInv, Next PROVE [Interface!Next]_client
    BY DEF vars
  <2> USE DEF Interface!Next
  <2>1. CASE \E t \in Threads, c \in Callbacks :
               \/ ScheduleRejectedQueueFull(t, c)
               \/ ScheduleRejectedInProgress(t, c)
               \/ ScheduleQueued(t, c)
    BY <2>1 DEF ScheduleRejectedQueueFull, ScheduleRejectedInProgress,
                ScheduleQueued, Accept, Interface!Request
  <2>2. CASE \E t \in Threads, c \in Callbacks : Notify(t, c)
    BY <2>2 DEF Notify, NotifyRewriteComplete, NotifyRewriteFailed,
                Interface!Finish
  <2>3. CASE \E t \in Threads : CallCancel(t)
    BY <2>3 DEF CallCancel, IInv, TypeOK, Separate, Interface!Cancel
  <2>4. ASSUME NEW t \in Threads, CallRun(t)
        PROVE  [Interface!Next]_client
    <3> DEFINE c == toRun[t]
    <3>1. c \in Callbacks /\ client[c] = "waiting"
      BY <2>4 DEF CallRun, IInv, TypeOK, Separate
    <3>2. SlotOf(c, client, toRun)
      BY DEF SlotOf
    <3>3. \A d \in Interface!Running : KeyOf[d] # KeyOf[c]
      BY <3>1, <3>2 DEF IInv, Slots, SlotOf, Interface!Running
    <3>4. Cardinality(Interface!Running) < MaxRunning
      BY <3>1, <3>2, RunningClients
    <3>5. Interface!Run(c)
      BY <2>4, <3>1, <3>3, <3>4, SameCardinality DEF CallRun, Interface!Run
    <3> QED BY <3>1, <3>5
  <2>5. CASE Tick
    BY <2>5 DEF Tick
  <2> QED BY <2>1, <2>2, <2>3, <2>4, <2>5 DEF Next, Notify
<1> QED BY <1>1, <1>2, Invariance, PTL DEF SafeSpec, Interface!SafeSpec

-----------------------------------------------------------------------------
(* The contest behind RPC: its server, the clients and the streams.        *)

Results == {"success", "failed"}
Early == {"new", "timed", "flush", "cancelling"}
OnItsWay == {"starting", "reading", "granted"}
UpBoxes == {<<>>, <<"request">>, <<"success">>, <<"failed">>}
DownBoxes == {<<>>, <<"proceed">>, <<"deny">>}

StreamTypes ==
  /\ link \in [Callbacks -> {"none", "opening", "open", "finished", "broken"}]
  /\ up \in [Callbacks -> UpBoxes] /\ down \in [Callbacks -> DownBoxes]
ServerTypes ==
  /\ rpc_state \in [Callbacks -> {"init", "first_read", "running", "finished"}]
  /\ handler_state \in [Callbacks -> {"init", "waiting", "operation", "done"}]
  /\ failing \in Callbacks \cup {None}
ClientTypes ==
  /\ conn \in [Procs -> {"running", "disconnected", "shutdown", "killed"}]
  /\ contexts \in [Procs -> SUBSET Callbacks]
  /\ shut \in [Procs -> {"no", "flush", "cancelling", "done"}]
  /\ pc \in [Callbacks -> Early \cup OnItsWay \cup {"over", "killed"}]
  /\ answers \in [Callbacks -> Nat]

\* The two state machines of a handler, and what the controller knows of its client.
Handlers ==
  /\ \A c \in Callbacks :
       /\ rpc_state[c] \in {"init", "first_read"} => handler_state[c] = "init"
       /\ rpc_state[c] = "running" <=> handler_state[c] \in {"waiting", "operation"}
       /\ client[c] = "running" <=> (handler_state[c] = "operation" \/ c = failing)
       /\ handler_state[c] = "waiting" => client[c] = "waiting"
  /\ failing # None => handler_state[failing] # "operation" /\ Idle(Server)

\* How far an open stream is.
Open(c) ==
  \/ /\ pc[c] = "reading" /\ up[c] = <<"request">> /\ down[c] = <<>>
     /\ rpc_state[c] \in {"init", "first_read"}
  \/ /\ pc[c] = "reading" /\ up[c] = <<>> /\ down[c] = <<>>
     /\ handler_state[c] = "waiting"
  \/ /\ pc[c] = "reading" /\ up[c] = <<>> /\ down[c] = <<"proceed">>
     /\ handler_state[c] = "operation"
  \/ /\ pc[c] = "granted" /\ up[c] = <<>> /\ down[c] = <<>>
     /\ handler_state[c] = "operation"
  \/ /\ pc[c] = "over" /\ up[c] \in {<<"success">>, <<"failed">>} /\ down[c] = <<>>
     /\ handler_state[c] = "operation"

\* What the two ends of a stream know of each other.  A broken one tells the least.
StreamOf(c) ==
  /\ pc[c] \in Early => link[c] = "none"
  /\ link[c] = "none" => /\ pc[c] \in Early \cup {"over", "killed"}
                         /\ up[c] = <<>> /\ down[c] = <<>> /\ rpc_state[c] = "init"
  /\ link[c] = "opening" => /\ pc[c] = "starting"
                            /\ up[c] = <<>> /\ down[c] = <<>> /\ rpc_state[c] = "init"
  /\ link[c] = "open" => Open(c)
  /\ link[c] = "finished" => /\ rpc_state[c] = "finished" /\ pc[c] # "granted"
                             /\ down[c] # <<"proceed">>
  /\ down[c] = <<"deny">> => link[c] \in {"finished", "broken"}
  /\ up[c] = <<"request">> => rpc_state[c] # "running"
  /\ up[c] \in {<<"success">>, <<"failed">>} => rpc_state[c] \in {"running", "finished"}
  /\ handler_state[c] = "waiting" => up[c] = <<>>
  /\ handler_state[c] \in {"init", "waiting"} => down[c] = <<>>
Streams == \A c \in Callbacks : StreamOf(c)

\* The registry of a process has every request on its way, and every stream that works.
Registry ==
  /\ \A c \in Callbacks :
       link[c] \in {"opening", "open"} \/ pc[c] \in OnItsWay => c \in contexts[ProcOf[c]]
  /\ \A p \in Procs : shut[p] = "no" <=> conn[p] \in {"running", "disconnected"}
  /\ \A c \in Callbacks : shut[ProcOf[c]] = "done" => pc[c] \notin OnItsWay

RpcInv ==
  /\ IInv /\ ServerTypes /\ Handlers
  /\ ClientTypes /\ AnsweredOnce
  /\ StreamTypes /\ Streams /\ Registry

-----------------------------------------------------------------------------
(* What the steps of the RPC have in common.                               *)

\* What is sent into an empty box, and what is left of a full one.
LEMMA Boxes ==
  /\ \A m : Append(<<>>, m) = <<m>> /\ <<m>> # <<>>
  /\ \A box \in UpBoxes \cup DownBoxes : box # <<>> => Tail(box) = <<>> /\ box = <<Head(box)>>
  /\ \A m, n : <<m>> = <<n>> => m = n
<1>1. \A m : Append(<<>>, m) = <<m>> /\ <<m>> # <<>> /\ Tail(<<m>>) = <<>> /\ Head(<<m>>) = m
  OBVIOUS
<1> QED BY <1>1 DEF UpBoxes, DownBoxes

\* A stream is not affected by what happens to others.
LEMMA Unaffected ==
  ASSUME NEW c \in Callbacks, StreamOf(c), pc'[c] = pc[c], link'[c] = link[c],
         up'[c] = up[c], down'[c] = down[c],
         rpc_state'[c] = rpc_state[c], handler_state'[c] = handler_state[c]
  PROVE  StreamOf(c)'
BY DEF StreamOf, Open

\* A stream that breaks asks nothing more of its ends than that they have begun.
LEMMA Breaking ==
  ASSUME NEW c \in Callbacks, StreamOf(c), pc'[c] \notin Early,
         link'[c] = IF link[c] \in {"opening", "open"} THEN "broken" ELSE link[c],
         pc'[c] = pc[c] \/ (pc'[c] = "killed"), UNCHANGED <<up, down, rpc_state, handler_state>>
  PROVE  StreamOf(c)'
BY Boxes DEF StreamOf, Open

\* Steps of the clients leave the server as it is.
LEMMA ServerStays ==
  ASSUME RpcInv, UNCHANGED serverVars
  PROVE  /\ (IInv /\ ServerTypes /\ Handlers)'
         /\ UNCHANGED <<rpc_state, handler_state, failing, client>>
<1> USE DEF RpcInv, serverVars, handlerVars
<1>1. UNCHANGED vars /\ UNCHANGED <<rpc_state, handler_state, failing, client>>
  BY DEF vars
<1>2. IInv'
  BY <1>1, Inductive
<1>3. (ServerTypes /\ Handlers)'
  BY <1>1 DEF ServerTypes, Handlers, Idle, vars
<1> QED BY <1>1, <1>2, <1>3

\* Steps of the server leave the clients as they are, and open no stream.
LEMMA ClientStays ==
  ASSUME RpcInv, UNCHANGED clientVars,
         \A c \in Callbacks : link'[c] \in {"opening", "open"} => link'[c] = link[c]
  PROVE  /\ (ClientTypes /\ AnsweredOnce /\ Registry)'
         /\ UNCHANGED <<conn, contexts, pc, shut, answers>>
<1> USE DEF RpcInv, clientVars, connectionVars
<1>1. UNCHANGED <<conn, contexts, pc, shut, answers>>
  OBVIOUS
<1>2. (ClientTypes /\ AnsweredOnce)'
  BY <1>1 DEF ClientTypes, AnsweredOnce
<1>3. Registry'
  BY <1>1 DEF Registry
<1> QED BY <1>1, <1>2, <1>3

\* When one client moves on and answers, it is the first answer.
LEMMA FirstAnswer ==
  ASSUME RpcInv, NEW c \in Callbacks, pc[c] \in Early \cup OnItsWay, pc[c] # "granted",
         NEW to \in {"over", "granted"}, pc' = [pc EXCEPT ![c] = to],
         answers' = [answers EXCEPT ![c] = @ + 1]
  PROVE  AnsweredOnce' /\ answers' \in [Callbacks -> Nat]
BY DEF RpcInv, AnsweredOnce, ClientTypes, Early, OnItsWay

\* When one client moves on it has been answered as before.
LEMMA AsAnswered ==
  ASSUME RpcInv, NEW c \in Callbacks, NEW to, pc' = [pc EXCEPT ![c] = to],
         to \in Early \cup OnItsWay \cup {"over"}, pc[c] # "killed",
         pc[c] \in {"granted", "over"} <=> to \in {"granted", "over"}, UNCHANGED answers
  PROVE  AnsweredOnce'
BY DEF RpcInv, AnsweredOnce, ClientTypes, Early, OnItsWay


\* The streams of all but c are as they were.
Elsewhere(c) ==
  \A d \in Callbacks \ {c} :
    /\ pc'[d] = pc[d] /\ link'[d] = link[d] /\ up'[d] = up[d] /\ down'[d] = down[d]
    /\ rpc_state'[d] = rpc_state[d] /\ handler_state'[d] = handler_state[d]

LEMMA OtherStreams ==
  ASSUME Streams, NEW c \in Callbacks, Elsewhere(c), StreamOf(c)'
  PROVE  Streams'
BY Unaffected DEF Streams, Elsewhere

\* The registry, when one request moves on in its process.
LEMMA OtherRequests ==
  ASSUME RpcInv, NEW c \in Callbacks, Elsewhere(c),
         link'[c] \in {"opening", "open"} \/ pc'[c] \in OnItsWay
           => c \in contexts'[ProcOf[c]] /\ shut'[ProcOf[c]] # "done",
         \A d \in Callbacks \ {c} : d \in contexts[ProcOf[d]] => d \in contexts'[ProcOf[d]],
         UNCHANGED shut,
         \A p \in Procs : conn'[p] = conn[p] \/ {conn[p], conn'[p]} = {"running", "disconnected"}
  PROVE  Registry'
<1> USE ProcOfAssumption DEF RpcInv, Registry, Elsewhere
<1>1. \A d \in Callbacks :
        link'[d] \in {"opening", "open"} \/ pc'[d] \in OnItsWay => d \in contexts'[ProcOf[d]]
  OBVIOUS
<1>2. \A p \in Procs : shut'[p] = "no" <=> conn'[p] \in {"running", "disconnected"}
  OBVIOUS
<1>3. \A d \in Callbacks : shut'[ProcOf[d]] = "done" => pc'[d] \notin OnItsWay
  OBVIOUS
<1> QED BY <1>1, <1>2, <1>3

-----------------------------------------------------------------------------
(* The steps of a client.                                                  *)

LEMMA ReadTimeStep ==
  ASSUME RpcInv, NEW c \in Callbacks, NEW time, ReadTime(c, time), UNCHANGED serverVars
  PROVE  RpcInv'
<1>1. /\ pc[c] = "new" /\ pc' = [pc EXCEPT ![c] = "timed"]
      /\ UNCHANGED <<conn, contexts, shut, answers, link, up, down>>
  BY DEF ReadTime, Goes, connectionVars, streamVars
<1>2. /\ (IInv /\ ServerTypes /\ Handlers)'
      /\ UNCHANGED <<rpc_state, handler_state>>
  BY ServerStays
<1>3. ClientTypes' /\ AnsweredOnce' /\ StreamTypes'
  BY <1>1, AsAnswered DEF RpcInv, ClientTypes, StreamTypes, Early
<1>4. Elsewhere(c)
  BY <1>1, <1>2 DEF Elsewhere
<1>5. StreamOf(c)'
  BY <1>1, <1>2 DEF RpcInv, ClientTypes, Streams, StreamOf, Open, Early
<1>6. Streams'
  BY <1>4, <1>5, OtherStreams DEF RpcInv
<1>7. Registry'
  BY <1>1, <1>4, <1>5, OtherRequests DEF RpcInv, ClientTypes, StreamOf, Early, OnItsWay
<1> QED BY <1>2, <1>3, <1>6, <1>7 DEF RpcInv

LEMMA RefusedStep ==
  ASSUME RpcInv, NEW c \in Callbacks, Refused(c), UNCHANGED serverVars
  PROVE  RpcInv'
<1>1. /\ pc[c] = "timed" /\ pc' = [pc EXCEPT ![c] = "over"]
      /\ answers' = [answers EXCEPT ![c] = @ + 1]
      /\ UNCHANGED <<conn, contexts, shut, link, up, down>>
  BY DEF Refused, Enters, Goes, Answers, streamVars
<1>2. /\ (IInv /\ ServerTypes /\ Handlers)'
      /\ UNCHANGED <<rpc_state, handler_state>>
  BY ServerStays
<1>3. ClientTypes' /\ AnsweredOnce' /\ StreamTypes'
  BY <1>1, FirstAnswer DEF RpcInv, ClientTypes, StreamTypes, Early
<1>4. Elsewhere(c)
  BY <1>1, <1>2 DEF Elsewhere
<1>5. StreamOf(c)'
  BY <1>1, <1>2 DEF RpcInv, ClientTypes, Streams, StreamOf, Open, Early
<1>6. Streams'
  BY <1>4, <1>5, OtherStreams DEF RpcInv
<1>7. Registry'
  BY <1>1, <1>4, <1>5, OtherRequests DEF RpcInv, ClientTypes, Streams, StreamOf, Early, OnItsWay
<1> QED BY <1>2, <1>3, <1>6, <1>7 DEF RpcInv

LEMMA DisconnectsStep ==
  ASSUME RpcInv, NEW c \in Callbacks, Disconnects(c), UNCHANGED serverVars
  PROVE  RpcInv'
<1>1. /\ pc[c] = "timed" /\ pc' = [pc EXCEPT ![c] = "flush"]
      /\ conn[ProcOf[c]] = "running" /\ conn' = [conn EXCEPT ![ProcOf[c]] = "disconnected"]
      /\ UNCHANGED <<contexts, shut, answers, link, up, down>>
  BY DEF Disconnects, Enters, Goes, streamVars
<1>2. /\ (IInv /\ ServerTypes /\ Handlers)'
      /\ UNCHANGED <<rpc_state, handler_state>>
  BY ServerStays
<1>3. ClientTypes' /\ AnsweredOnce' /\ StreamTypes'
  BY <1>1, AsAnswered DEF RpcInv, ClientTypes, StreamTypes, Early
<1>4. Elsewhere(c)
  BY <1>1, <1>2 DEF Elsewhere
<1>5. StreamOf(c)'
  BY <1>1, <1>2 DEF RpcInv, ClientTypes, Streams, StreamOf, Open, Early
<1>6. Streams'
  BY <1>4, <1>5, OtherStreams DEF RpcInv
<1>7. Registry'
  <2>1. \A p \in Procs : conn'[p] = conn[p] \/ {conn[p], conn'[p]} = {"running", "disconnected"}
    BY <1>1 DEF RpcInv, ClientTypes
  <2> QED BY <2>1, <1>1, <1>4, <1>5, OtherRequests DEF RpcInv, ClientTypes, Streams, StreamOf, Early, OnItsWay
<1> QED BY <1>2, <1>3, <1>6, <1>7 DEF RpcInv

LEMMA StartsStep ==
  ASSUME RpcInv, NEW c \in Callbacks, Starts(c), UNCHANGED serverVars
  PROVE  RpcInv'
<1>p. ProcOf[c] \in Procs
  BY ProcOfAssumption
<1>1. /\ pc[c] = "timed" /\ pc' = [pc EXCEPT ![c] = "starting"]
      /\ link' = [link EXCEPT ![c] = "opening"]
      /\ contexts' = [contexts EXCEPT ![ProcOf[c]] = @ \cup {c}]
      /\ conn[ProcOf[c]] \in {"running", "disconnected"}
      /\ conn' = [conn EXCEPT ![ProcOf[c]] = "running"] \/ UNCHANGED conn
      /\ UNCHANGED <<shut, answers, up, down>>
  BY DEF Starts, Connected, MayRevive, Enters, Goes
<1>2. /\ (IInv /\ ServerTypes /\ Handlers)'
      /\ UNCHANGED <<rpc_state, handler_state>>
  BY ServerStays
<1>3. AnsweredOnce' /\ StreamTypes'
  BY <1>1, AsAnswered DEF RpcInv, ClientTypes, StreamTypes, Early, OnItsWay
<1>8. ClientTypes'
  BY <1>1, <1>p DEF RpcInv, ClientTypes, Early, OnItsWay
<1>4. Elsewhere(c)
  BY <1>1, <1>2 DEF Elsewhere, RpcInv, StreamTypes, ClientTypes
<1>5. StreamOf(c)'
  BY <1>1, <1>2 DEF RpcInv, ClientTypes, StreamTypes, Streams, StreamOf, Open, Early
<1>6. Streams'
  BY <1>4, <1>5, OtherStreams DEF RpcInv
<1>7. Registry'
  <2>1. \A p \in Procs : conn'[p] = conn[p] \/ {conn[p], conn'[p]} = {"running", "disconnected"}
    BY <1>1 DEF RpcInv, ClientTypes
  <2>2. c \in contexts'[ProcOf[c]] /\ \A d \in Callbacks : d \in contexts[ProcOf[d]] => d \in contexts'[ProcOf[d]]
    BY <1>1, <1>p, ProcOfAssumption DEF RpcInv, ClientTypes
  <2>3. shut[ProcOf[c]] # "done"
    BY <1>1, <1>p DEF RpcInv, Registry
  <2> QED BY <2>1, <2>2, <2>3, <1>1, <1>4, OtherRequests
<1> QED BY <1>2, <1>3, <1>6, <1>7, <1>8 DEF RpcInv

\* When nothing happens to a request but that streams of a process break.
LEMMA OnlyBreaking ==
  ASSUME RpcInv, NEW S \in SUBSET Callbacks, link' = BrokenIn(S) \/ UNCHANGED link,
         UNCHANGED <<conn, contexts, pc, shut, answers, up, down, rpc_state, handler_state>>
  PROVE  (ClientTypes /\ AnsweredOnce /\ StreamTypes /\ Streams /\ Registry)'
<1>1. (ClientTypes /\ AnsweredOnce)'
  BY DEF RpcInv, ClientTypes, AnsweredOnce
<1>2. StreamTypes'
  BY DEF RpcInv, StreamTypes, BrokenIn
<1>3. ASSUME NEW d \in Callbacks PROVE StreamOf(d)'
  <2>1. StreamOf(d) /\ (link[d] \in {"opening", "open"} => pc[d] \notin Early)
    BY DEF RpcInv, Streams, StreamOf
  <2>2. CASE link'[d] = link[d]
    BY <2>1, <2>2, Unaffected
  <2>3. CASE link'[d] # link[d]
    BY <2>1, <2>3, Breaking DEF BrokenIn
  <2> QED BY <2>2, <2>3
<1>4. Registry'
  BY DEF RpcInv, Registry, BrokenIn
<1> QED BY <1>1, <1>2, <1>3, <1>4 DEF Streams

LEMMA FlushStep ==
  ASSUME RpcInv, NEW c \in Callbacks, Flush(c), UNCHANGED serverVars
  PROVE  RpcInv'
<1>1. /\ (IInv /\ ServerTypes /\ Handlers)'
      /\ UNCHANGED <<rpc_state, handler_state>>
  BY ServerStays
<1>2. CASE /\ \E d \in Callbacks : Cancels(c, ProcOf[c], d)
           /\ UNCHANGED <<connectionVars, pc, asked_at, shut, answers, up, down>>
  <2>1. PICK S \in SUBSET Callbacks : link' = BrokenIn(S) \/ UNCHANGED link
    BY <1>2 DEF Cancels
  <2>2. UNCHANGED <<conn, contexts, pc, shut, answers, up, down>>
    BY <1>2 DEF connectionVars
  <2> QED BY <1>1, <2>1, <2>2, OnlyBreaking DEF RpcInv
<1>3. ASSUME pc[c] \in {"flush", "cancelling"}, NEW to \in {"cancelling", "over"},
             pc' = [pc EXCEPT ![c] = to],
             IF to = "over" THEN answers' = [answers EXCEPT ![c] = @ + 1] ELSE UNCHANGED answers,
             UNCHANGED <<conn, contexts, shut, link, up, down>>
      PROVE  RpcInv'
  <2>1. AnsweredOnce' /\ answers' \in [Callbacks -> Nat]
    BY <1>3, AsAnswered, FirstAnswer DEF RpcInv, ClientTypes, Early
  <2>2. ClientTypes' /\ StreamTypes'
    BY <1>3, <2>1 DEF RpcInv, ClientTypes, StreamTypes, Early
  <2>3. Elsewhere(c)
    BY <1>1, <1>3 DEF Elsewhere, RpcInv, ClientTypes
  <2>4. StreamOf(c)'
    BY <1>1, <1>3 DEF RpcInv, ClientTypes, Streams, StreamOf, Open, Early
  <2>5. Streams'
    BY <2>3, <2>4, OtherStreams DEF RpcInv
  <2>6. Registry'
    BY <1>3, <2>3, OtherRequests DEF RpcInv, ClientTypes, Streams, StreamOf, Early, OnItsWay
  <2> QED BY <1>1, <2>1, <2>2, <2>5, <2>6 DEF RpcInv
<1> QED BY <1>2, <1>3 DEF Flush, Goes, Answers, Closes, connectionVars, streamVars

LEMMA BootStrapFinishedStep ==
  ASSUME RpcInv, NEW c \in Callbacks, BootStrapFinished(c), UNCHANGED serverVars
  PROVE  RpcInv'
<1>1. /\ pc[c] = "starting" /\ pc' = [pc EXCEPT ![c] = "reading"]
      /\ link[c] = "opening" /\ link' = [link EXCEPT ![c] = "open"]
      /\ up' = [up EXCEPT ![c] = <<"request">>] /\ down[c] = <<>>
      /\ rpc_state[c] = "init"
      /\ UNCHANGED <<conn, contexts, shut, answers, down>>
  BY Boxes DEF BootStrapFinished, Goes, Send, unmoved, RpcInv, StreamTypes, Streams, StreamOf
<1>2. /\ (IInv /\ ServerTypes /\ Handlers)'
      /\ UNCHANGED <<rpc_state, handler_state>>
  BY ServerStays
<1>3. ClientTypes' /\ AnsweredOnce' /\ StreamTypes'
  BY <1>1, AsAnswered DEF RpcInv, ClientTypes, StreamTypes, Early, OnItsWay, UpBoxes
<1>4. Elsewhere(c)
  BY <1>1, <1>2 DEF Elsewhere, RpcInv, StreamTypes, ClientTypes
<1>5. StreamOf(c)'
  BY <1>1, <1>2, Boxes DEF RpcInv, ClientTypes, StreamTypes, Handlers, StreamOf, Open, Early
<1>6. Streams'
  BY <1>4, <1>5, OtherStreams DEF RpcInv
<1>7. Registry'
  BY <1>1, <1>4, OtherRequests DEF RpcInv, Registry, OnItsWay
<1> QED BY <1>2, <1>3, <1>6, <1>7 DEF RpcInv

LEMMA StartUpFailedStep ==
  ASSUME RpcInv, NEW c \in Callbacks, StartUpFailed(c), UNCHANGED serverVars
  PROVE  RpcInv'
<1>1. /\ pc[c] \in {"starting", "reading"} /\ pc' = [pc EXCEPT ![c] = "over"]
      /\ answers' = [answers EXCEPT ![c] = @ + 1]
      /\ link[c] = "broken" \/ (link[c] = "finished" /\ down[c] = <<>>)
      /\ UNCHANGED <<conn, contexts, shut, link, up, down>>
  BY DEF StartUpFailed, Ended, Goes, Answers, unmoved, streamVars
<1>2. /\ (IInv /\ ServerTypes /\ Handlers)'
      /\ UNCHANGED <<rpc_state, handler_state>>
  BY ServerStays
<1>3. ClientTypes' /\ AnsweredOnce' /\ StreamTypes'
  BY <1>1, FirstAnswer DEF RpcInv, ClientTypes, StreamTypes, OnItsWay
<1>4. Elsewhere(c)
  BY <1>1, <1>2 DEF Elsewhere, RpcInv, ClientTypes
<1>5. StreamOf(c)'
  BY <1>1, <1>2 DEF RpcInv, ClientTypes, Streams, StreamOf, Early
<1>6. Streams'
  BY <1>4, <1>5, OtherStreams DEF RpcInv
<1>7. Registry'
  BY <1>1, <1>4, OtherRequests DEF RpcInv, ClientTypes, OnItsWay
<1> QED BY <1>2, <1>3, <1>6, <1>7 DEF RpcInv

LEMMA NotifyClientOfServerDecisionStep ==
  ASSUME RpcInv, NEW c \in Callbacks, NotifyClientOfServerDecision(c), UNCHANGED serverVars
  PROVE  RpcInv'
<1>1. /\ pc[c] = "reading" /\ down[c] \in {<<"proceed">>, <<"deny">>}
      /\ down' = [down EXCEPT ![c] = <<>>]
      /\ answers' = [answers EXCEPT ![c] = @ + 1]
      /\ UNCHANGED <<conn, shut, link, up>>
  BY Boxes DEF NotifyClientOfServerDecision, Received, Answers, unmoved, RpcInv, StreamTypes, DownBoxes
<1>2. \/ /\ down[c] = <<"proceed">> /\ pc' = [pc EXCEPT ![c] = "granted"] /\ UNCHANGED contexts
      \/ /\ down[c] = <<"deny">> /\ pc' = [pc EXCEPT ![c] = "over"]
         /\ contexts' = [contexts EXCEPT ![ProcOf[c]] = @ \ {c}]
  BY <1>1 DEF NotifyClientOfServerDecision, Goes, Removes
<1>3. /\ (IInv /\ ServerTypes /\ Handlers)'
      /\ UNCHANGED <<rpc_state, handler_state>>
  BY ServerStays
<1>4. AnsweredOnce' /\ answers' \in [Callbacks -> Nat]
  BY <1>1, <1>2, FirstAnswer DEF OnItsWay
<1>5. ClientTypes' /\ StreamTypes'
  <2>1. pc' \in [Callbacks -> Early \cup OnItsWay \cup {"over", "killed"}]
    BY <1>2 DEF RpcInv, ClientTypes, OnItsWay
  <2>2. contexts' \in [Procs -> SUBSET Callbacks]
    BY <1>2, ProcOfAssumption DEF RpcInv, ClientTypes
  <2> QED BY <2>1, <2>2, <1>1, <1>4 DEF RpcInv, ClientTypes, StreamTypes, DownBoxes
<1>6. Elsewhere(c)
  BY <1>1, <1>2, <1>3 DEF Elsewhere, RpcInv, StreamTypes, ClientTypes
<1>7. StreamOf(c)'
  BY <1>1, <1>2, <1>3, Boxes DEF RpcInv, ClientTypes, StreamTypes, Streams, StreamOf, Open, Early
<1>8. Streams'
  BY <1>6, <1>7, OtherStreams DEF RpcInv
<1>9. Registry'
  <2>1. CASE down[c] = <<"proceed">>
    BY <2>1, <1>1, <1>2, <1>6, Boxes, OtherRequests DEF RpcInv, Registry, OnItsWay
  <2>2. CASE down[c] = <<"deny">>
    <3>1. pc'[c] = "over" /\ link'[c] \in {"finished", "broken"}
      BY <2>2, <1>1, <1>2, Boxes DEF RpcInv, ClientTypes, Streams, StreamOf
    <3>2. contexts' = [contexts EXCEPT ![ProcOf[c]] = @ \ {c}]
      BY <2>2, <1>2, Boxes
    <3>3. \A d \in Callbacks \ {c} : d \in contexts[ProcOf[d]] => d \in contexts'[ProcOf[d]]
      BY <3>2, ProcOfAssumption DEF RpcInv, ClientTypes
    <3> QED BY <3>1, <3>3, <1>1, <1>6, OtherRequests DEF OnItsWay
  <2> QED BY <2>1, <2>2, <1>1
<1> QED BY <1>3, <1>4, <1>5, <1>8, <1>9 DEF RpcInv

LEMMA ReportStep ==
  ASSUME RpcInv, NEW c \in Callbacks, Report(c), UNCHANGED serverVars
  PROVE  RpcInv'
<1>1. /\ pc[c] = "granted" /\ pc' = [pc EXCEPT ![c] = "over"]
      /\ UNCHANGED <<conn, contexts, shut, answers, link, down>>
  BY DEF Report, Goes, unmoved
<1>2. link[c] = "open" => up[c] = <<>> /\ down[c] = <<>> /\ handler_state[c] = "operation"
  BY <1>1 DEF RpcInv, Streams, StreamOf, Open
<1>3. \/ /\ link[c] = "open" /\ up' \in {[up EXCEPT ![c] = <<"success">>], [up EXCEPT ![c] = <<"failed">>]}
      \/ link[c] # "open" /\ UNCHANGED up
  BY <1>2, Boxes DEF Report, SendResultToServer, Send
<1>4. /\ (IInv /\ ServerTypes /\ Handlers)'
      /\ UNCHANGED <<rpc_state, handler_state>>
  BY ServerStays
<1>5. ClientTypes' /\ AnsweredOnce'
  BY <1>1, AsAnswered DEF RpcInv, ClientTypes
<1>6. StreamTypes'
  BY <1>1, <1>3 DEF RpcInv, StreamTypes, UpBoxes
<1>7. Elsewhere(c)
  BY <1>1, <1>3, <1>4 DEF Elsewhere, RpcInv, StreamTypes, ClientTypes
<1>8. StreamOf(c)'
  <2>1. CASE link[c] = "open"
    <3>1. up'[c] \in {<<"success">>, <<"failed">>}
      BY <2>1, <1>3 DEF RpcInv, StreamTypes
    <3>2. rpc_state[c] = "running"
      BY <2>1, <1>2 DEF RpcInv, Handlers
    <3> QED BY <2>1, <3>1, <3>2, <1>1, <1>2, <1>4, Boxes DEF RpcInv, ClientTypes, StreamOf, Open, Early
  <2>2. CASE link[c] # "open"
    BY <2>2, <1>1, <1>3, <1>4 DEF RpcInv, ClientTypes, Streams, StreamOf, Early
  <2> QED BY <2>1, <2>2
<1>9. Streams'
  BY <1>7, <1>8, OtherStreams DEF RpcInv
<1>10. Registry'
  BY <1>1, <1>7, OtherRequests DEF RpcInv, ClientTypes, Registry, OnItsWay
<1> QED BY <1>4, <1>5, <1>6, <1>9, <1>10 DEF RpcInv

LEMMA FinishDoneStep ==
  ASSUME RpcInv, NEW c \in Callbacks, FinishDone(c), UNCHANGED serverVars
  PROVE  RpcInv'
<1>1. /\ pc[c] = "over" /\ link[c] \in {"finished", "broken"}
      /\ contexts' = [contexts EXCEPT ![ProcOf[c]] = @ \ {c}]
      /\ UNCHANGED <<conn, shut, pc, answers, link, up, down>>
  BY DEF FinishDone, Removes, unmoved, streamVars
<1>2. /\ (IInv /\ ServerTypes /\ Handlers)'
      /\ UNCHANGED <<rpc_state, handler_state>>
  BY ServerStays
<1>3. ClientTypes' /\ AnsweredOnce' /\ StreamTypes'
  BY <1>1, ProcOfAssumption DEF RpcInv, ClientTypes, AnsweredOnce, StreamTypes
<1>4. Elsewhere(c)
  BY <1>1, <1>2 DEF Elsewhere
<1>5. StreamOf(c)'
  BY <1>1, <1>2, Unaffected DEF RpcInv, Streams
<1>6. Streams'
  BY <1>4, <1>5, OtherStreams DEF RpcInv
<1>7. \A d \in Callbacks \ {c} : d \in contexts[ProcOf[d]] => d \in contexts'[ProcOf[d]]
  BY <1>1, ProcOfAssumption DEF RpcInv, ClientTypes
<1>8. Registry'
  BY <1>1, <1>4, <1>7, OtherRequests DEF OnItsWay
<1> QED BY <1>2, <1>3, <1>6, <1>8 DEF RpcInv

LEMMA ShutDownStartsStep ==
  ASSUME RpcInv, NEW p \in Procs, ShutDownStarts(p), UNCHANGED serverVars
  PROVE  RpcInv'
<1>1. /\ conn[p] \in {"running", "disconnected"} /\ conn' = [conn EXCEPT ![p] = "shutdown"]
      /\ shut' = [shut EXCEPT ![p] = "flush"]
      /\ UNCHANGED <<contexts, pc, answers, link, up, down>>
  BY DEF ShutDownStarts, streamVars
<1>2. /\ (IInv /\ ServerTypes /\ Handlers)'
      /\ UNCHANGED <<rpc_state, handler_state>>
  BY ServerStays
<1>3. ClientTypes' /\ AnsweredOnce' /\ StreamTypes'
  BY <1>1 DEF RpcInv, ClientTypes, AnsweredOnce, StreamTypes
<1>4. Streams'
  BY <1>1, <1>2, Unaffected DEF RpcInv, Streams
<1>5. Registry'
  BY <1>1, ProcOfAssumption DEF RpcInv, Registry, ClientTypes
<1> QED BY <1>2, <1>3, <1>4, <1>5 DEF RpcInv

LEMMA ShutDownGoesOnStep ==
  ASSUME RpcInv, NEW p \in Procs, ShutDownGoesOn(p), UNCHANGED serverVars
  PROVE  RpcInv'
<1>1. /\ (IInv /\ ServerTypes /\ Handlers)'
      /\ UNCHANGED <<rpc_state, handler_state>>
  BY ServerStays
<1>2. CASE /\ \E d \in Callbacks : Cancels(p, p, d)
           /\ UNCHANGED <<connectionVars, pc, asked_at, shut, answers, up, down>>
  <2>1. PICK S \in SUBSET Callbacks : link' = BrokenIn(S) \/ UNCHANGED link
    BY <1>2 DEF Cancels
  <2>2. UNCHANGED <<conn, contexts, pc, shut, answers, up, down>>
    BY <1>2 DEF connectionVars
  <2> QED BY <1>1, <2>1, <2>2, OnlyBreaking DEF RpcInv
<1>3. ASSUME NEW to \in {"cancelling", "done"}, shut[p] \in {"flush", "cancelling"},
             shut' = [shut EXCEPT ![p] = to], to = "done" => contexts[p] = {},
             UNCHANGED <<conn, contexts, pc, answers, link, up, down>>
      PROVE  RpcInv'
  <2>1. ClientTypes' /\ AnsweredOnce' /\ StreamTypes'
    BY <1>3 DEF RpcInv, ClientTypes, AnsweredOnce, StreamTypes
  <2>2. Streams'
    BY <1>1, <1>3, Unaffected DEF RpcInv, Streams
  <2>3. Registry'
    BY <1>3, ProcOfAssumption DEF RpcInv, Registry, ClientTypes
  <2> QED BY <1>1, <2>1, <2>2, <2>3 DEF RpcInv
<1> QED BY <1>2, <1>3 DEF ShutDownGoesOn, Closes, connectionVars, streamVars

LEMMA DiesStep ==
  ASSUME RpcInv, NEW p \in Procs, Dies(p), UNCHANGED serverVars
  PROVE  RpcInv'
<1>1. /\ conn' = [conn EXCEPT ![p] = "killed"] /\ link' = BrokenIn(contexts[p])
      /\ contexts' = [contexts EXCEPT ![p] = {}] /\ shut' = [shut EXCEPT ![p] = "done"]
      /\ pc' = [c \in Callbacks |->
                  IF ProcOf[c] = p /\ pc[c] # "over" THEN "killed" ELSE pc[c]]
      /\ UNCHANGED <<answers, up, down>>
  BY DEF Dies
<1>2. /\ (IInv /\ ServerTypes /\ Handlers)'
      /\ UNCHANGED <<rpc_state, handler_state>>
  BY ServerStays
<1>3. ClientTypes' /\ AnsweredOnce'
  BY <1>1 DEF RpcInv, ClientTypes, AnsweredOnce
<1>4. StreamTypes'
  BY <1>1 DEF RpcInv, StreamTypes, BrokenIn
<1>5. \A d \in Callbacks : link[d] \in {"opening", "open"} => d \in contexts[ProcOf[d]]
  BY DEF RpcInv, Registry
<1>6. ASSUME NEW d \in Callbacks PROVE StreamOf(d)'
  <2>1. StreamOf(d) /\ link[d] \in {"none", "opening", "open", "finished", "broken"}
    BY DEF RpcInv, Streams, StreamTypes
  <2>2. CASE link'[d] # link[d]
    <3>1. link[d] \in {"opening", "open"} /\ link'[d] = "broken"
      BY <2>2, <1>1 DEF BrokenIn
    <3>2. pc'[d] \notin Early /\ (pc'[d] = pc[d] \/ pc'[d] = "killed")
      BY <3>1, <2>1, <1>1 DEF StreamOf, Early
    <3> QED BY <2>1, <3>1, <3>2, <1>1, <1>2, Breaking
  <2>3. CASE link'[d] = link[d] /\ pc'[d] = pc[d]
    BY <2>1, <2>3, <1>1, <1>2, Unaffected
  <2>4. CASE link'[d] = link[d] /\ pc'[d] # pc[d]
    <3>1. pc'[d] = "killed"
      BY <2>4, <1>1
    <3>2. ProcOf[d] = p
      BY <2>4, <1>1
    <3>3. link[d] \notin {"opening", "open"}
      BY <2>4, <3>2, <1>1, <1>5 DEF BrokenIn
    <3> QED BY <2>1, <2>4, <3>1, <3>3, <1>1, <1>2 DEF StreamOf, Early
  <2> QED BY <2>2, <2>3, <2>4
<1>7. Registry'
  <2>1. \A d \in Callbacks : link'[d] \in {"opening", "open"} \/ pc'[d] \in OnItsWay
                               => d \in contexts'[ProcOf[d]]
    BY <1>1, <1>5, ProcOfAssumption DEF RpcInv, Registry, BrokenIn, OnItsWay, ClientTypes
  <2> QED BY <2>1, <1>1, ProcOfAssumption DEF RpcInv, Registry, ClientTypes, OnItsWay
<1> QED BY <1>2, <1>3, <1>4, <1>6, <1>7 DEF RpcInv, Streams

-----------------------------------------------------------------------------
(* The steps of the server.                                                *)

LEMMA ClientsAreTyped == ASSUME RpcInv PROVE client \in [Callbacks -> ClientStates]
BY DEF RpcInv, IInv, TypeOK

LEMMA InitDoneStep ==
  ASSUME RpcInv, NEW c \in Callbacks, InitDone(c), UNCHANGED clientVars
  PROVE  RpcInv'
<1>1. /\ rpc_state[c] = "init" /\ rpc_state' = [rpc_state EXCEPT ![c] = "first_read"]
      /\ link[c] = "open" \/ (link[c] = "broken" /\ up[c] # <<>>)
      /\ UNCHANGED <<vars, handler_state, failing, link, up, down>>
  BY DEF InitDone, Arrives, streamVars
<1>2. /\ (ClientTypes /\ AnsweredOnce /\ Registry)'
      /\ UNCHANGED <<pc>>
  BY <1>1, ClientStays
<1>3. IInv'
  BY <1>1, Inductive DEF RpcInv
<1>4. ServerTypes' /\ StreamTypes'
  BY <1>1 DEF RpcInv, ServerTypes, StreamTypes
<1>5. Handlers'
  BY <1>1 DEF RpcInv, Handlers, ServerTypes, vars, Idle
<1>6. Elsewhere(c)
  BY <1>1, <1>2 DEF Elsewhere, RpcInv, ServerTypes
<1>7. StreamOf(c)'
  BY <1>1, <1>2, Boxes DEF RpcInv, ServerTypes, StreamTypes, Handlers, Streams, StreamOf, Open
<1>8. Streams'
  BY <1>6, <1>7, OtherStreams DEF RpcInv
<1> QED BY <1>2, <1>3, <1>4, <1>5, <1>8 DEF RpcInv

LEMMA HandleClientRequestStep ==
  ASSUME RpcInv, NEW c \in Callbacks, HandleClientRequest(c), UNCHANGED clientVars
  PROVE  RpcInv'
<1>1. /\ rpc_state[c] = "first_read" /\ rpc_state' = [rpc_state EXCEPT ![c] = "running"]
      /\ handler_state[c] = "init" /\ handler_state' = [handler_state EXCEPT ![c] = "waiting"]
      /\ up[c] = <<"request">> /\ up' = [up EXCEPT ![c] = <<>>]
      /\ failing = None
      /\ UNCHANGED <<failing, link, down>>
  BY Boxes
  DEF HandleClientRequest, Received, LoopReady, RpcInv, Handlers, Streams, StreamOf,
      StreamTypes, UpBoxes
<1>2. client[c] = "new" /\ client' = [client EXCEPT ![c] = "waiting"]
  BY DEF HandleClientRequest, ScheduleRejectedQueueFull, ScheduleRejectedInProgress,
         ScheduleQueued, Accept
<1>3. /\ (ClientTypes /\ AnsweredOnce /\ Registry)'
      /\ UNCHANGED <<pc>>
  BY <1>1, ClientStays
<1>4. IInv'
  BY QueueFullStep, InProgressStep, QueuedStep, ServerAssumption
  DEF RpcInv, HandleClientRequest
<1>5. ServerTypes' /\ StreamTypes'
  BY <1>1 DEF RpcInv, ServerTypes, StreamTypes, UpBoxes
<1>6. Handlers'
  BY <1>1, <1>2, ClientsAreTyped, NoneAssumption DEF RpcInv, Handlers, ServerTypes
<1>7. Elsewhere(c)
  BY <1>1, <1>3 DEF Elsewhere, RpcInv, ServerTypes, StreamTypes
<1>8. StreamOf(c)'
  <2>1. down[c] = <<>> /\ up'[c] = <<>> /\ rpc_state'[c] = "running" /\ handler_state'[c] = "waiting"
    BY <1>1 DEF RpcInv, ServerTypes, StreamTypes, Streams, StreamOf
  <2> QED BY <2>1, <1>1, <1>3, Boxes DEF RpcInv, Streams, StreamOf, Open
<1>9. Streams'
  BY <1>7, <1>8, OtherStreams DEF RpcInv
<1> QED BY <1>3, <1>4, <1>5, <1>6, <1>9 DEF RpcInv

LEMMA HandleClientResultStep ==
  ASSUME RpcInv, NEW c \in Callbacks, HandleClientResult(c), UNCHANGED clientVars
  PROVE  RpcInv'
<1>1. /\ rpc_state[c] = "running" /\ rpc_state' = [rpc_state EXCEPT ![c] = "finished"]
      /\ handler_state[c] = "operation" /\ handler_state' = [handler_state EXCEPT ![c] = "done"]
      /\ up[c] \in {<<"success">>, <<"failed">>} /\ up' = [up EXCEPT ![c] = <<>>]
      /\ link' = [link EXCEPT ![c] = IF @ = "open" THEN "finished" ELSE @]
      /\ failing = None
      /\ UNCHANGED <<failing, down>>
  BY Boxes
  DEF HandleClientResult, Received, FinishedIn, LoopReady, RpcInv, Streams, StreamOf,
      StreamTypes, UpBoxes
<1>2. client' = [client EXCEPT ![c] = "done"]
  BY DEF HandleClientResult, NotifyRewriteComplete, NotifyRewriteFailed
<1>3. /\ (ClientTypes /\ AnsweredOnce /\ Registry)'
      /\ UNCHANGED <<pc>>
  BY <1>1, ClientStays DEF RpcInv, StreamTypes
<1>4. IInv'
  BY CompleteStep, FailedStep, ServerAssumption DEF RpcInv, HandleClientResult
<1>5. ServerTypes' /\ StreamTypes'
  BY <1>1 DEF RpcInv, ServerTypes, StreamTypes, UpBoxes
<1>6. Handlers'
  BY <1>1, <1>2, ClientsAreTyped, NoneAssumption DEF RpcInv, Handlers, ServerTypes
<1>7. Elsewhere(c)
  BY <1>1, <1>3 DEF Elsewhere, RpcInv, ServerTypes, StreamTypes
<1>8. StreamOf(c)'
  <2>1. /\ up'[c] = <<>> /\ rpc_state'[c] = "finished" /\ handler_state'[c] = "done"
        /\ link'[c] = IF link[c] = "open" THEN "finished" ELSE link[c]
    BY <1>1 DEF RpcInv, ServerTypes, StreamTypes
  <2>2. link[c] = "open" => pc[c] = "over" /\ down[c] = <<>>
    BY <1>1, Boxes DEF RpcInv, Streams, StreamOf, Open
  <2>3. link[c] \notin {"none", "opening"}
    BY <1>1 DEF RpcInv, Streams, StreamOf
  <2> QED BY <2>1, <2>2, <2>3, <1>1, <1>3, Boxes DEF RpcInv, Streams, StreamTypes, StreamOf, Early
<1>9. Streams'
  BY <1>7, <1>8, OtherStreams DEF RpcInv
<1> QED BY <1>3, <1>4, <1>5, <1>6, <1>9 DEF RpcInv

LEMMA ClientIsGoneStep ==
  ASSUME RpcInv, NEW c \in Callbacks, ClientIsGone(c), UNCHANGED clientVars
  PROVE  RpcInv'
<1>1. /\ rpc_state[c] \in {"first_read", "running"}
      /\ rpc_state' = [rpc_state EXCEPT ![c] = "finished"]
      /\ link[c] = "broken" /\ up' = [up EXCEPT ![c] = <<>>]
      /\ handler_state' = [handler_state EXCEPT ![c] = IF rpc_state[c] = "running" THEN "done" ELSE @]
      /\ failing = None
      /\ UNCHANGED <<failing, link, down>>
  BY DEF ClientIsGone, HandleError, LoopReady, RpcInv, ServerTypes
<1>2. IF handler_state[c] = "operation" THEN NotifyRewriteFailed(Server, c) ELSE UNCHANGED vars
  BY DEF ClientIsGone, HandleError, RpcInv, Handlers
<1>3. client' = IF handler_state[c] = "operation" THEN [client EXCEPT ![c] = "done"] ELSE client
  BY <1>2 DEF NotifyRewriteFailed, vars
<1>4. /\ (ClientTypes /\ AnsweredOnce /\ Registry)'
      /\ UNCHANGED <<pc>>
  BY <1>1, ClientStays
<1>5. IInv'
  BY <1>2, Inductive, FailedStep, ServerAssumption DEF RpcInv
<1>6. ServerTypes' /\ StreamTypes'
  BY <1>1 DEF RpcInv, ServerTypes, StreamTypes, UpBoxes
<1>7. Handlers'
  BY <1>1, <1>3, ClientsAreTyped, NoneAssumption DEF RpcInv, Handlers, ServerTypes
<1>8. Elsewhere(c)
  BY <1>1, <1>4 DEF Elsewhere, RpcInv, ServerTypes, StreamTypes
<1>9. StreamOf(c)'
  <2>1. up'[c] = <<>> /\ rpc_state'[c] = "finished"
    BY <1>1 DEF RpcInv, ServerTypes, StreamTypes
  <2>2. handler_state'[c] \in {"init", "done"} /\ (handler_state'[c] = "init" => handler_state[c] = "init")
    BY <1>1 DEF RpcInv, ServerTypes, Handlers
  <2> QED BY <2>1, <2>2, <1>1, <1>4, Boxes DEF RpcInv, Streams, StreamOf
<1>10. Streams'
  BY <1>8, <1>9, OtherStreams DEF RpcInv
<1> QED BY <1>4, <1>5, <1>6, <1>7, <1>10 DEF RpcInv

LEMMA DeniedStep ==
  ASSUME RpcInv, Denied, UNCHANGED clientVars
  PROVE  RpcInv'
<1>1. PICK c \in Callbacks : c = toCancel[Server] /\ client[c] = "waiting"
  BY ServerAssumption DEF Denied, CallCancel, RpcInv, IInv, TypeOK, Separate
<1>2. client' = [client EXCEPT ![c] = "cancelled"] 
      /\ failing = None /\ UNCHANGED <<failing, up>>
  BY <1>1 DEF Denied, CallCancel, RpcInv, Handlers, Idle
<1>3. IInv'
  BY CallCancelStep, ServerAssumption DEF Denied, RpcInv
<1>4. CASE handler_state[c] = "waiting"
  <2>1. /\ rpc_state[c] = "running" /\ down[c] = <<>> /\ up[c] = <<>>
    BY <1>4 DEF RpcInv, Handlers, Streams, StreamOf
  <2>2. /\ rpc_state' = [rpc_state EXCEPT ![c] = "finished"]
        /\ handler_state' = [handler_state EXCEPT ![c] = "done"]
        /\ down' = [down EXCEPT ![c] = <<"deny">>]
        /\ link' = [link EXCEPT ![c] = IF @ = "open" THEN "finished" ELSE @]
    BY <1>1, <1>4, <2>1, Boxes DEF Denied, Write, Send, FinishedIn
  <2>3. /\ (ClientTypes /\ AnsweredOnce /\ Registry)'
        /\ UNCHANGED <<pc>>
    BY <2>2, ClientStays DEF RpcInv, StreamTypes
  <2>4. ServerTypes' /\ StreamTypes'
    BY <1>2, <2>2 DEF RpcInv, ServerTypes, StreamTypes, DownBoxes
  <2>5. Handlers'
    BY <1>1, <1>2, <1>4, <2>2, ClientsAreTyped, NoneAssumption DEF RpcInv, Handlers, ServerTypes
  <2>6. Elsewhere(c)
    BY <1>2, <2>2, <2>3 DEF Elsewhere, RpcInv, ServerTypes, StreamTypes
  <2>7. StreamOf(c)'
    <3>1. /\ down'[c] = <<"deny">> /\ rpc_state'[c] = "finished" /\ handler_state'[c] = "done"
          /\ link'[c] = IF link[c] = "open" THEN "finished" ELSE link[c]
      BY <2>2 DEF RpcInv, ServerTypes, StreamTypes
    <3>2. link[c] = "open" => pc[c] = "reading"
      BY <1>4, <2>1, Boxes DEF RpcInv, Streams, StreamOf, Open
    <3>3. link[c] \notin {"none", "opening", "finished"}
      BY <2>1 DEF RpcInv, Streams, StreamOf
    <3> QED BY <2>1, <3>1, <3>2, <3>3, <1>2, <2>3, Boxes DEF RpcInv, Streams, StreamTypes, StreamOf, Early
  <2>8. Streams'
    BY <2>6, <2>7, OtherStreams DEF RpcInv
  <2> QED BY <1>3, <2>3, <2>4, <2>5, <2>8 DEF RpcInv
<1>5. CASE handler_state[c] # "waiting"
  <2>1. UNCHANGED <<rpc_state, handler_state, down, link>>
    BY <1>1, <1>5 DEF Denied
  <2>2. (ClientTypes /\ AnsweredOnce /\ Registry)' /\ UNCHANGED pc
    BY <2>1, ClientStays
  <2>3. ServerTypes' /\ StreamTypes'
    BY <1>2, <2>1 DEF RpcInv, ServerTypes, StreamTypes
  <2>4. Handlers'
    BY <1>1, <1>2, <1>5, <2>1, ClientsAreTyped, NoneAssumption DEF RpcInv, Handlers, ServerTypes
  <2>5. Streams'
    BY <1>2, <2>1, <2>2, Unaffected DEF RpcInv, Streams
  <2> QED BY <1>3, <2>2, <2>3, <2>4, <2>5 DEF RpcInv
<1> QED BY <1>4, <1>5

LEMMA GrantedStep ==
  ASSUME RpcInv, Granted, UNCHANGED clientVars
  PROVE  RpcInv'
<1>1. PICK c \in Callbacks : c = toRun[Server] /\ client[c] = "waiting"
  BY ServerAssumption DEF Granted, CallRun, RpcInv, IInv, TypeOK, Separate
<1>2. /\ client' = [client EXCEPT ![c] = "running"]
      /\ failing' = IF handler_state[c] # "waiting" THEN c ELSE None
      /\ failing = None /\ Idle(Server)' /\ UNCHANGED <<rpc_state, link, up>>
  BY <1>1, ServerAssumption DEF Granted, CallRun, Failing, RpcInv, IInv, TypeOK, Handlers, Idle
<1>3. IInv'
  BY CallRunStep, ServerAssumption DEF Granted, RpcInv
<1>4. CASE handler_state[c] = "waiting"
  <2>1. /\ rpc_state[c] = "running" /\ down[c] = <<>> /\ up[c] = <<>>
    BY <1>4 DEF RpcInv, Handlers, Streams, StreamOf
  <2>2. /\ handler_state' = [handler_state EXCEPT ![c] = "operation"]
        /\ down' = [down EXCEPT ![c] = <<"proceed">>]
    BY <1>1, <1>4, <2>1, Boxes DEF Granted, Write, Send
  <2>3. /\ (ClientTypes /\ AnsweredOnce /\ Registry)'
        /\ UNCHANGED <<pc>>
    BY <1>2, ClientStays
  <2>4. ServerTypes' /\ StreamTypes'
    BY <1>2, <2>2 DEF RpcInv, ServerTypes, StreamTypes, DownBoxes
  <2>5. Handlers'
    BY <1>1, <1>2, <1>4, <2>1, <2>2, ClientsAreTyped, NoneAssumption DEF RpcInv, Handlers, ServerTypes
  <2>6. Elsewhere(c)
    BY <1>2, <2>2, <2>3 DEF Elsewhere, RpcInv, ServerTypes, StreamTypes
  <2>7. StreamOf(c)'
    <3>1. down'[c] = <<"proceed">> /\ handler_state'[c] = "operation"
      BY <2>2 DEF RpcInv, ServerTypes, StreamTypes
    <3>2. link[c] = "open" => pc[c] = "reading"
      BY <1>4, <2>1, Boxes DEF RpcInv, Streams, StreamOf, Open
    <3>3. link[c] \in {"open", "broken"}
      BY <2>1 DEF RpcInv, Streams, StreamOf, StreamTypes
    <3> QED BY <2>1, <3>1, <3>2, <3>3, <1>2, <2>3, Boxes DEF RpcInv, Streams, StreamOf, Open, Early
  <2>8. Streams'
    BY <2>6, <2>7, OtherStreams DEF RpcInv
  <2> QED BY <1>3, <2>3, <2>4, <2>5, <2>8 DEF RpcInv
<1>5. CASE handler_state[c] # "waiting"
  <2>1. UNCHANGED <<handler_state, down>> /\ failing' = c
    BY <1>1, <1>2, <1>5 DEF Granted
  <2>2. (ClientTypes /\ AnsweredOnce /\ Registry)' /\ UNCHANGED pc
    BY <1>2, ClientStays
  <2>3. ServerTypes' /\ StreamTypes'
    BY <1>2, <2>1 DEF RpcInv, ServerTypes, StreamTypes
  <2>4. Handlers'
    BY <1>1, <1>2, <1>5, <2>1, ClientsAreTyped, NoneAssumption DEF RpcInv, Handlers, ServerTypes
  <2>5. Streams'
    BY <1>2, <2>1, <2>2, Unaffected DEF RpcInv, Streams
  <2> QED BY <1>3, <2>2, <2>3, <2>4, <2>5 DEF RpcInv
<1> QED BY <1>4, <1>5

LEMMA HandleOperationFailedStep ==
  ASSUME RpcInv, HandleOperationFailed, UNCHANGED clientVars
  PROVE  RpcInv'
<1>1. /\ failing \in Callbacks /\ failing' = None
      /\ client' = [client EXCEPT ![failing] = "done"]
      /\ UNCHANGED <<rpc_state, handler_state, link, up, down>>
  BY DEF HandleOperationFailed, NotifyRewriteFailed, streamVars, RpcInv, ServerTypes
<1>2. (ClientTypes /\ AnsweredOnce /\ Registry)' /\ UNCHANGED pc
  BY <1>1, ClientStays
<1>3. IInv'
  BY <1>1, FailedStep, ServerAssumption DEF RpcInv, HandleOperationFailed
<1>4. ServerTypes' /\ StreamTypes'
  BY <1>1 DEF RpcInv, ServerTypes, StreamTypes
<1>5. Handlers'
  BY <1>1, ClientsAreTyped, NoneAssumption DEF RpcInv, Handlers
<1>6. Streams'
  BY <1>1, <1>2, Unaffected DEF RpcInv, Streams
<1> QED BY <1>2, <1>3, <1>4, <1>5, <1>6 DEF RpcInv

-----------------------------------------------------------------------------
(* Failures, and time.                                                     *)

\* What a controller that is started anew knows is consistent, for its clients too.
LEMMA RestartsAnew ==
  ASSUME IInv, ControllerStartsAnew, client' \in [Callbacks -> {"new", "done"}]
  PROVE  IInv'
<1> USE DEF ControllerStartsAnew
<1>1. TypeOK'
  BY LimitAssumption DEF IInv, TypeOK, RewriteStates, ClientStates
<1>2. RunningIn(state') = {} /\ KnownIn(state') = {} /\ Cardinality({}) = 0
  BY FS_EmptySet DEF RunningIn, KnownIn
<1>3. /\ Matched(state, callback, queue, retry_queue)'
      /\ Counted(state, saved_priority, queue, requests)'
      /\ Separate(callback, client, toCancel, toRun)'
      /\ Empty(queue)'
  BY NoneAssumption DEF Matched, Counted, Separate, Empty
<1>4. Slots(state, client, toRun)'
  BY <1>2, NoneAssumption DEF Slots, SlotOf
<1> QED BY <1>1, <1>2, <1>3, <1>4, LimitAssumption DEF IInv

LEMMA ServerRestartsStep ==
  ASSUME RpcInv, ServerRestarts, UNCHANGED clientVars
  PROVE  RpcInv'
<1> DEFINE opening == {c \in Callbacks : link[c] = "opening"}
           unseen == {c \in Callbacks : rpc_state[c] = "init" /\ link[c] \in {"none", "opening"}}
<1>1. PICK refused \in SUBSET opening :
        /\ link' = BrokenIn((Callbacks \ opening) \cup refused)
        /\ rpc_state' = [c \in Callbacks |-> IF c \in unseen \ refused THEN "init" ELSE "finished"]
        /\ handler_state' = [c \in Callbacks |-> IF c \in unseen \ refused THEN "init" ELSE "done"]
  BY DEF ServerRestarts
<1>2. /\ client' = [c \in Callbacks |-> IF c \in unseen THEN "new" ELSE "done"]
      /\ failing' = None /\ UNCHANGED <<up, down>>
  BY DEF ServerRestarts
<1>3. \A c \in Callbacks : link'[c] \in {"opening", "open"} => link'[c] = link[c]
  BY <1>1 DEF BrokenIn
<1>4. (ClientTypes /\ AnsweredOnce /\ Registry)' /\ UNCHANGED pc
  BY <1>3, ClientStays
<1>5. IInv'
  BY <1>2, RestartsAnew DEF RpcInv, ServerRestarts
<1>6. ServerTypes' /\ StreamTypes'
  BY <1>1, <1>2 DEF RpcInv, ServerTypes, StreamTypes, BrokenIn
<1>7. Handlers'
  BY <1>1, <1>2, NoneAssumption DEF RpcInv, Handlers
<1>8. ASSUME NEW c \in Callbacks PROVE StreamOf(c)'
  <2>1. StreamOf(c) /\ link[c] \in {"none", "opening", "open", "finished", "broken"}
        /\ down[c] \in DownBoxes
    BY DEF RpcInv, Streams, StreamTypes
  <2>2. CASE c \in unseen \ refused
    <3>1. link'[c] = link[c] /\ rpc_state'[c] = "init" /\ handler_state'[c] = "init"
      BY <2>2, <1>1 DEF BrokenIn
    <3> QED BY <2>1, <2>2, <3>1, <1>2, <1>4, Boxes DEF StreamOf
  <2>3. CASE c \notin unseen \ refused
    <3>1. rpc_state'[c] = "finished" /\ handler_state'[c] = "done"
      BY <2>3, <1>1
    <3>2. link'[c] = IF link[c] \in {"opening", "open"} THEN "broken" ELSE link[c]
      <4>1. link[c] = "opening" => c \in refused
        BY <2>1, <2>3 DEF StreamOf
      <4> QED BY <4>1, <1>1 DEF BrokenIn
    <3>3. link[c] # "none"
      BY <2>1, <2>3 DEF StreamOf
    <3>4. link[c] \in {"opening", "open"} => pc[c] \notin Early
      BY <2>1 DEF StreamOf
    <3> QED BY <2>1, <3>1, <3>2, <3>3, <3>4, <1>2, <1>4, Boxes DEF StreamOf
  <2> QED BY <2>2, <2>3
<1> QED BY <1>4, <1>5, <1>6, <1>7, <1>8 DEF RpcInv, Streams

LEMMA StreamBreaksStep ==
  ASSUME RpcInv, NEW c \in Callbacks, StreamBreaks(c)
  PROVE  RpcInv'
<1>1. (IInv /\ ServerTypes /\ Handlers)' /\ UNCHANGED <<rpc_state, handler_state>>
  BY ServerStays DEF StreamBreaks
<1>2. /\ link' = BrokenIn({c})
      /\ UNCHANGED <<conn, contexts, pc, shut, answers, up, down>>
  BY DEF StreamBreaks, clientVars, connectionVars
<1> QED BY <1>1, <1>2, OnlyBreaking DEF RpcInv

\* Nothing that the invariant speaks of but the clock has moved.
LEMMA NothingMoved ==
  ASSUME RpcInv, IInv',
         UNCHANGED <<rpc_state, handler_state, failing, client, toCancel, toRun,
                     conn, contexts, pc, shut, answers, link, up, down>>
  PROVE  RpcInv'
<1>1. (ServerTypes /\ Handlers)'
  BY DEF RpcInv, ServerTypes, Handlers, Idle
<1>2. (ClientTypes /\ AnsweredOnce /\ StreamTypes /\ Registry)'
  BY DEF RpcInv, ClientTypes, AnsweredOnce, StreamTypes, Registry
<1>3. Streams'
  BY Unaffected DEF RpcInv, Streams
<1> QED BY <1>1, <1>2, <1>3 DEF RpcInv

LEMMA AnotherPanicsStep == ASSUME RpcInv, AnotherPanics PROVE RpcInv'
<1>1. IInv'
  BY Inductive DEF AnotherPanics, serverVars, RpcInv
<1> QED BY <1>1, NothingMoved DEF AnotherPanics, serverVars, handlerVars, vars, streamVars

LEMMA TimeStep == ASSUME RpcInv, Time PROVE RpcInv'
<1>1. IInv'
  BY Inductive DEF Time, Next, RpcInv
<1> QED BY <1>1, NothingMoved
        DEF Time, Tick, handlerVars, clientVars, connectionVars, streamVars

\* The invariant is inductive.
LEMMA RpcInductive == RpcInv /\ [RpcNext]_rpcVars => RpcInv'
<1> SUFFICES ASSUME RpcInv, [RpcNext]_rpcVars PROVE RpcInv'
  OBVIOUS
<1>1. ASSUME NEW c \in Callbacks, Client(c) PROVE RpcInv'
  <2>1. ClientStep(c) /\ UNCHANGED serverVars
    BY <1>1 DEF Client
  <2>2. CASE CheckFails(c)
    BY <2>1, <2>2, DiesStep, ProcOfAssumption DEF CheckFails
  <2> QED BY <2>1, <2>2, RefusedStep, DisconnectsStep, StartsStep, FlushStep,
             BootStrapFinishedStep, StartUpFailedStep, NotifyClientOfServerDecisionStep,
             ReportStep, FinishDoneStep DEF ClientStep
<1>2. ASSUME NEW p \in Procs, GoOn(p) PROVE RpcInv'
  BY <1>2, ShutDownGoesOnStep DEF GoOn
<1>3. CASE Loop
  BY <1>3, InitDoneStep, HandleClientRequestStep, HandleClientResultStep, ClientIsGoneStep,
     DeniedStep, GrantedStep, HandleOperationFailedStep DEF Loop, LoopStep
<1>4. ASSUME NEW c \in Callbacks, Call(c) PROVE RpcInv'
  BY <1>4, ReadTimeStep DEF Call
<1>5. CASE Fault
  BY <1>5, ShutDownStartsStep, DiesStep, ServerRestartsStep, StreamBreaksStep,
     AnotherPanicsStep DEF Fault, Killed
<1>6. CASE Time
  BY <1>6, TimeStep
<1>7. CASE UNCHANGED rpcVars
  <2>1. UNCHANGED <<serverVars, clientVars, streamVars>>
    BY <1>7 DEF rpcVars
  <2>2. IInv'
    BY <2>1, ServerStays
  <2> QED BY <2>1, <2>2, NothingMoved
          DEF serverVars, handlerVars, vars, clientVars, connectionVars, streamVars
<1> QED BY <1>1, <1>2, <1>3, <1>4, <1>5, <1>6, <1>7 DEF RpcNext, Progress

\* The processes start in a state that satisfies the invariant.
LEMMA RpcInitial == RpcInit => RpcInv
<1> SUFFICES ASSUME RpcInit PROVE RpcInv
  OBVIOUS
<1> USE DEF RpcInit, ServerInit, ClientInit, StreamInit
<1>1. IInv
  BY Initial
<1>2. ServerTypes /\ Handlers
  BY NoneAssumption DEF ServerTypes, Handlers, Init
<1>3. ClientTypes /\ AnsweredOnce /\ StreamTypes
  BY DEF ClientTypes, AnsweredOnce, StreamTypes, Early, UpBoxes, DownBoxes
<1>4. Streams
  BY Boxes DEF Streams, StreamOf, Early
<1>5. Registry
  BY ProcOfAssumption DEF Registry, OnItsWay
<1> QED BY <1>1, <1>2, <1>3, <1>4, <1>5 DEF RpcInv

\* Every reachable state of the controller, its workers and the streams between them
\* satisfies the inductive invariant, whatever fails and however often.
THEOREM RpcInvariance == RpcSpec => []RpcInv
BY RpcInitial, RpcInductive, PTL DEF RpcSpec

\* With clients that come and go, processes that die at any time and streams that break,
\* the controller gives no slot away for good and takes none back twice, its handlers and
\* their clients never get out of step, every callback is called once, and the
\* registry of a process has all that ShutDown must wait for.
THEOREM AlwaysRpcConsistent == RpcSpec => []RpcConsistent
<1>1. ASSUME RpcInv PROVE RpcConsistent
  <2> USE <1>1 DEF RpcInv
  <2>1. GrantsHaveHandlers
    BY NoneAssumption DEF Handlers, GrantsHaveHandlers, LoopReady
  <2>2. InStep
    BY DEF InStep, Handlers, Streams, StreamOf, Writeable
  <2>3. RewritesHaveSlots
    BY DEF RewritesHaveSlots, Streams, StreamOf, Open
  <2>4. Registered
    BY DEF Registered, Registry, OnItsWay
  <2> QED BY <2>1, <2>2, <2>3, <2>4 DEF RpcConsistent
<1> QED BY <1>1, RpcInvariance, PTL

\* The controller's own invariants hold behind the streams as they do for threads that
\* call it: the event loop and a new start of the process take nothing from them.
THEOREM ControllerBehindRpc == RpcSpec => [](StatesConsistent /\ WorkConserving)
<1>1. IInv => StatesConsistent /\ WorkConserving
  BY DEF IInv, StatesConsistent, QueuesMatchStates, Matched, ClientsRunTheirKeys, Slots,
         SlotOf, HasSlot, RunningKeys, WorkConserving, Known, KnownIn
<1>2. RpcInv => StatesConsistent /\ WorkConserving
  BY <1>1 DEF RpcInv
<1> QED BY <1>2, RpcInvariance, PTL
=============================================================================
