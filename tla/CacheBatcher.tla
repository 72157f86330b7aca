---------------------------- MODULE CacheBatcher ----------------------------
(***************************************************************************)
(* CacheBatcher (pagespeed/kernel/cache/cache_batcher.cc): passes a bounded *)
(* number of lookups to an asynchronous cache, coalesces gets of a key     *)
(* whose lookup is in flight, and queues the others for one MultiGet when  *)
(* a group of lookups completes.  One action is one critical section of    *)
(* mutex_, with the calls its thread makes right after it.                 *)
(*                                                                         *)
(* A Group is named by the one of max_parallel_lookups it takes up; the    *)
(* group ShutDown makes has a name of its own.  The cache underneath calls *)
(* ValidateCandidate and then Done of every MultiCallback it was given, in *)
(* any order and from any thread.                                          *)
(*                                                                         *)
(* Abstracted: values and the states reported; further candidates for a    *)
(* callback that rejected one; Put and Delete, which go straight through.  *)
(***************************************************************************)
EXTENDS Integers, Sequences, FiniteSets

CONSTANTS Keys, Gets,
          KeyOf,               \* the key each get is for
          MaxParallelLookups,  \* options_.max_parallel_lookups
          MaxPendingGets,      \* options_.max_pending_gets
          ShutsDownBusy        \* whether ShutDown may find gets queued

ASSUME KeyOfAssumption == IsFiniteSet(Gets) /\ KeyOf \in [Gets -> Keys]
ASSUME OptionsAssumption ==
  MaxParallelLookups \in Nat \ {0} /\ MaxPendingGets \in Nat \ {0}
ASSUME SwitchAssumption == ShutsDownBusy \in BOOLEAN

Slots == 1..MaxParallelLookups
ShutDownGroup == 0
Groups == Slots \cup {ShutDownGroup}

VARIABLES
  in_flight,             \* key -> callbacks of its lookup
  queued,                \* key -> callbacks waiting for a lookup
  num_in_flight_groups,
  num_in_flight_keys,
  num_pending_gets,
  shut_down,
  outstanding,           \* Group::outstanding_lookups_
  lookup,                \* group, key -> where the MultiCallback is
  saved,                 \* group, key -> MultiCallback::saved_
  completing,            \* groups whose last Done is in GroupComplete
  get,                   \* what the caller of each get knows
  check_failed,          \* whether the CHECK of ExtractInFlightKeys failed
  crowded                \* history: a key in flight was given a second lookup

countVars == <<num_in_flight_groups, num_in_flight_keys, num_pending_gets>>
groupVars == <<outstanding, lookup, saved, completing>>
failureVars == <<check_failed, crowded>>
batcherVars == <<in_flight, queued, countVars, shut_down, groupVars, get, failureVars>>

BatcherInit ==
  /\ in_flight = [k \in Keys |-> <<>>]
  /\ queued = [k \in Keys |-> <<>>]
  /\ num_in_flight_groups = 0
  /\ num_in_flight_keys = 0
  /\ num_pending_gets = 0
  /\ shut_down = FALSE
  /\ outstanding = [g \in Groups |-> 0]
  /\ lookup = [g \in Groups |-> [k \in Keys |-> "none"]]
  /\ saved = [g \in Groups |-> [k \in Keys |-> <<>>]]
  /\ completing = {}
  /\ get = [c \in Gets |-> "new"]
  /\ check_failed = FALSE /\ crowded = FALSE

\* The keys of a map, whose entries are never empty.
KeysIn(map) == {k \in Keys : map[k] # <<>>}

FreeSlots == {g \in Slots : outstanding[g] = 0 /\ g \notin completing}

CanIssueGet == ~shut_down /\ num_in_flight_groups < MaxParallelLookups
CanQueueCallback == ~shut_down /\ num_pending_gets < MaxPendingGets
\* Mutant of Coalesces: a key in flight may be queued as well.
NeverCoalesces(k) == FALSE
Coalesces(k) == CanQueueCallback /\ in_flight[k] # <<>>

GetCoalesced(c) ==
  LET k == KeyOf[c]
  IN  /\ get[c] = "new" /\ Coalesces(k)
      /\ in_flight' = [in_flight EXCEPT ![k] = Append(@, c)]
      /\ num_pending_gets' = num_pending_gets + 1
      /\ get' = [get EXCEPT ![c] = "waiting"]
      /\ UNCHANGED <<queued, num_in_flight_groups, num_in_flight_keys,
                     shut_down, groupVars, failureVars>>

\* A group of one lookup, given to the cache at once.
GetImmediate(c) ==
  LET k == KeyOf[c]
  IN  /\ get[c] = "new" /\ ~Coalesces(k) /\ CanIssueGet
      /\ in_flight' = [in_flight EXCEPT ![k] = Append(@, c)]
      /\ num_in_flight_groups' = num_in_flight_groups + 1
      /\ num_in_flight_keys' = num_in_flight_keys + 1
      /\ num_pending_gets' = num_pending_gets + 1
      /\ LET g == CHOOSE g \in FreeSlots : TRUE
         IN  /\ outstanding' = [outstanding EXCEPT ![g] = 1]
             /\ lookup' = [lookup EXCEPT ![g][k] = "issued"]
      /\ get' = [get EXCEPT ![c] = "waiting"]
      /\ crowded' = (crowded \/ in_flight[k] # <<>>)
      /\ UNCHANGED <<queued, shut_down, saved, completing, check_failed>>

GetQueued(c) ==
  LET k == KeyOf[c]
  IN  /\ get[c] = "new" /\ ~Coalesces(k) /\ ~CanIssueGet /\ CanQueueCallback
      /\ queued' = [queued EXCEPT ![k] = Append(@, c)]
      /\ num_pending_gets' = num_pending_gets + 1
      /\ get' = [get EXCEPT ![c] = "waiting"]
      /\ UNCHANGED <<in_flight, num_in_flight_groups, num_in_flight_keys,
                     shut_down, groupVars, failureVars>>

GetDropped(c) ==
  /\ get[c] = "new" /\ ~CanIssueGet /\ ~CanQueueCallback
  /\ get' = [get EXCEPT ![c] = "answered"]
  /\ UNCHANGED <<in_flight, queued, countVars, shut_down, groupVars, failureVars>>

Extracted(k) == [in_flight EXCEPT ![k] = <<>>]

\* ValidateCandidate takes the callbacks of its key: ExtractInFlightKeys.
ValidateCandidate(g, k) ==
  /\ lookup[g][k] = "issued" /\ ~check_failed
  /\ check_failed' = (in_flight[k] = <<>>)
  /\ saved' = [saved EXCEPT ![g][k] = in_flight[k]]
  /\ in_flight' = Extracted(k)
  /\ lookup' = [lookup EXCEPT ![g][k] = "validated"]
  /\ UNCHANGED <<queued, countVars, shut_down, outstanding, completing, get, crowded>>

Fewer(n, callbacks) == n - Len(callbacks)

Among(callbacks) == {callbacks[i] : i \in DOMAIN callbacks}

\* MultiCallback::Done up to its group->Done().
Done(g, k) ==
  /\ lookup[g][k] = "validated" /\ ~check_failed
  /\ num_pending_gets' = Fewer(num_pending_gets, saved[g][k])
  /\ num_in_flight_keys' = num_in_flight_keys - 1
  /\ get' = [c \in Gets |-> IF c \in Among(saved[g][k]) THEN "answered" ELSE get[c]]
  /\ saved' = [saved EXCEPT ![g][k] = <<>>]
  /\ lookup' = [lookup EXCEPT ![g][k] = "reported"]
  /\ UNCHANGED <<in_flight, queued, num_in_flight_groups, shut_down,
                 outstanding, completing, failureVars>>

GroupDone(g, k) ==
  /\ lookup[g][k] = "reported"
  /\ lookup' = [lookup EXCEPT ![g][k] = "none"]
  /\ outstanding' = [outstanding EXCEPT ![g] = @ - 1]
  /\ completing' = IF outstanding[g] = 1 THEN completing \cup {g} ELSE completing
  /\ UNCHANGED <<in_flight, queued, countVars, shut_down, saved, get, failureVars>>

\* A new group g with a lookup for every queued key: ConvertMapToRequest.
Converted(g) ==
  /\ outstanding' = [outstanding EXCEPT ![g] = Cardinality(KeysIn(queued))]
  /\ lookup' = [lookup EXCEPT ![g] =
       [k \in Keys |-> IF k \in KeysIn(queued) THEN "issued" ELSE "none"]]
  /\ queued' = [k \in Keys |-> <<>>]

\* Mutant of NothingQueued: the queue is not looked at.
NeverLooks == TRUE
NothingQueued == KeysIn(queued) = {}

\* Mutant of MoveQueuedKeys: they are not moved.
NothingMoved == in_flight
MoveQueuedKeys ==
  [k \in Keys |-> IF in_flight[k] = <<>> THEN queued[k] ELSE in_flight[k]]

GroupComplete(g) ==
  /\ g \in completing
  /\ completing' = completing \ {g}
  /\ IF NothingQueued
     THEN /\ num_in_flight_groups' = num_in_flight_groups - 1
          /\ UNCHANGED <<in_flight, queued, num_in_flight_keys, outstanding, lookup>>
     ELSE /\ Converted(g)
          /\ num_in_flight_keys' = num_in_flight_keys + Cardinality(KeysIn(queued))
          /\ in_flight' = MoveQueuedKeys
          /\ UNCHANGED num_in_flight_groups
  /\ UNCHANGED <<num_pending_gets, shut_down, saved, get, failureVars>>

\* The queued keys are not moved to in_flight before they are reported.
ShutDownBatcher ==
  /\ ~shut_down /\ (ShutsDownBusy \/ KeysIn(queued) = {})
  /\ shut_down' = TRUE
  /\ IF KeysIn(queued) = {} THEN UNCHANGED <<queued, outstanding, lookup>>
     ELSE Converted(ShutDownGroup)
  /\ UNCHANGED <<in_flight, countVars, saved, completing, get, failureVars>>

Answer(g, k) == ValidateCandidate(g, k) \/ Done(g, k) \/ GroupDone(g, k)

BatcherNext ==
  \/ \E c \in Gets : GetCoalesced(c) \/ GetImmediate(c) \/ GetQueued(c) \/ GetDropped(c)
  \/ \E g \in Groups : GroupComplete(g) \/ \E k \in Keys : Answer(g, k)
  \/ ShutDownBatcher

\* The cache answers every lookup; nobody has to ask.
BatcherFairness ==
  \A g \in Groups : /\ WF_batcherVars(GroupComplete(g))
                    /\ \A k \in Keys : WF_batcherVars(Answer(g, k))

BatcherSpec == BatcherInit /\ [][BatcherNext]_batcherVars /\ BatcherFairness

-----------------------------------------------------------------------------
(* Properties.                                                             *)

BatcherTypeOK ==
  /\ in_flight \in [Keys -> Seq(Gets)] /\ queued \in [Keys -> Seq(Gets)]
  /\ num_in_flight_groups \in 0..MaxParallelLookups
  /\ num_in_flight_keys \in Nat
  /\ num_pending_gets \in 0..(MaxPendingGets + MaxParallelLookups - 1)
  /\ shut_down \in BOOLEAN /\ check_failed \in BOOLEAN /\ crowded \in BOOLEAN
  /\ outstanding \in [Groups -> Nat] /\ completing \subseteq Groups
  /\ lookup \in [Groups -> [Keys -> {"none", "issued", "validated", "reported"}]]
  /\ saved \in [Groups -> [Keys -> Seq(Gets)]]
  /\ get \in [Gets -> {"new", "waiting", "answered"}]

\* How often a get is in in_flight_, in queued_ and in a saved_.
Occurs(c, callbacks) == Cardinality({i \in DOMAIN callbacks : callbacks[i] = c})
Places(c) ==
  Occurs(c, in_flight[KeyOf[c]]) + Occurs(c, queued[KeyOf[c]])
    + Cardinality({g \in Groups : c \in Among(saved[g][KeyOf[c]])})

\* A get that waits is in one place, whatever lookup it joins and whichever
\* completes first, so it is answered exactly once; the others are in none.
WaitsInOnePlace == \A c \in Gets : Places(c) = IF get[c] = "waiting" THEN 1 ELSE 0

\* num_pending_gets_, the bound on memory, is the gets that wait, and no lookup
\* is left uncounted in num_in_flight_keys_.
PendingCounted ==
  /\ num_pending_gets = Cardinality({c \in Gets : get[c] = "waiting"})
  /\ num_in_flight_keys = Cardinality({l \in Groups \X Keys :
                                 lookup[l[1]][l[2]] \in {"issued", "validated"}})

\* MoveQueuedKeys: "It should be impossible to have both in_flight_[key] and
\* queued_[key] exist and be nonempty simultaneously."
NotQueuedInFlight == KeysIn(in_flight) \cap KeysIn(queued) = {}

\* Gets are queued only while every slot is taken by a group that has yet to
\* look at the queue: nobody is left waiting for a group that is gone.
QueuedBehindGroups ==
  KeysIn(queued) # {} => Cardinality(Slots \ FreeSlots) = MaxParallelLookups

\* The gets, the lookups and the counters of both agree.
GetsAccounted ==
  BatcherTypeOK /\ WaitsInOnePlace /\ PendingCounted /\ NotQueuedInFlight /\ QueuedBehindGroups

\* ExtractInFlightKeys: CHECK(iter != in_flight_.end()).  It can fail in one case:
\* gets of a key in flight had filled the bound on pending gets while a group was
\* free, and the next get of that key was given a second lookup.
ExtractFinds == check_failed => crowded

\* Every get is answered, found or not, unless the CHECK ends the process.
EveryGetAnswered ==
  \A c \in Gets : get[c] = "waiting" ~> (get[c] = "answered" \/ check_failed)
=============================================================================
