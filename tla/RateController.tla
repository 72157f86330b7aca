--------------------------- MODULE RateController ---------------------------
(***************************************************************************)
(* RateController (net/instaweb/http/rate_controller.cc): limits the       *)
(* background fetches outgoing to one host, queueing or dropping those     *)
(* above the limit, with the CustomFetch that frees a slot on completion.  *)
(*                                                                         *)
(* A HostFetchInfo is reference counted and outlives its map entry, so it  *)
(* is an object of its own, named by the fetch whose call made it.  Each   *)
(* fetch is carried by the thread its status says: its caller's until it   *)
(* is out, that of the base fetcher from HandleDone on.  One action is one *)
(* critical section of mutex_ or of a HostFetchInfo.                       *)
(*                                                                         *)
(* Abstracted: invalid URLs (handed on unlimited), the counters of queued  *)
(* and dropped fetches, other processes' share of the queue-size counter.  *)
(***************************************************************************)
EXTENDS Integers, Sequences, FiniteSets

CONSTANTS Hosts, Fetches,
          HostOf,              \* gurl.Host()
          Background,          \* fetches with IsBackgroundFetch()
          MaxGlobalQueue,      \* max_global_queue_size_
          PerHostOutgoing,     \* per_host_outgoing_request_threshold_
          PerHostQueued,       \* per_host_queued_request_threshold_
          None

ASSUME HostAssumption ==
  /\ IsFiniteSet(Fetches) /\ HostOf \in [Fetches -> Hosts]
  /\ Background \subseteq Fetches
\* The CHECK_GEs of the constructor.
ASSUME ThresholdAssumption ==
  /\ PerHostOutgoing \in Nat /\ PerHostQueued \in Nat
  /\ MaxGlobalQueue \in Nat /\ MaxGlobalQueue >= PerHostQueued
ASSUME NoneAssumption == None \notin Fetches

VARIABLES
  fetch_info_map,   \* host -> its HostFetchInfo, or None
  outbound,         \* HostFetchInfo -> num_outbound_fetches_
  queue,            \* HostFetchInfo -> fetch_queue_
  global,           \* current_global_fetch_queue_size_
  shutdown,         \* shutdown_
  status,           \* how far each fetch has come
  info,             \* the HostFetchInfo a fetch holds
  popped            \* the deferred fetch a completion has taken to start

vars == <<fetch_info_map, outbound, queue, global, shutdown, status, info, popped>>

(* new: not asked for.  admitted: past the shutdown check.  queued.          *)
(* popped: taken off the queue.  out: with the base fetcher.  failed: done   *)
(* without a fetch.  popping, starting, deleting: in HandleDone, or after a  *)
(* drop.  done.                                                              *)
Statuses == {"new", "admitted", "queued", "popped", "out", "failed",
             "popping", "starting", "deleting", "done"}

Init ==
  /\ fetch_info_map = [h \in Hosts |-> None]
  /\ outbound = [i \in Fetches |-> 0]
  /\ queue = [i \in Fetches |-> <<>>]
  /\ global = 0
  /\ shutdown = FALSE
  /\ status = [f \in Fetches |-> "new"]
  /\ info = [f \in Fetches |-> None]
  /\ popped = [f \in Fetches |-> None]

Moves(f, to) == status' = [status EXCEPT ![f] = to]

ShutDown ==
  /\ shutdown' = TRUE
  /\ UNCHANGED <<fetch_info_map, outbound, queue, global, status, info, popped>>

\* Fetch reads shutdown_ before it takes any lock.
Ask(f) ==
  /\ status[f] = "new"
  /\ Moves(f, IF shutdown THEN "done" ELSE "admitted")
  /\ UNCHANGED <<fetch_info_map, outbound, queue, global, shutdown, info, popped>>

\* The entry of the host of f, made by f if there is none.
Entry(f) == IF fetch_info_map[HostOf[f]] = None THEN f
            ELSE fetch_info_map[HostOf[f]]

CanTrigger(i) == outbound[i] < PerHostOutgoing
GlobalHasRoom == global < MaxGlobalQueue
QueueHasRoom(i) == Len(queue[i]) < PerHostQueued

\* Mutant of Started: the fetch is not counted.
StartedUncounted(i) == outbound
Started(i) == [outbound EXCEPT ![i] = @ + 1]

Looked(f) ==
  /\ status[f] = "admitted"
  /\ fetch_info_map' = [fetch_info_map EXCEPT ![HostOf[f]] = Entry(f)]
  /\ info' = [info EXCEPT ![f] = Entry(f)]
  /\ UNCHANGED <<shutdown, popped>>

\* A user-facing fetch, or one within the limit, is fetched at once.
FetchNow(f) ==
  /\ Looked(f)
  /\ f \notin Background \/ CanTrigger(Entry(f))
  /\ outbound' = Started(Entry(f))
  /\ Moves(f, "out")
  /\ UNCHANGED <<queue, global>>

MustWait(f) == f \in Background /\ ~CanTrigger(Entry(f))

FetchLater(f) ==
  /\ Looked(f)
  /\ MustWait(f) /\ GlobalHasRoom /\ QueueHasRoom(Entry(f))
  /\ queue' = [queue EXCEPT ![Entry(f)] = Append(@, f)]
  /\ global' = global + 1
  /\ Moves(f, "queued")
  /\ UNCHANGED outbound

\* Dropped: answered with a failure, and then the entry is deleted if it can.
Drop(f) ==
  /\ Looked(f)
  /\ MustWait(f) /\ ~(GlobalHasRoom /\ QueueHasRoom(Entry(f)))
  /\ Moves(f, "deleting")
  /\ UNCHANGED <<outbound, queue, global>>

\* HandleDone up to decrement_num_outbound_fetches.
HandleDone(f) ==
  /\ status[f] \in {"out", "failed"}
  /\ outbound' = [outbound EXCEPT ![info[f]] = @ - 1]
  /\ Moves(f, "popping")
  /\ UNCHANGED <<fetch_info_map, queue, global, shutdown, info, popped>>

\* Mutant of MayPop: off by one.
MayPopOffByOne(i) == queue[i] # <<>> /\ outbound[i] + 1 < PerHostOutgoing
MayPop(i) == queue[i] # <<>> /\ outbound[i] < PerHostOutgoing

PopNextFetch(f) ==
  /\ status[f] = "popping" /\ MayPop(info[f])
  /\ LET g == Head(queue[info[f]])
     IN  /\ queue' = [queue EXCEPT ![info[f]] = Tail(@)]
         /\ outbound' = Started(info[f])
         /\ popped' = [popped EXCEPT ![f] = g]
         /\ status' = [status EXCEPT ![f] = "starting", ![g] = "popped"]
  /\ UNCHANGED <<fetch_info_map, global, shutdown, info>>

PopNothing(f) ==
  /\ status[f] = "popping" /\ ~MayPop(info[f])
  /\ Moves(f, "deleting")
  /\ UNCHANGED <<fetch_info_map, outbound, queue, global, shutdown, info, popped>>

OneLessQueued == global - 1

\* The rest of HandleDone: the deferred fetch is started or, after a shutdown,
\* done at once.
StartDeferred(f) ==
  /\ status[f] = "starting"
  /\ global' = OneLessQueued
  /\ status' = [status EXCEPT ![f] = "done",
                              ![popped[f]] = IF shutdown THEN "failed" ELSE "out"]
  /\ popped' = [popped EXCEPT ![f] = None]
  /\ UNCHANGED <<fetch_info_map, outbound, queue, shutdown, info>>

\* Mutant of AnyInFlightOrQueued: off by one.
AlwaysInFlight(i) == outbound[i] >= 0
AnyInFlightOrQueued(i) == outbound[i] > 0 \/ queue[i] # <<>>

\* The entry is looked up by host, whichever HostFetchInfo it is.
DeleteFetchInfoIfPossible(f) ==
  /\ status[f] = "deleting"
  /\ fetch_info_map' = IF AnyInFlightOrQueued(info[f]) THEN fetch_info_map
                       ELSE [fetch_info_map EXCEPT ![HostOf[f]] = None]
  /\ Moves(f, "done")
  /\ UNCHANGED <<outbound, queue, global, shutdown, info, popped>>

Step(f) ==
  \/ FetchNow(f) \/ FetchLater(f) \/ Drop(f) \/ HandleDone(f)
  \/ PopNextFetch(f) \/ PopNothing(f) \/ StartDeferred(f)
  \/ DeleteFetchInfoIfPossible(f)

Next == ShutDown \/ \E f \in Fetches : Ask(f) \/ Step(f)

\* The base fetcher finishes every fetch, and threads run.
Fairness == \A f \in Fetches : WF_vars(Step(f))

Spec == Init /\ [][Next]_vars /\ Fairness

-----------------------------------------------------------------------------
(* Properties.                                                             *)

TypeOK ==
  /\ fetch_info_map \in [Hosts -> Fetches \cup {None}]
  /\ outbound \in [Fetches -> Nat]
  /\ queue \in [Fetches -> Seq(Fetches)]
  /\ global \in 0..MaxGlobalQueue
  /\ shutdown \in BOOLEAN
  /\ status \in [Fetches -> Statuses]
  /\ info \in [Fetches -> Fetches \cup {None}]
  /\ popped \in [Fetches -> Fetches \cup {None}]

\* The fetches of a host that are out, or were given a slot to go out.
Outgoing(h) == {f \in Fetches : HostOf[f] = h /\ status[f] \in {"popped", "out"}}

\* Each HostFetchInfo counts the fetches that hold it and have not completed,
\* those popped and not yet started included, also when it has lost its entry.
OutboundCounts ==
  \A i \in Fetches :
    outbound[i] = Cardinality({f \in Fetches : /\ info[f] = i
                                               /\ status[f] \in {"popped", "out", "failed"}})

\* The comment in Fetch: the queue size is raised under the lock of the entry
\* "since otherwise the entry may get dequeued with the size stat not yet
\* updated".  The counter is the queued fetches and those being started.
GlobalCountsQueued ==
  global = Cardinality({f \in Fetches : status[f] \in {"queued", "popped"}})

\* Both counters are what they are said to count, in every interleaving of
\* completions and new fetches.
CountsMatch == TypeOK /\ OutboundCounts /\ GlobalCountsQueued

\* When nothing is in flight or queued, no entry is left in the map: its
\* entries do not grow with the hosts ever fetched from.
NoEntryLeaks ==
  (\A f \in Fetches : status[f] \in {"new", "admitted", "done"})
    => \A h \in Hosts : fetch_info_map[h] = None

\* "For non-user facing requests, this checks that the number of outgoing
\* fetches for this domain is less than the limit" (rate_controller.h).  It is
\* less for the HostFetchInfo; the domain may have another, whose entry was
\* deleted by a fetch that was done with an earlier one.
BackgroundWithinLimit ==
  [][\A f \in Background :
       status[f] \in {"admitted", "queued"} /\ status'[f] \in {"popped", "out"} =>
         Cardinality(Outgoing(HostOf[f])) < PerHostOutgoing]_vars

\* A fetch that was queued is fetched or failed in the end, whoever completes
\* in whatever order: a slot freed above the limit is not a slot forgotten.
EveryFetchAnswered == \A f \in Fetches : status[f] = "queued" ~> status[f] = "done"
=============================================================================
