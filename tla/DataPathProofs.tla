--------------------------- MODULE DataPathProofs ---------------------------
(***************************************************************************)
(* Three components between a request and its data: the RateController and *)
(* the CacheBatcher let a bounded number of fetches and lookups through    *)
(* and queue what comes on top, the SharedMemCache holds what was found.   *)
(*                                                                         *)
(* RateController, for any number of hosts and fetches and any thresholds: *)
(* its counters are what they are said to count, and no entry stays in the *)
(* map when nothing is in flight.                                          *)
(* A completion raises and lowers counters for another fetch than its own, *)
(* in two critical sections.  The invariant therefore says which fetch     *)
(* that is: a queue holds fetches that wait for it, each once (InQueue),   *)
(* and the one a completion has popped is nobody else's (Deferred).  The   *)
(* map keeps an entry only for a fetch that will come by to delete it      *)
(* (Covered).                                                              *)
(*                                                                         *)
(* CacheBatcher, for any keys and gets and any of both bounds, when        *)
(* ShutDown finds nothing queued: a get is in one list while it waits      *)
(* (Listed, Placed), a list is in flight only with a lookup that will take *)
(* it (Lookups), and queued only while every slot has a group that will    *)
(* look at the queue (GroupsCounted, Queueing).  The bound on the gets     *)
(* that wait counts the slots in use: each lets one get in beyond it       *)
(* (Tallied).  A key has one lookup until it is given a second (OneLookup).*)
(*                                                                         *)
(* One sector of SharedMemCache, for any hashes, values, entries, blocks   *)
(* and processes, and any number of them killed: its blocks are            *)
(* partitioned between the free list and the entries, with the blocks an   *)
(* operation has in hand until it is done (Partition), the creating bit is *)
(* one writer (OneWriter), a writer has the copied part of its value in    *)
(* the first blocks of its entry (Copied), and what is not being written   *)
(* is whole (Whole).  The rounds of TryAllocateBlocks keep that by the     *)
(* least round that would not.  A reader copies from its entry (Reading);  *)
(* what others see of a step (SeenAt) and what it does to the values       *)
(* in use (Hides) make each step one of LossyCacheSpec, or none.           *)
(***************************************************************************)
EXTENDS RateController, CacheBatcher, SharedMemCache, FiniteSetTheorems,
        WellFoundedInduction, TLAPS

-----------------------------------------------------------------------------
(* The RateController.                                                     *)

\* The fetches that hold their HostFetchInfo.
Active == Statuses \ {"new", "admitted", "done"}
Held == \A f \in Fetches : status[f] \in Active => info[f] \in Fetches

InQueue ==
  \A i \in Fetches :
    /\ \A n \in 1..Len(queue[i]) :
         status[queue[i][n]] = "queued" /\ info[queue[i][n]] = i
    /\ \A m, n \in 1..Len(queue[i]) : queue[i][m] = queue[i][n] => m = n

Deferred ==
  /\ \A f \in Fetches :
       status[f] = "starting" =>
         /\ popped[f] \in Fetches
         /\ status[popped[f]] = "popped" /\ info[popped[f]] = info[f]
  /\ \A f, g \in Fetches :
       status[f] = "starting" /\ status[g] = "starting" /\ popped[f] = popped[g]
         => f = g

Covered ==
  \A h \in Hosts :
    fetch_info_map[h] # None =>
      \E f \in Fetches : info[f] = fetch_info_map[h] /\ status[f] \in Active

\* A HostFetchInfo serves one host.
OfOneHost ==
  /\ \A f \in Fetches : info[f] # None => HostOf[info[f]] = HostOf[f]
  /\ \A h \in Hosts : fetch_info_map[h] # None => HostOf[fetch_info_map[h]] = h

IInv == CountsMatch /\ Held /\ InQueue /\ Deferred /\ Covered /\ OfOneHost

Counted == {"popped", "out", "failed"}
Out(i) == {f \in Fetches : info[f] = i /\ status[f] \in Counted}
Waiting == {f \in Fetches : status[f] \in {"queued", "popped"}}

-----------------------------------------------------------------------------
LEMMA SetsFinite ==
  /\ \A i : IsFiniteSet(Out(i)) /\ Cardinality(Out(i)) \in Nat
  /\ IsFiniteSet(Waiting) /\ Cardinality(Waiting) \in Nat
BY HostAssumption, FS_Subset, FS_CardinalityType DEF Out, Waiting

LEMMA Counts ==
  ASSUME TypeOK
  PROVE  /\ OutboundCounts <=> \A i \in Fetches : outbound[i] = Cardinality(Out(i))
         /\ GlobalCountsQueued <=> global = Cardinality(Waiting)
BY DEF OutboundCounts, GlobalCountsQueued, Out, Waiting, Counted

LEMMA CountsNext ==
  ASSUME TypeOK', global' = Cardinality(Waiting'),
         \A i \in Fetches : outbound'[i] = Cardinality(Out(i)')
  PROVE  CountsMatch'
BY DEF CountsMatch, OutboundCounts, GlobalCountsQueued, Out, Waiting, Counted

\* The entry of a host, found or made.
LEMMA EntryIsFetch ==
  ASSUME TypeOK, NEW f \in Fetches
  PROVE  Entry(f) \in Fetches /\ HostOf[f] \in Hosts
BY HostAssumption DEF TypeOK, Entry

\* Fetches at the back and at the front of a queue.
LEMMA Queues ==
  ASSUME NEW q \in Seq(Fetches)
  PROVE  /\ Len(q) \in Nat
         /\ \A f \in Fetches :
              /\ Append(q, f) \in Seq(Fetches)
              /\ Len(Append(q, f)) = Len(q) + 1
              /\ \A n \in 1..Len(q) : Append(q, f)[n] = q[n]
              /\ Append(q, f)[Len(q) + 1] = f
         /\ q # <<>> =>
              /\ Len(q) > 0 /\ Head(q) = q[1] /\ Head(q) \in Fetches
              /\ Tail(q) \in Seq(Fetches)
              /\ Len(Tail(q)) = Len(q) - 1
              /\ \A n \in 1..Len(Tail(q)) : Tail(q)[n] = q[n + 1]
OBVIOUS

LEMMA QueuedAreFetches ==
  ASSUME TypeOK, NEW i \in Fetches, NEW n \in 1..Len(queue[i])
  PROVE  queue[i][n] \in Fetches
<1>1. queue[i] \in Seq(Fetches)
  BY DEF TypeOK
<1> QED BY <1>1

\* Queues stay right when another fetch than those in them moves.
LEMMA NotTheQueued ==
  ASSUME TypeOK, InQueue, queue' = queue, NEW f \in Fetches, f \notin Waiting,
         \A g \in Fetches \ {f} : status'[g] = status[g] /\ info'[g] = info[g]
  PROVE  InQueue'
<1>1. \A i \in Fetches : \A n \in 1..Len(queue[i]) : queue[i][n] \in Fetches \ {f}
  BY QueuedAreFetches DEF InQueue, Waiting
<1> QED BY <1>1 DEF InQueue

-----------------------------------------------------------------------------
\* A fetch looks at the entry of its host: what the three ways on have in common.
LEMMA LookedStep ==
  ASSUME IInv, NEW f \in Fetches, Looked(f),
         NEW to \in {"out", "queued", "deleting"}, Moves(f, to)
  PROVE  /\ f \notin Waiting /\ \A i : f \notin Out(i)
         /\ status' \in [Fetches -> Statuses] /\ info' \in [Fetches -> Fetches \cup {None}]
         /\ fetch_info_map' \in [Hosts -> Fetches \cup {None}]
         /\ status'[f] = to /\ info'[f] = Entry(f)
         /\ \A g \in Fetches \ {f} : status'[g] = status[g] /\ info'[g] = info[g]
         /\ popped' = popped /\ shutdown' = shutdown
         /\ Held' /\ Deferred' /\ Covered' /\ OfOneHost'
<1>1. TypeOK /\ Held /\ Deferred /\ Covered /\ OfOneHost
  BY DEF IInv, CountsMatch
<1>2. /\ status[f] = "admitted" /\ Entry(f) \in Fetches /\ HostOf[f] \in Hosts
      /\ fetch_info_map' = [fetch_info_map EXCEPT ![HostOf[f]] = Entry(f)]
      /\ info' = [info EXCEPT ![f] = Entry(f)] /\ status' = [status EXCEPT ![f] = to]
      /\ popped' = popped /\ shutdown' = shutdown
  BY <1>1, EntryIsFetch DEF Looked, Moves
<1>3. /\ status' \in [Fetches -> Statuses] /\ info' \in [Fetches -> Fetches \cup {None}]
      /\ fetch_info_map' \in [Hosts -> Fetches \cup {None}]
      /\ status'[f] = to /\ info'[f] = Entry(f)
      /\ \A g \in Fetches \ {f} : status'[g] = status[g] /\ info'[g] = info[g]
      /\ \A h \in Hosts : fetch_info_map'[h] =
           IF h = HostOf[f] THEN Entry(f) ELSE fetch_info_map[h]
  BY <1>1, <1>2 DEF TypeOK, Statuses
<1>4. f \notin Waiting /\ \A i : f \notin Out(i)
  BY <1>2 DEF Waiting, Out, Counted
<1>5. Held'
  BY <1>1, <1>2, <1>3 DEF Held
<1>6. Deferred'
  BY <1>1, <1>2, <1>3 DEF Deferred
<1>7. Covered'
  <2> SUFFICES ASSUME NEW h \in Hosts, fetch_info_map'[h] # None
               PROVE  \E g \in Fetches : info'[g] = fetch_info_map'[h] /\ status'[g] \in Active
    BY DEF Covered
  <2>1. CASE h = HostOf[f]
    BY <1>3, <2>1 DEF Active, Statuses
  <2>2. CASE h # HostOf[f]
    <3>1. PICK g \in Fetches : info[g] = fetch_info_map[h] /\ status[g] \in Active
      BY <1>1, <1>3, <2>2 DEF Covered
    <3>2. g # f
      BY <1>2, <3>1 DEF Active
    <3> QED BY <1>3, <2>2, <3>1, <3>2
  <2> QED BY <2>1, <2>2
<1>8. OfOneHost'
  <2>1. HostOf[Entry(f)] = HostOf[f]
    BY <1>1, <1>2 DEF Entry, OfOneHost
  <2> QED BY <1>1, <1>2, <1>3, <2>1 DEF OfOneHost
<1> QED BY <1>2, <1>3, <1>4, <1>5, <1>6, <1>7, <1>8

LEMMA FetchNowStep ==
  ASSUME IInv, NEW f \in Fetches, FetchNow(f)
  PROVE  IInv'
<1>1. /\ TypeOK /\ InQueue
      /\ \A i \in Fetches : outbound[i] = Cardinality(Out(i))
      /\ global = Cardinality(Waiting)
  BY Counts DEF IInv, CountsMatch
<1>2. PICK e \in Fetches : e = Entry(f)
  BY <1>1, EntryIsFetch
<1>3. /\ f \notin Waiting /\ \A i : f \notin Out(i)
      /\ status' \in [Fetches -> Statuses] /\ info' \in [Fetches -> Fetches \cup {None}]
      /\ fetch_info_map' \in [Hosts -> Fetches \cup {None}]
      /\ status'[f] = "out" /\ info'[f] = e
      /\ \A g \in Fetches \ {f} : status'[g] = status[g] /\ info'[g] = info[g]
      /\ popped' = popped /\ shutdown' = shutdown
      /\ Held' /\ Deferred' /\ Covered' /\ OfOneHost'
  BY <1>2, LookedStep DEF FetchNow
<1>4. outbound' = [outbound EXCEPT ![e] = @ + 1] /\ queue' = queue /\ global' = global
  BY <1>2 DEF FetchNow, Started
<1>5. TypeOK'
  BY <1>1, <1>3, <1>4 DEF TypeOK
<1>6. \A i \in Fetches : outbound'[i] = Cardinality(Out(i)')
  <2>1. Out(e)' = Out(e) \cup {f}
    BY <1>3 DEF Out, Counted
  <2>2. Cardinality(Out(e) \cup {f}) = Cardinality(Out(e)) + 1
    BY <1>3, SetsFinite, FS_AddElement
  <2>3. \A i \in Fetches : i # e => Out(i)' = Out(i)
    BY <1>3 DEF Out, Counted
  <2> QED BY <1>1, <1>4, <2>1, <2>2, <2>3 DEF TypeOK
<1>7. global' = Cardinality(Waiting')
  <2>1. Waiting' = Waiting
    BY <1>3 DEF Waiting
  <2> QED BY <1>1, <1>4, <2>1
<1>8. InQueue'
  BY <1>1, <1>3, <1>4, NotTheQueued
<1> QED BY <1>3, <1>5, <1>6, <1>7, <1>8, CountsNext DEF IInv

LEMMA FetchLaterStep ==
  ASSUME IInv, NEW f \in Fetches, FetchLater(f)
  PROVE  IInv'
<1>1. /\ TypeOK /\ InQueue
      /\ \A i \in Fetches : outbound[i] = Cardinality(Out(i))
      /\ global = Cardinality(Waiting)
  BY Counts DEF IInv, CountsMatch
<1>2. PICK e \in Fetches : e = Entry(f)
  BY <1>1, EntryIsFetch
<1>3. /\ f \notin Waiting /\ \A i : f \notin Out(i)
      /\ status' \in [Fetches -> Statuses] /\ info' \in [Fetches -> Fetches \cup {None}]
      /\ fetch_info_map' \in [Hosts -> Fetches \cup {None}]
      /\ status'[f] = "queued" /\ info'[f] = e
      /\ \A g \in Fetches \ {f} : status'[g] = status[g] /\ info'[g] = info[g]
      /\ popped' = popped /\ shutdown' = shutdown
      /\ Held' /\ Deferred' /\ Covered' /\ OfOneHost'
  BY <1>2, LookedStep DEF FetchLater
<1>4. /\ queue' = [queue EXCEPT ![e] = Append(@, f)]
      /\ global < MaxGlobalQueue /\ global' = global + 1 /\ outbound' = outbound
  BY <1>2 DEF FetchLater, GlobalHasRoom
<1>5. /\ queue'[e] = Append(queue[e], f) /\ queue[e] \in Seq(Fetches)
      /\ \A i \in Fetches : i # e => queue'[i] = queue[i]
  BY <1>1, <1>4 DEF TypeOK
<1>6. TypeOK'
  <2>1. Append(queue[e], f) \in Seq(Fetches)
    BY <1>5
  <2>2. queue' \in [Fetches -> Seq(Fetches)]
    BY <1>1, <1>4, <2>1 DEF TypeOK
  <2>3. global' \in 0..MaxGlobalQueue
    BY <1>1, <1>4, ThresholdAssumption DEF TypeOK
  <2> QED BY <1>1, <1>3, <1>4, <2>2, <2>3 DEF TypeOK
<1>7. \A i \in Fetches : outbound'[i] = Cardinality(Out(i)')
  <2>1. \A i \in Fetches : Out(i)' = Out(i)
    BY <1>3 DEF Out, Counted
  <2> QED BY <1>1, <1>4, <2>1
<1>8. global' = Cardinality(Waiting')
  <2>1. Waiting' = Waiting \cup {f}
    BY <1>3 DEF Waiting
  <2>2. Cardinality(Waiting \cup {f}) = Cardinality(Waiting) + 1
    BY <1>3, SetsFinite, FS_AddElement
  <2> QED BY <1>1, <1>4, <2>1, <2>2
<1>9. InQueue'
  <2> SUFFICES ASSUME NEW i \in Fetches
               PROVE  /\ \A n \in 1..Len(queue'[i]) :
                           status'[queue'[i][n]] = "queued" /\ info'[queue'[i][n]] = i
                      /\ \A m, n \in 1..Len(queue'[i]) :
                           queue'[i][m] = queue'[i][n] => m = n
    BY DEF InQueue
  <2>1. /\ \A n \in 1..Len(queue[i]) :
             /\ queue[i][n] \in Fetches \ {f}
             /\ status'[queue[i][n]] = "queued" /\ info'[queue[i][n]] = i
        /\ \A m, n \in 1..Len(queue[i]) : queue[i][m] = queue[i][n] => m = n
    BY <1>1, <1>3, QueuedAreFetches DEF InQueue, Waiting
  <2>2. CASE i = e
    <3>1. /\ Len(queue'[i]) = Len(queue[i]) + 1 /\ Len(queue[i]) \in Nat
          /\ \A n \in 1..Len(queue[i]) : queue'[i][n] = queue[i][n]
          /\ queue'[i][Len(queue[i]) + 1] = f
      BY <1>5, <2>2, Queues
    <3>2. \A n \in 1..Len(queue'[i]) : n \in 1..Len(queue[i]) \/ n = Len(queue[i]) + 1
      BY <3>1
    <3>3. \A n \in 1..Len(queue'[i]) :
            status'[queue'[i][n]] = "queued" /\ info'[queue'[i][n]] = i
      BY <1>3, <2>1, <2>2, <3>1, <3>2
    <3>4. \A m, n \in 1..Len(queue'[i]) : queue'[i][m] = queue'[i][n] => m = n
      BY <2>1, <3>1, <3>2
    <3> QED BY <3>3, <3>4
  <2>3. CASE i # e
    BY <1>5, <2>1, <2>3
  <2> QED BY <2>2, <2>3
<1> QED BY <1>3, <1>6, <1>7, <1>8, <1>9, CountsNext DEF IInv

LEMMA DropStep ==
  ASSUME IInv, NEW f \in Fetches, Drop(f)
  PROVE  IInv'
<1>1. /\ TypeOK /\ InQueue
      /\ \A i \in Fetches : outbound[i] = Cardinality(Out(i))
      /\ global = Cardinality(Waiting)
  BY Counts DEF IInv, CountsMatch
<1>2. /\ f \notin Waiting /\ \A i : f \notin Out(i)
      /\ status' \in [Fetches -> Statuses] /\ info' \in [Fetches -> Fetches \cup {None}]
      /\ fetch_info_map' \in [Hosts -> Fetches \cup {None}]
      /\ status'[f] = "deleting"
      /\ \A g \in Fetches \ {f} : status'[g] = status[g] /\ info'[g] = info[g]
      /\ popped' = popped /\ shutdown' = shutdown
      /\ Held' /\ Deferred' /\ Covered' /\ OfOneHost'
  BY LookedStep DEF Drop
<1>3. outbound' = outbound /\ queue' = queue /\ global' = global
  BY DEF Drop
<1>4. TypeOK'
  BY <1>1, <1>2, <1>3 DEF TypeOK
<1>5. Waiting' = Waiting /\ \A i \in Fetches : Out(i)' = Out(i)
  BY <1>2 DEF Out, Waiting, Counted
<1>6. InQueue'
  BY <1>1, <1>2, <1>3, NotTheQueued
<1> QED BY <1>1, <1>2, <1>3, <1>4, <1>5, <1>6, CountsNext DEF IInv

-----------------------------------------------------------------------------
LEMMA AskStep ==
  ASSUME IInv, NEW f \in Fetches, Ask(f)
  PROVE  IInv'
<1>1. /\ TypeOK /\ InQueue /\ Held /\ Deferred /\ Covered /\ OfOneHost
      /\ \A i \in Fetches : outbound[i] = Cardinality(Out(i))
      /\ global = Cardinality(Waiting)
  BY Counts DEF IInv, CountsMatch
<1>2. /\ status[f] = "new" /\ status' \in [Fetches -> Statuses]
      /\ status'[f] \in {"admitted", "done"}
      /\ \A g \in Fetches \ {f} : status'[g] = status[g]
      /\ UNCHANGED <<fetch_info_map, outbound, queue, global, shutdown, info, popped>>
  BY <1>1 DEF Ask, Moves, TypeOK, Statuses
<1>3. TypeOK' /\ Held' /\ OfOneHost'
  BY <1>1, <1>2 DEF TypeOK, Held, OfOneHost, Active
<1>4. Waiting' = Waiting /\ \A i \in Fetches : Out(i)' = Out(i)
  BY <1>2 DEF Out, Waiting, Counted
<1>5. InQueue'
  BY <1>1, <1>2, NotTheQueued DEF Waiting
<1>6. Deferred'
  BY <1>1, <1>2 DEF Deferred
<1>7. Covered'
  BY <1>1, <1>2 DEF Covered, Active
<1> QED BY <1>1, <1>2, <1>3, <1>4, <1>5, <1>6, <1>7, CountsNext DEF IInv

LEMMA HandleDoneStep ==
  ASSUME IInv, NEW f \in Fetches, HandleDone(f)
  PROVE  IInv'
<1>1. /\ TypeOK /\ InQueue /\ Held /\ Deferred /\ Covered /\ OfOneHost
      /\ \A i \in Fetches : outbound[i] = Cardinality(Out(i))
      /\ global = Cardinality(Waiting)
  BY Counts DEF IInv, CountsMatch
<1>2. PICK e \in Fetches : e = info[f]
  BY <1>1 DEF HandleDone, Held, Active, Statuses
<1>3. /\ status[f] \in {"out", "failed"} /\ status' \in [Fetches -> Statuses]
      /\ status'[f] = "popping"
      /\ \A g \in Fetches \ {f} : status'[g] = status[g]
      /\ outbound' = [outbound EXCEPT ![e] = @ - 1]
      /\ UNCHANGED <<fetch_info_map, queue, global, shutdown, info, popped>>
  BY <1>1, <1>2 DEF HandleDone, Moves, TypeOK, Statuses
<1>4. Held' /\ OfOneHost'
  BY <1>1, <1>2, <1>3 DEF Held, OfOneHost
<1>5. \A i \in Fetches : outbound'[i] = Cardinality(Out(i)') /\ outbound'[i] \in Nat
  <2>1. Out(e)' = Out(e) \ {f} /\ f \in Out(e)
    BY <1>2, <1>3 DEF Out, Counted
  <2>2. Cardinality(Out(e) \ {f}) = Cardinality(Out(e)) - 1 /\ Cardinality(Out(e) \ {f}) \in Nat
    BY <2>1, SetsFinite, FS_RemoveElement, FS_CardinalityType
  <2>3. \A i \in Fetches : i # e => Out(i)' = Out(i)
    BY <1>2, <1>3 DEF Out, Counted
  <2> QED BY <1>1, <1>3, <2>1, <2>2, <2>3 DEF TypeOK
<1>6. TypeOK'
  BY <1>1, <1>3, <1>5 DEF TypeOK
<1>7. Waiting' = Waiting
  BY <1>3 DEF Waiting
<1>8. InQueue'
  BY <1>1, <1>3, NotTheQueued DEF Waiting
<1>9. Deferred'
  BY <1>1, <1>3 DEF Deferred
<1>10. Covered'
  BY <1>1, <1>3 DEF Covered, Active, Statuses
<1> QED BY <1>1, <1>3, <1>4, <1>5, <1>6, <1>7, <1>8, <1>9, <1>10, CountsNext DEF IInv

LEMMA PopNextFetchStep ==
  ASSUME IInv, NEW f \in Fetches, PopNextFetch(f)
  PROVE  IInv'
<1>1. /\ TypeOK /\ InQueue /\ Held /\ Deferred /\ Covered /\ OfOneHost
      /\ \A i \in Fetches : outbound[i] = Cardinality(Out(i))
      /\ global = Cardinality(Waiting)
  BY Counts DEF IInv, CountsMatch
<1>2. PICK e \in Fetches : e = info[f]
  BY <1>1 DEF PopNextFetch, Held, Active, Statuses
<1>3. queue[e] \in Seq(Fetches) /\ queue[e] # <<>>
  BY <1>1, <1>2 DEF PopNextFetch, MayPop, TypeOK
<1>4. PICK g \in Fetches : g = Head(queue[e])
  BY <1>3, Queues
<1>5. /\ status[g] = "queued" /\ info[g] = e /\ g # f /\ status[f] = "popping"
      /\ \A n \in 2..Len(queue[e]) : queue[e][n] # g
  <2>1. status[f] = "popping" BY DEF PopNextFetch
  <2>2. Len(queue[e]) \in Nat \ {0} /\ queue[e][1] = g
    BY <1>3, <1>4, Queues
  <2>3. status[g] = "queued" /\ info[g] = e
    BY <1>1, <2>2 DEF InQueue
  <2>4. \A n \in 2..Len(queue[e]) : queue[e][n] # g
    BY <1>1, <2>2 DEF InQueue
  <2>5. g # f BY <2>1, <2>3
  <2> QED BY <2>1, <2>3, <2>4, <2>5
<1>6. /\ status' = [status EXCEPT ![f] = "starting", ![g] = "popped"]
      /\ queue' = [queue EXCEPT ![e] = Tail(@)]
      /\ outbound' = [outbound EXCEPT ![e] = @ + 1]
      /\ popped' = [popped EXCEPT ![f] = g]
      /\ UNCHANGED <<fetch_info_map, global, shutdown, info>>
  BY <1>2, <1>4 DEF PopNextFetch, Started
<1>7. /\ status' \in [Fetches -> Statuses] /\ status'[f] = "starting" /\ status'[g] = "popped"
      /\ \A k \in Fetches \ {f, g} : status'[k] = status[k]
      /\ popped' \in [Fetches -> Fetches \cup {None}] /\ popped'[f] = g
      /\ \A k \in Fetches \ {f} : popped'[k] = popped[k]
      /\ queue'[e] = Tail(queue[e])
      /\ \A i \in Fetches : i # e => queue'[i] = queue[i]
  BY <1>1, <1>5, <1>6 DEF TypeOK, Statuses
<1>8. TypeOK'
  <2>1. Tail(queue[e]) \in Seq(Fetches)
    BY <1>3, Queues
  <2>2. queue' \in [Fetches -> Seq(Fetches)]
    BY <1>1, <1>6, <2>1 DEF TypeOK
  <2>3. outbound' \in [Fetches -> Nat]
    BY <1>1, <1>6 DEF TypeOK
  <2> QED BY <1>1, <1>6, <1>7, <2>2, <2>3 DEF TypeOK
<1>9. \A i \in Fetches : outbound'[i] = Cardinality(Out(i)')
  <2>1. Out(e)' = Out(e) \cup {g} /\ g \notin Out(e)
    BY <1>5, <1>6, <1>7 DEF Out, Counted
  <2>2. Cardinality(Out(e) \cup {g}) = Cardinality(Out(e)) + 1
    BY <2>1, SetsFinite, FS_AddElement
  <2>3. \A i \in Fetches : i # e => Out(i)' = Out(i)
    BY <1>5, <1>6, <1>7 DEF Out, Counted
  <2> QED BY <1>1, <1>6, <2>1, <2>2, <2>3 DEF TypeOK
<1>10. global' = Cardinality(Waiting')
  <2>1. Waiting' = Waiting
    BY <1>5, <1>7 DEF Waiting
  <2> QED BY <1>1, <1>6, <2>1
<1>11. InQueue'
  <2> SUFFICES ASSUME NEW i \in Fetches
               PROVE  /\ \A n \in 1..Len(queue'[i]) :
                           status'[queue'[i][n]] = "queued" /\ info'[queue'[i][n]] = i
                      /\ \A m, n \in 1..Len(queue'[i]) :
                           queue'[i][m] = queue'[i][n] => m = n
    BY DEF InQueue
  <2>1. /\ \A n \in 1..Len(queue[i]) :
             /\ queue[i][n] \in Fetches \ {f}
             /\ status[queue[i][n]] = "queued" /\ info[queue[i][n]] = i
        /\ \A m, n \in 1..Len(queue[i]) : queue[i][m] = queue[i][n] => m = n
    BY <1>1, <1>5, QueuedAreFetches DEF InQueue
  <2>2. CASE i = e
    <3>1. /\ Len(queue'[i]) = Len(queue[i]) - 1 /\ Len(queue[i]) \in Nat
          /\ \A n \in 1..Len(queue'[i]) : queue'[i][n] = queue[i][n + 1]
      <4>1. /\ Len(queue[e]) \in Nat /\ Len(Tail(queue[e])) = Len(queue[e]) - 1
            /\ \A n \in 1..Len(Tail(queue[e])) : Tail(queue[e])[n] = queue[e][n + 1]
        BY <1>3, Queues
      <4> QED BY <1>7, <2>2, <4>1
    <3>2. \A n \in 1..Len(queue'[i]) :
            n + 1 \in 1..Len(queue[i]) /\ n + 1 \in 2..Len(queue[i])
      BY <3>1
    <3>3. \A n \in 1..Len(queue'[i]) :
            queue'[i][n] \in Fetches \ {f, g} /\ status[queue'[i][n]] = "queued"
              /\ info[queue'[i][n]] = i
      BY <1>5, <2>1, <2>2, <3>1, <3>2
    <3>4. \A m, n \in 1..Len(queue'[i]) : queue'[i][m] = queue'[i][n] => m = n
      <4> SUFFICES ASSUME NEW m \in 1..Len(queue'[i]), NEW n \in 1..Len(queue'[i]),
                          queue'[i][m] = queue'[i][n]
                   PROVE  m = n
        OBVIOUS
      <4>1. m + 1 = n + 1
        BY <2>1, <3>1, <3>2
      <4>2. m \in Int /\ n \in Int
        BY <3>1
      <4> QED BY <4>1, <4>2
    <3> QED BY <1>6, <1>7, <3>3, <3>4
  <2>3. CASE i # e
    <3>1. \A n \in 1..Len(queue[i]) : queue[i][n] # g
      BY <1>5, <2>1, <2>3
    <3> QED BY <1>6, <1>7, <2>1, <2>3, <3>1
  <2> QED BY <2>2, <2>3
<1>12. Held' /\ OfOneHost'
  BY <1>1, <1>2, <1>5, <1>6, <1>7 DEF Held, OfOneHost
<1>13. Deferred'
  <2>1. \A k \in Fetches \ {f} : status'[k] = "starting" =>
          /\ status[k] = "starting" /\ popped'[k] = popped[k]
          /\ popped[k] \in Fetches \ {f, g}
          /\ status[popped[k]] = "popped" /\ info[popped[k]] = info[k]
    BY <1>1, <1>5, <1>7 DEF Deferred
  <2> QED BY <1>1, <1>2, <1>5, <1>6, <1>7, <2>1 DEF Deferred
<1>14. Covered'
  <2>1. \A k \in Fetches : status[k] \in Active => status'[k] \in Active
    BY <1>7 DEF Active, Statuses
  <2> QED BY <1>1, <1>6, <2>1 DEF Covered
<1> QED BY <1>8, <1>9, <1>10, <1>11, <1>12, <1>13, <1>14, CountsNext DEF IInv

LEMMA PopNothingStep ==
  ASSUME IInv, NEW f \in Fetches, PopNothing(f)
  PROVE  IInv'
<1>1. /\ TypeOK /\ InQueue /\ Held /\ Deferred /\ Covered /\ OfOneHost
      /\ \A i \in Fetches : outbound[i] = Cardinality(Out(i))
      /\ global = Cardinality(Waiting)
  BY Counts DEF IInv, CountsMatch
<1>2. /\ status[f] = "popping" /\ status' \in [Fetches -> Statuses]
      /\ status'[f] = "deleting"
      /\ \A g \in Fetches \ {f} : status'[g] = status[g]
      /\ UNCHANGED <<fetch_info_map, outbound, queue, global, shutdown, info, popped>>
  BY <1>1 DEF PopNothing, Moves, TypeOK, Statuses
<1>3. TypeOK' /\ Held' /\ OfOneHost'
  BY <1>1, <1>2 DEF TypeOK, Held, OfOneHost, Active, Statuses
<1>4. Waiting' = Waiting /\ \A i \in Fetches : Out(i)' = Out(i)
  BY <1>2 DEF Out, Waiting, Counted
<1>5. InQueue'
  BY <1>1, <1>2, NotTheQueued DEF Waiting
<1>6. Deferred'
  BY <1>1, <1>2 DEF Deferred
<1>7. Covered'
  BY <1>1, <1>2 DEF Covered, Active, Statuses
<1> QED BY <1>1, <1>2, <1>3, <1>4, <1>5, <1>6, <1>7, CountsNext DEF IInv

LEMMA StartDeferredStep ==
  ASSUME IInv, NEW f \in Fetches, StartDeferred(f)
  PROVE  IInv'
<1>1. /\ TypeOK /\ InQueue /\ Held /\ Deferred /\ Covered /\ OfOneHost
      /\ \A i \in Fetches : outbound[i] = Cardinality(Out(i))
      /\ global = Cardinality(Waiting)
  BY Counts DEF IInv, CountsMatch
<1>2. PICK g \in Fetches : g = popped[f]
  BY <1>1 DEF StartDeferred, Deferred
<1>3. /\ status[f] = "starting" /\ status[g] = "popped" /\ info[g] = info[f] /\ f # g
  BY <1>1, <1>2 DEF StartDeferred, Deferred
<1>4. /\ global' = global - 1
      /\ status' \in [Fetches -> Statuses]
      /\ status'[f] = "done" /\ status'[g] \in {"failed", "out"}
      /\ \A k \in Fetches \ {f, g} : status'[k] = status[k]
      /\ popped' = [popped EXCEPT ![f] = None]
      /\ UNCHANGED <<fetch_info_map, outbound, queue, shutdown, info>>
  BY <1>1, <1>2, <1>3 DEF StartDeferred, OneLessQueued, TypeOK, Statuses
<1>5. global' = Cardinality(Waiting') /\ global' \in Nat
  <2>1. Waiting' = Waiting \ {g} /\ g \in Waiting
    BY <1>3, <1>4 DEF Waiting
  <2>2. /\ Cardinality(Waiting \ {g}) = Cardinality(Waiting) - 1
        /\ Cardinality(Waiting \ {g}) \in Nat
    BY <2>1, SetsFinite, FS_RemoveElement, FS_CardinalityType
  <2> QED BY <1>1, <1>4, <2>1, <2>2
<1>6. TypeOK'
  <2>1. global' \in 0..MaxGlobalQueue
    BY <1>1, <1>4, <1>5, ThresholdAssumption DEF TypeOK
  <2> QED BY <1>1, <1>4, <2>1 DEF TypeOK
<1>7. \A i \in Fetches : Out(i)' = Out(i)
  BY <1>3, <1>4 DEF Out, Counted
<1>8. InQueue'
  <2>1. \A i \in Fetches : \A n \in 1..Len(queue[i]) : queue[i][n] \in Fetches \ {f, g}
    BY <1>1, <1>3, QueuedAreFetches DEF InQueue
  <2> QED BY <1>1, <1>4, <2>1 DEF InQueue
<1>9. Held' /\ OfOneHost'
  BY <1>1, <1>3, <1>4 DEF Held, OfOneHost, Active, Statuses
<1>10. Deferred'
  <2>1. \A k \in Fetches : status'[k] = "starting" =>
          /\ k # f /\ status[k] = "starting" /\ popped'[k] = popped[k]
          /\ popped[k] \in Fetches \ {f, g}
          /\ status[popped[k]] = "popped" /\ info[popped[k]] = info[k]
    BY <1>1, <1>2, <1>3, <1>4 DEF Deferred, TypeOK
  <2> QED BY <1>1, <1>4, <2>1 DEF Deferred
<1>11. Covered'
  <2>1. \A k \in Fetches \ {f} : status[k] \in Active => status'[k] \in Active
    BY <1>4 DEF Active, Statuses
  <2>2. status'[g] \in Active /\ info'[g] = info[f]
    BY <1>3, <1>4 DEF Active, Statuses
  <2> QED BY <1>1, <1>4, <2>1, <2>2 DEF Covered
<1> QED BY <1>1, <1>4, <1>5, <1>6, <1>7, <1>8, <1>9, <1>10, <1>11, CountsNext DEF IInv

LEMMA DeleteFetchInfoStep ==
  ASSUME IInv, NEW f \in Fetches, DeleteFetchInfoIfPossible(f)
  PROVE  IInv'
<1>1. /\ TypeOK /\ InQueue /\ Held /\ Deferred /\ Covered /\ OfOneHost
      /\ \A i \in Fetches : outbound[i] = Cardinality(Out(i))
      /\ global = Cardinality(Waiting)
  BY Counts DEF IInv, CountsMatch
<1>2. PICK e \in Fetches : e = info[f]
  BY <1>1 DEF DeleteFetchInfoIfPossible, Held, Active, Statuses
<1>3. /\ status[f] = "deleting" /\ status' \in [Fetches -> Statuses]
      /\ status'[f] = "done"
      /\ \A g \in Fetches \ {f} : status'[g] = status[g]
      /\ UNCHANGED <<outbound, queue, global, shutdown, info, popped>>
  BY <1>1 DEF DeleteFetchInfoIfPossible, Moves, TypeOK, Statuses
<1>4. /\ fetch_info_map' \in [Hosts -> Fetches \cup {None}]
      /\ \A h \in Hosts : fetch_info_map'[h] \in {fetch_info_map[h], None}
      /\ HostOf[f] \in Hosts
      /\ ~AnyInFlightOrQueued(e) => fetch_info_map'[HostOf[f]] = None
  BY <1>1, <1>2, HostAssumption DEF DeleteFetchInfoIfPossible, TypeOK
<1>5. TypeOK' /\ Held' /\ OfOneHost'
  BY <1>1, <1>3, <1>4 DEF TypeOK, Held, OfOneHost, Active, Statuses
<1>6. Waiting' = Waiting /\ \A i \in Fetches : Out(i)' = Out(i)
  BY <1>3 DEF Out, Waiting, Counted
<1>7. InQueue'
  BY <1>1, <1>3, NotTheQueued DEF Waiting
<1>8. Deferred'
  BY <1>1, <1>3 DEF Deferred
<1>9. Covered'
  <2> SUFFICES ASSUME NEW h \in Hosts, fetch_info_map'[h] # None
               PROVE  \E g \in Fetches : info'[g] = fetch_info_map'[h] /\ status'[g] \in Active
    BY DEF Covered
  <2>1. fetch_info_map'[h] = fetch_info_map[h] /\ fetch_info_map[h] # None
    BY <1>4
  <2>2. PICK k \in Fetches : info[k] = fetch_info_map[h] /\ status[k] \in Active
    BY <1>1, <2>1 DEF Covered
  <2>3. CASE k # f
    BY <1>3, <2>1, <2>2, <2>3
  <2>4. CASE k = f
    <3>1. HostOf[f] = h /\ e = fetch_info_map[h]
      BY <1>1, <1>2, <2>1, <2>2, <2>4 DEF OfOneHost
    <3>2. AnyInFlightOrQueued(e)
      BY <1>4, <2>1, <3>1
    <3>3. CASE outbound[e] > 0
      <4>1. Out(e) # {}
        BY <1>1, <3>3, FS_EmptySet
      <4>2. PICK g \in Out(e) : TRUE
        BY <4>1
      <4> QED BY <1>3, <2>1, <3>1, <4>2 DEF Out, Counted, Active, Statuses
    <3>4. CASE queue[e] # <<>>
      <4>1. queue[e] \in Seq(Fetches) /\ queue[e][1] \in Fetches /\ 1 \in 1..Len(queue[e])
        BY <1>1, <3>4, Queues DEF TypeOK
      <4>2. status[queue[e][1]] = "queued" /\ info[queue[e][1]] = e
        BY <1>1, <4>1 DEF InQueue
      <4> QED BY <1>3, <2>1, <3>1, <4>1, <4>2 DEF Active, Statuses
    <3> QED BY <3>2, <3>3, <3>4 DEF AnyInFlightOrQueued
  <2> QED BY <2>3, <2>4
<1> QED BY <1>1, <1>3, <1>5, <1>6, <1>7, <1>8, <1>9, CountsNext DEF IInv

-----------------------------------------------------------------------------
LEMMA Initially == Init => IInv
<1> SUFFICES ASSUME Init PROVE IInv
  OBVIOUS
<1>1. TypeOK
  <2>1. queue \in [Fetches -> Seq(Fetches)]
    BY DEF Init
  <2>2. global \in 0..MaxGlobalQueue
    BY ThresholdAssumption DEF Init
  <2> QED BY <2>1, <2>2 DEF Init, TypeOK, Statuses
<1>2. Waiting = {} /\ \A i \in Fetches : Out(i) = {}
  BY DEF Init, Waiting, Out, Counted
<1>3. OutboundCounts /\ GlobalCountsQueued
  BY <1>1, <1>2, Counts, FS_EmptySet DEF Init
<1>4. Held /\ Deferred /\ Covered /\ OfOneHost
  BY DEF Init, Held, Deferred, Covered, OfOneHost, Active
<1>5. InQueue
  BY DEF Init, InQueue
<1> QED BY <1>1, <1>3, <1>4, <1>5 DEF IInv, CountsMatch

\* What no step touches but shutdown_.
LEMMA Unmoved ==
  ASSUME IInv, shutdown' \in BOOLEAN,
         UNCHANGED <<fetch_info_map, outbound, queue, global, status, info, popped>>
  PROVE  IInv'
<1>1. TypeOK'
  BY DEF IInv, CountsMatch, TypeOK
<1>2. OutboundCounts' /\ GlobalCountsQueued'
  BY DEF IInv, CountsMatch, OutboundCounts, GlobalCountsQueued
<1>3. Held' /\ InQueue' /\ Deferred' /\ Covered' /\ OfOneHost'
  BY DEF IInv, Held, InQueue, Deferred, Covered, OfOneHost
<1> QED BY <1>1, <1>2, <1>3 DEF IInv, CountsMatch

LEMMA Inductive == IInv /\ [Next]_vars => IInv'
<1> SUFFICES ASSUME IInv, [Next]_vars PROVE IInv'
  OBVIOUS
<1>1. CASE ShutDown
  BY <1>1, Unmoved DEF ShutDown
<1>2. CASE UNCHANGED vars
  BY <1>2, Unmoved DEF vars, IInv, CountsMatch, TypeOK
<1>3. ASSUME NEW f \in Fetches, Ask(f) PROVE IInv'
  BY <1>3, AskStep
<1>4. ASSUME NEW f \in Fetches, Step(f) PROVE IInv'
  <2>1. CASE FetchNow(f)
    BY <2>1, FetchNowStep
  <2>2. CASE FetchLater(f)
    BY <2>2, FetchLaterStep
  <2>3. CASE Drop(f)
    BY <2>3, DropStep
  <2>4. CASE HandleDone(f)
    BY <2>4, HandleDoneStep
  <2>5. CASE PopNextFetch(f)
    BY <2>5, PopNextFetchStep
  <2>6. CASE PopNothing(f)
    BY <2>6, PopNothingStep
  <2>7. CASE StartDeferred(f)
    BY <2>7, StartDeferredStep
  <2>8. CASE DeleteFetchInfoIfPossible(f)
    BY <2>8, DeleteFetchInfoStep
  <2> QED BY <1>4, <2>1, <2>2, <2>3, <2>4, <2>5, <2>6, <2>7, <2>8 DEF Step
<1> QED BY <1>1, <1>2, <1>3, <1>4 DEF Next

\* The invariant, of which the two theorems are parts.
THEOREM Invariance == Spec => []IInv
BY Initially, Inductive, PTL DEF Spec

\* In every interleaving of completions and new fetches the counters of the
\* RateController are what they count: each HostFetchInfo its fetches that have
\* not completed, the global one the queued fetches and those being started.
THEOREM CountsAlwaysMatch == Spec => []CountsMatch
<1>1. IInv => CountsMatch
  BY DEF IInv
<1> QED BY <1>1, Invariance, PTL

\* No entry of fetch_info_map_ is left when no fetch is under way.
THEOREM EntriesNeverLeak == Spec => []NoEntryLeaks
<1>1. IInv => NoEntryLeaks
  BY DEF IInv, CountsMatch, TypeOK, Covered, NoEntryLeaks, Active
<1> QED BY <1>1, Invariance, PTL

-----------------------------------------------------------------------------
(* The CacheBatcher.                                                       *)

\* The keys somebody may ask for, and the gets that wait.
Asked == {KeyOf[c] : c \in Gets}
Pending == {c \in Gets : get[c] = "waiting"}

\* Where a get may be.
InFlight(c) == c \in Among(in_flight[KeyOf[c]])
WaitsForLookup(c) == c \in Among(queued[KeyOf[c]])
InSaved(g, c) == c \in Among(saved[g][KeyOf[c]])

\* Lists hold callbacks of their key, each once.
Proper(k, s) ==
  /\ s \in Seq(Gets)
  /\ \A i \in DOMAIN s : KeyOf[s[i]] = k
  /\ \A i, j \in DOMAIN s : s[i] = s[j] => i = j
Listed ==
  /\ in_flight \in [Keys -> Seq(Gets)] /\ queued \in [Keys -> Seq(Gets)]
  /\ saved \in [Groups -> [Keys -> Seq(Gets)]]
  /\ get \in [Gets -> {"new", "waiting", "answered"}]
  /\ \A k \in Keys : Proper(k, in_flight[k]) /\ Proper(k, queued[k])
  /\ \A g \in Groups, k \in Keys : Proper(k, saved[g][k])

\* A get that waits is in a list, and in no other.
Placed ==
  \A c \in Gets :
    /\ get[c] = "waiting" <=>
         InFlight(c) \/ WaitsForLookup(c) \/ \E g \in Groups : InSaved(g, c)
    /\ InFlight(c) => ~WaitsForLookup(c)
    /\ \A g \in Groups : InSaved(g, c) => ~InFlight(c) /\ ~WaitsForLookup(c)
    /\ \A g, h \in Groups : InSaved(g, c) /\ InSaved(h, c) => g = h

LookedUp(g) == {k \in Keys : lookup[g][k] # "none"}
Unreported == {"issued", "validated"}
Open == {l \in Groups \X Keys : lookup[l[1]][l[2]] \in Unreported}

\* What the lookups of a group tell of the lists.
Lookups ==
  /\ lookup \in [Groups -> [Keys -> {"none", "issued", "validated", "reported"}]]
  /\ \A g \in Groups : LookedUp(g) \subseteq Asked
  /\ LookedUp(ShutDownGroup) = {}
  /\ \A g \in Groups, k \in Keys :
       /\ saved[g][k] # <<>> => lookup[g][k] = "validated"
       /\ lookup[g][k] = "validated" => saved[g][k] # <<>> \/ check_failed
  /\ \A k \in Keys : in_flight[k] # <<>> => \E g \in Groups : lookup[g][k] = "issued"
  /\ check_failed => \E g \in Groups, k \in Keys : lookup[g][k] = "validated"
  /\ check_failed \in BOOLEAN /\ crowded \in BOOLEAN /\ shut_down \in BOOLEAN

\* The counts of a group and of the groups.
Taken == Slots \ FreeSlots
GroupsCounted ==
  /\ outstanding \in [Groups -> Nat] /\ completing \subseteq Slots
  /\ \A g \in Groups : outstanding[g] = Cardinality(LookedUp(g))
  /\ \A g \in completing : outstanding[g] = 0
  /\ num_in_flight_groups = Cardinality(Taken)

\* A list waits for its lookup or for a group that will look.
Queueing ==
  /\ NotQueuedInFlight
  /\ KeysIn(queued) # {} => FreeSlots = {}

\* The slots whose group has lookups to report, and the counters: every get but
\* the first of each group was taken while there was room.
Busy == {g \in Slots : \E k \in Keys : lookup[g][k] \in Unreported}
Tallied ==
  /\ num_pending_gets = Cardinality(Pending)
  /\ num_in_flight_keys = Cardinality(Open)
  /\ num_pending_gets <= IF Busy = {} THEN MaxPendingGets
                         ELSE MaxPendingGets + Cardinality(Busy) - 1

\* A lookup of its own for each key in flight, until a key was given a second.
OneLookup ==
  ~crowded => /\ ~check_failed
              /\ \A g, h \in Groups, k \in Keys :
                   lookup[g][k] = "issued"
                     => in_flight[k] # <<>> /\ (lookup[h][k] = "issued" => g = h)

BatcherInv ==
  Listed /\ Placed /\ Lookups /\ GroupsCounted /\ Queueing /\ Tallied /\ OneLookup

-----------------------------------------------------------------------------
(* Lists of callbacks.                                                     *)

LEMMA EmptyList ==
  ASSUME NEW k PROVE Proper(k, <<>>) /\ Among(<<>>) = {} /\ <<>> \in Seq(Gets)
BY DEF Proper, Among

LEMMA ProperAmong ==
  ASSUME NEW k, NEW s, Proper(k, s)
  PROVE  /\ Among(s) \subseteq Gets
         /\ \A c \in Among(s) : KeyOf[c] = k
         /\ s = <<>> <=> Among(s) = {}
<1>1. s \in Seq(Gets) BY DEF Proper
<1>2. DOMAIN s = 1..Len(s) /\ Len(s) \in Nat BY <1>1
<1>3. Among(s) \subseteq Gets BY <1>1 DEF Among
<1>4. \A c \in Among(s) : KeyOf[c] = k BY DEF Among, Proper
<1>5. s # <<>> => Among(s) # {}
  <2>1. SUFFICES ASSUME s # <<>> PROVE Among(s) # {} OBVIOUS
  <2>2. 1 \in DOMAIN s BY <1>1, <1>2, <2>1
  <2> QED BY <2>2 DEF Among
<1>6. s = <<>> => Among(s) = {} BY EmptyList
<1> QED BY <1>3, <1>4, <1>5, <1>6

LEMMA ProperAppend ==
  ASSUME NEW k, NEW s, Proper(k, s), NEW c \in Gets, KeyOf[c] = k, c \notin Among(s)
  PROVE  /\ Proper(k, Append(s, c)) /\ Among(Append(s, c)) = Among(s) \cup {c}
         /\ Append(s, c) # <<>> /\ Append(s, c) \in Seq(Gets)
<1> DEFINE t == Append(s, c)
<1>1. s \in Seq(Gets) BY DEF Proper
<1>2. /\ t \in Seq(Gets) /\ Len(t) = Len(s) + 1 /\ Len(s) \in Nat
      /\ DOMAIN t = 1..(Len(s) + 1) /\ DOMAIN s = 1..Len(s)
      /\ t[Len(s) + 1] = c /\ \A i \in 1..Len(s) : t[i] = s[i]
  BY <1>1
<1> HIDE DEF t
<1>3. \A i \in 1..Len(s) : s[i] # c BY <1>2 DEF Among
<1>4. \A i \in DOMAIN t : KeyOf[t[i]] = k BY <1>2 DEF Proper
<1>5. ASSUME NEW i \in DOMAIN t, NEW j \in DOMAIN t, t[i] = t[j] PROVE i = j
  <2>1. CASE i \in 1..Len(s) /\ j \in 1..Len(s) BY <1>2, <1>5, <2>1 DEF Proper
  <2>2. CASE i = Len(s) + 1 /\ j \in 1..Len(s) BY <1>2, <1>3, <1>5, <2>2
  <2>3. CASE j = Len(s) + 1 /\ i \in 1..Len(s) BY <1>2, <1>3, <1>5, <2>3
  <2> QED BY <1>2, <2>1, <2>2, <2>3
<1>6. Among(t) = Among(s) \cup {c}
  <2>1. ASSUME NEW x \in Among(t) PROVE x \in Among(s) \cup {c}
    <3>1. PICK i \in 1..(Len(s) + 1) : x = t[i] BY <1>2, <2>1 DEF Among
    <3>2. CASE i \in 1..Len(s) BY <1>2, <3>1, <3>2 DEF Among
    <3>3. CASE i = Len(s) + 1 BY <1>2, <3>1, <3>3
    <3> QED BY <1>2, <3>1, <3>2, <3>3
  <2>2. ASSUME NEW x \in Among(s) PROVE x \in Among(t)
    <3>1. PICK i \in 1..Len(s) : x = s[i] BY <1>2, <2>2 DEF Among
    <3>2. i \in DOMAIN t /\ t[i] = x BY <1>2, <3>1
    <3> QED BY <3>2 DEF Among
  <2>3. c \in Among(t)
    <3>1. Len(s) + 1 \in DOMAIN t BY <1>2
    <3> QED BY <1>2, <3>1 DEF Among
  <2> QED BY <2>1, <2>2, <2>3
<1>7. t # <<>> BY <1>2
<1>8. Proper(k, t) BY <1>2, <1>4, <1>5 DEF Proper
<1> QED BY <1>2, <1>6, <1>7, <1>8 DEF t

\* A list is as long as it has callbacks.
LEMMA ProperCount ==
  ASSUME NEW k, NEW s, Proper(k, s)
  PROVE  /\ IsFiniteSet(Among(s)) /\ Cardinality(Among(s)) = Len(s)
         /\ Len(s) \in Nat /\ (s # <<>> => Len(s) >= 1)
<1>1. s \in Seq(Gets) /\ DOMAIN s = 1..Len(s) /\ Len(s) \in Nat BY DEF Proper
<1> DEFINE f == [i \in 1..Len(s) |-> s[i]]
<1>2. f \in Bijection(1..Len(s), Among(s))
  <2>1. f \in [1..Len(s) -> Among(s)] BY <1>1 DEF Among
  <2>2. \A i, j \in 1..Len(s) : f[i] = f[j] => i = j BY <1>1 DEF Proper
  <2>3. \A x \in Among(s) : \E i \in 1..Len(s) : f[i] = x BY <1>1 DEF Among
  <2> HIDE DEF f
  <2> QED BY <2>1, <2>2, <2>3 DEF Bijection, Injection, Surjection, IsInjective
<1>3. ExistsBijection(1..Len(s), Among(s)) BY <1>2 DEF ExistsBijection
<1>4. IsFiniteSet(1..Len(s)) /\ Cardinality(1..Len(s)) = Len(s) BY <1>1, FS_Interval
<1>5. IsFiniteSet(Among(s)) /\ Cardinality(Among(s)) = Len(s)
  BY <1>3, <1>4, FS_Bijection
<1>6. s # <<>> => Len(s) >= 1 BY <1>1
<1> QED BY <1>1, <1>5, <1>6

LEMMA TimesOnce ==
  ASSUME NEW k, NEW s, Proper(k, s), NEW c
  PROVE  Occurs(c, s) = IF c \in Among(s) THEN 1 ELSE 0
<1> DEFINE I == {i \in DOMAIN s : s[i] = c}
<1>1. CASE c \in Among(s)
  <2>1. PICK i \in DOMAIN s : s[i] = c BY <1>1 DEF Among
  <2>2. I = {i} BY <2>1 DEF Proper
  <2> QED BY <1>1, <2>2, FS_Singleton DEF Occurs
<1>2. CASE c \notin Among(s)
  <2>1. I = {} BY <1>2 DEF Among
  <2> QED BY <1>2, <2>1, FS_EmptySet DEF Occurs
<1> QED BY <1>1, <1>2

-----------------------------------------------------------------------------
(* Sets that are counted.                                                  *)

LEMMA SlotFacts ==
  /\ Slots \subseteq Nat \ {0} /\ ShutDownGroup \notin Slots
  /\ IsFiniteSet(Slots) /\ Cardinality(Slots) = MaxParallelLookups
  /\ Groups = Slots \cup {ShutDownGroup}
<1>1. MaxParallelLookups \in Nat \ {0} BY OptionsAssumption
<1>2. IsFiniteSet(1..MaxParallelLookups)
      /\ Cardinality(1..MaxParallelLookups) = MaxParallelLookups
  BY <1>1, FS_Interval
<1> QED BY <1>1, <1>2 DEF Slots, ShutDownGroup, Groups

LEMMA AskedIsFinite ==
  IsFiniteSet(Asked) /\ \A T \in SUBSET Asked : IsFiniteSet(T) /\ Cardinality(T) \in Nat
<1>1. KeyOf \in [Gets -> Keys] /\ IsFiniteSet(Gets) BY KeyOfAssumption
<1> DEFINE f == [c \in Gets |-> KeyOf[c]]
<1>2. f \in Surjection(Gets, Asked)
  <2>1. f \in [Gets -> Asked] BY DEF Asked
  <2>2. \A x \in Asked : \E c \in Gets : f[c] = x BY DEF Asked
  <2> HIDE DEF f
  <2> QED BY <2>1, <2>2 DEF Surjection
<1>3. IsFiniteSet(Asked) BY <1>1, <1>2, FS_Surjection
<1> QED BY <1>3, FS_Subset, FS_CardinalityType

LEMMA CountedSets ==
  ASSUME Lookups
  PROVE  /\ IsFiniteSet(Pending) /\ Cardinality(Pending) \in Nat
         /\ IsFiniteSet(Open) /\ Cardinality(Open) \in Nat
         /\ IsFiniteSet(Busy) /\ Cardinality(Busy) \in Nat
         /\ \A g \in Groups : /\ IsFiniteSet(LookedUp(g))
                              /\ Cardinality(LookedUp(g)) \in Nat
<1>1. IsFiniteSet(Pending) /\ Cardinality(Pending) \in Nat
  BY KeyOfAssumption, FS_Subset, FS_CardinalityType DEF Pending
<1>2. \A g \in Groups : /\ IsFiniteSet(LookedUp(g))
                        /\ Cardinality(LookedUp(g)) \in Nat
  BY AskedIsFinite DEF Lookups
<1>3. IsFiniteSet(Busy) /\ Cardinality(Busy) \in Nat
  BY SlotFacts, FS_Subset, FS_CardinalityType DEF Busy
<1>4. Open \subseteq Groups \X Asked
  BY DEF Open, Lookups, LookedUp, Unreported
<1>5. IsFiniteSet(Groups) BY SlotFacts, FS_AddElement
<1>6. IsFiniteSet(Groups \X Asked) BY <1>5, AskedIsFinite, FS_Product
<1>7. IsFiniteSet(Open) /\ Cardinality(Open) \in Nat
  BY <1>4, <1>6, FS_Subset, FS_CardinalityType
<1> QED BY <1>1, <1>2, <1>3, <1>7

-----------------------------------------------------------------------------
(* A Get.                                                                  *)

LEMMA NewIsNowhere ==
  ASSUME BatcherInv, NEW c \in Gets, get[c] = "new"
  PROVE  /\ KeyOf[c] \in Keys /\ KeyOf[c] \in Asked
         /\ ~InFlight(c) /\ ~WaitsForLookup(c) /\ \A g \in Groups : ~InSaved(g, c)
BY KeyOfAssumption DEF BatcherInv, Placed, Asked

\* A get that is taken is one more that waits.
LEMMA OneMorePending ==
  ASSUME BatcherInv, NEW c \in Gets, get[c] = "new",
         get' = [get EXCEPT ![c] = "waiting"]
  PROVE  /\ get' \in [Gets -> {"new", "waiting", "answered"}]
         /\ \A d \in Gets : get'[d] = "waiting" <=> get[d] = "waiting" \/ d = c
         /\ Cardinality(Pending)' = Cardinality(Pending) + 1
<1>1. /\ get' \in [Gets -> {"new", "waiting", "answered"}]
      /\ \A d \in Gets : get'[d] = "waiting" <=> get[d] = "waiting" \/ d = c
  BY DEF BatcherInv, Listed
<1>2. Pending' = Pending \cup {c} /\ c \notin Pending BY <1>1 DEF Pending
<1>3. IsFiniteSet(Pending) BY CountedSets DEF BatcherInv
<1>4. Cardinality(Pending') = Cardinality(Pending) + 1 BY <1>2, <1>3, FS_AddElement
<1> QED BY <1>1, <1>4

LEMMA GetCoalescedKeeps ==
  ASSUME BatcherInv, NEW c \in Gets, GetCoalesced(c)
  PROVE  BatcherInv'
<1> DEFINE k == KeyOf[c]
<1>1. /\ k \in Keys /\ get[c] = "new" /\ in_flight[k] # <<>>
      /\ num_pending_gets < MaxPendingGets
      /\ in_flight' = [in_flight EXCEPT ![k] = Append(in_flight[k], c)]
      /\ num_pending_gets' = num_pending_gets + 1
      /\ get' = [get EXCEPT ![c] = "waiting"]
      /\ UNCHANGED <<queued, num_in_flight_groups, num_in_flight_keys, shut_down,
                     outstanding, lookup, saved, completing, check_failed, crowded>>
  BY NewIsNowhere DEF GetCoalesced, Coalesces, CanQueueCallback, groupVars, failureVars
<1>2. /\ Proper(k, Append(in_flight[k], c)) /\ Append(in_flight[k], c) # <<>>
      /\ Append(in_flight[k], c) \in Seq(Gets)
      /\ Among(Append(in_flight[k], c)) = Among(in_flight[k]) \cup {c}
  <2>1. Proper(k, in_flight[k]) BY <1>1 DEF BatcherInv, Listed
  <2>2. c \notin Among(in_flight[k]) BY <1>1, NewIsNowhere DEF InFlight
  <2> QED BY <2>1, <2>2, ProperAppend
<1>3. /\ get' \in [Gets -> {"new", "waiting", "answered"}]
      /\ \A d \in Gets : get'[d] = "waiting" <=> get[d] = "waiting" \/ d = c
      /\ Cardinality(Pending)' = Cardinality(Pending) + 1
  BY <1>1, OneMorePending
<1>4. Listed'
  BY <1>1, <1>2, <1>3 DEF BatcherInv, Listed
<1>5. \A d \in Gets :
        /\ InFlight(d)' <=> InFlight(d) \/ d = c
        /\ WaitsForLookup(d)' <=> WaitsForLookup(d)
        /\ \A g \in Groups : InSaved(g, d)' <=> InSaved(g, d)
  BY <1>1, <1>2, KeyOfAssumption
     DEF BatcherInv, Listed, InFlight, WaitsForLookup, InSaved
<1>6. Placed'
  BY <1>1, <1>3, <1>5, NewIsNowhere DEF BatcherInv, Placed
<1>7. \A l \in Keys : in_flight'[l] = <<>> <=> in_flight[l] = <<>>
  BY <1>1, <1>2 DEF BatcherInv, Listed
<1>8. Lookups'
  BY <1>1, <1>7 DEF BatcherInv, Lookups, LookedUp
<1>9. GroupsCounted'
  BY <1>1 DEF BatcherInv, GroupsCounted, LookedUp, Taken, FreeSlots
<1>10. Queueing'
  BY <1>1, <1>7 DEF BatcherInv, Queueing, NotQueuedInFlight, KeysIn, FreeSlots
<1>11. Busy # {}
  BY <1>1, SlotFacts DEF BatcherInv, Lookups, LookedUp, Busy, Unreported
<1>12. Tallied'
  <2>1. Busy' = Busy /\ Open' = Open BY <1>1 DEF Busy, Open
  <2>2. IsFiniteSet(Busy) /\ Cardinality(Busy) \in Nat /\ Cardinality(Pending) \in Nat
    BY CountedSets DEF BatcherInv
  <2>3. Cardinality(Busy) >= 1 BY <1>11, <2>2, FS_EmptySet
  <2> QED BY <1>1, <1>3, <1>11, <2>1, <2>2, <2>3, OptionsAssumption DEF BatcherInv, Tallied
<1>13. OneLookup'
  BY <1>1, <1>7 DEF BatcherInv, OneLookup
<1> QED BY <1>4, <1>6, <1>8, <1>9, <1>10, <1>12, <1>13 DEF BatcherInv

LEMMA GetQueuedKeeps ==
  ASSUME BatcherInv, NEW c \in Gets, GetQueued(c)
  PROVE  BatcherInv'
<1> DEFINE k == KeyOf[c]
<1>1. /\ k \in Keys /\ get[c] = "new" /\ in_flight[k] = <<>>
      /\ num_pending_gets < MaxPendingGets
      /\ ~ num_in_flight_groups < MaxParallelLookups
      /\ queued' = [queued EXCEPT ![k] = Append(queued[k], c)]
      /\ num_pending_gets' = num_pending_gets + 1
      /\ get' = [get EXCEPT ![c] = "waiting"]
      /\ UNCHANGED <<in_flight, num_in_flight_groups, num_in_flight_keys, shut_down,
                     outstanding, lookup, saved, completing, check_failed, crowded>>
  BY NewIsNowhere
     DEF GetQueued, Coalesces, CanQueueCallback, CanIssueGet, groupVars, failureVars
<1>2. /\ Proper(k, Append(queued[k], c)) /\ Append(queued[k], c) # <<>>
      /\ Append(queued[k], c) \in Seq(Gets)
      /\ Among(Append(queued[k], c)) = Among(queued[k]) \cup {c}
  <2>1. Proper(k, queued[k]) BY <1>1 DEF BatcherInv, Listed
  <2>2. c \notin Among(queued[k]) BY <1>1, NewIsNowhere DEF WaitsForLookup
  <2> QED BY <2>1, <2>2, ProperAppend
<1>3. /\ get' \in [Gets -> {"new", "waiting", "answered"}]
      /\ \A d \in Gets : get'[d] = "waiting" <=> get[d] = "waiting" \/ d = c
      /\ Cardinality(Pending)' = Cardinality(Pending) + 1
  BY <1>1, OneMorePending
<1>4. Listed'
  BY <1>1, <1>2, <1>3 DEF BatcherInv, Listed
<1>5. \A d \in Gets :
        /\ InFlight(d)' <=> InFlight(d)
        /\ WaitsForLookup(d)' <=> WaitsForLookup(d) \/ d = c
        /\ \A g \in Groups : InSaved(g, d)' <=> InSaved(g, d)
  BY <1>1, <1>2, KeyOfAssumption
     DEF BatcherInv, Listed, InFlight, WaitsForLookup, InSaved
<1>6. Placed'
  BY <1>1, <1>3, <1>5, NewIsNowhere DEF BatcherInv, Placed
<1>7. Lookups'
  BY <1>1 DEF BatcherInv, Lookups, LookedUp
<1>8. GroupsCounted'
  BY <1>1 DEF BatcherInv, GroupsCounted, LookedUp, Taken, FreeSlots
<1>9. FreeSlots = {}
  <2>1. Taken \in SUBSET Slots BY DEF Taken
  <2>2. Cardinality(Taken) <= MaxParallelLookups /\ Cardinality(Taken) \in Nat
    BY <2>1, SlotFacts, FS_Subset, FS_CardinalityType
  <2>3. Cardinality(Taken) = MaxParallelLookups
    BY <1>1, <2>2, OptionsAssumption DEF BatcherInv, GroupsCounted
  <2>4. Slots = Taken BY <2>1, <2>3, SlotFacts, FS_Subset
  <2> QED BY <2>4 DEF FreeSlots, Taken
<1>10. Queueing'
  <2>1. \A l \in Keys : queued'[l] # <<>> => queued[l] # <<>> \/ l = k
    BY <1>1 DEF BatcherInv, Listed
  <2> QED BY <1>1, <1>9, <2>1 DEF BatcherInv, Queueing, NotQueuedInFlight, KeysIn, FreeSlots
<1>11. Tallied'
  <2>1. Busy' = Busy /\ Open' = Open BY <1>1 DEF Busy, Open
  <2>2. IsFiniteSet(Busy) /\ Cardinality(Busy) \in Nat /\ Cardinality(Pending) \in Nat
    BY CountedSets DEF BatcherInv
  <2>3. Busy # {} => Cardinality(Busy) >= 1 BY <2>2, FS_EmptySet
  <2> QED BY <1>1, <1>3, <2>1, <2>2, <2>3, OptionsAssumption DEF BatcherInv, Tallied
<1>12. OneLookup'
  BY <1>1 DEF BatcherInv, OneLookup
<1> QED BY <1>4, <1>6, <1>7, <1>8, <1>10, <1>11, <1>12 DEF BatcherInv

LEMMA GetDroppedKeeps ==
  ASSUME BatcherInv, NEW c \in Gets, GetDropped(c)
  PROVE  BatcherInv'
<1>1. /\ get[c] = "new" /\ get' = [get EXCEPT ![c] = "answered"]
      /\ UNCHANGED <<in_flight, queued, num_in_flight_groups, num_in_flight_keys,
                     num_pending_gets, shut_down, outstanding, lookup, saved,
                     completing, check_failed, crowded>>
  BY DEF GetDropped, groupVars, failureVars, countVars
<1>2. /\ get' \in [Gets -> {"new", "waiting", "answered"}]
      /\ \A d \in Gets : get'[d] = "waiting" <=> get[d] = "waiting"
  BY <1>1 DEF BatcherInv, Listed
<1>3. Listed' BY <1>1, <1>2 DEF BatcherInv, Listed
<1>4. Placed'
  BY <1>1, <1>2 DEF BatcherInv, Placed, InFlight, WaitsForLookup, InSaved
<1>5. Lookups' BY <1>1 DEF BatcherInv, Lookups, LookedUp
<1>6. GroupsCounted' BY <1>1 DEF BatcherInv, GroupsCounted, LookedUp, Taken, FreeSlots
<1>7. Queueing' BY <1>1 DEF BatcherInv, Queueing, NotQueuedInFlight, KeysIn, FreeSlots
<1>8. Tallied'
  <2>1. Pending' = Pending BY <1>2 DEF Pending
  <2> QED BY <1>1, <2>1 DEF BatcherInv, Tallied, Busy, Open
<1>9. OneLookup' BY <1>1 DEF BatcherInv, OneLookup
<1> QED BY <1>3, <1>4, <1>5, <1>6, <1>7, <1>8, <1>9 DEF BatcherInv

\* A group that is free has no lookup, and there is one below the limit.
LEMMA FreeSlotFacts ==
  ASSUME BatcherInv
  PROVE  /\ \A g \in FreeSlots : /\ g \in Slots /\ g \in Groups /\ outstanding[g] = 0
                                 /\ \A k \in Keys : lookup[g][k] = "none"
         /\ num_in_flight_groups < MaxParallelLookups => FreeSlots # {}
         /\ IsFiniteSet(Taken) /\ Cardinality(Taken) \in Nat
<1>1. ASSUME NEW g \in FreeSlots
      PROVE  /\ g \in Slots /\ g \in Groups /\ outstanding[g] = 0
             /\ \A k \in Keys : lookup[g][k] = "none"
  <2>1. g \in Slots /\ g \in Groups /\ outstanding[g] = 0
    BY SlotFacts DEF FreeSlots
  <2>2. IsFiniteSet(LookedUp(g)) /\ Cardinality(LookedUp(g)) = 0
    BY <2>1, CountedSets DEF BatcherInv, GroupsCounted
  <2>3. LookedUp(g) = {} BY <2>2, FS_EmptySet
  <2> QED BY <2>1, <2>3 DEF LookedUp
<1>2. FreeSlots = {} => num_in_flight_groups = MaxParallelLookups
  <2>1. FreeSlots = {} => Taken = Slots BY DEF Taken
  <2> QED BY <2>1, SlotFacts DEF BatcherInv, GroupsCounted
<1>3. IsFiniteSet(Taken) /\ Cardinality(Taken) \in Nat
  BY SlotFacts, FS_Subset, FS_CardinalityType DEF Taken
<1> QED BY <1>1, <1>2, <1>3, OptionsAssumption

\* With no lookup to report and none queued, nobody waits.
LEMMA IdleMeansNoPending ==
  ASSUME BatcherInv, Busy = {}, KeysIn(queued) = {}
  PROVE  num_pending_gets = 0
<1>1. \A g \in Groups, k \in Keys : lookup[g][k] \notin Unreported
  BY SlotFacts DEF BatcherInv, Lookups, LookedUp, Busy, Unreported
<1>0. ~check_failed BY <1>1 DEF BatcherInv, Lookups, Unreported
<1>2. \A k \in Keys : in_flight[k] = <<>>
  BY <1>1 DEF BatcherInv, Lookups, Unreported
<1>3. \A g \in Groups, k \in Keys : saved[g][k] = <<>>
  BY <1>0, <1>1 DEF BatcherInv, Lookups, Unreported
<1>4. \A k \in Keys : queued[k] = <<>> BY DEF KeysIn
<1>5. Pending = {}
  BY <1>2, <1>3, <1>4, EmptyList, KeyOfAssumption
     DEF BatcherInv, Placed, Pending, InFlight, WaitsForLookup, InSaved
<1> QED BY <1>5, FS_EmptySet DEF BatcherInv, Tallied

LEMMA GetImmediateKeeps ==
  ASSUME BatcherInv, NEW c \in Gets, GetImmediate(c)
  PROVE  BatcherInv'
<1> DEFINE k == KeyOf[c]
<1>1. PICK g \in FreeSlots :
        /\ outstanding' = [outstanding EXCEPT ![g] = 1]
        /\ lookup' = [lookup EXCEPT ![g][k] = "issued"]
  <2>1. FreeSlots # {} BY FreeSlotFacts DEF GetImmediate, CanIssueGet
  <2>2. (CHOOSE g \in FreeSlots : TRUE) \in FreeSlots BY <2>1
  <2> QED BY <2>2 DEF GetImmediate
<1>2. /\ k \in Keys /\ k \in Asked /\ get[c] = "new"
      /\ in_flight' = [in_flight EXCEPT ![k] = Append(in_flight[k], c)]
      /\ num_in_flight_groups' = num_in_flight_groups + 1
      /\ num_in_flight_keys' = num_in_flight_keys + 1
      /\ num_pending_gets' = num_pending_gets + 1
      /\ get' = [get EXCEPT ![c] = "waiting"]
      /\ crowded' = (crowded \/ in_flight[k] # <<>>)
      /\ UNCHANGED <<queued, shut_down, saved, completing, check_failed>>
  BY NewIsNowhere DEF GetImmediate
<1>3. /\ g \in Slots /\ g \in Groups /\ outstanding[g] = 0 /\ g \notin completing
      /\ \A l \in Keys : lookup[g][l] = "none"
  BY FreeSlotFacts DEF FreeSlots
<1>4. /\ \A h \in Groups : outstanding'[h] = IF h = g THEN 1 ELSE outstanding[h]
      /\ outstanding' \in [Groups -> Nat]
      /\ \A h \in Groups, l \in Keys :
           lookup'[h][l] = IF h = g /\ l = k THEN "issued" ELSE lookup[h][l]
      /\ lookup' \in [Groups -> [Keys -> {"none", "issued", "validated", "reported"}]]
  BY <1>1, <1>2, <1>3 DEF BatcherInv, Lookups, GroupsCounted
<1>5. /\ Proper(k, Append(in_flight[k], c)) /\ Append(in_flight[k], c) # <<>>
      /\ Append(in_flight[k], c) \in Seq(Gets)
      /\ Among(Append(in_flight[k], c)) = Among(in_flight[k]) \cup {c}
  <2>1. Proper(k, in_flight[k]) BY <1>2 DEF BatcherInv, Listed
  <2>2. c \notin Among(in_flight[k]) BY <1>2, NewIsNowhere DEF InFlight
  <2> QED BY <2>1, <2>2, ProperAppend
<1>6. /\ get' \in [Gets -> {"new", "waiting", "answered"}]
      /\ \A d \in Gets : get'[d] = "waiting" <=> get[d] = "waiting" \/ d = c
      /\ Cardinality(Pending)' = Cardinality(Pending) + 1
  BY <1>2, OneMorePending
<1>7. KeysIn(queued) = {} BY DEF BatcherInv, Queueing
<1>8. \A l \in Keys : in_flight'[l] # <<>> <=> in_flight[l] # <<>> \/ l = k
  BY <1>2, <1>5 DEF BatcherInv, Listed
<1>9. Listed'
  BY <1>2, <1>5, <1>6 DEF BatcherInv, Listed
<1>10. \A d \in Gets :
         /\ InFlight(d)' <=> InFlight(d) \/ d = c
         /\ WaitsForLookup(d)' <=> WaitsForLookup(d)
         /\ \A h \in Groups : InSaved(h, d)' <=> InSaved(h, d)
  BY <1>2, <1>5, KeyOfAssumption
     DEF BatcherInv, Listed, InFlight, WaitsForLookup, InSaved
<1>11. Placed'
  BY <1>2, <1>6, <1>10, NewIsNowhere DEF BatcherInv, Placed
<1>12. /\ LookedUp(g)' = {k}
       /\ \A h \in Groups : h # g => LookedUp(h)' = LookedUp(h)
  BY <1>2, <1>3, <1>4 DEF LookedUp
<1>13. Lookups'
  <2>1. \A h \in Groups : LookedUp(h)' \subseteq Asked
    BY <1>2, <1>12 DEF BatcherInv, Lookups
  <2>2. LookedUp(ShutDownGroup)' = {}
    BY <1>3, <1>12, SlotFacts DEF BatcherInv, Lookups
  <2>3. \A h \in Groups, l \in Keys :
          /\ saved'[h][l] # <<>> => lookup'[h][l] = "validated"
          /\ lookup'[h][l] = "validated" => saved'[h][l] # <<>> \/ check_failed'
    BY <1>2, <1>3, <1>4 DEF BatcherInv, Lookups
  <2>4. \A l \in Keys : in_flight'[l] # <<>> => \E h \in Groups : lookup'[h][l] = "issued"
    BY <1>2, <1>3, <1>4, <1>8 DEF BatcherInv, Lookups
  <2>6. check_failed' => \E h \in Groups, l \in Keys : lookup'[h][l] = "validated"
    BY <1>2, <1>3, <1>4 DEF BatcherInv, Lookups
  <2>5. check_failed' \in BOOLEAN /\ crowded' \in BOOLEAN /\ shut_down' \in BOOLEAN
    BY <1>2 DEF BatcherInv, Lookups
  <2> QED BY <1>4, <2>1, <2>2, <2>3, <2>4, <2>5, <2>6 DEF Lookups, Asked
<1>14. Taken' = Taken \cup {g} /\ g \notin Taken
  <2>1. \A h \in Slots : h \in FreeSlots' <=> h \in FreeSlots /\ h # g
    BY <1>2, <1>3, <1>4, SlotFacts DEF FreeSlots, Slots
  <2> QED BY <1>3, <2>1 DEF Slots, Taken
<1>15. GroupsCounted'
  <2>1. \A h \in Groups : outstanding'[h] = Cardinality(LookedUp(h))'
    BY <1>4, <1>12, FS_Singleton DEF BatcherInv, GroupsCounted
  <2>2. \A h \in completing' : outstanding'[h] = 0
    BY <1>2, <1>3, <1>4, SlotFacts DEF BatcherInv, GroupsCounted
  <2>3. num_in_flight_groups' = Cardinality(Taken')
    <3>1. Cardinality(Taken') = Cardinality(Taken) + 1
      BY <1>14, FreeSlotFacts, FS_AddElement
    <3> QED BY <1>2, <3>1 DEF BatcherInv, GroupsCounted
  <2> QED BY <1>2, <1>4, <2>1, <2>2, <2>3 DEF BatcherInv, GroupsCounted, Slots
<1>16. Queueing'
  BY <1>2, <1>7 DEF Queueing, NotQueuedInFlight, KeysIn
<1>17. Tallied'
  <2>1. Open' = Open \cup {<<g, k>>} /\ <<g, k>> \notin Open
    BY <1>2, <1>3, <1>4 DEF Open, Unreported
  <2>2. Busy' = Busy \cup {g} /\ g \notin Busy
    <3>1. \A h \in Slots, l \in Keys :
            lookup'[h][l] \in Unreported <=> lookup[h][l] \in Unreported \/ (h = g /\ l = k)
      BY <1>2, <1>3, <1>4, SlotFacts DEF Unreported
    <3>2. \A l \in Keys : lookup[g][l] \notin Unreported BY <1>3 DEF Unreported
    <3> QED BY <1>2, <1>3, <3>1, <3>2 DEF Busy, Slots
  <2>3. /\ IsFiniteSet(Busy) /\ Cardinality(Busy) \in Nat /\ Cardinality(Pending) \in Nat
        /\ IsFiniteSet(Open)
    BY CountedSets DEF BatcherInv
  <2>4. Cardinality(Open') = Cardinality(Open) + 1 BY <2>1, <2>3, FS_AddElement
  <2>5. Cardinality(Busy') = Cardinality(Busy) + 1 BY <2>2, <2>3, FS_AddElement
  <2>6. num_pending_gets' = Cardinality(Pending)' /\ num_in_flight_keys' = Cardinality(Open')
    BY <1>2, <1>6, <2>4 DEF BatcherInv, Tallied
  <2>7. Busy = {} => num_pending_gets = 0 /\ Cardinality(Busy) = 0
    BY <1>7, IdleMeansNoPending, FS_EmptySet
  <2>8. num_pending_gets' <= MaxPendingGets + Cardinality(Busy') - 1
    BY <1>2, <2>3, <2>5, <2>7, OptionsAssumption DEF BatcherInv, Tallied
  <2> QED BY <2>2, <2>6, <2>8 DEF Tallied
<1>18. OneLookup'
  <2>1. SUFFICES ASSUME ~crowded'
        PROVE  /\ ~check_failed'
               /\ \A h, i \in Groups, l \in Keys :
                    lookup'[h][l] = "issued"
                      => in_flight'[l] # <<>> /\ (lookup'[i][l] = "issued" => h = i)
    BY DEF OneLookup
  <2>2. ~crowded /\ in_flight[k] = <<>> BY <1>2, <2>1
  <2>3. \A h \in Groups : lookup[h][k] # "issued"
    BY <1>2, <2>2 DEF BatcherInv, OneLookup
  <2> QED BY <1>2, <1>4, <1>8, <2>2, <2>3 DEF BatcherInv, OneLookup
<1> QED BY <1>9, <1>11, <1>13, <1>15, <1>16, <1>17, <1>18 DEF BatcherInv

-----------------------------------------------------------------------------
(* What the cache underneath calls.                                        *)

LEMMA ValidateCandidateKeeps ==
  ASSUME BatcherInv, NEW g \in Groups, NEW k \in Keys, ValidateCandidate(g, k)
  PROVE  BatcherInv'
<1>1. /\ lookup[g][k] = "issued" /\ ~check_failed
      /\ saved' = [saved EXCEPT ![g][k] = in_flight[k]]
      /\ in_flight' = [in_flight EXCEPT ![k] = <<>>]
      /\ lookup' = [lookup EXCEPT ![g][k] = "validated"]
      /\ UNCHANGED <<queued, num_in_flight_groups, num_in_flight_keys, num_pending_gets,
                     shut_down, outstanding, completing, get, crowded>>
  BY DEF ValidateCandidate, Extracted, countVars
<1>13. check_failed' \in BOOLEAN /\ (check_failed' <=> in_flight[k] = <<>>)
  BY DEF ValidateCandidate
<1>2. saved[g][k] = <<>> BY <1>1 DEF BatcherInv, Lookups
<1>3. /\ \A h \in Groups, l \in Keys :
           lookup'[h][l] = IF h = g /\ l = k THEN "validated" ELSE lookup[h][l]
      /\ lookup' \in [Groups -> [Keys -> {"none", "issued", "validated", "reported"}]]
      /\ \A h \in Groups, l \in Keys :
           saved'[h][l] = IF h = g /\ l = k THEN in_flight[k] ELSE saved[h][l]
      /\ saved' \in [Groups -> [Keys -> Seq(Gets)]]
      /\ \A l \in Keys : in_flight'[l] = IF l = k THEN <<>> ELSE in_flight[l]
      /\ in_flight' \in [Keys -> Seq(Gets)]
  BY <1>1, EmptyList DEF BatcherInv, Listed, Lookups
<1>4. Listed'
  BY <1>1, <1>3, EmptyList DEF BatcherInv, Listed
<1>5. \A d \in Gets :
        /\ InFlight(d)' <=> InFlight(d) /\ KeyOf[d] # k
        /\ WaitsForLookup(d)' <=> WaitsForLookup(d)
        /\ \A h \in Groups :
             InSaved(h, d)' <=> IF h = g /\ KeyOf[d] = k THEN InFlight(d) ELSE InSaved(h, d)
        /\ KeyOf[d] = k => ~InSaved(g, d)
  BY <1>1, <1>2, <1>3, EmptyList, KeyOfAssumption DEF InFlight, WaitsForLookup, InSaved
<1>6. Placed'
  BY <1>1, <1>5 DEF BatcherInv, Placed
<1>7. \A h \in Groups : LookedUp(h)' = LookedUp(h)
  BY <1>1, <1>3 DEF LookedUp
<1>8. Lookups'
  <2>1. \A h \in Groups, l \in Keys :
          /\ saved'[h][l] # <<>> => lookup'[h][l] = "validated"
          /\ lookup'[h][l] = "validated" => saved'[h][l] # <<>> \/ check_failed'
    BY <1>1, <1>3, <1>13 DEF BatcherInv, Lookups
  <2>2. \A l \in Keys : in_flight'[l] # <<>> => \E h \in Groups : lookup'[h][l] = "issued"
    <3>1. ASSUME NEW l \in Keys, in_flight'[l] # <<>>
          PROVE  \E h \in Groups : lookup'[h][l] = "issued"
      <4>1. l # k /\ in_flight[l] # <<>> BY <1>3, <3>1
      <4>2. PICK h \in Groups : lookup[h][l] = "issued" BY <4>1 DEF BatcherInv, Lookups
      <4> QED BY <1>3, <4>1, <4>2
    <3> QED BY <3>1
  <2>3. /\ check_failed' \in BOOLEAN /\ crowded' \in BOOLEAN /\ shut_down' \in BOOLEAN
        /\ check_failed' => \E h \in Groups, l \in Keys : lookup'[h][l] = "validated"
    BY <1>1, <1>3, <1>13 DEF BatcherInv, Lookups
  <2>4. (\A h \in Groups : LookedUp(h)' \subseteq Asked) /\ LookedUp(ShutDownGroup)' = {}
    BY <1>7, SlotFacts DEF BatcherInv, Lookups
  <2> QED BY <1>3, <2>1, <2>2, <2>3, <2>4 DEF Lookups, Asked
<1>9. GroupsCounted'
  BY <1>1, <1>7 DEF BatcherInv, GroupsCounted, Taken, FreeSlots
<1>10. Queueing'
  BY <1>1, <1>3 DEF BatcherInv, Queueing, NotQueuedInFlight, KeysIn, FreeSlots
<1>11. Tallied'
  <2>1. \A h \in Groups, l \in Keys : lookup'[h][l] \in Unreported <=> lookup[h][l] \in Unreported
    BY <1>1, <1>3 DEF Unreported
  <2>2. Open' = Open BY <2>1 DEF Open
  <2>3. Busy' = Busy BY <2>1, SlotFacts DEF Busy, Slots
  <2> QED BY <1>1, <2>2, <2>3 DEF BatcherInv, Tallied, Pending
<1>12. OneLookup'
  <2>1. SUFFICES ASSUME ~crowded'
        PROVE  /\ ~check_failed'
               /\ \A h, i \in Groups, l \in Keys :
                    lookup'[h][l] = "issued"
                      => in_flight'[l] # <<>> /\ (lookup'[i][l] = "issued" => h = i)
    BY DEF OneLookup
  <2>2. in_flight[k] # <<>> /\ \A h \in Groups : lookup[h][k] = "issued" => h = g
    BY <1>1, <2>1 DEF BatcherInv, OneLookup
  <2> QED BY <1>1, <1>3, <1>13, <2>1, <2>2 DEF BatcherInv, OneLookup
<1> QED BY <1>4, <1>6, <1>8, <1>9, <1>10, <1>11, <1>12 DEF BatcherInv

LEMMA DoneKeeps ==
  ASSUME BatcherInv, NEW g \in Groups, NEW k \in Keys, Done(g, k)
  PROVE  BatcherInv'
<1>1. /\ lookup[g][k] = "validated" /\ ~check_failed
      /\ num_pending_gets' = num_pending_gets - Len(saved[g][k])
      /\ num_in_flight_keys' = num_in_flight_keys - 1
      /\ get' = [c \in Gets |-> IF c \in Among(saved[g][k]) THEN "answered" ELSE get[c]]
      /\ saved' = [saved EXCEPT ![g][k] = <<>>]
      /\ lookup' = [lookup EXCEPT ![g][k] = "reported"]
      /\ UNCHANGED <<in_flight, queued, num_in_flight_groups, shut_down,
                     outstanding, completing, check_failed, crowded>>
  BY DEF Done, Fewer, failureVars
<1>2. /\ \A h \in Groups, l \in Keys :
           lookup'[h][l] = IF h = g /\ l = k THEN "reported" ELSE lookup[h][l]
      /\ lookup' \in [Groups -> [Keys -> {"none", "issued", "validated", "reported"}]]
      /\ \A h \in Groups, l \in Keys :
           saved'[h][l] = IF h = g /\ l = k THEN <<>> ELSE saved[h][l]
      /\ saved' \in [Groups -> [Keys -> Seq(Gets)]]
  BY <1>1, EmptyList DEF BatcherInv, Listed, Lookups
<1>3. /\ Proper(k, saved[g][k]) /\ saved[g][k] # <<>>
      /\ \A d \in Gets : d \in Among(saved[g][k]) <=> InSaved(g, d) /\ KeyOf[d] = k
  <2>1. Proper(k, saved[g][k]) /\ saved[g][k] # <<>>
    BY <1>1 DEF BatcherInv, Listed, Lookups
  <2> QED BY <2>1, ProperAmong DEF InSaved
<1>4. Listed'
  <2>1. get' \in [Gets -> {"new", "waiting", "answered"}]
    BY <1>1 DEF BatcherInv, Listed
  <2> QED BY <1>1, <1>2, <2>1, EmptyList DEF BatcherInv, Listed
<1>5. \A d \in Gets :
        /\ InFlight(d)' <=> InFlight(d)
        /\ WaitsForLookup(d)' <=> WaitsForLookup(d)
        /\ \A h \in Groups : InSaved(h, d)' <=> InSaved(h, d) /\ ~(h = g /\ KeyOf[d] = k)
        /\ get'[d] = "waiting" <=> get[d] = "waiting" /\ ~(InSaved(g, d) /\ KeyOf[d] = k)
  BY <1>1, <1>2, <1>3, EmptyList, KeyOfAssumption DEF InFlight, WaitsForLookup, InSaved
<1>6. Placed'
  BY <1>5 DEF BatcherInv, Placed
<1>7. \A h \in Groups : LookedUp(h)' = LookedUp(h)
  BY <1>1, <1>2 DEF LookedUp
<1>8. Lookups'
  <2>1. \A h \in Groups, l \in Keys :
          /\ saved'[h][l] # <<>> => lookup'[h][l] = "validated"
          /\ lookup'[h][l] = "validated" => saved'[h][l] # <<>> \/ check_failed'
    BY <1>1, <1>2 DEF BatcherInv, Lookups
  <2>2. \A l \in Keys : in_flight'[l] # <<>> => \E h \in Groups : lookup'[h][l] = "issued"
    BY <1>1, <1>2 DEF BatcherInv, Lookups
  <2>3. ~check_failed' /\ check_failed' \in BOOLEAN /\ crowded' \in BOOLEAN /\ shut_down' \in BOOLEAN
    BY <1>1 DEF BatcherInv, Lookups
  <2>4. (\A h \in Groups : LookedUp(h)' \subseteq Asked) /\ LookedUp(ShutDownGroup)' = {}
    BY <1>7, SlotFacts DEF BatcherInv, Lookups
  <2> QED BY <1>2, <2>1, <2>2, <2>3, <2>4 DEF Lookups, Asked
<1>9. GroupsCounted'
  BY <1>1, <1>7 DEF BatcherInv, GroupsCounted, Taken, FreeSlots
<1>10. Queueing'
  BY <1>1 DEF BatcherInv, Queueing, NotQueuedInFlight, KeysIn, FreeSlots
<1>11. g \in Slots
  BY <1>1, SlotFacts DEF BatcherInv, Lookups, LookedUp
<1>12. Tallied'
  <2>1. /\ IsFiniteSet(Busy) /\ Cardinality(Busy) \in Nat /\ Cardinality(Pending) \in Nat
        /\ IsFiniteSet(Open) /\ IsFiniteSet(Pending)
    BY CountedSets DEF BatcherInv
  <2>2. \A h \in Groups, l \in Keys :
          lookup'[h][l] \in Unreported <=> lookup[h][l] \in Unreported /\ ~(h = g /\ l = k)
    BY <1>1, <1>2 DEF Unreported
  <2>3. lookup[g][k] \in Unreported BY <1>1 DEF Unreported
  <2>4. Open' = Open \ {<<g, k>>} /\ <<g, k>> \in Open BY <2>2, <2>3 DEF Open
  <2>5. Cardinality(Open') = Cardinality(Open) - 1 BY <2>1, <2>4, FS_RemoveElement
  <2>6. g \in Busy /\ (Busy' = Busy \/ Busy' = Busy \ {g})
    BY <1>11, <2>2, <2>3, SlotFacts DEF Busy, Slots
  <2>7. /\ Cardinality(Busy') >= Cardinality(Busy) - 1 /\ Cardinality(Busy') \in Nat
        /\ Busy' = {} => Cardinality(Busy) = 1
        /\ Busy # {}
    <3>1. Cardinality(Busy \ {g}) = Cardinality(Busy) - 1 /\ IsFiniteSet(Busy \ {g})
      BY <2>1, <2>6, FS_RemoveElement
    <3>2. Cardinality(Busy) # 0 BY <2>1, <2>6, FS_EmptySet
    <3>3. CASE Busy' = Busy BY <2>1, <2>6, <3>3
    <3>4. CASE Busy' = Busy \ {g}
      <4>1. Busy' = {} => Cardinality(Busy') = 0 BY FS_EmptySet
      <4> QED BY <2>1, <2>6, <3>1, <3>2, <3>4, <4>1
    <3> QED BY <2>6, <3>3, <3>4
  <2>8. /\ Pending' = Pending \ Among(saved[g][k]) /\ Among(saved[g][k]) \subseteq Pending
    BY <1>1, <1>3, <1>5, ProperAmong DEF BatcherInv, Placed, Pending
  <2>9. Cardinality(Pending') = Cardinality(Pending) - Len(saved[g][k])
    <3>1. Cardinality(Among(saved[g][k])) = Len(saved[g][k]) BY <1>3, ProperCount
    <3>2. Pending \cap Among(saved[g][k]) = Among(saved[g][k]) BY <2>8
    <3>3. Cardinality(Pending \ Among(saved[g][k]))
            = Cardinality(Pending) - Cardinality(Pending \cap Among(saved[g][k]))
      BY <2>1, FS_Difference
    <3> QED BY <2>8, <3>1, <3>2, <3>3
  <2>10. Len(saved[g][k]) >= 1 /\ Len(saved[g][k]) \in Nat BY <1>3, ProperCount
  <2>11. num_pending_gets \in Nat
         /\ num_pending_gets <= MaxPendingGets + Cardinality(Busy) - 1
    BY <2>1, <2>7 DEF BatcherInv, Tallied
  <2>12. num_pending_gets' <= IF Busy' = {} THEN MaxPendingGets
                              ELSE MaxPendingGets + Cardinality(Busy') - 1
    BY <1>1, <2>1, <2>7, <2>10, <2>11, OptionsAssumption
  <2>13. num_pending_gets' = Cardinality(Pending') /\ num_in_flight_keys' = Cardinality(Open')
    BY <1>1, <2>5, <2>9 DEF BatcherInv, Tallied
  <2> QED BY <2>12, <2>13 DEF Tallied
<1>13. OneLookup'
  BY <1>1, <1>2 DEF BatcherInv, OneLookup
<1> QED BY <1>4, <1>6, <1>8, <1>9, <1>10, <1>12, <1>13 DEF BatcherInv

LEMMA GroupDoneKeeps ==
  ASSUME BatcherInv, NEW g \in Groups, NEW k \in Keys, GroupDone(g, k)
  PROVE  BatcherInv'
<1>1. /\ lookup[g][k] = "reported"
      /\ lookup' = [lookup EXCEPT ![g][k] = "none"]
      /\ outstanding' = [outstanding EXCEPT ![g] = outstanding[g] - 1]
      /\ completing' = IF outstanding[g] = 1 THEN completing \cup {g} ELSE completing
      /\ UNCHANGED <<in_flight, queued, num_in_flight_groups, num_in_flight_keys,
                     num_pending_gets, shut_down, saved, get, check_failed, crowded>>
  BY DEF GroupDone, failureVars, countVars
<1>2. /\ \A h \in Groups, l \in Keys :
           lookup'[h][l] = IF h = g /\ l = k THEN "none" ELSE lookup[h][l]
      /\ lookup' \in [Groups -> [Keys -> {"none", "issued", "validated", "reported"}]]
  BY <1>1 DEF BatcherInv, Lookups
<1>3. g \in Slots /\ k \in LookedUp(g)
  BY <1>1, SlotFacts DEF BatcherInv, Lookups, LookedUp
<1>4. /\ LookedUp(g)' = LookedUp(g) \ {k}
      /\ \A h \in Groups : h # g => LookedUp(h)' = LookedUp(h)
  BY <1>2 DEF LookedUp
<1>5. /\ Cardinality(LookedUp(g)') = outstanding[g] - 1
      /\ outstanding[g] \in Nat /\ outstanding[g] >= 1
  <2>1. IsFiniteSet(LookedUp(g)) /\ Cardinality(LookedUp(g)) \in Nat
    BY CountedSets DEF BatcherInv
  <2>2. Cardinality(LookedUp(g)) >= 1 BY <1>3, <2>1, FS_EmptySet
  <2>3. Cardinality(LookedUp(g)') = Cardinality(LookedUp(g)) - 1
    BY <1>3, <1>4, <2>1, FS_RemoveElement
  <2> QED BY <2>1, <2>2, <2>3 DEF BatcherInv, GroupsCounted
<1>6. /\ \A h \in Groups : outstanding'[h] = IF h = g THEN outstanding[g] - 1 ELSE outstanding[h]
      /\ outstanding' \in [Groups -> Nat]
  BY <1>1, <1>5 DEF BatcherInv, GroupsCounted
<1>7. g \notin completing
  BY <1>5 DEF BatcherInv, GroupsCounted
<1>8. FreeSlots' = FreeSlots
  BY <1>1, <1>3, <1>5, <1>6, <1>7, SlotFacts DEF FreeSlots, Slots
<1>9. Listed' BY <1>1 DEF BatcherInv, Listed
<1>10. Placed' BY <1>1 DEF BatcherInv, Placed, InFlight, WaitsForLookup, InSaved
<1>11. Lookups'
  <2>1. \A h \in Groups, l \in Keys :
          /\ saved'[h][l] # <<>> => lookup'[h][l] = "validated"
          /\ lookup'[h][l] = "validated" => saved'[h][l] # <<>> \/ check_failed'
    BY <1>1, <1>2 DEF BatcherInv, Lookups
  <2>2. \A l \in Keys : in_flight'[l] # <<>> => \E h \in Groups : lookup'[h][l] = "issued"
    BY <1>1, <1>2 DEF BatcherInv, Lookups
  <2>3. /\ check_failed' \in BOOLEAN /\ crowded' \in BOOLEAN /\ shut_down' \in BOOLEAN
        /\ check_failed' => \E h \in Groups, l \in Keys : lookup'[h][l] = "validated"
    BY <1>1, <1>2 DEF BatcherInv, Lookups
  <2>4. (\A h \in Groups : LookedUp(h)' \subseteq Asked) /\ LookedUp(ShutDownGroup)' = {}
    BY <1>4, SlotFacts DEF BatcherInv, Lookups
  <2> QED BY <1>2, <2>1, <2>2, <2>3, <2>4 DEF Lookups, Asked
<1>12. GroupsCounted'
  <2>1. completing' \subseteq Slots' BY <1>1, <1>3 DEF BatcherInv, GroupsCounted, Slots
  <2>2. \A h \in Groups : outstanding'[h] = Cardinality(LookedUp(h))'
    BY <1>4, <1>5, <1>6 DEF BatcherInv, GroupsCounted
  <2>3. \A h \in completing' : outstanding'[h] = 0
    BY <1>1, <1>5, <1>6, <1>7, SlotFacts DEF BatcherInv, GroupsCounted
  <2>4. Taken' = Taken BY <1>8 DEF Taken, Slots
  <2> QED BY <1>1, <1>6, <2>1, <2>2, <2>3, <2>4 DEF BatcherInv, GroupsCounted
<1>13. Queueing'
  BY <1>1, <1>8 DEF BatcherInv, Queueing, NotQueuedInFlight, KeysIn
<1>14. Tallied'
  <2>1. \A h \in Groups, l \in Keys : lookup'[h][l] \in Unreported <=> lookup[h][l] \in Unreported
    BY <1>1, <1>2 DEF Unreported
  <2>2. Open' = Open BY <2>1 DEF Open
  <2>3. Busy' = Busy BY <2>1, SlotFacts DEF Busy, Slots
  <2> QED BY <1>1, <2>2, <2>3 DEF BatcherInv, Tallied, Pending
<1>15. OneLookup'
  BY <1>1, <1>2 DEF BatcherInv, OneLookup
<1> QED BY <1>9, <1>10, <1>11, <1>12, <1>13, <1>14, <1>15 DEF BatcherInv

\* The group that is the last to complete gives up its slot.
LEMMA SlotGivenUp ==
  ASSUME BatcherInv, NEW g \in Groups, GroupComplete(g), KeysIn(queued) = {}
  PROVE  BatcherInv'
<1>1. /\ g \in completing /\ completing' = completing \ {g}
      /\ num_in_flight_groups' = num_in_flight_groups - 1
      /\ UNCHANGED <<in_flight, queued, num_in_flight_keys, outstanding, lookup,
                     num_pending_gets, shut_down, saved, get, check_failed, crowded>>
  BY DEF GroupComplete, NothingQueued, failureVars
<1>2. g \in Slots /\ outstanding[g] = 0 BY <1>1 DEF BatcherInv, GroupsCounted
<1>3. Taken' = Taken \ {g} /\ g \in Taken
  <2>1. \A h \in Slots : h \in FreeSlots' <=> h \in FreeSlots \/ h = g
    BY <1>1, <1>2 DEF FreeSlots, Slots
  <2>2. g \notin FreeSlots BY <1>1 DEF FreeSlots
  <2> QED BY <1>2, <2>1, <2>2 DEF Taken, Slots
<1>4. Listed' BY <1>1 DEF BatcherInv, Listed
<1>5. Placed' BY <1>1 DEF BatcherInv, Placed, InFlight, WaitsForLookup, InSaved
<1>6. Lookups' BY <1>1 DEF BatcherInv, Lookups, LookedUp
<1>7. GroupsCounted'
  <2>1. Cardinality(Taken') = Cardinality(Taken) - 1
    BY <1>3, FreeSlotFacts, FS_RemoveElement
  <2>2. \A h \in Groups : LookedUp(h)' = LookedUp(h) BY <1>1 DEF LookedUp
  <2> QED BY <1>1, <2>1, <2>2 DEF BatcherInv, GroupsCounted, Slots
<1>8. Queueing' BY <1>1 DEF BatcherInv, Queueing, NotQueuedInFlight, KeysIn
<1>9. Tallied' BY <1>1 DEF BatcherInv, Tallied, Pending, Busy, Open
<1>10. OneLookup' BY <1>1 DEF BatcherInv, OneLookup
<1> QED BY <1>4, <1>5, <1>6, <1>7, <1>8, <1>9, <1>10 DEF BatcherInv

\* Or keeps it for a lookup of every key that is queued.
LEMMA SlotPassedOn ==
  ASSUME BatcherInv, NEW g \in Groups, GroupComplete(g), KeysIn(queued) # {}
  PROVE  BatcherInv'
<1> DEFINE Q == KeysIn(queued)
<1>1. /\ g \in completing /\ completing' = completing \ {g}
      /\ outstanding' = [outstanding EXCEPT ![g] = Cardinality(Q)]
      /\ lookup' = [lookup EXCEPT ![g] = [k \in Keys |-> IF k \in Q THEN "issued" ELSE "none"]]
      /\ queued' = [k \in Keys |-> <<>>]
      /\ num_in_flight_keys' = num_in_flight_keys + Cardinality(Q)
      /\ in_flight' = [k \in Keys |-> IF in_flight[k] = <<>> THEN queued[k] ELSE in_flight[k]]
      /\ UNCHANGED <<num_in_flight_groups, num_pending_gets, shut_down, saved, get,
                     check_failed, crowded>>
  BY DEF GroupComplete, NothingQueued, Converted, MoveQueuedKeys, failureVars
<1>2. /\ g \in Slots /\ outstanding[g] = 0
      /\ \A k \in Keys : lookup[g][k] = "none"
      /\ \A k \in Keys : saved[g][k] = <<>>
  <2>1. g \in Slots /\ outstanding[g] = 0 BY <1>1 DEF BatcherInv, GroupsCounted
  <2>2. IsFiniteSet(LookedUp(g)) /\ Cardinality(LookedUp(g)) = 0
    BY <2>1, CountedSets DEF BatcherInv, GroupsCounted
  <2>3. LookedUp(g) = {} BY <2>2, FS_EmptySet
  <2>4. \A k \in Keys : lookup[g][k] = "none" BY <2>3 DEF LookedUp
  <2>5. \A k \in Keys : saved[g][k] = <<>> BY <2>4 DEF BatcherInv, Lookups
  <2> QED BY <2>1, <2>4, <2>5
<1>3. Q \subseteq Keys /\ \A k \in Keys : k \in Q <=> queued[k] # <<>>
  BY DEF KeysIn
<1>4. \A k \in Q : in_flight[k] = <<>>
  BY <1>3 DEF BatcherInv, Queueing, NotQueuedInFlight, KeysIn
<1>5. Q \subseteq Asked
  <2>1. ASSUME NEW k \in Q PROVE k \in Asked
    <3>1. Proper(k, queued[k]) /\ queued[k] # <<>> BY <1>3 DEF BatcherInv, Listed
    <3>2. PICK c \in Among(queued[k]) : TRUE BY <3>1, ProperAmong
    <3>3. c \in Gets /\ KeyOf[c] = k BY <3>1, ProperAmong
    <3> QED BY <3>3 DEF Asked
  <2> QED BY <2>1
<1>6. /\ IsFiniteSet(Q) /\ Cardinality(Q) \in Nat /\ Cardinality(Q) >= 1
      /\ \A h \in Groups : outstanding'[h] = IF h = g THEN Cardinality(Q) ELSE outstanding[h]
      /\ outstanding' \in [Groups -> Nat]
  <2>1. IsFiniteSet(Q) /\ Cardinality(Q) \in Nat BY <1>5, AskedIsFinite
  <2>2. Cardinality(Q) # 0 BY <2>1, FS_EmptySet
  <2> HIDE DEF Q
  <2> QED BY <1>1, <2>1, <2>2 DEF BatcherInv, GroupsCounted
<1> HIDE DEF Q
<1>7. /\ \A h \in Groups, k \in Keys :
           lookup'[h][k] = IF h = g THEN (IF k \in Q THEN "issued" ELSE "none")
                           ELSE lookup[h][k]
      /\ lookup' \in [Groups -> [Keys -> {"none", "issued", "validated", "reported"}]]
  BY <1>1 DEF BatcherInv, Lookups
<1>8. \A k \in Keys : in_flight'[k] = IF k \in Q THEN queued[k] ELSE in_flight[k]
  BY <1>1, <1>3, <1>4
<1>9. Listed'
  BY <1>1, <1>8, EmptyList DEF BatcherInv, Listed
<1>10. \A d \in Gets :
         /\ InFlight(d)' <=> InFlight(d) \/ WaitsForLookup(d)
         /\ ~WaitsForLookup(d)'
         /\ \A h \in Groups : InSaved(h, d)' <=> InSaved(h, d)
  <2>1. ASSUME NEW d \in Gets PROVE InFlight(d)' <=> InFlight(d) \/ WaitsForLookup(d)
    <3>1. KeyOf[d] \in Keys BY KeyOfAssumption
    <3>2. CASE KeyOf[d] \in Q
      BY <1>4, <1>8, <3>1, <3>2, EmptyList DEF InFlight, WaitsForLookup
    <3>3. CASE KeyOf[d] \notin Q
      BY <1>3, <1>8, <3>1, <3>3, EmptyList DEF InFlight, WaitsForLookup
    <3> QED BY <3>2, <3>3
  <2>2. \A d \in Gets : ~WaitsForLookup(d)'
    BY <1>1, EmptyList, KeyOfAssumption DEF WaitsForLookup
  <2>3. \A d \in Gets, h \in Groups : InSaved(h, d)' <=> InSaved(h, d)
    BY <1>1 DEF InSaved
  <2> QED BY <2>1, <2>2, <2>3
<1>11. Placed' BY <1>1, <1>10 DEF BatcherInv, Placed
<1>12. /\ LookedUp(g)' = Q
       /\ \A h \in Groups : h # g => LookedUp(h)' = LookedUp(h)
  BY <1>3, <1>7 DEF LookedUp
<1>13. Lookups'
  <2>1. \A h \in Groups, k \in Keys :
          /\ saved'[h][k] # <<>> => lookup'[h][k] = "validated"
          /\ lookup'[h][k] = "validated" => saved'[h][k] # <<>> \/ check_failed'
    BY <1>1, <1>2, <1>7 DEF BatcherInv, Lookups
  <2>2. ASSUME NEW k \in Keys, in_flight'[k] # <<>>
        PROVE  \E h \in Groups : lookup'[h][k] = "issued"
    <3>1. CASE k \in Q BY <1>7, <3>1
    <3>2. CASE k \notin Q
      <4>1. in_flight[k] # <<>> BY <1>8, <2>2, <3>2
      <4>2. PICK h \in Groups : lookup[h][k] = "issued" BY <4>1 DEF BatcherInv, Lookups
      <4>3. h # g BY <1>2, <4>2
      <4> QED BY <1>7, <4>2, <4>3
    <3> QED BY <3>1, <3>2
  <2>3. check_failed' \in BOOLEAN /\ crowded' \in BOOLEAN /\ shut_down' \in BOOLEAN
    BY <1>1 DEF BatcherInv, Lookups
  <2>4. check_failed' => \E h \in Groups, k \in Keys : lookup'[h][k] = "validated"
    <3>1. SUFFICES ASSUME check_failed'
          PROVE  \E h \in Groups, k \in Keys : lookup'[h][k] = "validated"
      OBVIOUS
    <3>2. PICK h \in Groups, k \in Keys : lookup[h][k] = "validated"
      BY <1>1, <3>1 DEF BatcherInv, Lookups
    <3>3. h # g BY <1>2, <3>2
    <3> QED BY <1>7, <3>2, <3>3
  <2>5. (\A h \in Groups : LookedUp(h)' \subseteq Asked) /\ LookedUp(ShutDownGroup)' = {}
    <3>1. \A h \in Groups : LookedUp(h)' \subseteq Asked
      BY <1>5, <1>12 DEF BatcherInv, Lookups
    <3>2. ShutDownGroup \in Groups /\ ShutDownGroup # g BY <1>2, SlotFacts
    <3> QED BY <1>12, <3>1, <3>2 DEF BatcherInv, Lookups
  <2> QED BY <1>7, <2>1, <2>2, <2>3, <2>4, <2>5 DEF Lookups, Asked
<1>14. FreeSlots = {} BY DEF BatcherInv, Queueing
<1>15. FreeSlots' = {}
  <2>1. ASSUME NEW h \in Slots PROVE h \notin FreeSlots'
    <3>1. CASE h = g BY <1>6, <3>1, SlotFacts DEF FreeSlots
    <3>2. CASE h # g
      <4>1. ~(outstanding[h] = 0 /\ h \notin completing) BY <1>14 DEF FreeSlots
      <4>2. outstanding'[h] = outstanding[h] BY <1>6, <3>2, SlotFacts
      <4> QED BY <1>1, <3>2, <4>1, <4>2 DEF FreeSlots
    <3> QED BY <3>1, <3>2
  <2> QED BY <2>1 DEF FreeSlots, Slots
<1>16. GroupsCounted'
  <2>1. \A h \in Groups : outstanding'[h] = Cardinality(LookedUp(h))'
    BY <1>6, <1>12 DEF BatcherInv, GroupsCounted
  <2>2. \A h \in completing' : outstanding'[h] = 0
    BY <1>1, <1>6, SlotFacts DEF BatcherInv, GroupsCounted
  <2>3. Taken' = Taken BY <1>14, <1>15 DEF Taken, Slots
  <2> QED BY <1>1, <1>6, <2>1, <2>2, <2>3 DEF BatcherInv, GroupsCounted, Slots
<1>17. Queueing'
  <2>1. \A k \in Keys : queued'[k] = <<>> BY <1>1
  <2> QED BY <2>1 DEF Queueing, NotQueuedInFlight, KeysIn
<1>18. Tallied'
  <2>1. /\ IsFiniteSet(Busy) /\ Cardinality(Busy) \in Nat /\ IsFiniteSet(Open)
        /\ Cardinality(Pending) \in Nat
    BY CountedSets DEF BatcherInv
  <2>2. \A h \in Groups, k \in Keys :
          lookup'[h][k] \in Unreported <=>
            lookup[h][k] \in Unreported \/ (h = g /\ k \in Q)
    BY <1>2, <1>7 DEF Unreported
  <2>3. \A k \in Keys : lookup[g][k] \notin Unreported BY <1>2 DEF Unreported
  <2>4. PICK k0 \in Keys : k0 \in Q BY <1>3, <1>6, FS_EmptySet
  <2>5. Busy' = Busy \cup {g} /\ g \notin Busy
    BY <1>2, <2>2, <2>3, <2>4, SlotFacts DEF Busy, Slots
  <2>6. Cardinality(Busy') = Cardinality(Busy) + 1 BY <2>1, <2>5, FS_AddElement
  <2>7. Open' = Open \cup ({g} \X Q) /\ Open \cap ({g} \X Q) = {}
    BY <1>3, <2>2, <2>3 DEF Open
  <2>8. IsFiniteSet({g} \X Q) /\ Cardinality({g} \X Q) = Cardinality(Q)
    <3>1. IsFiniteSet({g}) /\ Cardinality({g}) = 1 BY FS_Singleton
    <3>2. IsFiniteSet({g} \X Q) /\ Cardinality({g} \X Q) = Cardinality({g}) * Cardinality(Q)
      BY <1>6, <3>1, FS_Product
    <3> QED BY <1>6, <3>1, <3>2
  <2>9. Cardinality(Open \cup ({g} \X Q))
          = Cardinality(Open) + Cardinality({g} \X Q) - Cardinality(Open \cap ({g} \X Q))
    BY <2>1, <2>8, FS_Union
  <2>10. Cardinality(Open) \in Nat BY <2>1, FS_CardinalityType
  <2>11. Cardinality(Open') = Cardinality(Open) + Cardinality(Q)
    BY <1>6, <2>7, <2>8, <2>9, <2>10, FS_EmptySet
  <2>12. Busy = {} => Cardinality(Busy) = 0 BY FS_EmptySet
  <2>13. num_pending_gets' <= MaxPendingGets + Cardinality(Busy') - 1
    BY <1>1, <2>1, <2>6, <2>12, OptionsAssumption DEF BatcherInv, Tallied
  <2>14. num_pending_gets' = Cardinality(Pending') BY <1>1 DEF BatcherInv, Tallied, Pending
  <2>15. num_in_flight_keys' = Cardinality(Open') BY <1>1, <2>11 DEF BatcherInv, Tallied
  <2>16. Busy' # {} BY <2>5
  <2> QED BY <2>13, <2>14, <2>15, <2>16 DEF Tallied
<1>19. OneLookup'
  <2>1. SUFFICES ASSUME ~crowded'
        PROVE  /\ ~check_failed'
               /\ \A h, i \in Groups, k \in Keys :
                    lookup'[h][k] = "issued"
                      => in_flight'[k] # <<>> /\ (lookup'[i][k] = "issued" => h = i)
    BY DEF OneLookup
  <2>2. /\ ~check_failed
        /\ \A h, i \in Groups, k \in Keys :
             lookup[h][k] = "issued"
               => in_flight[k] # <<>> /\ (lookup[i][k] = "issued" => h = i)
    BY <1>1, <2>1 DEF BatcherInv, OneLookup
  <2>3. \A h \in Groups, k \in Q : lookup[h][k] # "issued" BY <1>3, <1>4, <2>2
  <2>4. \A h \in Groups, k \in Keys :
          lookup'[h][k] = "issued" <=> (IF k \in Q THEN h = g ELSE h # g /\ lookup[h][k] = "issued")
    BY <1>2, <1>7, <2>3
  <2>5. \A k \in Q : in_flight'[k] # <<>> BY <1>3, <1>8
  <2> QED BY <1>1, <1>8, <2>2, <2>4, <2>5
<1> QED BY <1>9, <1>11, <1>13, <1>16, <1>17, <1>18, <1>19 DEF BatcherInv

LEMMA ShutDownKeeps ==
  ASSUME BatcherInv, ShutDownBatcher, ~ShutsDownBusy
  PROVE  BatcherInv'
<1>1. /\ shut_down' = TRUE
      /\ UNCHANGED <<in_flight, queued, num_in_flight_groups, num_in_flight_keys,
                     num_pending_gets, outstanding, lookup, saved, completing, get,
                     check_failed, crowded>>
  BY DEF ShutDownBatcher, failureVars, countVars
<1>2. Listed' BY <1>1 DEF BatcherInv, Listed
<1>3. Placed' BY <1>1 DEF BatcherInv, Placed, InFlight, WaitsForLookup, InSaved
<1>4. Lookups' BY <1>1 DEF BatcherInv, Lookups, LookedUp
<1>5. GroupsCounted' BY <1>1 DEF BatcherInv, GroupsCounted, LookedUp, Taken, FreeSlots
<1>6. Queueing' BY <1>1 DEF BatcherInv, Queueing, NotQueuedInFlight, KeysIn, FreeSlots
<1>7. Tallied' BY <1>1 DEF BatcherInv, Tallied, Pending, Busy, Open
<1>8. OneLookup' BY <1>1 DEF BatcherInv, OneLookup
<1> QED BY <1>2, <1>3, <1>4, <1>5, <1>6, <1>7, <1>8 DEF BatcherInv

-----------------------------------------------------------------------------
LEMMA BatcherStarts == BatcherInit => BatcherInv
<1> SUFFICES ASSUME BatcherInit PROVE BatcherInv OBVIOUS
<1> USE DEF BatcherInit
<1>1. Listed BY EmptyList DEF Listed
<1>2. Placed
  BY EmptyList, KeyOfAssumption DEF Placed, InFlight, WaitsForLookup, InSaved
<1>3. \A g \in Groups : LookedUp(g) = {} BY DEF LookedUp
<1>4. Lookups BY <1>3, SlotFacts DEF Lookups
<1>5. GroupsCounted
  <2>1. Taken = {} BY SlotFacts DEF Taken, FreeSlots
  <2> QED BY <1>3, <2>1, FS_EmptySet DEF GroupsCounted
<1>6. Queueing BY DEF Queueing, NotQueuedInFlight, KeysIn
<1>7. Tallied
  <2>1. Pending = {} BY DEF Pending
  <2>2. Open = {} BY DEF Open, Unreported
  <2>3. Busy = {} BY SlotFacts DEF Busy, Unreported
  <2> QED BY <2>1, <2>2, <2>3, FS_EmptySet, OptionsAssumption DEF Tallied
<1>8. OneLookup BY DEF OneLookup
<1> QED BY <1>1, <1>2, <1>4, <1>5, <1>6, <1>7, <1>8 DEF BatcherInv

LEMMA BatcherStays == BatcherInv /\ UNCHANGED batcherVars => BatcherInv'
<1> SUFFICES ASSUME BatcherInv, UNCHANGED batcherVars PROVE BatcherInv' OBVIOUS
<1> USE DEF batcherVars, countVars, groupVars, failureVars
<1>1. Listed' BY DEF BatcherInv, Listed
<1>2. Placed' BY DEF BatcherInv, Placed, InFlight, WaitsForLookup, InSaved
<1>3. Lookups' BY DEF BatcherInv, Lookups, LookedUp
<1>4. GroupsCounted' BY DEF BatcherInv, GroupsCounted, LookedUp, Taken, FreeSlots
<1>5. Queueing' BY DEF BatcherInv, Queueing, NotQueuedInFlight, KeysIn, FreeSlots
<1>6. Tallied' BY DEF BatcherInv, Tallied, Pending, Busy, Open
<1>7. OneLookup' BY DEF BatcherInv, OneLookup
<1> QED BY <1>1, <1>2, <1>3, <1>4, <1>5, <1>6, <1>7 DEF BatcherInv

LEMMA BatcherSteps ==
  ~ShutsDownBusy /\ BatcherInv /\ [BatcherNext]_batcherVars => BatcherInv'
<1> SUFFICES ASSUME ~ShutsDownBusy, BatcherInv, [BatcherNext]_batcherVars PROVE BatcherInv'
  OBVIOUS
<1>1. ASSUME NEW c \in Gets,
             GetCoalesced(c) \/ GetImmediate(c) \/ GetQueued(c) \/ GetDropped(c)
      PROVE  BatcherInv'
  BY <1>1, GetCoalescedKeeps, GetImmediateKeeps, GetQueuedKeeps, GetDroppedKeeps
<1>2. ASSUME NEW g \in Groups, GroupComplete(g) PROVE BatcherInv'
  BY <1>2, SlotGivenUp, SlotPassedOn
<1>3. ASSUME NEW g \in Groups, NEW k \in Keys, Answer(g, k) PROVE BatcherInv'
  BY <1>3, ValidateCandidateKeeps, DoneKeeps, GroupDoneKeeps DEF Answer
<1>4. CASE ShutDownBatcher BY <1>4, ShutDownKeeps
<1>5. CASE UNCHANGED batcherVars BY <1>5, BatcherStays
<1> QED BY <1>1, <1>2, <1>3, <1>4, <1>5 DEF BatcherNext

\* The get's one place, counted.
LEMMA OnePlace ==
  ASSUME BatcherInv, NEW c \in Gets
  PROVE  Places(c) = IF get[c] = "waiting" THEN 1 ELSE 0
<1> DEFINE k == KeyOf[c]
           In == {g \in Groups : c \in Among(saved[g][k])}
<1>1. k \in Keys BY KeyOfAssumption
<1>2. /\ Occurs(c, in_flight[k]) = IF InFlight(c) THEN 1 ELSE 0
      /\ Occurs(c, queued[k]) = IF WaitsForLookup(c) THEN 1 ELSE 0
  BY <1>1, TimesOnce DEF BatcherInv, Listed, InFlight, WaitsForLookup
<1>3. Cardinality(In) = IF \E g \in Groups : InSaved(g, c) THEN 1 ELSE 0
  <2>1. CASE \E g \in Groups : InSaved(g, c)
    <3>1. PICK g \in Groups : InSaved(g, c) BY <2>1
    <3>2. In = {g} BY <3>1 DEF BatcherInv, Placed, InSaved
    <3> QED BY <2>1, <3>2, FS_Singleton
  <2>2. CASE ~ \E g \in Groups : InSaved(g, c)
    <3>1. In = {} BY <2>2 DEF InSaved
    <3> QED BY <2>2, <3>1, FS_EmptySet
  <2> QED BY <2>1, <2>2
<1>4. Places(c) = Occurs(c, in_flight[k]) + Occurs(c, queued[k]) + Cardinality(In)
  BY DEF Places
<1> HIDE DEF In
<1> QED BY <1>2, <1>3, <1>4 DEF BatcherInv, Placed

LEMMA BatcherIsAccounted == BatcherInv => GetsAccounted
<1> SUFFICES ASSUME BatcherInv PROVE GetsAccounted OBVIOUS
<1>1. /\ IsFiniteSet(Pending) /\ Cardinality(Pending) \in Nat /\ Cardinality(Open) \in Nat
      /\ Cardinality(Busy) \in Nat
  BY CountedSets DEF BatcherInv
<1>2. BatcherTypeOK
  <2>1. num_in_flight_groups \in 0..MaxParallelLookups
    <3>1. Taken \in SUBSET Slots BY DEF Taken
    <3>2. Cardinality(Taken) \in Nat /\ Cardinality(Taken) <= MaxParallelLookups
      BY <3>1, SlotFacts, FS_Subset, FS_CardinalityType
    <3> QED BY <3>2, OptionsAssumption DEF BatcherInv, GroupsCounted
  <2>2. num_pending_gets \in 0..(MaxPendingGets + MaxParallelLookups - 1)
    <3>1. Busy \in SUBSET Slots BY DEF Busy
    <3>2. Cardinality(Busy) <= MaxParallelLookups
      BY <3>1, SlotFacts, FS_Subset
    <3> QED BY <1>1, <3>2, OptionsAssumption DEF BatcherInv, Tallied
  <2>3. num_in_flight_keys \in Nat BY <1>1 DEF BatcherInv, Tallied
  <2>4. completing \subseteq Groups BY SlotFacts DEF BatcherInv, GroupsCounted
  <2> QED BY <2>1, <2>2, <2>3, <2>4
          DEF BatcherTypeOK, BatcherInv, Listed, Lookups, GroupsCounted
<1>3. WaitsInOnePlace BY OnePlace DEF WaitsInOnePlace
<1>4. PendingCounted
  BY DEF BatcherInv, Tallied, Pending, Open, Unreported, PendingCounted
<1>5. NotQueuedInFlight BY DEF BatcherInv, Queueing
<1>6. QueuedBehindGroups
  <2>1. FreeSlots = {} => Slots \ FreeSlots = Slots OBVIOUS
  <2> QED BY <2>1, SlotFacts DEF BatcherInv, Queueing, QueuedBehindGroups
<1> QED BY <1>2, <1>3, <1>4, <1>5, <1>6 DEF GetsAccounted

\* Without a ShutDown that finds gets queued, every get that waits is in one list,
\* every list has a lookup or a group that will look at the queue, and the
\* counters count them.
THEOREM BatcherInvariance == ~ShutsDownBusy => (BatcherSpec => []BatcherInv)
<1> SUFFICES ASSUME ~ShutsDownBusy PROVE BatcherSpec => []BatcherInv OBVIOUS
<1>1. BatcherInit => BatcherInv BY BatcherStarts
<1>2. BatcherInv /\ [BatcherNext]_batcherVars => BatcherInv' BY BatcherSteps
<1> QED BY <1>1, <1>2, PTL DEF BatcherSpec

\* CacheBatcher::Get, Done and GroupComplete: a get is never lost and never
\* answered twice, the counters are right, and the gets that wait are never more
\* than max_pending_gets and one for each other parallel lookup.
THEOREM AlwaysAccounted == ~ShutsDownBusy => (BatcherSpec => []GetsAccounted)
<1> SUFFICES ASSUME ~ShutsDownBusy PROVE BatcherSpec => []GetsAccounted OBVIOUS
<1> QED BY BatcherInvariance, BatcherIsAccounted, PTL

\* The CHECK of ExtractInFlightKeys holds as long as no key that was in flight
\* was given a second lookup.
THEOREM CheckNeedsCrowding == ~ShutsDownBusy => (BatcherSpec => []ExtractFinds)
<1> SUFFICES ASSUME ~ShutsDownBusy PROVE BatcherSpec => []ExtractFinds OBVIOUS
<1>1. BatcherInv => ExtractFinds BY DEF BatcherInv, OneLookup, ExtractFinds
<1> QED BY <1>1, BatcherInvariance, PTL

\* With one lookup at a time, as system_caches.cc sets up for memcached and Redis,
\* a key is never given a second one.
LEMMA OneSlotSteps ==
  ASSUME MaxParallelLookups = 1, BatcherInv, ~crowded, [BatcherNext]_batcherVars
  PROVE  ~crowded'
<1>1. ASSUME NEW c \in Gets, GetImmediate(c) PROVE ~crowded'
  <2>1. FreeSlots # {} BY <1>1, FreeSlotFacts DEF GetImmediate, CanIssueGet
  <2>2. \A g \in Groups : \A k \in Keys : lookup[g][k] = "none"
    <3>1. Slots = {1} BY DEF Slots
    <3>2. 1 \in FreeSlots BY <2>1, <3>1 DEF FreeSlots
    <3>3. \A k \in Keys : lookup[1][k] = "none" BY <3>2, FreeSlotFacts
    <3>4. \A k \in Keys : lookup[ShutDownGroup][k] = "none"
      BY DEF BatcherInv, Lookups, LookedUp
    <3> QED BY <3>1, <3>3, <3>4, SlotFacts
  <2>3. in_flight[KeyOf[c]] = <<>> BY <2>2, KeyOfAssumption DEF BatcherInv, Lookups
  <2> QED BY <1>1, <2>3 DEF GetImmediate
<1>2. CASE crowded' = crowded BY <1>2
<1>3. ASSUME NEW c \in Gets, GetCoalesced(c) \/ GetQueued(c) \/ GetDropped(c)
      PROVE  crowded' = crowded
  BY <1>3 DEF GetCoalesced, GetQueued, GetDropped, failureVars
<1>4. ASSUME NEW g \in Groups, GroupComplete(g) PROVE crowded' = crowded
  BY <1>4 DEF GroupComplete, failureVars
<1>5. ASSUME NEW g \in Groups, NEW k \in Keys, Answer(g, k) PROVE crowded' = crowded
  BY <1>5 DEF Answer, ValidateCandidate, Done, GroupDone, failureVars
<1>6. CASE ShutDownBatcher BY <1>6 DEF ShutDownBatcher, failureVars
<1>7. CASE UNCHANGED batcherVars BY <1>7 DEF batcherVars, failureVars
<1> QED BY <1>1, <1>2, <1>3, <1>4, <1>5, <1>6, <1>7 DEF BatcherNext

\* system_caches.cc:
\* so the CHECK of ExtractInFlightKeys never fails there.
THEOREM OneSlotNeverFails ==
  ~ShutsDownBusy /\ MaxParallelLookups = 1 => (BatcherSpec => []~check_failed)
<1> SUFFICES ASSUME ~ShutsDownBusy, MaxParallelLookups = 1
             PROVE  BatcherSpec => []~check_failed
  OBVIOUS
<1> DEFINE I == BatcherInv /\ ~crowded
<1>1. BatcherInit => I BY BatcherStarts DEF BatcherInit
<1>2. I /\ [BatcherNext]_batcherVars => I' BY BatcherSteps, OneSlotSteps
<1>3. I => ~check_failed BY DEF BatcherInv, OneLookup
<1> QED BY <1>1, <1>2, <1>3, PTL DEF BatcherSpec

-----------------------------------------------------------------------------
(* The SharedMemCache.                                                     *)

\* What a sector is made of, with the blocks in hand of an operation that is
\* moving them, and with e, an entry whose place in the LRU list is open.
SectorType == [entry : [Entries -> EntryOf], lru : Seq(Entries), free : Seq(Blocks)]
Owned(s, e) == ToSet(s.entry[e].blocks)
Partition(s, hand) ==
  /\ \A b \in Blocks : \/ b \in ToSet(s.free) \/ b \in ToSet(hand)
                       \/ \E e \in Entries : b \in Owned(s, e)
  /\ IsInjective(s.free) /\ IsInjective(hand)
  /\ ToSet(s.free) \cap ToSet(hand) = {}
  /\ \A e \in Entries :
       /\ IsInjective(s.entry[e].blocks)
       /\ Owned(s, e) \cap ToSet(s.free) = {} /\ Owned(s, e) \cap ToSet(hand) = {}
  /\ \A e, f \in Entries : e # f => Owned(s, e) \cap Owned(s, f) = {}
ListedBut(s, e) ==
  /\ IsInjective(s.lru)
  /\ \A f \in Entries \ {e} : f \in ToSet(s.lru) <=> s.entry[f].hash # Nil
Vacant(s) ==
  \A e \in Entries :
    s.entry[e].hash = Nil =>
      s.entry[e].blocks = <<>> /\ ~s.entry[e].creating /\ s.entry[e].open_count = 0
SectorOK(s, hand, e) ==
  /\ s \in SectorType /\ hand \in Seq(Blocks)
  /\ Partition(s, hand) /\ ListedBut(s, e) /\ Vacant(s)

\* An entry has what it had, or was freed while nobody used it.
KeptOrFreed(s, t, f) ==
  \/ t.entry[f] = s.entry[f]
  \/ Writeable(s.entry[f]) /\ t.entry[f] = FreeEntry

\* A process at work is at an entry of the hash it works for, and copies its
\* value in only where nobody reads.
AtIt(s, x) ==
  /\ x.op = "idle" => x = Idle
  /\ x.op # "idle" => /\ x.entry \in Entries /\ x.key \in Hashes
                      /\ s.entry[x.entry].hash = x.key
  /\ x.op \in {"write", "await_put"} => x.value \in Values /\ Size[x.value] <= MaxBlocks
  /\ x.op = "await_put" => x.time \in Times
  /\ x.op = "write" => s.entry[x.entry].open_count = 0

\* A writer has its value in the blocks it has copied, and goes on to the others.
Copied(s, d, x) ==
  LET blocks == s.entry[x.entry].blocks
      done == Len(blocks) - Len(x.blocks)
  IN  /\ Len(blocks) = Size[x.value] /\ Len(x.blocks) <= Len(blocks)
      /\ \A j \in 1..Len(x.blocks) : x.blocks[j] = blocks[done + j]
      /\ \A i \in 1..done : d[blocks[i]] = Portion(x.key, x.value, i)
Working(s, d, x) == AtIt(s, x) /\ (x.op = "write" => Copied(s, d, x))

\* An entry in use that is not being written holds one whole value of its key.
Whole(s, d, e) ==
  s.entry[e].hash # Nil /\ ~s.entry[e].creating =>
    \E v \in Values :
      /\ Size[v] <= MaxBlocks /\ Len(s.entry[e].blocks) = Size[v]
      /\ \A i \in 1..Size[v] : d[s.entry[e].blocks[i]] = Portion(s.entry[e].hash, v, i)

\* The creating bit is one writer, W, or one of the n that were killed.
OneWriter(W, n, busy) ==
  IF busy THEN (W = {} /\ n = 1) \/ (n = 0 /\ \E p \in W : W = {p}) ELSE W = {} /\ n = 0
Locks(e) ==
  /\ OneWriter(Writers(e), lost[e].writers, sector.entry[e].creating)
  /\ sector.entry[e].open_count = Cardinality(Readers(e)) + lost[e].readers

\* An entry can be found by its hash.
InPosition ==
  \A e \in Entries :
    sector.entry[e].hash # Nil => e \in ToSet(Position[sector.entry[e].hash])

\* A sector with nothing in hand and its list complete.
Settled(s) ==
  /\ s \in SectorType /\ Partition(s, <<>>) /\ IsInjective(s.lru)
  /\ ToSet(s.lru) = {e \in Entries : s.entry[e].hash # Nil} /\ Vacant(s)

\* SectorConsistent with what each process and each entry is up to.
SectorInv ==
  /\ SectorTypeOK /\ Settled(sector) /\ NoSecondCopy /\ InPosition
  /\ \A p \in Procs : Working(sector, data, proc[p])
  /\ \A e \in Entries : Locks(e) /\ Whole(sector, data, e)

-----------------------------------------------------------------------------
(* Sequences without repetitions.                                          *)

LEMMA LeastOf ==
  ASSUME NEW T, T \subseteq Nat, T # {} PROVE \E n \in T : \A m \in T : n <= m
<1> DEFINE Less == {p \in Nat \X Nat : p[1] < p[2]}
<1>1. IsWellFoundedOn(Less, Nat) BY NatLessThanWellFounded DEF OpToRel
<1>2. PICK n \in T : \A m \in T : ~(<<m, n>> \in Less)
  <2> HIDE DEF Less
  <2> QED BY <1>1, WFMin
<1>3. \A m \in T : n <= m
  <2>1. SUFFICES ASSUME NEW m \in T PROVE n <= m OBVIOUS
  <2>2. n \in Nat /\ m \in Nat OBVIOUS
  <2>3. ~(m < n) BY <1>2, <2>2
  <2> QED BY <2>2, <2>3
<1> QED BY <1>3

LEMMA MaxOf ==
  ASSUME NEW N \in Nat, NEW T, T \subseteq 1..N, T # {} PROVE Max(T) \in T
<1> DEFINE Left == {N - n : n \in T}
<1>1. Left \subseteq Nat /\ Left # {}
  <2>1. \A n \in T : N - n \in Nat OBVIOUS
  <2> QED BY <2>1
<1>2. PICK l \in Left : \A m \in Left : l <= m
  <2> HIDE DEF Left
  <2> QED BY <1>1, LeastOf
<1>3. PICK n \in T : l = N - n BY <1>2
<1>4. \A m \in T : n >= m
  <2>1. SUFFICES ASSUME NEW m \in T PROVE n >= m OBVIOUS
  <2>2. N - m \in Left OBVIOUS
  <2>3. l <= N - m BY <1>2, <2>2
  <2> QED BY <1>3, <2>3
<1> QED BY <1>3, <1>4 DEF Max

LEMMA ToSetFacts ==
  ASSUME NEW S, NEW s \in Seq(S)
  PROVE  /\ DOMAIN s = 1..Len(s) /\ Len(s) \in Nat
         /\ ToSet(s) \subseteq S /\ \A x : x \in ToSet(s) <=> \E i \in 1..Len(s) : s[i] = x
         /\ s = <<>> => ToSet(s) = {}
         /\ \A i \in 1..Len(s) : s[i] \in ToSet(s)
<1>1. DOMAIN s = 1..Len(s) /\ Len(s) \in Nat OBVIOUS
<1> QED BY <1>1 DEF ToSet

LEMMA EmptySeqFacts ==
  ASSUME NEW S
  PROVE  <<>> \in Seq(S) /\ ToSet(<<>>) = {} /\ IsInjective(<<>>) /\ Len(<<>>) = 0
BY DEF ToSet, IsInjective

LEMMA ConcatFacts ==
  ASSUME NEW S, NEW s \in Seq(S), NEW t \in Seq(S)
  PROVE  /\ s \o t \in Seq(S) /\ Len(s \o t) = Len(s) + Len(t)
         /\ ToSet(s \o t) = ToSet(s) \cup ToSet(t)
         /\ IsInjective(s) /\ IsInjective(t) /\ ToSet(s) \cap ToSet(t) = {}
              => IsInjective(s \o t)
<1> DEFINE u == s \o t
<1>1. /\ u \in Seq(S) /\ Len(u) = Len(s) + Len(t) /\ Len(s) \in Nat /\ Len(t) \in Nat
      /\ DOMAIN u = 1..(Len(s) + Len(t)) /\ DOMAIN s = 1..Len(s) /\ DOMAIN t = 1..Len(t)
      /\ \A i \in 1..(Len(s) + Len(t)) :
           u[i] = IF i <= Len(s) THEN s[i] ELSE t[i - Len(s)]
  OBVIOUS
<1> HIDE DEF u
<1>2. \A i \in 1..Len(s) : i \in DOMAIN u /\ u[i] = s[i] BY <1>1
<1>3. \A i \in 1..Len(t) : Len(s) + i \in DOMAIN u /\ u[Len(s) + i] = t[i] BY <1>1
<1>4. \A i \in DOMAIN u : \/ i \in 1..Len(s) /\ u[i] = s[i]
                          \/ i - Len(s) \in 1..Len(t) /\ u[i] = t[i - Len(s)]
  BY <1>1
<1>5. ToSet(u) = ToSet(s) \cup ToSet(t)
  <2>1. ASSUME NEW x \in ToSet(s) PROVE x \in ToSet(u)
    BY <1>1, <1>2, <2>1 DEF ToSet
  <2>2. ASSUME NEW x \in ToSet(t) PROVE x \in ToSet(u)
    BY <1>1, <1>3, <2>2 DEF ToSet
  <2>3. ASSUME NEW x \in ToSet(u) PROVE x \in ToSet(s) \cup ToSet(t)
    BY <1>1, <1>4, <2>3 DEF ToSet
  <2> QED BY <2>1, <2>2, <2>3
<1>6. ASSUME IsInjective(s), IsInjective(t), ToSet(s) \cap ToSet(t) = {},
             NEW i \in DOMAIN u, NEW j \in DOMAIN u, u[i] = u[j]
      PROVE  i = j
  <2>1. CASE i \in 1..Len(s) /\ j \in 1..Len(s)
    BY <1>1, <1>2, <1>6, <2>1 DEF IsInjective
  <2>2. CASE i - Len(s) \in 1..Len(t) /\ j - Len(s) \in 1..Len(t)
    <3>1. t[i - Len(s)] = t[j - Len(s)]
      BY <1>1, <1>6, <2>2
    <3>2. i - Len(s) = j - Len(s) BY <1>1, <1>6, <2>2, <3>1 DEF IsInjective
    <3> QED BY <1>1, <3>2
  <2>3. CASE i \in 1..Len(s) /\ j - Len(s) \in 1..Len(t)
    <3>1. u[i] = s[i] /\ u[j] = t[j - Len(s)] BY <1>1, <2>3
    <3> QED BY <1>1, <1>6, <2>3, <3>1 DEF ToSet
  <2>4. CASE j \in 1..Len(s) /\ i - Len(s) \in 1..Len(t)
    <3>1. u[j] = s[j] /\ u[i] = t[i - Len(s)] BY <1>1, <2>4
    <3> QED BY <1>1, <1>6, <2>4, <3>1 DEF ToSet
  <2> QED BY <1>1, <1>4, <2>1, <2>2, <2>3, <2>4
<1>7. IsInjective(s) /\ IsInjective(t) /\ ToSet(s) \cap ToSet(t) = {} => IsInjective(u)
  BY <1>6 DEF IsInjective
<1> QED BY <1>1, <1>5, <1>7 DEF u

\* A sequence cut in two.
LEMMA CutFacts ==
  ASSUME NEW S, NEW s \in Seq(S), NEW n \in 0..Len(s)
  PROVE  LET a == SubSeq(s, 1, n)
             b == SubSeq(s, n + 1, Len(s))
         IN  /\ a \in Seq(S) /\ b \in Seq(S) /\ Len(a) = n /\ Len(b) = Len(s) - n
             /\ \A i \in 1..n : a[i] = s[i]
             /\ \A i \in 1..(Len(s) - n) : b[i] = s[n + i]
             /\ ToSet(s) = ToSet(a) \cup ToSet(b)
             /\ IsInjective(s) => /\ IsInjective(a) /\ IsInjective(b)
                                  /\ ToSet(a) \cap ToSet(b) = {}
<1> DEFINE a == SubSeq(s, 1, n)
           b == SubSeq(s, n + 1, Len(s))
<1>1. /\ a \in Seq(S) /\ Len(a) = n /\ DOMAIN a = 1..n /\ \A i \in 1..n : a[i] = s[i]
      /\ DOMAIN s = 1..Len(s) /\ Len(s) \in Nat
  OBVIOUS
<1>2. /\ b \in Seq(S) /\ Len(b) = Len(s) - n /\ DOMAIN b = 1..(Len(s) - n)
      /\ \A i \in 1..(Len(s) - n) : b[i] = s[n + i]
  OBVIOUS
<1> HIDE DEF a, b
<1>3. ToSet(s) = ToSet(a) \cup ToSet(b)
  <2>1. ASSUME NEW x \in ToSet(s) PROVE x \in ToSet(a) \cup ToSet(b)
    <3>1. PICK i \in 1..Len(s) : s[i] = x BY <1>1, <2>1 DEF ToSet
    <3>2. CASE i <= n BY <1>1, <3>1, <3>2 DEF ToSet
    <3>3. CASE i > n
      <4>1. i - n \in 1..(Len(s) - n) /\ n + (i - n) = i BY <1>1, <3>1, <3>3
      <4>2. b[i - n] = x BY <1>2, <3>1, <4>1
      <4> QED BY <1>2, <4>1, <4>2 DEF ToSet
    <3> QED BY <1>1, <3>2, <3>3
  <2>2. ASSUME NEW x \in ToSet(a) PROVE x \in ToSet(s)
    BY <1>1, <2>2 DEF ToSet
  <2>3. ASSUME NEW x \in ToSet(b) PROVE x \in ToSet(s)
    <3>1. PICK i \in 1..(Len(s) - n) : b[i] = x BY <1>2, <2>3 DEF ToSet
    <3>2. n + i \in 1..Len(s) /\ s[n + i] = x BY <1>1, <1>2, <3>1
    <3> QED BY <1>1, <3>2 DEF ToSet
  <2> QED BY <2>1, <2>2, <2>3
<1>4. ASSUME IsInjective(s)
      PROVE  IsInjective(a) /\ IsInjective(b) /\ ToSet(a) \cap ToSet(b) = {}
  <2>1. IsInjective(a) BY <1>1, <1>4 DEF IsInjective
  <2>2. IsInjective(b)
    <3>1. ASSUME NEW i \in 1..(Len(s) - n), NEW j \in 1..(Len(s) - n), b[i] = b[j]
          PROVE  i = j
      <4>1. s[n + i] = s[n + j] /\ n + i \in 1..Len(s) /\ n + j \in 1..Len(s)
        BY <1>1, <1>2, <3>1
      <4>2. n + i = n + j BY <1>1, <1>4, <4>1 DEF IsInjective
      <4> QED BY <4>2
    <3> QED BY <1>2, <3>1 DEF IsInjective
  <2>3. ASSUME NEW x \in ToSet(a), x \in ToSet(b) PROVE FALSE
    <3>1. PICK i \in 1..n : a[i] = x BY <1>1, <2>3 DEF ToSet
    <3>2. PICK j \in 1..(Len(s) - n) : b[j] = x BY <1>2, <2>3 DEF ToSet
    <3>3. s[i] = s[n + j] /\ i \in 1..Len(s) /\ n + j \in 1..Len(s) /\ i # n + j
      BY <1>1, <1>2, <3>1, <3>2
    <3> QED BY <1>1, <1>4, <3>3 DEF IsInjective
  <2> QED BY <2>1, <2>2, <2>3
<1> QED BY <1>1, <1>2, <1>3, <1>4 DEF a, b

LEMMA ReverseFacts ==
  ASSUME NEW S, NEW s \in Seq(S)
  PROVE  /\ Reverse(s) \in Seq(S) /\ ToSet(Reverse(s)) = ToSet(s)
         /\ IsInjective(s) => IsInjective(Reverse(s))
<1> DEFINE r == Reverse(s)
<1>1. /\ DOMAIN r = 1..Len(s) /\ Len(s) \in Nat /\ DOMAIN s = 1..Len(s)
      /\ \A i \in 1..Len(s) : r[i] = s[Len(s) - i + 1] /\ Len(s) - i + 1 \in 1..Len(s)
      /\ r \in Seq(S)
  BY DEF Reverse
<1> HIDE DEF r
<1>2. ToSet(r) \subseteq ToSet(s) BY <1>1 DEF ToSet
<1>3. ASSUME NEW x \in ToSet(s) PROVE x \in ToSet(r)
  <2>1. PICK i \in 1..Len(s) : s[i] = x BY <1>1, <1>3 DEF ToSet
  <2>2. Len(s) - i + 1 \in 1..Len(s) /\ r[Len(s) - i + 1] = x BY <1>1, <2>1
  <2> QED BY <1>1, <2>2 DEF ToSet
<1>4. ASSUME IsInjective(s), NEW i \in 1..Len(s), NEW j \in 1..Len(s), r[i] = r[j]
      PROVE  i = j
  <2>1. Len(s) - i + 1 = Len(s) - j + 1 BY <1>1, <1>4 DEF IsInjective
  <2> QED BY <1>1, <2>1
<1>5. IsInjective(s) => IsInjective(r) BY <1>1, <1>4 DEF IsInjective
<1> QED BY <1>1, <1>2, <1>3, <1>5 DEF r

\* UnlinkEntryFromLRU.
LEMMA UnlinkedFacts ==
  ASSUME NEW lru \in Seq(Entries), IsInjective(lru), NEW e \in Entries
  PROVE  /\ Unlinked(lru, e) \in Seq(Entries) /\ IsInjective(Unlinked(lru, e))
         /\ ToSet(Unlinked(lru, e)) = ToSet(lru) \ {e}
<1>1. CASE e \notin ToSet(lru) BY <1>1 DEF Unlinked
<1>2. CASE e \in ToSet(lru)
  <2> DEFINE i == CHOOSE i \in DOMAIN lru : lru[i] = e
             n == Len(lru)
             a == SubSeq(lru, 1, i - 1)
             x == SubSeq(lru, 1, i)
             c == SubSeq(lru, i + 1, n)
  <2>1. i \in 1..n /\ lru[i] = e /\ n \in Nat BY <1>2, ToSetFacts DEF ToSet
  <2>2. Unlinked(lru, e) = a \o c BY <1>2 DEF Unlinked, RemoveAt
  <2> HIDE DEF i
  <2>3. i - 1 \in 0..n /\ i \in 0..n BY <2>1
  <2>4. /\ a \in Seq(Entries) /\ IsInjective(a) /\ Len(a) = i - 1
        /\ \A j \in 1..(i - 1) : a[j] = lru[j]
    BY <2>3, CutFacts
  <2>5. /\ x \in Seq(Entries) /\ Len(x) = i /\ IsInjective(x)
        /\ \A j \in 1..i : x[j] = lru[j]
        /\ c \in Seq(Entries) /\ IsInjective(c)
        /\ ToSet(lru) = ToSet(x) \cup ToSet(c) /\ ToSet(x) \cap ToSet(c) = {}
    BY <2>3, CutFacts
  <2> HIDE DEF a, x, c
  <2>6. ToSet(x) = ToSet(a) \cup {e} /\ e \notin ToSet(a)
    <3>1. ASSUME NEW y \in ToSet(x) PROVE y \in ToSet(a) \cup {e}
      <4>1. PICK j \in 1..i : x[j] = y BY <2>5, <3>1, ToSetFacts
      <4>2. CASE j = i BY <2>1, <2>5, <4>1, <4>2
      <4>3. CASE j # i
        <5>1. j \in 1..(i - 1) /\ a[j] = y BY <2>1, <2>4, <2>5, <4>1, <4>3
        <5> QED BY <2>4, <5>1, ToSetFacts
      <4> QED BY <4>2, <4>3
    <3>2. ASSUME NEW y \in ToSet(a) PROVE y \in ToSet(x) /\ y # e
      <4>1. PICK j \in 1..(i - 1) : a[j] = y BY <2>4, <3>2, ToSetFacts
      <4>2. j \in 1..i /\ x[j] = y /\ j # i /\ i \in 1..i BY <2>1, <2>4, <2>5, <4>1
      <4>3. y \in ToSet(x) BY <2>5, <4>2, ToSetFacts
      <4>4. x[i] = e BY <2>1, <2>5, <4>2
      <4>5. DOMAIN x = 1..i BY <2>1, <2>5
      <4> QED BY <2>5, <4>2, <4>3, <4>4, <4>5 DEF IsInjective
    <3>3. e \in ToSet(x)
      <4>1. i \in 1..i /\ x[i] = e BY <2>1, <2>5
      <4> QED BY <2>5, <4>1, ToSetFacts
    <3> QED BY <3>1, <3>2, <3>3
  <2>7. ToSet(a) \cap ToSet(c) = {} BY <2>5, <2>6
  <2>8. /\ a \o c \in Seq(Entries) /\ IsInjective(a \o c)
        /\ ToSet(a \o c) = ToSet(a) \cup ToSet(c)
    BY <2>4, <2>5, <2>7, ConcatFacts
  <2> QED BY <2>2, <2>5, <2>6, <2>8
<1> QED BY <1>1, <1>2

-----------------------------------------------------------------------------
(* The sector's own operations.                                            *)

LEMMA SizesAreNat ==
  /\ DataBlocks \in Nat /\ MaxBlocks \in Nat /\ IsFiniteSet(Procs)
  /\ IsFiniteSet(Entries) /\ Cardinality(Entries) \in Nat
  /\ \A v \in Values : Size[v] \in Nat
  /\ Nil \notin Hashes /\ Nil \notin Entries /\ Times \subseteq Nat \ {0}
  /\ FreeEntry \in EntryOf
<1>1. IsFiniteSet(Entries) /\ Cardinality(Entries) \in Nat
  BY GeometryAssumption, FS_CardinalityType
<1>2. FreeEntry \in EntryOf BY DEF FreeEntry, EntryOf
<1> QED BY <1>1, <1>2, GeometryAssumption, LimitAssumption, NilAssumption

LEMMA SectorFields ==
  ASSUME NEW s \in SectorType
  PROVE  /\ s.lru \in Seq(Entries) /\ s.free \in Seq(Blocks)
         /\ s.entry \in [Entries -> EntryOf]
         /\ \A e \in Entries :
              /\ s.entry[e] \in EntryOf
              /\ s.entry[e].hash \in Hashes \cup {Nil} /\ s.entry[e].blocks \in Seq(Blocks)
              /\ s.entry[e].open_count \in Nat /\ s.entry[e].creating \in BOOLEAN
              /\ s.entry[e].last_use \in Times \cup {0}
              /\ Owned(s, e) \subseteq Blocks
<1>1. /\ s.lru \in Seq(Entries) /\ s.free \in Seq(Blocks)
      /\ s.entry \in [Entries -> EntryOf]
  BY DEF SectorType
<1>2. \A e \in Entries :
        /\ s.entry[e] \in EntryOf
        /\ s.entry[e].hash \in Hashes \cup {Nil} /\ s.entry[e].blocks \in Seq(Blocks)
        /\ s.entry[e].open_count \in Nat /\ s.entry[e].creating \in BOOLEAN
        /\ s.entry[e].last_use \in Times \cup {0}
  BY <1>1 DEF EntryOf
<1>3. \A e \in Entries : Owned(s, e) \subseteq Blocks
  BY <1>2, ToSetFacts DEF Owned
<1> QED BY <1>1, <1>2, <1>3

LEMMA MarkEntryFreeFacts ==
  ASSUME NEW s \in SectorType, IsInjective(s.lru), NEW e \in Entries
  PROVE  LET t == MarkEntryFree(s, e)
         IN  /\ t \in SectorType /\ t.free = s.free
             /\ \A f \in Entries : f # e => t.entry[f] = s.entry[f]
             /\ t.entry[e].hash = Nil /\ t.entry[e].blocks = <<>> /\ t.entry[e].last_use = 0
             /\ t.entry[e].open_count = s.entry[e].open_count
             /\ t.entry[e].creating = s.entry[e].creating
             /\ Writeable(s.entry[e]) => t.entry[e] = FreeEntry
             /\ IsInjective(t.lru) /\ ToSet(t.lru) = ToSet(s.lru) \ {e}
<1> DEFINE t == MarkEntryFree(s, e)
           x == [s.entry[e] EXCEPT !.hash = Nil, !.blocks = <<>>, !.last_use = 0]
<1>1. t = [s EXCEPT !.lru = Unlinked(s.lru, e), !.entry = [s.entry EXCEPT ![e] = x]]
  BY DEF MarkEntryFree
<1>2. /\ t.lru = Unlinked(s.lru, e) /\ t.free = s.free
      /\ t.entry = [s.entry EXCEPT ![e] = x]
  BY <1>1 DEF SectorType
<1>3. x \in EntryOf /\ x.hash = Nil /\ x.blocks = <<>> /\ x.last_use = 0
      /\ x.open_count = s.entry[e].open_count /\ x.creating = s.entry[e].creating
  BY SectorFields, EmptySeqFacts DEF EntryOf
<1>4. Writeable(s.entry[e]) => x = FreeEntry
  <2>1. SUFFICES ASSUME Writeable(s.entry[e]) PROVE x = FreeEntry OBVIOUS
  <2>2. x \in EntryOf BY <1>3
  <2>3. x.open_count = 0 /\ x.creating = FALSE
    BY <1>3, <2>1, SectorFields DEF Writeable
  <2>4. /\ x.hash = Nil /\ x.blocks = <<>> /\ x.last_use = 0 BY <1>3
  <2> HIDE DEF x
  <2>5. x = [hash |-> x.hash, blocks |-> x.blocks, open_count |-> x.open_count,
             creating |-> x.creating, last_use |-> x.last_use]
    BY <2>2 DEF EntryOf
  <2> QED BY <2>3, <2>4, <2>5 DEF FreeEntry
<1>5. /\ Unlinked(s.lru, e) \in Seq(Entries) /\ IsInjective(Unlinked(s.lru, e))
      /\ ToSet(Unlinked(s.lru, e)) = ToSet(s.lru) \ {e}
  BY SectorFields, UnlinkedFacts
<1> HIDE DEF x
<1>6. t.entry[e] = x /\ \A f \in Entries : f # e => t.entry[f] = s.entry[f]
  BY <1>2, SectorFields
<1>7. t \in SectorType
  BY <1>1, <1>3, <1>5, SectorFields DEF SectorType
<1> QED BY <1>2, <1>3, <1>4, <1>5, <1>6, <1>7

LEMMA TouchEntryFacts ==
  ASSUME NEW s \in SectorType, IsInjective(s.lru), NEW e \in Entries, NEW time \in Times
  PROVE  LET t == TouchEntry(s, e, time)
         IN  /\ t \in SectorType /\ t.free = s.free
             /\ \A f \in Entries : f # e => t.entry[f] = s.entry[f]
             /\ t.entry[e].hash = s.entry[e].hash /\ t.entry[e].blocks = s.entry[e].blocks
             /\ t.entry[e].open_count = s.entry[e].open_count
             /\ t.entry[e].creating = s.entry[e].creating
             /\ IsInjective(t.lru) /\ ToSet(t.lru) = ToSet(s.lru) \cup {e}
<1> DEFINE t == TouchEntry(s, e, time)
           x == [s.entry[e] EXCEPT !.last_use = time]
           l == <<e>> \o Unlinked(s.lru, e)
<1>1. t = [s EXCEPT !.lru = l, !.entry = [s.entry EXCEPT ![e] = x]]
  BY DEF TouchEntry
<1>2. t.lru = l /\ t.free = s.free /\ t.entry = [s.entry EXCEPT ![e] = x]
  BY <1>1 DEF SectorType
<1>3. /\ x \in EntryOf /\ x.hash = s.entry[e].hash /\ x.blocks = s.entry[e].blocks
      /\ x.open_count = s.entry[e].open_count /\ x.creating = s.entry[e].creating
  BY SectorFields DEF EntryOf
<1>4. /\ Unlinked(s.lru, e) \in Seq(Entries) /\ IsInjective(Unlinked(s.lru, e))
      /\ ToSet(Unlinked(s.lru, e)) = ToSet(s.lru) \ {e}
  BY SectorFields, UnlinkedFacts
<1>5. <<e>> \in Seq(Entries) /\ ToSet(<<e>>) = {e} /\ IsInjective(<<e>>)
  BY DEF ToSet, IsInjective
<1>6. l \in Seq(Entries) /\ IsInjective(l) /\ ToSet(l) = ToSet(s.lru) \cup {e}
  <2> DEFINE u == Unlinked(s.lru, e)
             one == <<e>>
  <2>1. u \in Seq(Entries) /\ IsInjective(u) /\ ToSet(u) = ToSet(s.lru) \ {e} BY <1>4
  <2>2. l = one \o u OBVIOUS
  <2>3. one \in Seq(Entries) /\ ToSet(one) = {e} /\ IsInjective(one) BY <1>5
  <2> HIDE DEF u, l, one
  <2>4. ToSet(one) \cap ToSet(u) = {} BY <2>1, <2>3
  <2>5. /\ one \o u \in Seq(Entries) /\ IsInjective(one \o u)
        /\ ToSet(one \o u) = ToSet(one) \cup ToSet(u)
    BY <2>1, <2>3, <2>4, ConcatFacts
  <2> QED BY <2>1, <2>2, <2>3, <2>5
<1> HIDE DEF x, l
<1>7. t.entry[e] = x /\ \A f \in Entries : f # e => t.entry[f] = s.entry[f]
  BY <1>2, SectorFields
<1>8. t \in SectorType
  BY <1>1, <1>3, <1>6, SectorFields DEF SectorType
<1> QED BY <1>2, <1>3, <1>6, <1>7, <1>8

\* One round of the loop of TryAllocateBlocks.
LEMMA TakeOldestKeeps ==
  ASSUME NEW s, NEW hand, NEW e \in Entries, SectorOK(s, hand, e),
         s.entry[e].creating, Victims(s) # {},
         NEW got, got.sector = s, got.blocks = hand
  PROVE  /\ SectorOK(TakeOldest(got).sector, TakeOldest(got).blocks, e)
         /\ \A f \in Entries : KeptOrFreed(s, TakeOldest(got).sector, f)
<1> DEFINE v == Oldest(s)
           t == MarkEntryFree(s, v)
           more == hand \o s.entry[v].blocks
<1>1. TakeOldest(got).sector = t /\ TakeOldest(got).blocks = more
  BY DEF TakeOldest
<1>2. /\ s \in SectorType /\ hand \in Seq(Blocks) /\ Partition(s, hand)
      /\ ListedBut(s, e) /\ Vacant(s) /\ IsInjective(s.lru)
  BY DEF SectorOK, ListedBut
<1>3. v \in Entries /\ Writeable(s.entry[v])
  <2>1. s.lru \in Seq(Entries) BY <1>2, SectorFields
  <2>2. Victims(s) \subseteq 1..Len(s.lru) /\ Len(s.lru) \in Nat
    BY <2>1, ToSetFacts DEF Victims
  <2>3. Max(Victims(s)) \in Victims(s) BY <2>2, MaxOf
  <2> DEFINE i == Max(Victims(s))
  <2> HIDE DEF i
  <2>4. i \in 1..Len(s.lru) /\ i \in Victims(s) BY <2>2, <2>3 DEF i
  <2>5. v = s.lru[i] BY DEF Oldest, i
  <2>6. s.lru[i] \in Entries BY <2>1, <2>4
  <2>7. Writeable(s.entry[s.lru[i]]) BY <2>4 DEF Victims
  <2> QED BY <2>5, <2>6, <2>7
<1>4. v # e BY <1>3 DEF Writeable
<1>5. /\ t \in SectorType /\ t.free = s.free /\ t.entry[v] = FreeEntry
      /\ \A f \in Entries : f # v => t.entry[f] = s.entry[f]
      /\ IsInjective(t.lru) /\ ToSet(t.lru) = ToSet(s.lru) \ {v}
  BY <1>2, <1>3, MarkEntryFreeFacts
<1>6. /\ s.entry[v].blocks \in Seq(Blocks) /\ IsInjective(s.entry[v].blocks)
      /\ Owned(s, v) = ToSet(s.entry[v].blocks)
      /\ Owned(s, v) \cap ToSet(hand) = {} /\ IsInjective(hand)
  BY <1>2, <1>3, SectorFields DEF Partition, Owned
<1>7. /\ more \in Seq(Blocks) /\ IsInjective(more)
      /\ ToSet(more) = ToSet(hand) \cup Owned(s, v)
  BY <1>2, <1>6, ConcatFacts
<1> HIDE DEF t, more, v
<1>8. /\ Owned(t, v) = {} /\ t.entry[v].blocks = <<>> /\ IsInjective(t.entry[v].blocks)
      /\ \A f \in Entries : f # v => Owned(t, f) = Owned(s, f)
  BY <1>5, EmptySeqFacts DEF Owned, FreeEntry
<1>9. Partition(t, more)
  <2>1. ASSUME NEW b \in Blocks
        PROVE  \/ b \in ToSet(t.free) \/ b \in ToSet(more)
               \/ \E f \in Entries : b \in Owned(t, f)
    <3>1. CASE b \in ToSet(s.free) \/ b \in ToSet(hand) BY <1>5, <1>7, <3>1
    <3>2. CASE \E f \in Entries : b \in Owned(s, f)
      <4>1. PICK f \in Entries : b \in Owned(s, f) BY <3>2
      <4> QED BY <1>7, <1>8, <4>1
    <3> QED BY <1>2, <3>1, <3>2 DEF Partition
  <2>2. IsInjective(t.free) /\ ToSet(t.free) \cap ToSet(more) = {}
    BY <1>2, <1>3, <1>5, <1>7 DEF Partition
  <2>3. \A f \in Entries :
          /\ IsInjective(t.entry[f].blocks)
          /\ Owned(t, f) \cap ToSet(t.free) = {} /\ Owned(t, f) \cap ToSet(more) = {}
    BY <1>2, <1>3, <1>5, <1>7, <1>8 DEF Partition
  <2>4. \A f, h \in Entries : f # h => Owned(t, f) \cap Owned(t, h) = {}
    BY <1>2, <1>8 DEF Partition
  <2> QED BY <1>7, <2>1, <2>2, <2>3, <2>4 DEF Partition
<1>10. ListedBut(t, e)
  BY <1>2, <1>4, <1>5 DEF ListedBut, FreeEntry
<1>11. Vacant(t)
  BY <1>2, <1>5 DEF Vacant, FreeEntry
<1>12. \A f \in Entries : KeptOrFreed(s, t, f)
  BY <1>3, <1>5 DEF KeptOrFreed
<1> QED BY <1>1, <1>5, <1>7, <1>9, <1>10, <1>11, <1>12 DEF SectorOK

\* The rounds of a loop, one after the other.
LEMMA RoundsUnfold ==
  ASSUME NEW start, NEW goal
  PROVE  \A n \in 0..Cardinality(Entries) :
           Rounds(start, goal)[n] =
             IF n = 0 THEN start
             ELSE LET last == Rounds(start, goal)[n - 1]
                  IN  IF Len(last.blocks) < goal /\ Victims(last.sector) # {}
                      THEN TakeOldest(last) ELSE last
<1> DEFINE N == Cardinality(Entries)
           More(got) == IF Len(got.blocks) < goal /\ Victims(got.sector) # {}
                        THEN TakeOldest(got) ELSE got
           Runs(f, m) == f = [n \in 0..m |-> IF n = 0 THEN start ELSE More(f[n - 1])]
           Bad == {m \in Nat : ~ \E f : Runs(f, m)}
<1>1. N \in Nat BY SizesAreNat
<1>2. Bad = {}
  <2>1. SUFFICES ASSUME Bad # {} PROVE FALSE OBVIOUS
  <2>2. PICK m \in Bad : \A k \in Bad : m <= k
    <3>1. Bad \subseteq Nat OBVIOUS
    <3> HIDE DEF Bad
    <3> QED BY <2>1, <3>1, LeastOf
  <2>3. m \in Nat /\ ~ \E f : Runs(f, m) OBVIOUS
  <2>4. m # 0
    <3>1. Runs([n \in 0..0 |-> start], 0) OBVIOUS
    <3> QED BY <2>3, <3>1
  <2>5. m - 1 \in Nat /\ m - 1 \notin Bad
    <3> HIDE DEF Bad
    <3>1. m - 1 \in Nat /\ ~(m <= m - 1) BY <2>3, <2>4
    <3> QED BY <2>2, <3>1
  <2>6. PICK g : Runs(g, m - 1) BY <2>5
  <2> DEFINE h == [n \in 0..m |-> IF n = m THEN More(g[m - 1]) ELSE g[n]]
  <2> HIDE DEF More
  <2>7. \A n \in 0..m : h[n] = IF n = 0 THEN start ELSE More(h[n - 1])
    BY <2>3, <2>4, <2>6
  <2>8. Runs(h, m) BY <2>7
  <2> QED BY <2>3, <2>8
<1>3. PICK f : Runs(f, N) BY <1>1, <1>2
<1> DEFINE R == Rounds(start, goal)
<1>4. R = CHOOSE g : Runs(g, N) BY DEF Rounds
<1> HIDE DEF R, Runs
<1>5. Runs(R, N) BY <1>3, <1>4
<1>6. R = [n \in 0..N |-> IF n = 0 THEN start ELSE More(R[n - 1])] BY <1>5 DEF Runs
<1> QED BY <1>6 DEF R

LEMMA KeptOrFreedOn ==
  ASSUME NEW s, NEW t, NEW u, NEW f, KeptOrFreed(s, t, f), KeptOrFreed(t, u, f)
  PROVE  KeptOrFreed(s, u, f)
BY DEF KeptOrFreed

LEMMA RoundsKeep ==
  ASSUME NEW start, NEW goal, NEW e \in Entries,
         SectorOK(start.sector, start.blocks, e), start.sector.entry[e].creating
  PROVE  LET got == Rounds(start, goal)[Cardinality(Entries)]
         IN  /\ SectorOK(got.sector, got.blocks, e)
             /\ \A f \in Entries : KeptOrFreed(start.sector, got.sector, f)
<1> DEFINE N == Cardinality(Entries)
           R == Rounds(start, goal)
           Fine(got) == /\ SectorOK(got.sector, got.blocks, e)
                        /\ \A f \in Entries : KeptOrFreed(start.sector, got.sector, f)
           Bad == {n \in 0..N : ~Fine(R[n])}
<1>1. N \in Nat BY SizesAreNat
<1>2. \A n \in 0..N :
        R[n] = IF n = 0 THEN start
               ELSE IF Len(R[n - 1].blocks) < goal /\ Victims(R[n - 1].sector) # {}
                    THEN TakeOldest(R[n - 1]) ELSE R[n - 1]
  BY RoundsUnfold
<1> HIDE DEF N, R
<1>3. Bad = {}
  <2>1. SUFFICES ASSUME Bad # {} PROVE FALSE OBVIOUS
  <2>2. PICK n \in Bad : \A k \in Bad : n <= k
    <3>1. Bad \subseteq Nat BY <1>1
    <3> HIDE DEF Bad
    <3> QED BY <2>1, <3>1, LeastOf
  <2>3. n \in 0..N /\ ~Fine(R[n]) OBVIOUS
  <2>4. Fine(start) BY DEF KeptOrFreed
  <2>5. n # 0 BY <1>1, <1>2, <2>3, <2>4
  <2>6. n - 1 \in 0..N /\ n - 1 \notin Bad BY <1>1, <2>2, <2>3, <2>5
  <2>7. Fine(R[n - 1]) BY <2>6
  <2> DEFINE last == R[n - 1]
  <2>8. R[n] = IF Len(last.blocks) < goal /\ Victims(last.sector) # {}
               THEN TakeOldest(last) ELSE last
    BY <1>1, <1>2, <2>3, <2>5
  <2> HIDE DEF last
  <2>9. /\ SectorOK(last.sector, last.blocks, e)
        /\ \A f \in Entries : KeptOrFreed(start.sector, last.sector, f)
    BY <2>7 DEF last
  <2>10. last.sector.entry[e].creating
    BY <2>9 DEF KeptOrFreed, Writeable
  <2>11. CASE R[n] = last BY <2>3, <2>9, <2>11
  <2>12. CASE R[n] = TakeOldest(last) /\ Victims(last.sector) # {}
    <3>1. /\ SectorOK(TakeOldest(last).sector, TakeOldest(last).blocks, e)
          /\ \A f \in Entries : KeptOrFreed(last.sector, TakeOldest(last).sector, f)
      BY <2>9, <2>10, <2>12, TakeOldestKeeps
    <3>2. \A f \in Entries : KeptOrFreed(start.sector, TakeOldest(last).sector, f)
      BY <2>9, <3>1, KeptOrFreedOn
    <3> QED BY <2>3, <2>12, <3>1, <3>2
  <2> QED BY <2>8, <2>11, <2>12
<1>4. Fine(R[N]) BY <1>1, <1>3
<1> QED BY <1>4 DEF R, N

LEMMA TryAllocateKeeps ==
  ASSUME NEW s, NEW goal \in Nat, NEW e \in Entries,
         SectorOK(s, <<>>, e), s.entry[e].creating
  PROVE  LET got == TryAllocateBlocks(s, goal)
         IN  /\ SectorOK(got.sector, got.blocks, e)
             /\ \A f \in Entries : KeptOrFreed(s, got.sector, f)
<1> DEFINE n == IF goal < Len(s.free) THEN goal ELSE Len(s.free)
           taken == SubSeq(s.free, 1, n)
           rest == SubSeq(s.free, n + 1, Len(s.free))
           t == [s EXCEPT !.free = rest]
           start == [blocks |-> taken, sector |-> t]
<1>1. /\ s \in SectorType /\ Partition(s, <<>>) /\ ListedBut(s, e) /\ Vacant(s)
      /\ s.free \in Seq(Blocks) /\ IsInjective(s.free)
  BY SectorFields DEF SectorOK, Partition
<1>2. n \in 0..Len(s.free)
  <2>1. Len(s.free) \in Nat BY <1>1
  <2> QED BY <2>1
<1>3. TryAllocateBlocks(s, goal) = Rounds(start, goal)[Cardinality(Entries)]
  BY DEF TryAllocateBlocks
<1> HIDE DEF n
<1>4. /\ taken \in Seq(Blocks) /\ rest \in Seq(Blocks)
      /\ IsInjective(taken) /\ IsInjective(rest)
      /\ ToSet(s.free) = ToSet(taken) \cup ToSet(rest)
      /\ ToSet(taken) \cap ToSet(rest) = {}
  BY <1>1, <1>2, CutFacts
<1> HIDE DEF taken, rest
<1>5. /\ t \in SectorType /\ t.free = rest /\ t.entry = s.entry /\ t.lru = s.lru
  BY <1>1, <1>4 DEF SectorType
<1> HIDE DEF t
<1>6. \A f \in Entries : Owned(t, f) = Owned(s, f) BY <1>5 DEF Owned
<1>7. Partition(t, taken)
  <2>1. ASSUME NEW b \in Blocks
        PROVE  \/ b \in ToSet(t.free) \/ b \in ToSet(taken)
               \/ \E f \in Entries : b \in Owned(t, f)
    BY <1>1, <1>4, <1>5, <1>6, EmptySeqFacts DEF Partition
  <2>2. \A f \in Entries :
          /\ IsInjective(t.entry[f].blocks)
          /\ Owned(t, f) \cap ToSet(t.free) = {} /\ Owned(t, f) \cap ToSet(taken) = {}
    BY <1>1, <1>4, <1>5, <1>6 DEF Partition
  <2>3. \A f, h \in Entries : f # h => Owned(t, f) \cap Owned(t, h) = {}
    BY <1>1, <1>6 DEF Partition
  <2> QED BY <1>4, <1>5, <2>1, <2>2, <2>3 DEF Partition
<1>8. ListedBut(t, e) /\ Vacant(t) /\ t.entry[e].creating
  BY <1>1, <1>5 DEF ListedBut, Vacant
<1>9. SectorOK(t, taken, e) BY <1>4, <1>5, <1>7, <1>8 DEF SectorOK
<1>10. start.sector = t /\ start.blocks = taken OBVIOUS
<1> HIDE DEF start
<1>11. LET got == Rounds(start, goal)[Cardinality(Entries)]
       IN  /\ SectorOK(got.sector, got.blocks, e)
           /\ \A f \in Entries : KeptOrFreed(t, got.sector, f)
  BY <1>8, <1>9, <1>10, RoundsKeep
<1> QED BY <1>3, <1>5, <1>11 DEF KeptOrFreed

\* The blocks in hand, and those of e, go to the free list or back to e.
LEMMA Rehanded ==
  ASSUME NEW s, NEW t, NEW hand, NEW e \in Entries, SectorOK(s, hand, e),
         t \in SectorType, \A f \in Entries \ {e} : t.entry[f] = s.entry[f],
         NEW put \in Seq(Blocks), IsInjective(put),
         IsInjective(t.entry[e].blocks), ToSet(put) \cap Owned(t, e) = {},
         ToSet(put) \cup Owned(t, e) = ToSet(hand) \cup Owned(s, e),
         t.free = put \o s.free
  PROVE  Partition(t, <<>>)
<1>1. Partition(s, hand) /\ s.free \in Seq(Blocks) BY SectorFields DEF SectorOK
<1>2. ToSet(put) \cap ToSet(s.free) = {} /\ IsInjective(s.free)
  BY <1>1 DEF Partition
<1>3. ToSet(t.free) = ToSet(put) \cup ToSet(s.free) /\ IsInjective(t.free)
  BY <1>1, <1>2, ConcatFacts
<1>4. \A f \in Entries : f # e => Owned(t, f) = Owned(s, f) BY DEF Owned
<1>5. /\ ToSet(<<>>) = {} /\ IsInjective(<<>>)
  <2>1. <<>> \in Seq(Blocks) OBVIOUS
  <2> QED BY EmptySeqFacts
<1>6. ASSUME NEW b \in Blocks
      PROVE  b \in ToSet(t.free) \/ \E f \in Entries : b \in Owned(t, f)
  <2>1. CASE b \in ToSet(s.free) BY <1>3, <2>1
  <2>2. CASE b \in ToSet(hand) \cup Owned(s, e) BY <1>3, <2>2
  <2>3. CASE \E f \in Entries \ {e} : b \in Owned(s, f) BY <1>4, <2>3
  <2> QED BY <1>1, <2>1, <2>2, <2>3 DEF Partition
<1>7. \A f \in Entries : IsInjective(t.entry[f].blocks) BY <1>1 DEF Partition
<1>8. \A f \in Entries : Owned(t, f) \cap ToSet(t.free) = {}
  <2>1. Owned(t, e) \cap ToSet(t.free) = {} BY <1>1, <1>3 DEF Partition
  <2>2. ASSUME NEW f \in Entries, f # e PROVE Owned(t, f) \cap ToSet(t.free) = {}
    BY <1>1, <1>3, <1>4, <2>2 DEF Partition
  <2> QED BY <2>1, <2>2
<1>9. \A f, h \in Entries : f # h => Owned(t, f) \cap Owned(t, h) = {}
  BY <1>1, <1>4 DEF Partition
<1> QED BY <1>3, <1>5, <1>6, <1>7, <1>8, <1>9 DEF Partition

LEMMA SettledIsOK ==
  ASSUME NEW s, Settled(s), NEW e \in Entries PROVE SectorOK(s, <<>>, e)
BY EmptySeqFacts DEF Settled, SectorOK, ListedBut

\* DeleteEntry, and PutIntoEntry when there is no room: the blocks in hand and
\* those of e are freed with e.
LEMMA Released ==
  ASSUME NEW s, NEW hand, NEW e \in Entries, SectorOK(s, hand, e),
         s.entry[e].open_count = 0, NEW back \in Seq(Blocks), IsInjective(back),
         ToSet(back) = ToSet(hand) \cup Owned(s, e)
  PROVE  LET t == MarkEntryFree([ReturnBlocks(s, back) EXCEPT
                                   !.entry[e].creating = FALSE], e)
         IN  /\ Settled(t) /\ t.entry[e] = FreeEntry
             /\ \A f \in Entries \ {e} : t.entry[f] = s.entry[f]
<1> DEFINE put == Reverse(back)
           u == [ReturnBlocks(s, back) EXCEPT !.entry[e].creating = FALSE]
           x == [s.entry[e] EXCEPT !.creating = FALSE]
           t == MarkEntryFree(u, e)
<1>1. /\ s \in SectorType /\ s.free \in Seq(Blocks) /\ ListedBut(s, e) /\ Vacant(s)
      /\ IsInjective(s.lru)
  BY SectorFields DEF SectorOK, ListedBut
<1>2. put \in Seq(Blocks) /\ IsInjective(put) /\ ToSet(put) = ToSet(back)
  BY ReverseFacts
<1>3. u = [s EXCEPT !.free = put \o s.free, !.entry = [s.entry EXCEPT ![e] = x]]
  BY <1>1 DEF ReturnBlocks, SectorType
<1> HIDE DEF put, u
<1>4. put \o s.free \in Seq(Blocks) BY <1>1, <1>2, ConcatFacts
<1>5. /\ x \in EntryOf /\ x.open_count = 0 /\ x.creating = FALSE
  BY <1>1, SectorFields DEF EntryOf
<1> HIDE DEF x
<1>6. /\ u \in SectorType /\ u.free = put \o s.free /\ u.lru = s.lru
      /\ u.entry[e] = x /\ \A f \in Entries : f # e => u.entry[f] = s.entry[f]
  BY <1>1, <1>3, <1>4, <1>5 DEF SectorType
<1>7. Writeable(u.entry[e]) BY <1>5, <1>6 DEF Writeable
<1>8. /\ t \in SectorType /\ t.free = u.free /\ t.entry[e] = FreeEntry
      /\ \A f \in Entries : f # e => t.entry[f] = u.entry[f]
      /\ IsInjective(t.lru) /\ ToSet(t.lru) = ToSet(u.lru) \ {e}
  BY <1>1, <1>6, <1>7, MarkEntryFreeFacts
<1>9. t.free = put \o s.free /\ \A f \in Entries : f # e => t.entry[f] = s.entry[f]
  BY <1>6, <1>8
<1>10. Owned(t, e) = {} /\ IsInjective(t.entry[e].blocks)
  <2>1. t.entry[e].blocks = <<>> BY <1>8 DEF FreeEntry
  <2> QED BY <2>1, EmptySeqFacts DEF Owned
<1> HIDE DEF t
<1>11. Partition(t, <<>>)
  BY <1>2, <1>8, <1>9, <1>10, Rehanded
<1>12. ToSet(t.lru) = {f \in Entries : t.entry[f].hash # Nil}
  <2>1. t.entry[e].hash = Nil BY <1>8 DEF FreeEntry
  <2>2. ToSet(s.lru) \subseteq Entries BY <1>1, SectorFields, ToSetFacts
  <2>3. \A f \in Entries : f # e => (f \in ToSet(s.lru) <=> t.entry[f].hash # Nil)
    BY <1>1, <1>9 DEF ListedBut
  <2> QED BY <1>6, <1>8, <2>1, <2>2, <2>3
<1>13. Vacant(t)
  <2>1. t.entry[e].blocks = <<>> /\ ~t.entry[e].creating /\ t.entry[e].open_count = 0
    BY <1>8 DEF FreeEntry
  <2> QED BY <1>1, <1>9, <2>1 DEF Vacant
<1>14. Settled(t) BY <1>8, <1>11, <1>12, <1>13 DEF Settled
<1> QED BY <1>8, <1>9, <1>14 DEF t, u

LEMMA DeleteEntryKeeps ==
  ASSUME NEW s, Settled(s), NEW e \in Entries, s.entry[e].open_count = 0
  PROVE  /\ Settled(DeleteEntry(s, e)) /\ DeleteEntry(s, e).entry[e] = FreeEntry
         /\ \A f \in Entries \ {e} : DeleteEntry(s, e).entry[f] = s.entry[f]
<1> DEFINE back == s.entry[e].blocks
<1>1. SectorOK(s, <<>>, e) BY SettledIsOK
<1>2. back \in Seq(Blocks) /\ IsInjective(back) /\ ToSet(back) = Owned(s, e)
  BY <1>1, SectorFields DEF SectorOK, Partition, Owned
<1>3. ToSet(<<>>) = {} BY EmptySeqFacts
<1>4. DeleteEntry(s, e) = MarkEntryFree([ReturnBlocks(s, back) EXCEPT
                                           !.entry[e].creating = FALSE], e)
  BY DEF DeleteEntry
<1> HIDE DEF back
<1> QED BY <1>1, <1>2, <1>3, <1>4, Released

\* What PutIntoEntry leaves of its entry.
Written(s, t, e, v) ==
  \/ t.entry[e] = FreeEntry
  \/ /\ t.entry[e].creating /\ t.entry[e].open_count = 0
     /\ t.entry[e].hash = s.entry[e].hash /\ Len(t.entry[e].blocks) = Size[v]

\* PutIntoEntry when it has its blocks: some stay, the others are returned.
Refill(s, e, time, blocks, want) ==
  LET t == TouchEntry(ReturnBlocks(s, Extras(blocks, want)), e, time)
  IN  [t EXCEPT !.entry[e].blocks = SubSeq(blocks, 1, want)]

LEMMA Refilled ==
  ASSUME NEW s, NEW hand, NEW e \in Entries, SectorOK(s, hand, e),
         s.entry[e].creating, s.entry[e].open_count = 0, s.entry[e].hash # Nil,
         NEW v \in Values, NEW time \in Times,
         NEW all \in Seq(Blocks), IsInjective(all),
         ToSet(all) = ToSet(hand) \cup Owned(s, e), Size[v] <= Len(all)
  PROVE  LET u == Refill(s, e, time, all, Size[v])
         IN  /\ Settled(u) /\ Written(s, u, e, v)
             /\ \A f \in Entries \ {e} : u.entry[f] = s.entry[f]
<1> DEFINE n == Size[v]
           keep == SubSeq(all, 1, n)
           over == SubSeq(all, n + 1, Len(all))
           put == Reverse(Reverse(over))
           r == ReturnBlocks(s, Extras(all, n))
           t == TouchEntry(r, e, time)
           x == [t.entry[e] EXCEPT !.blocks = keep]
           u == [t EXCEPT !.entry[e].blocks = keep]
<1>1. /\ s \in SectorType /\ s.free \in Seq(Blocks) /\ ListedBut(s, e) /\ Vacant(s)
      /\ IsInjective(s.lru) /\ Size[v] \in Nat
  BY SectorFields, SizesAreNat DEF SectorOK, ListedBut
<1>2. n \in 0..Len(all) BY <1>1
<1>3. r = [s EXCEPT !.free = put \o s.free] BY DEF ReturnBlocks, Extras
<1> HIDE DEF n
<1>4. /\ keep \in Seq(Blocks) /\ over \in Seq(Blocks) /\ Len(keep) = n
      /\ IsInjective(keep) /\ IsInjective(over)
      /\ ToSet(all) = ToSet(keep) \cup ToSet(over)
      /\ ToSet(keep) \cap ToSet(over) = {}
  BY <1>2, CutFacts
<1> HIDE DEF keep, over
<1>5. put \in Seq(Blocks) /\ IsInjective(put) /\ ToSet(put) = ToSet(over)
  <2>1. /\ Reverse(over) \in Seq(Blocks) /\ IsInjective(Reverse(over))
        /\ ToSet(Reverse(over)) = ToSet(over)
    BY <1>4, ReverseFacts
  <2> QED BY <2>1, ReverseFacts
<1> HIDE DEF put, r
<1>6. put \o s.free \in Seq(Blocks) BY <1>1, <1>5, ConcatFacts
<1>7. r \in SectorType /\ r.free = put \o s.free /\ r.entry = s.entry /\ r.lru = s.lru
  BY <1>1, <1>3, <1>6 DEF SectorType
<1>8. /\ t \in SectorType /\ t.free = r.free
      /\ \A f \in Entries : f # e => t.entry[f] = r.entry[f]
      /\ t.entry[e].hash = r.entry[e].hash
      /\ t.entry[e].open_count = r.entry[e].open_count
      /\ t.entry[e].creating = r.entry[e].creating
      /\ IsInjective(t.lru) /\ ToSet(t.lru) = ToSet(r.lru) \cup {e}
  BY <1>1, <1>7, TouchEntryFacts
<1> HIDE DEF t
<1>9. /\ x \in EntryOf /\ x.blocks = keep /\ x.hash = s.entry[e].hash
      /\ x.open_count = 0 /\ x.creating
  <2>1. t.entry[e] \in EntryOf BY <1>8, SectorFields
  <2>2. /\ t.entry[e].hash = s.entry[e].hash /\ t.entry[e].open_count = 0
        /\ t.entry[e].creating
    BY <1>7, <1>8
  <2> QED BY <1>4, <2>1, <2>2 DEF EntryOf
<1>10. u = [t EXCEPT !.entry = [t.entry EXCEPT ![e] = x]]
  OBVIOUS
<1> HIDE DEF x, u
<1>11. /\ u \in SectorType /\ u.free = put \o s.free /\ u.lru = t.lru
       /\ u.entry[e] = x /\ \A f \in Entries : f # e => u.entry[f] = s.entry[f]
  BY <1>7, <1>8, <1>9, <1>10 DEF SectorType
<1>12. Owned(u, e) = ToSet(keep) /\ IsInjective(u.entry[e].blocks)
  BY <1>4, <1>9, <1>11 DEF Owned
<1>13. Partition(u, <<>>)
  <2>1. /\ ToSet(put) \cap Owned(u, e) = {}
        /\ ToSet(put) \cup Owned(u, e) = ToSet(hand) \cup Owned(s, e)
    BY <1>4, <1>5, <1>12
  <2> QED BY <1>5, <1>11, <1>12, <2>1, Rehanded
<1>14. ToSet(u.lru) = {f \in Entries : u.entry[f].hash # Nil}
  <2>1. u.entry[e].hash # Nil BY <1>9, <1>11
  <2>2. ToSet(s.lru) \subseteq Entries BY <1>1, SectorFields, ToSetFacts
  <2>3. \A f \in Entries : f # e => (f \in ToSet(s.lru) <=> u.entry[f].hash # Nil)
    BY <1>1, <1>11 DEF ListedBut
  <2> QED BY <1>7, <1>8, <1>11, <2>1, <2>2, <2>3
<1>15. Vacant(u)
  <2>1. u.entry[e].hash # Nil BY <1>9, <1>11
  <2> QED BY <1>1, <1>11, <2>1 DEF Vacant
<1>16. Settled(u) BY <1>8, <1>11, <1>13, <1>14, <1>15 DEF Settled
<1>17. Written(s, u, e, v) BY <1>4, <1>9, <1>11 DEF Written, n
<1> QED BY <1>11, <1>16, <1>17 DEF u, t, r, keep, n, Refill

\* Whatever room PutIntoEntry finds or does not find, the sector is settled, and
\* the other entries have what they had or were unused and are freed.
LEMMA PutIntoEntryKeeps ==
  ASSUME NEW s, NEW e \in Entries, SectorOK(s, <<>>, e),
         s.entry[e].creating, s.entry[e].open_count = 0, s.entry[e].hash # Nil,
         NEW v \in Values, NEW time \in Times
  PROVE  LET t == PutIntoEntry(s, e, time, v)
         IN  /\ Settled(t) /\ Written(s, t, e, v)
             /\ \A f \in Entries \ {e} : KeptOrFreed(s, t, f)
<1> DEFINE had == s.entry[e].blocks
           want == Size[v]
           more == IF Len(had) < want THEN TryAllocateBlocks(s, want - Len(had))
                   ELSE [blocks |-> <<>>, sector |-> s]
           m == more.sector
           hand == more.blocks
           all == had \o hand
           full == MarkEntryFree([ReturnBlocks(m, all) EXCEPT
                                    !.entry[e].creating = FALSE], e)
           room == Refill(m, e, time, all, want)
<1>1. s \in SectorType /\ had \in Seq(Blocks) /\ want \in Nat /\ Len(had) \in Nat
  BY SectorFields, SizesAreNat DEF SectorOK
<1>2. SectorOK(m, hand, e) /\ \A f \in Entries : KeptOrFreed(s, m, f)
  <2>1. CASE Len(had) < want
    <3>1. want - Len(had) \in Nat BY <1>1, <2>1
    <3>2. more = TryAllocateBlocks(s, want - Len(had)) BY <2>1
    <3> QED BY <3>1, <3>2, TryAllocateKeeps
  <2>2. CASE ~(Len(had) < want)
    <3>1. m = s /\ hand = <<>> BY <2>2
    <3> QED BY <3>1 DEF KeptOrFreed
  <2> QED BY <2>1, <2>2
<1>3. PutIntoEntry(s, e, time, v) = IF Len(all) < want THEN full ELSE room
  BY DEF PutIntoEntry, Refill
<1> HIDE DEF more, want
<1>4. m.entry[e] = s.entry[e]
  BY <1>2 DEF KeptOrFreed, Writeable
<1>5. all \in Seq(Blocks) /\ IsInjective(all) /\ ToSet(all) = ToSet(hand) \cup Owned(m, e)
  <2>1. hand \in Seq(Blocks) /\ IsInjective(hand) /\ IsInjective(had)
        /\ ToSet(had) = Owned(m, e) /\ Owned(m, e) \cap ToSet(hand) = {}
    BY <1>2, <1>4 DEF SectorOK, Partition, Owned
  <2> HIDE DEF had, hand
  <2>2. all \in Seq(Blocks) /\ IsInjective(all) /\ ToSet(all) = ToSet(had) \cup ToSet(hand)
    BY <1>1, <2>1, ConcatFacts
  <2> QED BY <2>1, <2>2
<1> HIDE DEF m, hand, had, all
<1>6. CASE Len(all) < want
  <2>1. /\ Settled(full) /\ full.entry[e] = FreeEntry
        /\ \A f \in Entries \ {e} : full.entry[f] = m.entry[f]
    BY <1>2, <1>4, <1>5, Released
  <2>2. \A f \in Entries \ {e} : KeptOrFreed(s, full, f)
    BY <1>2, <2>1 DEF KeptOrFreed
  <2>3. PutIntoEntry(s, e, time, v) = full BY <1>3, <1>6
  <2> QED BY <2>1, <2>2, <2>3 DEF Written
<1>7. CASE ~(Len(all) < want)
  <2>1. want <= Len(all) /\ Len(all) \in Nat BY <1>1, <1>5, <1>7
  <2>2. /\ Settled(room) /\ Written(m, room, e, v)
        /\ \A f \in Entries \ {e} : room.entry[f] = m.entry[f]
    <3>1. m.entry[e].creating /\ m.entry[e].open_count = 0 /\ m.entry[e].hash # Nil
      BY <1>4
    <3>2. want = Size[v] BY DEF want
    <3>3. SectorOK(m, hand, e) /\ Size[v] <= Len(all) BY <1>2, <2>1, <3>2
    <3>4. LET u == Refill(m, e, time, all, Size[v])
          IN  /\ Settled(u) /\ Written(m, u, e, v)
              /\ \A f \in Entries \ {e} : u.entry[f] = m.entry[f]
      BY <1>5, <3>1, <3>3, Refilled
    <3> QED BY <3>2, <3>4
  <2>3. \A f \in Entries \ {e} : KeptOrFreed(s, room, f)
    BY <1>2, <2>2 DEF KeptOrFreed
  <2>4. Written(s, room, e, v) BY <1>4, <2>2 DEF Written
  <2>5. PutIntoEntry(s, e, time, v) = room BY <1>3, <1>7
  <2> QED BY <2>2, <2>3, <2>4, <2>5
<1> QED BY <1>6, <1>7

-----------------------------------------------------------------------------
(* Searching an entry.                                                     *)

LEMMA PositionFacts ==
  ASSUME NEW k \in Hashes
  PROVE  /\ Position[k] \in Seq(Entries) /\ DOMAIN Position[k] = 1..Len(Position[k])
         /\ Len(Position[k]) \in Nat
         /\ \A j \in DOMAIN Position[k] : Position[k][j] \in Entries
BY GeometryAssumption

\* A search ends at an entry of its hash, if there is one.
LEMMA FoundFacts ==
  ASSUME NEW k \in Hashes
  PROVE  /\ \A e \in Found(k) : e \in Entries /\ sector.entry[e].hash = k
         /\ Found(k) = {} =>
              \A e \in ToSet(Position[k]) : sector.entry[e].hash # k
<1> DEFINE Hit(j) == KeyMatch(sector.entry[Position[k][j]], k)
<1>1. \A e \in Found(k) : e \in Entries /\ sector.entry[e].hash = k
  BY PositionFacts DEF Found, KeyMatch
<1>2. ASSUME NEW e \in ToSet(Position[k]), sector.entry[e].hash = k PROVE Found(k) # {}
  <2> DEFINE Hits == {j \in DOMAIN Position[k] : Hit(j)}
  <2>1. PICK j \in DOMAIN Position[k] : Position[k][j] = e BY <1>2 DEF ToSet
  <2>2. j \in Hits BY <1>2, <2>1 DEF KeyMatch
  <2>3. Hits \subseteq Nat BY PositionFacts
  <2>4. PICK i \in Hits : \A h \in Hits : i <= h
    <3> HIDE DEF Hits
    <3> QED BY <2>2, <2>3, LeastOf
  <2>5. i \in DOMAIN Position[k] /\ Hit(i) OBVIOUS
  <2>6. ASSUME NEW h \in 1..(i - 1) PROVE ~Hit(h)
    <3>1. h \in DOMAIN Position[k] /\ ~(i <= h) BY <2>5, <2>6, PositionFacts
    <3> QED BY <2>4, <3>1
  <2>7. Position[k][i] \in Found(k) BY <2>5, <2>6 DEF Found
  <2> QED BY <2>7
<1> QED BY <1>1, <1>2

LEMMA BestFacts ==
  ASSUME NEW k \in Hashes, NEW e \in Best(k)
  PROVE  /\ e \in Entries /\ e \in ToSet(Position[k])
         /\ sector.entry[e].open_count = 0 /\ ~sector.entry[e].creating
<1>1. PICK j \in DOMAIN Position[k] : Position[k][j] = e /\ Writeable(sector.entry[e])
  BY DEF Best
<1>2. e \in ToSet(Position[k]) BY <1>1 DEF ToSet
<1> QED BY <1>1, <1>2, PositionFacts DEF Writeable

-----------------------------------------------------------------------------
(* What the invariant says of the sector and of the processes at an entry. *)

LEMMA ActorsAreFinite ==
  ASSUME NEW e
  PROVE  /\ IsFiniteSet(Writers(e)) /\ IsFiniteSet(Readers(e))
         /\ Cardinality(Writers(e)) \in Nat /\ Cardinality(Readers(e)) \in Nat
<1>1. Writers(e) \subseteq Procs /\ Readers(e) \subseteq Procs BY DEF Writers, Readers
<1>2. IsFiniteSet(Writers(e)) /\ IsFiniteSet(Readers(e)) BY <1>1, SizesAreNat, FS_Subset
<1> QED BY <1>2, FS_CardinalityType

LEMMA OneWriterCounts ==
  ASSUME NEW W, IsFiniteSet(W), NEW n \in Nat, NEW busy \in BOOLEAN, OneWriter(W, n, busy)
  PROVE  Cardinality(W) + n = IF busy THEN 1 ELSE 0
BY FS_EmptySet, FS_Singleton DEF OneWriter

LEMMA SectorTypes ==
  SectorTypeOK =>
    /\ sector \in SectorType /\ proc \in [Procs -> ProcOf] /\ data \in [Blocks -> Contents]
    /\ lost \in [Entries -> [readers : Nat, writers : Nat]]
    /\ \A p \in Procs :
         /\ proc[p] \in ProcOf /\ proc[p].op \in Ops /\ proc[p].blocks \in Seq(Blocks)
         /\ proc[p].key \in Hashes \cup {Nil} /\ proc[p].value \in Values \cup {Nil}
         /\ proc[p].entry \in Entries \cup {Nil} /\ proc[p].time \in Times \cup {0}
         /\ proc[p].got \in Seq(Contents)
    /\ \A e \in Entries : lost[e].readers \in Nat /\ lost[e].writers \in Nat
BY DEF SectorTypeOK, SectorType, ProcOf

\* The bits of an entry tell who is at it.
LEMMA BitsTell ==
  ASSUME SectorInv, NEW e \in Entries
  PROVE  /\ ~sector.entry[e].creating => Writers(e) = {} /\ lost[e].writers = 0
         /\ \A p \in Writers(e) :
              /\ Writers(e) = {p} /\ lost[e].writers = 0 /\ sector.entry[e].creating
         /\ sector.entry[e].open_count = 0 => Readers(e) = {} /\ lost[e].readers = 0
         /\ \A p \in Readers(e) : sector.entry[e].open_count \in Nat \ {0}
         /\ sector.entry[e].open_count \in Nat /\ sector.entry[e].creating \in BOOLEAN
<1>1. /\ sector \in SectorType /\ sector.entry[e].open_count \in Nat
      /\ sector.entry[e].creating \in BOOLEAN
      /\ lost[e].readers \in Nat /\ lost[e].writers \in Nat
  BY SectorTypes, SectorFields DEF SectorInv
<1>2. /\ OneWriter(Writers(e), lost[e].writers, sector.entry[e].creating)
      /\ sector.entry[e].open_count = Cardinality(Readers(e)) + lost[e].readers
  BY DEF SectorInv, Locks
<1>3. IsFiniteSet(Readers(e)) /\ Cardinality(Readers(e)) \in Nat BY ActorsAreFinite
<1>4. Cardinality(Readers(e)) = 0 <=> Readers(e) = {} BY <1>3, FS_EmptySet
<1> QED BY <1>1, <1>2, <1>3, <1>4 DEF OneWriter

\* Who is at an entry after a process changed what it does.
LEMMA ActorsMove ==
  ASSUME proc \in [Procs -> ProcOf], NEW p \in Procs, NEW x,
         proc' = [proc EXCEPT ![p] = x], NEW e \in Entries
  PROVE  /\ Writers(e)' = (Writers(e) \ {p}) \cup
              IF x.entry = e /\ x.op \in {"write", "await_put", "await_delete"}
              THEN {p} ELSE {}
         /\ Readers(e)' = (Readers(e) \ {p}) \cup
              IF x.entry = e /\ x.op = "read" THEN {p} ELSE {}
<1>1. proc'[p] = x /\ \A q \in Procs : q # p => proc'[q] = proc[q] OBVIOUS
<1> QED BY <1>1 DEF Writers, Readers

\* What a step at e leaves alone: the other processes at work, the other
\* entries but those nobody uses, and the blocks that are not e's.
LEMMA OthersKeep ==
  ASSUME SectorInv, NEW p \in Procs, NEW e \in Entries, NEW t \in SectorType, NEW d,
         \A f \in Entries \ {e} : KeptOrFreed(sector, t, f),
         \A b \in Blocks \ Owned(sector, e) : d[b] = data[b],
         \A q \in Procs \ {p} : proc[q].op # "idle" /\ proc[q].entry = e =>
           proc[q].op # "write" /\ t.entry[e].hash = sector.entry[e].hash
  PROVE  /\ \A q \in Procs \ {p} : Working(t, d, proc[q])
         /\ \A f \in Entries \ {e} :
              /\ Whole(t, d, f)
              /\ t.entry[f].creating = sector.entry[f].creating
              /\ t.entry[f].open_count = sector.entry[f].open_count
              /\ t.entry[f].hash \in {Nil, sector.entry[f].hash}
<1>1. /\ sector \in SectorType /\ Partition(sector, <<>>)
      /\ \A f \in Entries : /\ sector.entry[f].blocks \in Seq(Blocks)
                            /\ sector.entry[f].open_count \in Nat
                            /\ sector.entry[f].creating \in BOOLEAN
      /\ \A q \in Procs : /\ Working(sector, data, proc[q]) /\ proc[q].op \in Ops
                          /\ proc[q].blocks \in Seq(Blocks)
      /\ \A f \in Entries : Whole(sector, data, f)
  BY SectorTypes, SectorFields DEF SectorInv, Settled
<1>2. ASSUME NEW f \in Entries \ {e}, NEW i \in 1..Len(sector.entry[f].blocks)
      PROVE  d[sector.entry[f].blocks[i]] = data[sector.entry[f].blocks[i]]
  <2>1. sector.entry[f].blocks[i] \in Owned(sector, f) /\ Owned(sector, f) \subseteq Blocks
    BY <1>1, ToSetFacts DEF Owned
  <2>2. Owned(sector, e) \cap Owned(sector, f) = {} BY <1>1 DEF Partition
  <2> QED BY <2>1, <2>2
<1>3. ASSUME NEW q \in Procs \ {p} PROVE Working(t, d, proc[q])
  <2> DEFINE x == proc[q]
             f == x.entry
  <2>1. Working(sector, data, x) /\ x.op \in Ops /\ x.blocks \in Seq(Blocks) BY <1>1
  <2>2. x.op # "idle" /\ f # e =>
          /\ f \in Entries \ {e} /\ t.entry[f] = sector.entry[f]
    <3>1. SUFFICES ASSUME x.op # "idle", f # e
                   PROVE  f \in Entries \ {e} /\ t.entry[f] = sector.entry[f]
      OBVIOUS
    <3>2. f \in Entries \ {e} BY <2>1, <3>1 DEF Working, AtIt
    <3>3. q \in Writers(f) \/ q \in Readers(f)
      BY <2>1, <3>1 DEF Writers, Readers, Ops
    <3>4. ~Writeable(sector.entry[f])
      BY <3>2, <3>3, BitsTell DEF Writeable
    <3> QED BY <3>2, <3>4 DEF KeptOrFreed
  <2>3. x.op # "idle" /\ f = e =>
          x.op # "write" /\ t.entry[e].hash = sector.entry[e].hash
    OBVIOUS
  <2>4. AtIt(t, x)
    <3> HIDE DEF x
    <3> QED BY <2>1, <2>2, <2>3 DEF Working, AtIt
  <2>5. ASSUME x.op = "write" PROVE Copied(t, d, x)
    <3>1. f \in Entries \ {e} /\ t.entry[f] = sector.entry[f] BY <2>2, <2>3, <2>5
    <3>2. Copied(sector, data, x) BY <2>1, <2>5 DEF Working
    <3>3. \A i \in 1..Len(sector.entry[f].blocks) :
            d[sector.entry[f].blocks[i]] = data[sector.entry[f].blocks[i]]
      BY <1>2, <3>1
    <3>4. Len(sector.entry[f].blocks) \in Nat /\ Len(x.blocks) \in Nat
      BY <1>1, <2>1, <3>1
    <3>5. \A i \in 1..(Len(sector.entry[f].blocks) - Len(x.blocks)) :
            i \in 1..Len(sector.entry[f].blocks)
      BY <3>4
    <3> HIDE DEF x
    <3> QED BY <3>1, <3>2, <3>3, <3>5 DEF Copied
  <2> QED BY <2>4, <2>5 DEF Working
<1>4. ASSUME NEW f \in Entries \ {e}
      PROVE  /\ Whole(t, d, f)
             /\ t.entry[f].creating = sector.entry[f].creating
             /\ t.entry[f].open_count = sector.entry[f].open_count
             /\ t.entry[f].hash \in {Nil, sector.entry[f].hash}
  <2>1. CASE t.entry[f] = sector.entry[f]
    <3>1. Whole(sector, data, f) BY <1>1
    <3>2. Len(sector.entry[f].blocks) \in Nat BY <1>1
    <3>3. Whole(t, d, f)
      <4>1. SUFFICES ASSUME sector.entry[f].hash # Nil, ~sector.entry[f].creating
                     PROVE  \E v \in Values :
                       /\ Size[v] <= MaxBlocks /\ Len(sector.entry[f].blocks) = Size[v]
                       /\ \A i \in 1..Size[v] : d[sector.entry[f].blocks[i]]
                            = Portion(sector.entry[f].hash, v, i)
        BY <2>1 DEF Whole
      <4>2. PICK v \in Values :
              /\ Size[v] <= MaxBlocks /\ Len(sector.entry[f].blocks) = Size[v]
              /\ \A i \in 1..Size[v] : data[sector.entry[f].blocks[i]]
                   = Portion(sector.entry[f].hash, v, i)
        BY <3>1, <4>1 DEF Whole
      <4> QED BY <1>2, <4>2
    <3> QED BY <2>1, <3>3
  <2>2. CASE Writeable(sector.entry[f]) /\ t.entry[f] = FreeEntry
    <3>1. /\ t.entry[f].creating = FALSE /\ t.entry[f].open_count = 0
          /\ t.entry[f].hash = Nil
      BY <2>2 DEF FreeEntry
    <3>2. sector.entry[f].creating = FALSE /\ sector.entry[f].open_count = 0
      BY <1>1, <2>2 DEF Writeable
    <3>3. Whole(t, d, f) BY <3>1 DEF Whole
    <3> QED BY <3>1, <3>2, <3>3
  <2> QED BY <2>1, <2>2 DEF KeptOrFreed
<1> QED BY <1>3, <1>4

\* A step of p, which becomes x, at e: it leaves alone what is not theirs, and
\* what it leaves of them agrees with the invariant.
StepAt(p, e, x) ==
  /\ proc' = [proc EXCEPT ![p] = x]
  /\ data' \in [Blocks -> Contents]
  /\ lost' \in [Entries -> [readers : Nat, writers : Nat]]
  /\ \A f \in Entries \ {e} : KeptOrFreed(sector, sector', f) /\ lost'[f] = lost[f]
  /\ \A b \in Blocks \ Owned(sector, e) : data'[b] = data[b]
  /\ \A q \in Procs \ {p} : proc[q].op # "idle" /\ proc[q].entry = e =>
       proc[q].op # "write" /\ sector'.entry[e].hash = sector.entry[e].hash
  /\ proc[p].op # "idle" => proc[p].entry = e
  /\ x.op # "idle" => x.entry = e
  /\ Settled(sector') /\ Working(sector', data', x)
  /\ Whole(sector', data', e) /\ Locks(e)'
  /\ \/ sector'.entry[e].hash \in {Nil, sector.entry[e].hash}
     \/ /\ e \in ToSet(Position[sector'.entry[e].hash])
        /\ \A f \in Entries \ {e} : sector.entry[f].hash # sector'.entry[e].hash

LEMMA StepKeeps ==
  ASSUME SectorInv, NEW p \in Procs, NEW e \in Entries, NEW x \in ProcOf, StepAt(p, e, x)
  PROVE  SectorInv'
<1> USE DEF StepAt
<1> DEFINE t == sector'
<1>1. /\ SectorTypeOK /\ NoSecondCopy /\ InPosition /\ proc \in [Procs -> ProcOf]
      /\ t \in SectorType
  BY SectorTypes DEF SectorInv, Settled
<1>2. /\ \A q \in Procs \ {p} : Working(t, data', proc[q])
      /\ \A f \in Entries \ {e} :
           /\ Whole(t, data', f)
           /\ t.entry[f].creating = sector.entry[f].creating
           /\ t.entry[f].open_count = sector.entry[f].open_count
           /\ t.entry[f].hash \in {Nil, sector.entry[f].hash}
  BY <1>1, OthersKeep
<1>3. SectorTypeOK'
  <2>1. proc' \in [Procs -> ProcOf] BY <1>1
  <2> QED BY <1>1, <2>1 DEF SectorTypeOK, SectorType
<1>4. proc'[p] = x /\ \A q \in Procs \ {p} : proc'[q] = proc[q] BY <1>1
<1>5. \A q \in Procs : Working(t, data', proc'[q]) BY <1>2, <1>4
<1>6. \A f \in Entries : Locks(f)' /\ Whole(t, data', f)
  <2>1. SUFFICES ASSUME NEW f \in Entries \ {e} PROVE Locks(f)' BY <1>2
  <2>2. p \notin Writers(f) /\ p \notin Readers(f) BY DEF Writers, Readers
  <2>3. Writers(f)' = Writers(f) /\ Readers(f)' = Readers(f)
    <3>1. p \notin Writers(f)' /\ p \notin Readers(f)'
      BY <1>4 DEF Writers, Readers
    <3> QED BY <1>4, <2>2, <3>1 DEF Writers, Readers
  <2>4. Locks(f) BY DEF SectorInv
  <2> QED BY <1>2, <2>3, <2>4 DEF Locks
<1>7. NoSecondCopy'
  <2>1. SUFFICES ASSUME NEW f \in Entries, NEW g \in Entries, f # g,
                        t.entry[f].hash # Nil, t.entry[f].hash = t.entry[g].hash
                 PROVE  FALSE
    BY DEF NoSecondCopy
  <2>2. CASE f # e /\ g # e
    <3>1. sector.entry[f].hash = sector.entry[g].hash /\ sector.entry[f].hash # Nil
      BY <1>2, <2>1, <2>2
    <3> QED BY <1>1, <2>1, <3>1 DEF NoSecondCopy
  <2>3. ASSUME NEW h \in Entries \ {e}, t.entry[e].hash # Nil,
               t.entry[h].hash = t.entry[e].hash
        PROVE  FALSE
    <3>1. sector.entry[h].hash = t.entry[e].hash BY <1>2, <2>3
    <3>2. sector.entry[h].hash = sector.entry[e].hash /\ sector.entry[h].hash # Nil
      BY <2>3, <3>1
    <3> QED BY <1>1, <3>2 DEF NoSecondCopy
  <2> QED BY <2>1, <2>2, <2>3
<1>8. InPosition'
  <2>1. SUFFICES ASSUME NEW f \in Entries, t.entry[f].hash # Nil
                 PROVE  f \in ToSet(Position[t.entry[f].hash])
    BY DEF InPosition
  <2>2. CASE t.entry[f].hash = sector.entry[f].hash BY <1>1, <2>1, <2>2 DEF InPosition
  <2>3. CASE t.entry[f].hash # sector.entry[f].hash BY <1>2, <2>1, <2>3
  <2> QED BY <2>2, <2>3
<1> QED BY <1>3, <1>5, <1>6, <1>7, <1>8 DEF SectorInv

\* A step that leaves the list and the free list, and of each entry its hash
\* and its blocks.
LEMMA StaysSettled ==
  ASSUME NEW s, Settled(s), NEW t \in SectorType, t.free = s.free,
         IsInjective(t.lru), ToSet(t.lru) = ToSet(s.lru), NEW e \in Entries,
         t.entry[e].hash = s.entry[e].hash, t.entry[e].blocks = s.entry[e].blocks,
         s.entry[e].hash # Nil,
         \A f \in Entries \ {e} : t.entry[f] = s.entry[f]
  PROVE  Settled(t)
<1>1. \A f \in Entries : /\ t.entry[f].hash = s.entry[f].hash
                         /\ t.entry[f].blocks = s.entry[f].blocks
                         /\ Owned(t, f) = Owned(s, f)
  BY DEF Owned
<1>2. Partition(t, <<>>)
  <2>1. Partition(s, <<>>) BY DEF Settled
  <2> QED BY <1>1, <2>1 DEF Partition
<1>3. ToSet(t.lru) = {f \in Entries : t.entry[f].hash # Nil} BY <1>1 DEF Settled
<1>4. Vacant(t) BY <1>1 DEF Settled, Vacant
<1> QED BY <1>2, <1>3, <1>4 DEF Settled

\* Another entry in the place of e: one that is claimed for its own hash or for
\* another, opened, or closed.
LEMMA EntryReplaced ==
  ASSUME NEW s \in SectorType, NEW e \in Entries, NEW x \in EntryOf
  PROVE  LET t == [s EXCEPT !.entry = [s.entry EXCEPT ![e] = x]]
         IN  /\ t \in SectorType /\ t.free = s.free /\ t.lru = s.lru /\ t.entry[e] = x
             /\ \A f \in Entries \ {e} : t.entry[f] = s.entry[f]
<1> DEFINE t == [s EXCEPT !.entry = [s.entry EXCEPT ![e] = x]]
<1>1. s.entry \in [Entries -> EntryOf] /\ s.lru \in Seq(Entries) /\ s.free \in Seq(Blocks)
  BY SectorFields
<1>2. t.entry = [s.entry EXCEPT ![e] = x] /\ t.free = s.free /\ t.lru = s.lru
  BY DEF SectorType
<1>3. t.entry \in [Entries -> EntryOf] BY <1>1, <1>2
<1>4. t \in SectorType BY <1>2, <1>3 DEF SectorType
<1> QED BY <1>1, <1>2, <1>4

LEMMA ClaimedIsOK ==
  ASSUME NEW s, Settled(s), NEW e \in Entries, NEW t \in SectorType,
         t.free = s.free, t.lru = s.lru, t.entry[e].hash \in Hashes,
         t.entry[e].blocks = s.entry[e].blocks,
         \A f \in Entries \ {e} : t.entry[f] = s.entry[f]
  PROVE  SectorOK(t, <<>>, e)
<1>1. Partition(s, <<>>) /\ Vacant(s) /\ SectorOK(s, <<>>, e)
  BY SettledIsOK DEF Settled
<1>2. \A f \in Entries : t.entry[f].blocks = s.entry[f].blocks /\ Owned(t, f) = Owned(s, f)
  BY DEF Owned
<1>3. Partition(t, <<>>) BY <1>1, <1>2 DEF Partition
<1>4. ListedBut(t, e) /\ Vacant(t)
  BY <1>1, SizesAreNat DEF SectorOK, ListedBut, Vacant
<1> QED BY <1>3, <1>4, EmptySeqFacts DEF SectorOK

-----------------------------------------------------------------------------
(* The operations.                                                         *)

LEMMA IdleFacts ==
  /\ Idle \in ProcOf /\ Idle.op = "idle"
  /\ \A s, d : Working(s, d, Idle)
<1>1. <<>> \in Seq(Blocks) /\ <<>> \in Seq(Contents) OBVIOUS
<1>2. Idle \in ProcOf BY <1>1, SizesAreNat DEF Idle, ProcOf, Ops
<1>3. Idle.op = "idle" BY DEF Idle
<1> QED BY <1>2, <1>3 DEF Working, AtIt

LEMMA InvFacts ==
  ASSUME SectorInv
  PROVE  /\ Settled(sector) /\ sector \in SectorType /\ NoSecondCopy /\ InPosition
         /\ proc \in [Procs -> ProcOf] /\ data \in [Blocks -> Contents]
         /\ lost \in [Entries -> [readers : Nat, writers : Nat]]
         /\ \A p \in Procs : Working(sector, data, proc[p])
         /\ \A e \in Entries : Whole(sector, data, e) /\ Locks(e)
BY SectorTypes DEF SectorInv, Settled

\* Nobody but p is at an entry that has no readers and no other writer.
LEMMA Alone ==
  ASSUME SectorInv, NEW p \in Procs, NEW e \in Entries,
         Readers(e) \ {p} = {}, Writers(e) \ {p} = {}
  PROVE  \A q \in Procs \ {p} : ~(proc[q].op # "idle" /\ proc[q].entry = e)
<1>1. \A q \in Procs : proc[q].op \in Ops BY SectorTypes DEF SectorInv
<1> QED BY <1>1 DEF Readers, Writers, Ops

\* p writes v at e, which is claimed for k in s and where nobody else is.
WriteAt(p, s, e, k, v, time) ==
  /\ SectorOK(s, <<>>, e) /\ s.entry[e].creating
  /\ s.entry[e].open_count = 0 /\ s.entry[e].hash = k
  /\ \A f \in Entries \ {e} : s.entry[f] = sector.entry[f]
  /\ sector.entry[e].open_count = 0 /\ Writers(e) \ {p} = {} /\ lost[e].writers = 0
  /\ proc[p].op # "idle" => proc[p].entry = e
  /\ \/ sector.entry[e].hash = k
     \/ e \in ToSet(Position[k]) /\ \A f \in Entries \ {e} : sector.entry[f].hash # k
  /\ Write(p, s, e, k, v, time) /\ data' = data /\ lost' = lost

LEMMA WriteKeeps ==
  ASSUME SectorInv, NEW p \in Procs, NEW e \in Entries, NEW k \in Hashes,
         NEW v \in Values, Size[v] <= MaxBlocks, NEW time \in Times,
         NEW s, WriteAt(p, s, e, k, v, time)
  PROVE  SectorInv'
<1> USE DEF WriteAt
<1> DEFINE t == PutIntoEntry(s, e, time, v)
           w == [Idle EXCEPT !.op = "write", !.key = k, !.value = v,
                             !.entry = e, !.blocks = t.entry[e].blocks]
           x == IF t.entry[e].creating THEN w ELSE Idle
<1>1. sector' = t /\ proc' = [proc EXCEPT ![p] = x] BY DEF Write
<1>2. k # Nil /\ s.entry[e].hash # Nil BY SizesAreNat
<1>3. /\ Settled(t) /\ Written(s, t, e, v)
      /\ \A f \in Entries \ {e} : KeptOrFreed(s, t, f)
  BY <1>2, PutIntoEntryKeeps
<1> HIDE DEF t
<1>4. /\ t \in SectorType /\ t.entry[e].blocks \in Seq(Blocks)
      /\ t.entry[e].creating \in BOOLEAN
  BY <1>3, SectorFields DEF Settled
<1>5. Readers(e) = {} /\ lost[e].readers = 0 BY BitsTell
<1>6. CASE t.entry[e].creating
  <2>1. t.entry[e].hash = k /\ t.entry[e].open_count = 0 /\ Len(t.entry[e].blocks) = Size[v]
    BY <1>3, <1>6 DEF Written, FreeEntry
  <2>2. /\ w \in ProcOf /\ w.op = "write" /\ w.key = k /\ w.value = v /\ w.entry = e
        /\ w.blocks = t.entry[e].blocks
    BY <1>4, IdleFacts DEF ProcOf, Ops
  <2>3. x = w BY <1>6
  <2> HIDE DEF w, x
  <2>4. Working(t, data, w)
    <3>1. Copied(t, data, w)
      <4> DEFINE n == Len(t.entry[e].blocks)
      <4>1. n \in Nat BY <1>4
      <4>2. n - n = 0 /\ \A j \in 1..n : 0 + j = j BY <4>1
      <4>3. \A i \in 1..0 : FALSE OBVIOUS
      <4> QED BY <2>1, <2>2, <4>1, <4>2, <4>3 DEF Copied
    <3> QED BY <2>1, <2>2, <3>1 DEF Working, AtIt
  <2>5. Whole(t, data, e) BY <1>6 DEF Whole
  <2>6. Locks(e)'
    <3>1. proc'[p] = w /\ \A q \in Procs : q # p => proc'[q] = proc[q]
      BY <1>1, <2>3, InvFacts
    <3>2. Writers(e)' = {p} /\ Readers(e)' = {}
      BY <1>5, <2>2, <3>1 DEF Writers, Readers
    <3>3. Cardinality({}) = 0 BY FS_EmptySet
    <3> QED BY <1>1, <1>5, <1>6, <2>1, <3>2, <3>3 DEF Locks, OneWriter
  <2>7. /\ \A f \in Entries \ {e} : KeptOrFreed(sector, t, f)
    BY <1>3 DEF KeptOrFreed
  <2>8. \A q \in Procs \ {p} : ~(proc[q].op # "idle" /\ proc[q].entry = e)
    BY <1>5, Alone
  <2>9. \/ sector'.entry[e].hash \in {Nil, sector.entry[e].hash}
        \/ /\ e \in ToSet(Position[sector'.entry[e].hash])
           /\ \A f \in Entries \ {e} : sector.entry[f].hash # sector'.entry[e].hash
    BY <1>1, <2>1
  <2>10. /\ Settled(sector') /\ data' \in [Blocks -> Contents]
         /\ lost' \in [Entries -> [readers : Nat, writers : Nat]]
         /\ proc' = [proc EXCEPT ![p] = w]
         /\ Working(sector', data', w) /\ Whole(sector', data', e)
         /\ \A f \in Entries \ {e} : KeptOrFreed(sector, sector', f) /\ lost'[f] = lost[f]
    BY <1>1, <1>3, <2>3, <2>4, <2>5, <2>7, InvFacts
  <2>11. /\ \A b \in Blocks \ Owned(sector, e) : data'[b] = data[b]
         /\ \A q \in Procs \ {p} : proc[q].op # "idle" /\ proc[q].entry = e =>
              proc[q].op # "write" /\ sector'.entry[e].hash = sector.entry[e].hash
         /\ proc[p].op # "idle" => proc[p].entry = e
         /\ w.op # "idle" => w.entry = e
    BY <2>2, <2>8
  <2> HIDE <2>8
  <2>12. w \in ProcOf BY <2>2
  <2>13. StepAt(p, e, w) BY <2>6, <2>9, <2>10, <2>11 DEF StepAt
  <2> QED BY <2>12, <2>13, StepKeeps
<1>7. CASE ~t.entry[e].creating
  <2>1. t.entry[e] = FreeEntry BY <1>3, <1>7 DEF Written
  <2>2. /\ t.entry[e].hash = Nil /\ t.entry[e].open_count = 0 /\ t.entry[e].creating = FALSE
    BY <2>1 DEF FreeEntry
  <2>3. x = Idle BY <1>7
  <2> HIDE DEF x
  <2>4. Whole(t, data, e) BY <2>2 DEF Whole
  <2>5. Locks(e)'
    <3>1. proc'[p] = Idle /\ \A q \in Procs : q # p => proc'[q] = proc[q]
      BY <1>1, <2>3, InvFacts
    <3>2. Writers(e)' = {} /\ Readers(e)' = {}
      BY <1>5, <3>1, IdleFacts DEF Writers, Readers
    <3>3. Cardinality({}) = 0 BY FS_EmptySet
    <3> QED BY <1>1, <1>5, <2>2, <3>2, <3>3 DEF Locks, OneWriter
  <2>6. \A f \in Entries \ {e} : KeptOrFreed(sector, t, f) BY <1>3 DEF KeptOrFreed
  <2>7. \A q \in Procs \ {p} : ~(proc[q].op # "idle" /\ proc[q].entry = e)
    BY <1>5, Alone
  <2>8. StepAt(p, e, Idle)
    BY <1>1, <1>3, <2>2, <2>3, <2>4, <2>5, <2>6, <2>7, IdleFacts, InvFacts DEF StepAt
  <2> QED BY <2>8, IdleFacts, StepKeeps
<1> QED BY <1>6, <1>7

LEMMA ClaimedFacts ==
  ASSUME NEW s \in SectorType, NEW e \in Entries
  PROVE  LET t == Claimed(s, e)
         IN  /\ t \in SectorType /\ t.free = s.free /\ t.lru = s.lru
             /\ t.entry[e].creating /\ t.entry[e].hash = s.entry[e].hash
             /\ t.entry[e].blocks = s.entry[e].blocks
             /\ t.entry[e].open_count = s.entry[e].open_count
             /\ \A f \in Entries \ {e} : t.entry[f] = s.entry[f]
<1> DEFINE x == [s.entry[e] EXCEPT !.creating = TRUE]
           t == Claimed(s, e)
<1>1. /\ x \in EntryOf /\ x.hash = s.entry[e].hash /\ x.blocks = s.entry[e].blocks
      /\ x.creating /\ x.open_count = s.entry[e].open_count
  BY SectorFields DEF EntryOf
<1>2. t = [s EXCEPT !.entry = [s.entry EXCEPT ![e] = x]] BY DEF Claimed
<1> HIDE DEF x, t
<1>3. /\ t \in SectorType /\ t.free = s.free /\ t.lru = s.lru /\ t.entry[e] = x
      /\ \A f \in Entries \ {e} : t.entry[f] = s.entry[f]
  BY <1>1, <1>2, EntryReplaced
<1> QED BY <1>1, <1>3 DEF t

\* p, a put or a delete that becomes x, has to wait for the readers of e.
AwaitAt(p, e, x) ==
  /\ proc[p] = Idle /\ ~sector.entry[e].creating /\ sector.entry[e].hash \in Hashes
  /\ x.op \in {"await_put", "await_delete"}
  /\ x.entry = e /\ x.key = sector.entry[e].hash
  /\ x.op = "await_put" =>
       x.value \in Values /\ Size[x.value] <= MaxBlocks /\ x.time \in Times
  /\ sector' = Claimed(sector, e) /\ proc' = [proc EXCEPT ![p] = x]
  /\ data' = data /\ lost' = lost

LEMMA AwaitKeeps ==
  ASSUME SectorInv, NEW p \in Procs, NEW e \in Entries, NEW x \in ProcOf, AwaitAt(p, e, x)
  PROVE  SectorInv'
<1> USE DEF AwaitAt
<1> DEFINE t == sector'
<1>1. Settled(sector) /\ sector \in SectorType /\ Locks(e) BY InvFacts
<1>2. /\ t \in SectorType /\ t.free = sector.free /\ t.lru = sector.lru
      /\ t.entry[e].creating /\ t.entry[e].hash = sector.entry[e].hash
      /\ t.entry[e].blocks = sector.entry[e].blocks
      /\ t.entry[e].open_count = sector.entry[e].open_count
      /\ \A f \in Entries \ {e} : t.entry[f] = sector.entry[f]
  BY <1>1, ClaimedFacts
<1>3. Settled(t)
  <2>1. IsInjective(sector.lru) /\ sector.entry[e].hash # Nil
    BY <1>1, SizesAreNat DEF Settled
  <2> QED BY <1>1, <1>2, <2>1, StaysSettled
<1>4. Writers(e) = {} /\ lost[e].writers = 0 BY BitsTell
<1>5. proc'[p] = x /\ \A q \in Procs : q # p => proc'[q] = proc[q] BY InvFacts
<1>6. Writers(e)' = {p} /\ Readers(e)' = Readers(e)
  BY <1>4, <1>5, IdleFacts DEF Writers, Readers
<1>7. Locks(e)' BY <1>1, <1>2, <1>4, <1>6 DEF Locks, OneWriter
<1>8. Working(t, data, x) BY <1>2 DEF Working, AtIt
<1>9. Whole(t, data, e) BY <1>2 DEF Whole
<1>10. \A q \in Procs \ {p} : proc[q].op # "idle" /\ proc[q].entry = e =>
         proc[q].op # "write" /\ t.entry[e].hash = sector.entry[e].hash
  BY <1>2, <1>4 DEF Writers
<1>11. /\ data' \in [Blocks -> Contents]
       /\ lost' \in [Entries -> [readers : Nat, writers : Nat]]
       /\ \A f \in Entries \ {e} : KeptOrFreed(sector, t, f) /\ lost'[f] = lost[f]
       /\ \A b \in Blocks \ Owned(sector, e) : data'[b] = data[b]
       /\ proc[p].op # "idle" => proc[p].entry = e
       /\ x.op # "idle" => x.entry = e
       /\ Working(t, data', x) /\ Whole(t, data', e)
  BY <1>2, <1>8, <1>9, InvFacts, IdleFacts DEF KeptOrFreed
<1>12. t.entry[e].hash \in {Nil, sector.entry[e].hash} BY <1>2
<1>13. StepAt(p, e, x) BY <1>3, <1>7, <1>10, <1>11, <1>12 DEF StepAt
<1> QED BY <1>13, StepKeeps

\* A put is one of these steps, if it is anything.
LEMMA PutUpdateIs ==
  ASSUME SectorInv, NEW p \in Procs, NEW k \in Hashes, NEW v \in Values,
         NEW time \in Times, PutUpdate(p, k, v, time),
         ~UNCHANGED <<sector, proc>>
  PROVE  /\ Size[v] <= MaxBlocks /\ proc[p] = Idle
         /\ \E e \in Entries : \/ \E s : WriteAt(p, s, e, k, v, time)
                               \/ \E y \in ProcOf : AwaitAt(p, e, y)
<1> DEFINE x(e) == [Idle EXCEPT !.op = "await_put", !.key = k, !.value = v,
                                !.entry = e, !.time = time]
<1>1. /\ proc[p] = Idle /\ Size[v] <= MaxBlocks /\ data' = data /\ lost' = lost
  BY DEF PutUpdate
<1>2. PICK e \in Found(k) :
        /\ ~sector.entry[e].creating
        /\ \/ Ready(e) /\ Write(p, Claimed(sector, e), e, k, v, time)
           \/ sector' = Claimed(sector, e) /\ proc' = [proc EXCEPT ![p] = x(e)]
  BY DEF PutUpdate
<1>3. e \in Entries /\ sector.entry[e].hash = k BY FoundFacts
<1>4. sector \in SectorType /\ Settled(sector) BY InvFacts
<1>5. CASE Ready(e) /\ Write(p, Claimed(sector, e), e, k, v, time)
  <2> DEFINE s == Claimed(sector, e)
  <2>1. /\ s \in SectorType /\ s.free = sector.free /\ s.lru = sector.lru
        /\ s.entry[e].creating /\ s.entry[e].hash = k
        /\ s.entry[e].blocks = sector.entry[e].blocks
        /\ s.entry[e].open_count = sector.entry[e].open_count
        /\ \A f \in Entries \ {e} : s.entry[f] = sector.entry[f]
    BY <1>3, <1>4, ClaimedFacts
  <2>2. Write(p, s, e, k, v, time) /\ sector.entry[e].open_count = 0 BY <1>5 DEF Ready
  <2> HIDE DEF s
  <2>3. SectorOK(s, <<>>, e) BY <1>3, <1>4, <2>1, ClaimedIsOK
  <2>4. Writers(e) \ {p} = {} /\ lost[e].writers = 0 BY <1>2, <1>3, BitsTell
  <2>5. proc[p].op # "idle" => proc[p].entry = e BY <1>1, IdleFacts
  <2>6. WriteAt(p, s, e, k, v, time)
    BY <1>1, <1>3, <2>1, <2>2, <2>3, <2>4, <2>5 DEF WriteAt
  <2> QED BY <1>1, <1>3, <2>6
<1>6. CASE sector' = Claimed(sector, e) /\ proc' = [proc EXCEPT ![p] = x(e)]
  <2>1. /\ x(e) \in ProcOf /\ x(e).op = "await_put" /\ x(e).entry = e /\ x(e).key = k
        /\ x(e).value = v /\ x(e).time = time
    BY <1>3, IdleFacts DEF ProcOf, Ops
  <2> DEFINE y == x(e)
  <2>2. proc' = [proc EXCEPT ![p] = y] BY <1>6
  <2>3. /\ y \in ProcOf /\ y.op = "await_put" /\ y.entry = e /\ y.key = k
        /\ y.value = v /\ y.time = time
    BY <2>1
  <2> HIDE DEF y
  <2>4. AwaitAt(p, e, y) BY <1>1, <1>2, <1>3, <1>6, <2>2, <2>3 DEF AwaitAt
  <2> QED BY <1>1, <1>3, <2>3, <2>4
<1> QED BY <1>2, <1>5, <1>6

LEMMA PutUpdateKeeps ==
  ASSUME SectorInv, NEW p \in Procs, NEW k \in Hashes, NEW v \in Values,
         NEW time \in Times, PutUpdate(p, k, v, time),
         ~UNCHANGED <<sector, proc>>
  PROVE  SectorInv'
BY PutUpdateIs, WriteKeeps, AwaitKeeps

LEMMA PutReplaceIs ==
  ASSUME SectorInv, NEW p \in Procs, NEW k \in Hashes, NEW v \in Values,
         NEW time \in Times, PutReplace(p, k, v, time),
         ~UNCHANGED <<sector, proc>>
  PROVE  /\ Size[v] <= MaxBlocks /\ proc[p] = Idle
         /\ \E e \in Entries : \E s : WriteAt(p, s, e, k, v, time)
<1>1. /\ proc[p] = Idle /\ Size[v] <= MaxBlocks /\ data' = data /\ lost' = lost
      /\ Found(k) = {}
  BY DEF PutReplace
<1>2. PICK e \in Best(k) :
        Write(p, [Claimed(sector, e) EXCEPT !.entry[e].hash = k], e, k, v, time)
  BY DEF PutReplace
<1>3. /\ e \in Entries /\ e \in ToSet(Position[k])
      /\ sector.entry[e].open_count = 0 /\ ~sector.entry[e].creating
  BY BestFacts
<1>4. sector \in SectorType /\ Settled(sector) BY InvFacts
<1> DEFINE c == Claimed(sector, e)
           x == [c.entry[e] EXCEPT !.hash = k]
           s == [c EXCEPT !.entry[e].hash = k]
<1>5. /\ c \in SectorType /\ c.free = sector.free /\ c.lru = sector.lru
      /\ c.entry[e].creating /\ c.entry[e].blocks = sector.entry[e].blocks
      /\ c.entry[e].open_count = sector.entry[e].open_count
      /\ \A f \in Entries \ {e} : c.entry[f] = sector.entry[f]
  BY <1>3, <1>4, ClaimedFacts
<1>6. Write(p, s, e, k, v, time) /\ s = [c EXCEPT !.entry = [c.entry EXCEPT ![e] = x]]
  BY <1>2
<1> HIDE DEF c, s
<1>7. /\ x \in EntryOf /\ x.hash = k /\ x.blocks = sector.entry[e].blocks
      /\ x.creating /\ x.open_count = 0
  <2>1. c.entry[e] \in EntryOf BY <1>3, <1>5, SectorFields
  <2> QED BY <1>3, <1>5, <2>1 DEF EntryOf
<1> HIDE DEF x
<1>8. /\ s \in SectorType /\ s.free = c.free /\ s.lru = c.lru /\ s.entry[e] = x
      /\ \A f \in Entries \ {e} : s.entry[f] = c.entry[f]
  BY <1>3, <1>5, <1>6, <1>7, EntryReplaced
<1>9. /\ s.free = sector.free /\ s.lru = sector.lru /\ s.entry[e].hash = k
      /\ s.entry[e].creating /\ s.entry[e].open_count = 0
      /\ s.entry[e].blocks = sector.entry[e].blocks
      /\ \A f \in Entries \ {e} : s.entry[f] = sector.entry[f]
  BY <1>5, <1>7, <1>8
<1>10. SectorOK(s, <<>>, e) BY <1>3, <1>4, <1>8, <1>9, ClaimedIsOK
<1>11. Writers(e) \ {p} = {} /\ lost[e].writers = 0 BY <1>3, BitsTell
<1>12. proc[p].op # "idle" => proc[p].entry = e BY <1>1, IdleFacts
<1>13. \A f \in Entries \ {e} : sector.entry[f].hash # k
  <2>1. SUFFICES ASSUME NEW f \in Entries, sector.entry[f].hash = k PROVE FALSE OBVIOUS
  <2>2. f \in ToSet(Position[k]) BY <2>1, InvFacts, SizesAreNat DEF InPosition
  <2> QED BY <1>1, <2>1, <2>2, FoundFacts
<1>14. WriteAt(p, s, e, k, v, time)
  BY <1>1, <1>3, <1>6, <1>9, <1>10, <1>11, <1>12, <1>13 DEF WriteAt
<1> QED BY <1>1, <1>3, <1>14

LEMMA PutReplaceKeeps ==
  ASSUME SectorInv, NEW p \in Procs, NEW k \in Hashes, NEW v \in Values,
         NEW time \in Times, PutReplace(p, k, v, time),
         ~UNCHANGED <<sector, proc>>
  PROVE  SectorInv'
BY PutReplaceIs, WriteKeeps

LEMMA PutReadyIs ==
  ASSUME SectorInv, NEW p \in Procs, PutReady(p)
  PROVE  \E e \in Entries, k \in Hashes, v \in Values, time \in Times : \E s :
           /\ proc[p].op = "await_put" /\ proc[p].key = k /\ proc[p].value = v
           /\ Size[v] <= MaxBlocks /\ WriteAt(p, s, e, k, v, time)
<1>1. PICK x \in ProcOf : x = proc[p] BY SectorTypes DEF SectorInv
<1> DEFINE e == x.entry
           k == x.key
           v == x.value
           time == x.time
<1>2. /\ x.op = "await_put" /\ sector.entry[e].open_count = 0
      /\ Write(p, sector, e, k, v, time) /\ data' = data /\ lost' = lost
  BY <1>1 DEF PutReady, Ready
<1>3. /\ e \in Entries /\ k \in Hashes /\ v \in Values /\ Size[v] <= MaxBlocks
      /\ time \in Times /\ sector.entry[e].hash = k
  BY <1>1, <1>2, InvFacts DEF Working, AtIt
<1>4. p \in Writers(e) BY <1>1, <1>2 DEF Writers
<1>5. /\ proc[p].entry = e /\ proc[p].op = "await_put" /\ proc[p].key = k
      /\ proc[p].value = v
  BY <1>1, <1>2
<1> HIDE DEF e, k, v, time
<1>6. Writers(e) \ {p} = {} /\ lost[e].writers = 0 /\ sector.entry[e].creating
  BY <1>3, <1>4, BitsTell
<1>7. SectorOK(sector, <<>>, e) BY <1>3, InvFacts, SettledIsOK
<1>8. WriteAt(p, sector, e, k, v, time) BY <1>2, <1>3, <1>5, <1>6, <1>7 DEF WriteAt
<1> QED BY <1>3, <1>5, <1>8

LEMMA PutReadyKeeps ==
  ASSUME SectorInv, NEW p \in Procs, PutReady(p) PROVE SectorInv'
BY PutReadyIs, WriteKeeps

LEMMA CopyInKeeps ==
  ASSUME SectorInv, NEW p \in Procs, CopyIn(p) PROVE SectorInv'
<1>1. PICK x \in ProcOf : x = proc[p] BY SectorTypes DEF SectorInv
<1> DEFINE e == x.entry
           y == [x EXCEPT !.blocks = Tail(x.blocks)]
           blocks == sector.entry[e].blocks
           n == Len(blocks)
           m == Len(x.blocks)
           b == Head(x.blocks)
           c == Portion(x.key, x.value, Size[x.value] - m + 1)
<1>2. /\ x.op = "write" /\ x.blocks # <<>> /\ data' = [data EXCEPT ![b] = c]
      /\ proc' = [proc EXCEPT ![p] = y] /\ sector' = sector /\ lost' = lost
  BY <1>1 DEF CopyIn
<1>3. /\ x.blocks \in Seq(Blocks) /\ Working(sector, data, x)
      /\ data \in [Blocks -> Contents] /\ proc \in [Procs -> ProcOf]
  BY <1>1, InvFacts DEF ProcOf
<1>4. /\ e \in Entries /\ x.key \in Hashes /\ x.value \in Values
      /\ Size[x.value] <= MaxBlocks /\ sector.entry[e].hash = x.key
      /\ sector.entry[e].open_count = 0 /\ Copied(sector, data, x)
  BY <1>2, <1>3 DEF Working, AtIt
<1>5. p \in Writers(e) BY <1>1, <1>2 DEF Writers
<1>6. /\ Writers(e) = {p} /\ sector.entry[e].creating /\ Readers(e) = {}
  BY <1>4, <1>5, BitsTell
<1>7. /\ Settled(sector) /\ sector \in SectorType /\ blocks \in Seq(Blocks)
      /\ IsInjective(blocks) /\ Owned(sector, e) = ToSet(blocks)
  <2>1. Settled(sector) /\ sector \in SectorType BY InvFacts
  <2>2. blocks \in Seq(Blocks) BY <1>4, <2>1, SectorFields
  <2>3. IsInjective(blocks) BY <1>4, <2>1 DEF Settled, Partition
  <2> QED BY <2>1, <2>2, <2>3 DEF Owned
<1>8. /\ m <= n /\ n = Size[x.value]
      /\ \A j \in 1..m : x.blocks[j] = blocks[n - m + j]
      /\ \A i \in 1..(n - m) : data[blocks[i]] = Portion(x.key, x.value, i)
  BY <1>4 DEF Copied
<1>9. n \in Nat /\ m \in Nat /\ m # 0 BY <1>2, <1>3, <1>7
<1>10. /\ y \in ProcOf /\ y.op = "write" /\ y.entry = e /\ y.key = x.key
       /\ y.value = x.value /\ y.blocks = Tail(x.blocks)
       /\ Len(y.blocks) = m - 1 /\ \A j \in 1..(m - 1) : y.blocks[j] = x.blocks[j + 1]
  <2>1. Tail(x.blocks) \in Seq(Blocks) /\ Len(Tail(x.blocks)) = m - 1
        /\ \A j \in 1..(m - 1) : Tail(x.blocks)[j] = x.blocks[j + 1]
    BY <1>2, <1>3
  <2> QED BY <1>2, <1>3, <2>1 DEF ProcOf
<1>11. b = x.blocks[1] BY <1>2, <1>3
<1> HIDE DEF n, m, b, y
<1>12. n - m + 1 \in 1..n BY <1>8, <1>9
<1>13. b = blocks[n - m + 1] /\ b \in Blocks /\ b \in Owned(sector, e)
  <2>1. 1 \in 1..m BY <1>9
  <2>2. b = blocks[n - m + 1] BY <1>8, <1>11, <2>1
  <2>3. blocks[n - m + 1] \in ToSet(blocks) /\ ToSet(blocks) \subseteq Blocks
    BY <1>7, <1>12, ToSetFacts DEF n
  <2> QED BY <1>7, <2>2, <2>3
<1>14. c = Portion(x.key, x.value, n - m + 1) /\ c \in Contents
  <2>1. n - m + 1 \in 1..MaxBlocks BY <1>4, <1>8, <1>9, <1>12, SizesAreNat
  <2> QED BY <1>4, <1>8, <2>1 DEF Contents
<1> HIDE DEF c
<1>15. /\ data' \in [Blocks -> Contents] /\ data'[b] = c
       /\ \A d \in Blocks : d # b => data'[d] = data[d]
  BY <1>2, <1>3, <1>13, <1>14
<1>16. Copied(sector, data', y)
  <2> DEFINE done == n - (m - 1)
  <2>1. n - Len(y.blocks) = done /\ Len(y.blocks) <= n BY <1>8, <1>9, <1>10
  <2>2. \A j \in 1..(m - 1) : y.blocks[j] = blocks[done + j]
    <3>1. SUFFICES ASSUME NEW j \in 1..(m - 1) PROVE y.blocks[j] = blocks[done + j] OBVIOUS
    <3>2. j + 1 \in 1..m /\ n - m + (j + 1) = done + j BY <1>9
    <3> QED BY <1>8, <1>10, <3>2
  <2>3. \A i \in 1..done : data'[blocks[i]] = Portion(x.key, x.value, i)
    <3>1. SUFFICES ASSUME NEW i \in 1..done
                   PROVE  data'[blocks[i]] = Portion(x.key, x.value, i)
      OBVIOUS
    <3>2. i \in 1..n /\ (i = n - m + 1 \/ i \in 1..(n - m)) BY <1>8, <1>9
    <3>3. CASE i = n - m + 1 BY <1>13, <1>14, <1>15, <3>3
    <3>4. CASE i \in 1..(n - m)
      <4>1. i # n - m + 1 BY <1>9, <3>4
      <4>2. DOMAIN blocks = 1..n BY <1>7 DEF n
      <4>3. blocks[i] # b BY <1>7, <1>12, <1>13, <3>2, <4>1, <4>2 DEF IsInjective
      <4>4. blocks[i] \in Blocks BY <1>7, <3>2 DEF n
      <4> QED BY <1>8, <1>15, <3>4, <4>3, <4>4
    <3> QED BY <3>2, <3>3, <3>4
  <2> HIDE DEF done
  <2>4. y.value = x.value /\ y.key = x.key /\ sector.entry[y.entry].blocks = blocks
    BY <1>10
  <2> QED BY <1>8, <1>10, <2>1, <2>2, <2>3, <2>4 DEF Copied, n
<1>17. Working(sector, data', y)
  <2>1. AtIt(sector, y) BY <1>4, <1>10 DEF AtIt
  <2> QED BY <1>16, <2>1 DEF Working
<1>18. Locks(e)'
  <2>1. proc'[p] = y /\ \A q \in Procs : q # p => proc'[q] = proc[q] BY <1>2, <1>3
  <2>2. Writers(e)' = {p} /\ Readers(e)' = {} BY <1>6, <1>10, <2>1 DEF Writers, Readers
  <2>3. Locks(e) BY <1>4, InvFacts
  <2> QED BY <1>2, <1>6, <2>2, <2>3 DEF Locks
<1>19. Whole(sector, data', e) BY <1>6 DEF Whole
<1>20. /\ \A f \in Entries \ {e} : KeptOrFreed(sector, sector, f)
       /\ \A d \in Blocks \ Owned(sector, e) : data'[d] = data[d]
       /\ \A q \in Procs \ {p} : ~(proc[q].op # "idle" /\ proc[q].entry = e)
       /\ proc[p].entry = e
  <2>1. \A q \in Procs \ {p} : ~(proc[q].op # "idle" /\ proc[q].entry = e)
    BY <1>4, <1>6, Alone
  <2> QED BY <1>1, <1>13, <1>15, <2>1 DEF KeptOrFreed
<1>21. StepAt(p, e, y)
  BY <1>2, <1>7, <1>10, <1>15, <1>17, <1>18, <1>19, <1>20, InvFacts DEF StepAt
<1> HIDE DEF e
<1> QED BY <1>4, <1>10, <1>21, StepKeeps

LEMMA PutDoneKeeps ==
  ASSUME SectorInv, NEW p \in Procs, PutDone(p) PROVE SectorInv'
<1>0. PICK x \in ProcOf : x = proc[p] BY SectorTypes DEF SectorInv
<1> DEFINE e == x.entry
           z == [sector.entry[e] EXCEPT !.creating = FALSE]
           t == [sector EXCEPT !.entry = [sector.entry EXCEPT ![e] = z]]
<1>1. /\ x.op = "write" /\ x.blocks = <<>> /\ sector' = t
      /\ proc' = [proc EXCEPT ![p] = Idle] /\ data' = data /\ lost' = lost
  BY <1>0 DEF PutDone
<1>2. Working(sector, data, x) /\ proc \in [Procs -> ProcOf] BY <1>0, InvFacts
<1>3. /\ e \in Entries /\ x.key \in Hashes /\ x.value \in Values
      /\ Size[x.value] <= MaxBlocks /\ sector.entry[e].hash = x.key
      /\ sector.entry[e].open_count = 0 /\ Copied(sector, data, x)
  BY <1>1, <1>2 DEF Working, AtIt
<1>4. p \in Writers(e) BY <1>0, <1>1 DEF Writers
<1>5. /\ Writers(e) = {p} /\ lost[e].writers = 0 /\ Readers(e) = {} /\ lost[e].readers = 0
  BY <1>3, <1>4, BitsTell
<1>6. /\ Settled(sector) /\ sector \in SectorType /\ IsInjective(sector.lru)
      /\ sector.entry[e].hash # Nil /\ sector.entry[e].blocks \in Seq(Blocks)
  BY <1>3, InvFacts, SectorFields, SizesAreNat DEF Settled
<1>7. /\ z \in EntryOf /\ z.hash = sector.entry[e].hash /\ z.open_count = 0
      /\ z.blocks = sector.entry[e].blocks /\ ~z.creating
  BY <1>3, <1>6, SectorFields DEF EntryOf
<1> HIDE DEF z
<1>8. /\ t \in SectorType /\ t.free = sector.free /\ t.lru = sector.lru /\ t.entry[e] = z
      /\ \A f \in Entries \ {e} : t.entry[f] = sector.entry[f]
  BY <1>3, <1>6, <1>7, EntryReplaced
<1> HIDE DEF t
<1>9. Settled(t) BY <1>3, <1>6, <1>7, <1>8, StaysSettled
<1>10. Whole(t, data, e)
  <2>1. /\ Len(sector.entry[e].blocks) = Size[x.value]
        /\ \A i \in 1..Size[x.value] :
             data[sector.entry[e].blocks[i]] = Portion(x.key, x.value, i)
    <3>1. Len(x.blocks) = 0 BY <1>1
    <3>2. Len(sector.entry[e].blocks) - 0 = Len(sector.entry[e].blocks) BY <1>6
    <3> QED BY <1>3, <3>1, <3>2 DEF Copied
  <2> QED BY <1>3, <1>7, <1>8, <2>1 DEF Whole
<1>11. Locks(e)'
  <2>1. proc'[p] = Idle /\ \A q \in Procs : q # p => proc'[q] = proc[q] BY <1>1, <1>2
  <2>2. Writers(e)' = {} /\ Readers(e)' = {}
    BY <1>5, <2>1, IdleFacts DEF Writers, Readers
  <2>3. Cardinality({}) = 0 BY FS_EmptySet
  <2> QED BY <1>1, <1>5, <1>7, <1>8, <2>2, <2>3 DEF Locks, OneWriter
<1>12. \A q \in Procs \ {p} : ~(proc[q].op # "idle" /\ proc[q].entry = e)
  BY <1>3, <1>5, Alone
<1>13. /\ \A f \in Entries \ {e} : KeptOrFreed(sector, t, f)
       /\ proc[p].entry = e /\ t.entry[e].hash = sector.entry[e].hash
  BY <1>0, <1>7, <1>8 DEF KeptOrFreed
<1>14. StepAt(p, e, Idle)
  BY <1>1, <1>9, <1>10, <1>11, <1>12, <1>13, IdleFacts, InvFacts DEF StepAt
<1> QED BY <1>3, <1>14, IdleFacts, StepKeeps

\* What a get leaves that found an entry for its key.
GetAt(p, k, e, y) ==
  /\ sector.entry[e].hash = k /\ ~sector.entry[e].creating
  /\ y.op = "read" /\ y.key = k /\ y.entry = e
  /\ y.blocks = sector.entry[e].blocks /\ y.got = <<>>
  /\ proc' = [proc EXCEPT ![p] = y] /\ data' = data /\ lost' = lost
  /\ sector' \in SectorType /\ IsInjective(sector'.lru)
  /\ sector'.free = sector.free /\ ToSet(sector'.lru) = ToSet(sector.lru)
  /\ sector'.entry[e].hash = sector.entry[e].hash
  /\ sector'.entry[e].blocks = sector.entry[e].blocks
  /\ sector'.entry[e].open_count = sector.entry[e].open_count + 1
  /\ sector'.entry[e].creating = FALSE
  /\ \A f \in Entries \ {e} : sector'.entry[f] = sector.entry[f]

LEMMA GetIs ==
  ASSUME SectorInv, NEW p \in Procs, NEW k \in Hashes, NEW time \in Times,
         Get(p, k, time), ~UNCHANGED <<sector, proc>>
  PROVE  proc[p] = Idle /\ \E e \in Entries, y \in ProcOf : GetAt(p, k, e, y)
<1> DEFINE x(e) == [Idle EXCEPT !.op = "read", !.key = k, !.entry = e,
                                !.blocks = sector.entry[e].blocks]
           z(e) == [sector.entry[e] EXCEPT !.open_count = @ + 1]
           u(e) == [sector EXCEPT !.entry = [sector.entry EXCEPT ![e] = z(e)]]
<1>1. proc[p] = Idle /\ data' = data /\ lost' = lost BY DEF Get
<1>2. PICK e \in Found(k) :
        /\ ~sector.entry[e].creating /\ sector' = TouchEntry(u(e), e, time)
        /\ proc' = [proc EXCEPT ![p] = x(e)]
  BY DEF Get, Readable, Opened
<1>3. e \in Entries /\ sector.entry[e].hash = k /\ k # Nil BY FoundFacts, SizesAreNat
<1>4. /\ Settled(sector) /\ sector \in SectorType /\ IsInjective(sector.lru)
      /\ sector.entry[e].blocks \in Seq(Blocks) /\ sector.entry[e].open_count \in Nat
      /\ e \in ToSet(sector.lru) /\ Locks(e) /\ proc \in [Procs -> ProcOf]
  BY <1>3, InvFacts, SectorFields DEF Settled
<1> DEFINE y == x(e)
           w == z(e)
           s == u(e)
           t == sector'
<1>5. /\ y \in ProcOf /\ y.op = "read" /\ y.key = k /\ y.entry = e
      /\ y.blocks = sector.entry[e].blocks /\ y.got = <<>>
  BY <1>3, <1>4, IdleFacts DEF ProcOf, Ops, Idle
<1>6. /\ w \in EntryOf /\ w.hash = k /\ w.blocks = sector.entry[e].blocks
      /\ w.open_count = sector.entry[e].open_count + 1 /\ w.creating = FALSE
  <2>1. sector.entry[e] \in EntryOf /\ sector.entry[e].creating = FALSE
    BY <1>2, <1>3, <1>4, SectorFields
  <2>2. sector.entry[e].open_count + 1 \in Nat BY <1>4
  <2> QED BY <1>3, <2>1, <2>2 DEF EntryOf
<1>7. s = [sector EXCEPT !.entry = [sector.entry EXCEPT ![e] = w]] OBVIOUS
<1>8. t = TouchEntry(s, e, time) /\ proc' = [proc EXCEPT ![p] = y] BY <1>2
<1> HIDE DEF y, w, s
<1>9. /\ s \in SectorType /\ s.free = sector.free /\ s.lru = sector.lru /\ s.entry[e] = w
      /\ \A f \in Entries \ {e} : s.entry[f] = sector.entry[f]
  BY <1>3, <1>4, <1>6, <1>7, EntryReplaced
<1>10. /\ t \in SectorType /\ t.free = s.free
       /\ \A f \in Entries : f # e => t.entry[f] = s.entry[f]
       /\ t.entry[e].hash = w.hash /\ t.entry[e].blocks = w.blocks
       /\ t.entry[e].open_count = w.open_count /\ t.entry[e].creating = w.creating
       /\ IsInjective(t.lru) /\ ToSet(t.lru) = ToSet(s.lru) \cup {e}
  BY <1>3, <1>4, <1>8, <1>9, TouchEntryFacts
<1>11. /\ t.free = sector.free /\ t.entry[e].hash = sector.entry[e].hash
       /\ t.entry[e].blocks = sector.entry[e].blocks /\ ToSet(t.lru) = ToSet(sector.lru)
       /\ t.entry[e].open_count = sector.entry[e].open_count + 1
       /\ t.entry[e].creating = FALSE
       /\ \A f \in Entries \ {e} : t.entry[f] = sector.entry[f]
  BY <1>3, <1>4, <1>6, <1>9, <1>10, SectorFields
<1> HIDE DEF t
<1>12. GetAt(p, k, e, y) BY <1>1, <1>2, <1>3, <1>5, <1>8, <1>10, <1>11 DEF GetAt, t
<1> QED BY <1>1, <1>3, <1>5, <1>12

LEMMA GetKeeps ==
  ASSUME SectorInv, NEW p \in Procs, NEW k \in Hashes, NEW time \in Times,
         Get(p, k, time), ~UNCHANGED <<sector, proc>>
  PROVE  SectorInv'
<1> DEFINE t == sector'
<1>1. proc[p] = Idle BY GetIs
<1>2. PICK e \in Entries, y \in ProcOf : GetAt(p, k, e, y) BY GetIs
<1>3. e \in Entries /\ sector.entry[e].hash = k /\ k # Nil BY <1>2, SizesAreNat DEF GetAt
<1>4. /\ Settled(sector) /\ sector \in SectorType /\ IsInjective(sector.lru)
      /\ Locks(e) /\ proc \in [Procs -> ProcOf]
  BY <1>3, InvFacts DEF Settled
<1>5. y \in ProcOf /\ y.op = "read" /\ y.key = k /\ y.entry = e BY <1>2 DEF GetAt
<1>6. t = sector' /\ proc' = [proc EXCEPT ![p] = y] BY <1>2 DEF GetAt
<1>7. t \in SectorType /\ IsInjective(t.lru) BY <1>2 DEF GetAt
<1>8. /\ t.free = sector.free /\ t.entry[e].hash = sector.entry[e].hash
       /\ t.entry[e].blocks = sector.entry[e].blocks /\ ToSet(t.lru) = ToSet(sector.lru)
       /\ t.entry[e].open_count = sector.entry[e].open_count + 1
       /\ t.entry[e].creating = FALSE /\ ~sector.entry[e].creating
       /\ data' = data /\ lost' = lost
       /\ \A f \in Entries \ {e} : t.entry[f] = sector.entry[f]
  BY <1>2 DEF GetAt
<1>9. Settled(t) BY <1>3, <1>4, <1>7, <1>8, StaysSettled
<1>10. Writers(e) = {} /\ lost[e].writers = 0 BY <1>8, <1>3, BitsTell
<1>11. Locks(e)'
  <2>1. proc'[p] = y /\ \A q \in Procs : q # p => proc'[q] = proc[q] BY <1>4, <1>6
  <2>2. p \notin Readers(e) BY <1>1, IdleFacts DEF Readers
  <2>3. Writers(e)' = {} BY <1>5, <1>10, <2>1 DEF Writers
  <2>4. Readers(e)' = Readers(e) \cup {p} BY <1>5, <2>1 DEF Readers
  <2>5. Cardinality(Readers(e) \cup {p}) = Cardinality(Readers(e)) + 1
    BY <2>2, ActorsAreFinite, FS_AddElement
  <2>6. Cardinality(Readers(e)) \in Nat /\ lost[e].readers \in Nat
    BY <1>3, ActorsAreFinite, SectorTypes DEF SectorInv
  <2>7. sector.entry[e].open_count = Cardinality(Readers(e)) + lost[e].readers
    BY <1>4 DEF Locks
  <2>8. t.entry[e].open_count = Cardinality(Readers(e)') + lost[e].readers
    BY <1>8, <2>4, <2>5, <2>6, <2>7
  <2> QED BY <1>8, <1>10, <2>3, <2>8 DEF Locks, OneWriter
<1>12. Working(t, data, y) BY <1>3, <1>5, <1>8 DEF Working, AtIt
<1>13. Whole(t, data, e)
  <2>1. Whole(sector, data, e) BY <1>3, InvFacts
  <2> QED BY <1>3, <1>8, <2>1 DEF Whole
<1>14. /\ \A f \in Entries \ {e} : KeptOrFreed(sector, t, f)
       /\ \A q \in Procs \ {p} : proc[q].op # "idle" /\ proc[q].entry = e =>
            proc[q].op # "write" /\ t.entry[e].hash = sector.entry[e].hash
  BY <1>8, <1>10 DEF KeptOrFreed, Writers
<1>15. StepAt(p, e, y)
  BY <1>1, <1>5, <1>6, <1>8, <1>9, <1>11, <1>12, <1>13, <1>14, IdleFacts, InvFacts
  DEF StepAt
<1> QED BY <1>3, <1>5, <1>15, StepKeeps

LEMMA CopyOutKeeps ==
  ASSUME SectorInv, NEW p \in Procs, CopyOut(p) PROVE SectorInv'
<1>1. PICK x \in ProcOf : x = proc[p] BY SectorTypes DEF SectorInv
<1> DEFINE e == x.entry
           g == Append(x.got, data[Head(x.blocks)])
           y == [x EXCEPT !.blocks = Tail(x.blocks), !.got = g]
<1>2. /\ x.op = "read" /\ x.blocks # <<>>
      /\ proc' = [proc EXCEPT ![p].blocks = Tail(@),
                              ![p].got = Append(@, data[Head(proc[p].blocks)])]
      /\ sector' = sector /\ data' = data /\ lost' = lost
  BY <1>1 DEF CopyOut
<1>3. /\ x.blocks \in Seq(Blocks) /\ x.got \in Seq(Contents) /\ Working(sector, data, x)
      /\ data \in [Blocks -> Contents] /\ proc \in [Procs -> ProcOf]
  BY <1>1, InvFacts DEF ProcOf
<1>4. proc' = [proc EXCEPT ![p] = y] BY <1>1, <1>2, <1>3
<1>5. e \in Entries /\ x.key \in Hashes /\ sector.entry[e].hash = x.key
  BY <1>2, <1>3 DEF Working, AtIt
<1>6. /\ y \in ProcOf /\ y.op = "read" /\ y.entry = e /\ y.key = x.key
  <2>1. Tail(x.blocks) \in Seq(Blocks) /\ Head(x.blocks) \in Blocks BY <1>2, <1>3
  <2>2. g \in Seq(Contents) BY <1>3, <2>1
  <2> HIDE DEF g
  <2> QED BY <1>2, <1>3, <2>1, <2>2 DEF ProcOf
<1> HIDE DEF y
<1>7. p \in Readers(e) BY <1>1, <1>2 DEF Readers
<1>8. sector.entry[e].open_count # 0 BY <1>5, <1>7, BitsTell
<1>9. Working(sector, data, y) BY <1>5, <1>6 DEF Working, AtIt
<1>10. Locks(e)'
  <2>1. proc'[p] = y /\ \A q \in Procs : q # p => proc'[q] = proc[q] BY <1>3, <1>4
  <2>2. Writers(e)' = Writers(e) /\ Readers(e)' = Readers(e)
    BY <1>1, <1>2, <1>6, <2>1 DEF Writers, Readers
  <2>3. Locks(e) BY <1>5, InvFacts
  <2> QED BY <1>2, <2>2, <2>3 DEF Locks
<1>11. \A q \in Procs \ {p} : proc[q].op # "idle" /\ proc[q].entry = e => proc[q].op # "write"
  BY <1>8, InvFacts DEF Working, AtIt
<1>12. /\ \A f \in Entries \ {e} : KeptOrFreed(sector, sector, f)
       /\ proc[p].entry = e /\ Whole(sector, data, e)
  BY <1>1, <1>5, InvFacts DEF KeptOrFreed
<1>13. StepAt(p, e, y)
  BY <1>2, <1>4, <1>6, <1>9, <1>10, <1>11, <1>12, InvFacts DEF StepAt
<1> HIDE DEF e
<1> QED BY <1>5, <1>6, <1>13, StepKeeps

LEMMA GetDoneKeeps ==
  ASSUME SectorInv, NEW p \in Procs, GetDone(p) PROVE SectorInv'
<1>1. PICK x \in ProcOf : x = proc[p] BY SectorTypes DEF SectorInv
<1> DEFINE e == x.entry
           n == sector.entry[e].open_count
           z == [sector.entry[e] EXCEPT !.open_count = n - 1]
           t == [sector EXCEPT !.entry = [sector.entry EXCEPT ![e] = z]]
<1>2. /\ x.op = "read" /\ sector' = t /\ proc' = [proc EXCEPT ![p] = Idle]
      /\ data' = data /\ lost' = lost
  BY <1>1 DEF GetDone
<1>3. Working(sector, data, x) /\ proc \in [Procs -> ProcOf] BY <1>1, InvFacts
<1>4. e \in Entries /\ x.key \in Hashes /\ sector.entry[e].hash = x.key
  BY <1>2, <1>3 DEF Working, AtIt
<1>5. p \in Readers(e) BY <1>1, <1>2 DEF Readers
<1>6. n \in Nat \ {0} BY <1>4, <1>5, BitsTell
<1>7. /\ Settled(sector) /\ sector \in SectorType /\ IsInjective(sector.lru)
      /\ sector.entry[e].hash # Nil /\ Locks(e) /\ sector.entry[e] \in EntryOf
      /\ Whole(sector, data, e)
  BY <1>4, InvFacts, SectorFields, SizesAreNat DEF Settled
<1>8. n - 1 \in Nat BY <1>6
<1>9. /\ z \in EntryOf /\ z.hash = sector.entry[e].hash /\ z.open_count = n - 1
      /\ z.blocks = sector.entry[e].blocks /\ z.creating = sector.entry[e].creating
  BY <1>7, <1>8 DEF EntryOf
<1> HIDE DEF z
<1>10. /\ t \in SectorType /\ t.free = sector.free /\ t.lru = sector.lru /\ t.entry[e] = z
       /\ \A f \in Entries \ {e} : t.entry[f] = sector.entry[f]
  BY <1>4, <1>7, <1>9, EntryReplaced
<1> HIDE DEF t
<1>11. Settled(t) BY <1>4, <1>7, <1>9, <1>10, StaysSettled
<1>12. Whole(t, data, e) BY <1>7, <1>9, <1>10 DEF Whole
<1>13. Locks(e)'
  <2>1. proc'[p] = Idle /\ \A q \in Procs : q # p => proc'[q] = proc[q] BY <1>2, <1>3
  <2>2. /\ Writers(e)' = Writers(e) /\ Readers(e)' = Readers(e) \ {p}
    BY <1>1, <1>2, <2>1, IdleFacts DEF Writers, Readers
  <2>3. Cardinality(Readers(e) \ {p}) = Cardinality(Readers(e)) - 1
    BY <1>5, ActorsAreFinite, FS_RemoveElement
  <2>4. Cardinality(Readers(e)) \in Nat /\ lost[e].readers \in Nat
    BY <1>4, ActorsAreFinite, SectorTypes DEF SectorInv
  <2>5. n = Cardinality(Readers(e)) + lost[e].readers BY <1>7 DEF Locks
  <2> HIDE DEF n
  <2>6. n - 1 = Cardinality(Readers(e)') + lost[e].readers BY <2>2, <2>3, <2>4, <2>5
  <2> QED BY <1>2, <1>7, <1>9, <1>10, <2>2, <2>6 DEF Locks
<1>14. \A q \in Procs \ {p} : proc[q].op # "idle" /\ proc[q].entry = e => proc[q].op # "write"
  BY <1>6, InvFacts DEF Working, AtIt
<1>15. /\ \A f \in Entries \ {e} : KeptOrFreed(sector, t, f)
       /\ proc[p].entry = e /\ t.entry[e].hash = sector.entry[e].hash
  BY <1>1, <1>9, <1>10 DEF KeptOrFreed
<1>16. StepAt(p, e, Idle)
  BY <1>2, <1>11, <1>12, <1>13, <1>14, <1>15, IdleFacts, InvFacts DEF StepAt
<1> HIDE DEF e
<1> QED BY <1>4, <1>16, IdleFacts, StepKeeps

\* A delete that waits for nobody, or no longer.
EraseAt(p, e) ==
  /\ sector.entry[e].open_count = 0 /\ Writers(e) \ {p} = {} /\ lost[e].writers = 0
  /\ proc[p].op # "idle" => proc[p].entry = e
  /\ sector' = DeleteEntry(sector, e) /\ proc' = [proc EXCEPT ![p] = Idle]
  /\ data' = data /\ lost' = lost

LEMMA EraseKeeps ==
  ASSUME SectorInv, NEW p \in Procs, NEW e \in Entries, EraseAt(p, e)
  PROVE  SectorInv'
<1> USE DEF EraseAt
<1> DEFINE t == sector'
<1>1. Settled(sector) /\ proc \in [Procs -> ProcOf] BY InvFacts
<1>2. /\ Settled(t) /\ t.entry[e] = FreeEntry
      /\ \A f \in Entries \ {e} : t.entry[f] = sector.entry[f]
  BY <1>1, DeleteEntryKeeps
<1>3. t.entry[e].hash = Nil /\ t.entry[e].open_count = 0 /\ t.entry[e].creating = FALSE
  BY <1>2 DEF FreeEntry
<1>4. Readers(e) = {} /\ lost[e].readers = 0 BY BitsTell
<1>5. Locks(e)'
  <2>1. proc'[p] = Idle /\ \A q \in Procs : q # p => proc'[q] = proc[q] BY <1>1
  <2>2. Writers(e)' = {} /\ Readers(e)' = {}
    BY <1>4, <2>1, IdleFacts DEF Writers, Readers
  <2>3. Cardinality({}) = 0 BY FS_EmptySet
  <2> QED BY <1>3, <1>4, <2>2, <2>3 DEF Locks, OneWriter
<1>6. \A q \in Procs \ {p} : ~(proc[q].op # "idle" /\ proc[q].entry = e)
  BY <1>4, Alone
<1>7. Whole(t, data, e) /\ \A f \in Entries \ {e} : KeptOrFreed(sector, t, f)
  BY <1>2, <1>3 DEF Whole, KeptOrFreed
<1>8. StepAt(p, e, Idle)
  BY <1>2, <1>3, <1>5, <1>6, <1>7, IdleFacts, InvFacts DEF StepAt
<1> QED BY <1>8, IdleFacts, StepKeeps

LEMMA DeleteIs ==
  ASSUME SectorInv, NEW p \in Procs, NEW k \in Hashes, Delete(p, k),
         ~UNCHANGED <<sector, proc>>
  PROVE  /\ proc[p] = Idle
         /\ \E e \in Entries : \/ EraseAt(p, e)
                               \/ \E y \in ProcOf : AwaitAt(p, e, y)
<1> DEFINE x(e) == [Idle EXCEPT !.op = "await_delete", !.key = k, !.entry = e]
<1>1. /\ proc[p] = Idle /\ data' = data /\ lost' = lost BY DEF Delete
<1>2. PICK e \in Found(k) :
        /\ ~sector.entry[e].creating
        /\ \/ Ready(e) /\ sector' = DeleteEntry(sector, e) /\ proc' = proc
           \/ sector' = Claimed(sector, e) /\ proc' = [proc EXCEPT ![p] = x(e)]
  BY DEF Delete
<1>3. e \in Entries /\ sector.entry[e].hash = k BY FoundFacts
<1>4. CASE Ready(e) /\ sector' = DeleteEntry(sector, e) /\ proc' = proc
  <2>1. Writers(e) \ {p} = {} /\ lost[e].writers = 0 BY <1>2, <1>3, BitsTell
  <2>2. proc[p].op # "idle" => proc[p].entry = e BY <1>1, IdleFacts
  <2>3. proc' = [proc EXCEPT ![p] = Idle] BY <1>1, <1>4, InvFacts
  <2>4. sector.entry[e].open_count = 0 /\ sector' = DeleteEntry(sector, e)
    BY <1>4 DEF Ready
  <2> QED BY <1>1, <1>3, <2>1, <2>2, <2>3, <2>4 DEF EraseAt
<1>5. CASE sector' = Claimed(sector, e) /\ proc' = [proc EXCEPT ![p] = x(e)]
  <2> DEFINE y == x(e)
  <2>1. /\ y \in ProcOf /\ y.op = "await_delete" /\ y.entry = e /\ y.key = k
    BY <1>3, IdleFacts DEF ProcOf, Ops
  <2>2. proc' = [proc EXCEPT ![p] = y] BY <1>5
  <2> HIDE DEF y
  <2>3. AwaitAt(p, e, y) BY <1>1, <1>2, <1>3, <1>5, <2>1, <2>2 DEF AwaitAt
  <2> QED BY <1>1, <1>3, <2>1, <2>3
<1> QED BY <1>2, <1>4, <1>5

LEMMA DeleteKeeps ==
  ASSUME SectorInv, NEW p \in Procs, NEW k \in Hashes, Delete(p, k),
         ~UNCHANGED <<sector, proc>>
  PROVE  SectorInv'
BY DeleteIs, EraseKeeps, AwaitKeeps

LEMMA DeleteReadyIs ==
  ASSUME SectorInv, NEW p \in Procs, DeleteReady(p)
  PROVE  proc[p].op = "await_delete" /\ \E e \in Entries : EraseAt(p, e)
<1>1. PICK x \in ProcOf : x = proc[p] BY SectorTypes DEF SectorInv
<1> DEFINE e == x.entry
<1>2. /\ x.op = "await_delete" /\ sector.entry[e].open_count = 0
      /\ sector' = DeleteEntry(sector, e) /\ proc' = [proc EXCEPT ![p] = Idle]
      /\ data' = data /\ lost' = lost
  BY <1>1 DEF DeleteReady, Ready
<1>3. e \in Entries BY <1>1, <1>2, InvFacts DEF Working, AtIt
<1>4. p \in Writers(e) /\ proc[p].entry = e /\ proc[p].op = "await_delete"
  BY <1>1, <1>2 DEF Writers
<1> HIDE DEF e
<1>5. Writers(e) \ {p} = {} /\ lost[e].writers = 0 BY <1>3, <1>4, BitsTell
<1> QED BY <1>2, <1>3, <1>4, <1>5 DEF EraseAt

LEMMA DeleteReadyKeeps ==
  ASSUME SectorInv, NEW p \in Procs, DeleteReady(p) PROVE SectorInv'
BY DeleteReadyIs, EraseKeeps

\* A process that is killed leaves its entry as it was, and is counted.
LEMMA CrashKeeps ==
  ASSUME SectorInv, NEW p \in Procs, Crash(p) PROVE SectorInv'
<1>1. PICK x \in ProcOf : x = proc[p] BY SectorTypes DEF SectorInv
<1> DEFINE e == x.entry
           r == lost[e].readers
           w == lost[e].writers
           l == IF x.op = "read" THEN [lost[e] EXCEPT !.readers = r + 1]
                ELSE [lost[e] EXCEPT !.writers = w + 1]
<1>2. /\ x # Idle /\ proc' = [proc EXCEPT ![p] = Idle] /\ sector' = sector
      /\ data' = data /\ lost' = [lost EXCEPT ![e] = l]
  BY <1>1 DEF Crash
<1>3. /\ Working(sector, data, x) /\ proc \in [Procs -> ProcOf] /\ x.op \in Ops
      /\ lost \in [Entries -> [readers : Nat, writers : Nat]]
  BY <1>1, InvFacts DEF ProcOf
<1>4. x.op # "idle" /\ e \in Entries BY <1>2, <1>3 DEF Working, AtIt
<1>5. /\ lost[e] \in [readers : Nat, writers : Nat] /\ r \in Nat /\ w \in Nat
      /\ Locks(e) /\ sector.entry[e].creating \in BOOLEAN
  BY <1>3, <1>4, InvFacts, BitsTell
<1>6. /\ l \in [readers : Nat, writers : Nat]
      /\ x.op = "read" => l.readers = r + 1 /\ l.writers = w
      /\ x.op # "read" => l.readers = r /\ l.writers = w + 1
  BY <1>5
<1> HIDE DEF l
<1>7. /\ lost' \in [Entries -> [readers : Nat, writers : Nat]] /\ lost'[e] = l
      /\ \A f \in Entries \ {e} : lost'[f] = lost[f]
  BY <1>2, <1>3, <1>4, <1>6
<1>8. proc'[p] = Idle /\ \A q \in Procs : q # p => proc'[q] = proc[q] BY <1>2, <1>3
<1>9. /\ sector.entry[e].open_count = Cardinality(Readers(e)) + r
      /\ OneWriter(Writers(e), w, sector.entry[e].creating)
      /\ Cardinality(Readers(e)) \in Nat
  BY <1>5, ActorsAreFinite DEF Locks
<1>10. ASSUME x.op = "read"
       PROVE /\ Locks(e)'
             /\ \A q \in Procs \ {p} :
                  proc[q].op # "idle" /\ proc[q].entry = e => proc[q].op # "write"
  <2>1. p \in Readers(e) BY <1>1, <1>10 DEF Readers
  <2>2. Writers(e)' = Writers(e) /\ Readers(e)' = Readers(e) \ {p}
    BY <1>1, <1>8, <1>10, IdleFacts DEF Writers, Readers
  <2>3. Cardinality(Readers(e) \ {p}) = Cardinality(Readers(e)) - 1
    BY <2>1, ActorsAreFinite, FS_RemoveElement
  <2>4. lost'[e].readers = r + 1 /\ lost'[e].writers = w BY <1>6, <1>7, <1>10
  <2>5. sector.entry[e].open_count = Cardinality(Readers(e)') + lost'[e].readers
    <3> HIDE DEF r, w
    <3> QED BY <1>5, <1>9, <2>2, <2>3, <2>4
  <2>6. Locks(e)'
    <3> HIDE DEF w
    <3> QED BY <1>2, <1>9, <2>2, <2>4, <2>5 DEF Locks
  <2>7. sector.entry[e].open_count # 0 BY <1>4, <2>1, BitsTell
  <2>8. \A q \in Procs \ {p} : proc[q].op # "idle" /\ proc[q].entry = e => proc[q].op # "write"
    BY <2>7, InvFacts DEF Working, AtIt
  <2> QED BY <2>6, <2>8
<1>11. ASSUME x.op # "read"
       PROVE /\ Locks(e)'
             /\ \A q \in Procs \ {p} :
                  proc[q].op # "idle" /\ proc[q].entry = e => proc[q].op # "write"
  <2>1. p \in Writers(e) BY <1>1, <1>3, <1>4, <1>11 DEF Writers, Ops
  <2>2. Writers(e) = {p} /\ w = 0 /\ sector.entry[e].creating BY <1>4, <2>1, BitsTell
  <2>3. Writers(e)' = {} /\ Readers(e)' = Readers(e)
    BY <1>1, <1>8, <1>11, <2>2, IdleFacts DEF Writers, Readers
  <2>4. lost'[e].readers = r /\ lost'[e].writers = 1 BY <1>6, <1>7, <1>11, <2>2
  <2>5. Locks(e)'
    <3> HIDE DEF r, w
    <3> QED BY <1>2, <1>9, <2>2, <2>3, <2>4 DEF Locks, OneWriter
  <2>6. \A q \in Procs \ {p} : proc[q].op # "idle" /\ proc[q].entry = e => proc[q].op # "write"
    BY <2>2 DEF Writers
  <2> QED BY <2>5, <2>6
<1>12. /\ \A f \in Entries \ {e} : KeptOrFreed(sector, sector, f)
       /\ proc[p].entry = e /\ Whole(sector, data, e)
  BY <1>1, <1>4, InvFacts DEF KeptOrFreed
<1>13. StepAt(p, e, Idle)
  BY <1>2, <1>7, <1>10, <1>11, <1>12, IdleFacts, InvFacts DEF StepAt
<1> HIDE DEF e
<1> QED BY <1>4, <1>13, IdleFacts, StepKeeps

LEMMA UnchangedKeeps ==
  ASSUME SectorInv, UNCHANGED sectorVars PROVE SectorInv'
BY DEF SectorInv, sectorVars, SectorTypeOK, NoSecondCopy, InPosition, Locks, Writers, Readers

-----------------------------------------------------------------------------
LEMMA SectorInitially == SectorInit => SectorInv
<1>1. SUFFICES ASSUME SectorInit PROVE SectorInv OBVIOUS
<1>2. /\ sector = [entry |-> [e \in Entries |-> FreeEntry], lru |-> <<>>,
                   free |-> [i \in 1..DataBlocks |-> DataBlocks - i]]
      /\ data = [b \in Blocks |-> Nil] /\ proc = [p \in Procs |-> Idle]
      /\ lost = [e \in Entries |-> [readers |-> 0, writers |-> 0]]
  BY <1>1 DEF SectorInit
<1>3. /\ sector.lru = <<>> /\ sector.free = [i \in 1..DataBlocks |-> DataBlocks - i]
      /\ \A e \in Entries : sector.entry[e] = FreeEntry
      /\ sector.entry \in [Entries -> EntryOf]
  BY <1>2, SizesAreNat
<1>4. /\ sector.free \in Seq(Blocks) /\ Len(sector.free) = DataBlocks
      /\ \A i \in 1..DataBlocks : sector.free[i] = DataBlocks - i
  <2>1. \A i \in 1..DataBlocks : DataBlocks - i \in Blocks BY SizesAreNat DEF Blocks
  <2> QED BY <1>3, <2>1, SizesAreNat
<1>5. /\ \A e \in Entries : /\ sector.entry[e].hash = Nil /\ sector.entry[e].blocks = <<>>
                            /\ sector.entry[e].open_count = 0
                            /\ sector.entry[e].creating = FALSE
                            /\ Owned(sector, e) = {}
  <2>1. ToSet(<<>>) = {} BY EmptySeqFacts
  <2> QED BY <1>3, <2>1 DEF FreeEntry, Owned
<1>6. SectorTypeOK
  <2>1. <<>> \in Seq(Entries) OBVIOUS
  <2>2. sector \in [entry : [Entries -> EntryOf], lru : Seq(Entries), free : Seq(Blocks)]
    BY <1>2, <1>3, <1>4, <2>1
  <2>3. data \in [Blocks -> Contents] BY <1>2 DEF Contents
  <2>4. proc \in [Procs -> ProcOf] BY <1>2, IdleFacts
  <2>5. lost \in [Entries -> [readers : Nat, writers : Nat]] BY <1>2
  <2> QED BY <2>2, <2>3, <2>4, <2>5 DEF SectorTypeOK
<1>7. Partition(sector, <<>>)
  <2>1. ToSet(<<>>) = {} /\ IsInjective(<<>>) BY EmptySeqFacts
  <2>2. IsInjective(sector.free)
    <3>1. DOMAIN sector.free = 1..DataBlocks BY <1>4
    <3>2. \A i, j \in 1..DataBlocks : sector.free[i] = sector.free[j] => i = j
      <4>1. SUFFICES ASSUME NEW i \in 1..DataBlocks, NEW j \in 1..DataBlocks,
                            DataBlocks - i = DataBlocks - j
                     PROVE  i = j
        BY <1>4
      <4>2. DataBlocks \in Nat BY SizesAreNat
      <4> QED BY <4>1, <4>2
    <3> QED BY <3>1, <3>2 DEF IsInjective
  <2>3. \A b \in Blocks : b \in ToSet(sector.free)
    <3>1. SUFFICES ASSUME NEW b \in Blocks PROVE b \in ToSet(sector.free) OBVIOUS
    <3>2. /\ DataBlocks - b \in 1..DataBlocks /\ DataBlocks - (DataBlocks - b) = b
      BY SizesAreNat DEF Blocks
    <3>3. sector.free[DataBlocks - b] = b BY <1>4, <3>2
    <3> QED BY <1>4, <3>2, <3>3, ToSetFacts
  <2> QED BY <1>5, <2>1, <2>2, <2>3 DEF Partition
<1>8. Settled(sector)
  <2>1. ToSet(sector.lru) = {e \in Entries : sector.entry[e].hash # Nil}
        /\ IsInjective(sector.lru)
    BY <1>3, <1>5, EmptySeqFacts
  <2>2. Vacant(sector) BY <1>5 DEF Vacant
  <2> QED BY <1>6, <1>7, <2>1, <2>2, SectorTypes DEF Settled
<1>9. \A p \in Procs : proc[p] = Idle BY <1>2
<1>10. \A e \in Entries : Locks(e) /\ Whole(sector, data, e)
  <2>1. SUFFICES ASSUME NEW e \in Entries PROVE Locks(e) /\ Whole(sector, data, e) OBVIOUS
  <2>2. Writers(e) = {} /\ Readers(e) = {} BY <1>9, IdleFacts DEF Writers, Readers
  <2>3. Cardinality({}) = 0 BY FS_EmptySet
  <2>4. lost[e].readers = 0 /\ lost[e].writers = 0 BY <1>2
  <2> QED BY <1>5, <2>2, <2>3, <2>4 DEF Locks, OneWriter, Whole
<1>11. NoSecondCopy /\ InPosition BY <1>5 DEF NoSecondCopy, InPosition
<1> QED BY <1>6, <1>8, <1>9, <1>10, <1>11, IdleFacts DEF SectorInv

LEMMA SectorSteps == SectorInv /\ [SectorNext]_sectorVars => SectorInv'
<1>1. SUFFICES ASSUME SectorInv, [SectorNext]_sectorVars PROVE SectorInv' OBVIOUS
<1>2. CASE UNCHANGED sectorVars BY <1>1, <1>2, UnchangedKeeps
<1>3. ASSUME NEW p \in Procs, Continue(p) PROVE SectorInv'
  BY <1>1, <1>3, PutReadyKeeps, CopyInKeeps, PutDoneKeeps, CopyOutKeeps, GetDoneKeeps,
     DeleteReadyKeeps DEF Continue
<1>4. ASSUME NEW p \in Procs, Crash(p) PROVE SectorInv' BY <1>1, <1>4, CrashKeeps
<1>5. ASSUME NEW p \in Procs, NEW k \in Hashes, NEW time \in Times,
             \/ Get(p, k, time)
             \/ \E v \in Values : PutUpdate(p, k, v, time) \/ PutReplace(p, k, v, time)
      PROVE  SectorInv'
  <2>1. data' = data /\ lost' = lost BY <1>5 DEF Get, PutUpdate, PutReplace
  <2>2. CASE UNCHANGED <<sector, proc>>
    BY <1>1, <2>1, <2>2, UnchangedKeeps DEF sectorVars
  <2>3. CASE ~UNCHANGED <<sector, proc>>
    BY <1>1, <1>5, <2>3, GetKeeps, PutUpdateKeeps, PutReplaceKeeps
  <2> QED BY <2>2, <2>3
<1>6. ASSUME NEW p \in Procs, NEW k \in Hashes, Delete(p, k) PROVE SectorInv'
  <2>1. data' = data /\ lost' = lost BY <1>6 DEF Delete
  <2>2. CASE UNCHANGED <<sector, proc>>
    BY <1>1, <2>1, <2>2, UnchangedKeeps DEF sectorVars
  <2>3. CASE ~UNCHANGED <<sector, proc>> BY <1>1, <1>6, <2>3, DeleteKeeps
  <2> QED BY <2>2, <2>3
<1> QED BY <1>1, <1>2, <1>3, <1>4, <1>5, <1>6 DEF SectorNext

\* The invariant that the ones below follow from.
THEOREM SectorInvariance == SectorSpec => []SectorInv
BY SectorInitially, SectorSteps, PTL DEF SectorSpec

LEMMA InvIsConsistent == SectorInv => SectorConsistent
<1>1. SUFFICES ASSUME SectorInv PROVE SectorConsistent OBVIOUS
<1>2. /\ Settled(sector) /\ sector \in SectorType /\ NoSecondCopy /\ SectorTypeOK
  BY <1>1, InvFacts DEF SectorInv
<1>3. BlocksAccountedOnce
  <2>1. ToSet(<<>>) = {} BY EmptySeqFacts
  <2>2. Partition(sector, <<>>) BY <1>2 DEF Settled
  <2>3. \A e \in Entries : BlocksOf(e) = Owned(sector, e) /\ Owned(sector, e) \subseteq Blocks
    BY <1>2, SectorFields DEF BlocksOf, Owned
  <2>4. ToSet(sector.free) \subseteq Blocks BY <1>2, SectorFields, ToSetFacts
  <2>5. Blocks = ToSet(sector.free) \cup UNION {BlocksOf(e) : e \in Entries}
    <3>1. ASSUME NEW b \in Blocks
          PROVE  b \in ToSet(sector.free) \cup UNION {BlocksOf(e) : e \in Entries}
      BY <2>1, <2>2, <2>3 DEF Partition
    <3>2. UNION {BlocksOf(e) : e \in Entries} \subseteq Blocks BY <2>3
    <3> QED BY <2>4, <3>1, <3>2
  <2> QED BY <2>2, <2>3, <2>5 DEF Partition, BlocksAccountedOnce
<1>4. LockBitsCount
  <2>1. SUFFICES ASSUME NEW e \in Entries
                 PROVE  /\ Cardinality(Writers(e)) + lost[e].writers =
                             IF sector.entry[e].creating THEN 1 ELSE 0
                        /\ sector.entry[e].open_count
                             = Cardinality(Readers(e)) + lost[e].readers
                        /\ (\E p \in Writers(e) : proc[p].op = "write") =>
                             sector.entry[e].open_count = 0
    BY DEF LockBitsCount
  <2>2. Locks(e) /\ lost[e].writers \in Nat /\ sector.entry[e].creating \in BOOLEAN
    BY <1>1, BitsTell, SectorTypes DEF SectorInv
  <2>3. Cardinality(Writers(e)) + lost[e].writers = IF sector.entry[e].creating THEN 1 ELSE 0
    BY <2>2, ActorsAreFinite, OneWriterCounts DEF Locks
  <2>4. \A p \in Procs : Working(sector, data, proc[p]) BY <1>1, InvFacts
  <2>5. (\E p \in Writers(e) : proc[p].op = "write") => sector.entry[e].open_count = 0
    BY <2>4 DEF Working, AtIt, Writers
  <2> QED BY <2>2, <2>3, <2>5 DEF Locks
<1>5. LRUHoldsUsed BY <1>2 DEF Settled, LRUHoldsUsed
<1> QED BY <1>2, <1>3, <1>4, <1>5 DEF SectorConsistent

\* SanityCheck would pass at any moment, for every geometry of the sector.
THEOREM AlwaysConsistent == SectorSpec => []SectorConsistent
BY SectorInvariance, InvIsConsistent, PTL

LEMMA InvDumpsWhole == SectorInv => DumpIsWhole
<1>1. SUFFICES ASSUME SectorInv PROVE DumpIsWhole OBVIOUS
<1> DEFINE dump == SectorDump
           live == {i \in DOMAIN sector.lru : ~sector.entry[sector.lru[i]].creating}
<1>2. /\ Settled(sector) /\ sector \in SectorType /\ NoSecondCopy
      /\ sector.lru \in Seq(Entries) /\ IsInjective(sector.lru)
  BY <1>1, InvFacts, SectorFields DEF Settled
<1>3. \A i \in DOMAIN sector.lru :
        /\ sector.lru[i] \in Entries /\ sector.entry[sector.lru[i]].hash # Nil
  <2>1. SUFFICES ASSUME NEW i \in DOMAIN sector.lru
                 PROVE  /\ sector.lru[i] \in Entries
                        /\ sector.entry[sector.lru[i]].hash # Nil
    OBVIOUS
  <2>2. i \in 1..Len(sector.lru) BY <1>2
  <2>3. sector.lru[i] \in ToSet(sector.lru) BY <1>2, <2>2, ToSetFacts
  <2>4. ToSet(sector.lru) = {e \in Entries : sector.entry[e].hash # Nil} BY <1>2 DEF Settled
  <2> QED BY <2>3, <2>4
<1>4. DOMAIN dump = live BY DEF SectorDump
<1>5. ASSUME NEW i \in live
      PROVE  LET entry == sector.entry[sector.lru[i]]
             IN  /\ dump[i].key = entry.hash
                 /\ dump[i].value = [j \in DOMAIN entry.blocks |-> data[entry.blocks[j]]]
  BY DEF SectorDump
<1> HIDE DEF dump
<1>6. ASSUME NEW i \in live
      PROVE  \E v \in Values :
               dump[i].key # Nil /\ dump[i].value = Portions(dump[i].key, v)
  <2> DEFINE e == sector.lru[i]
             blocks == sector.entry[e].blocks
  <2>1. e \in Entries /\ sector.entry[e].hash # Nil /\ ~sector.entry[e].creating
    BY <1>3
  <2>2. blocks \in Seq(Blocks) BY <1>2, <2>1, SectorFields
  <2>3. Whole(sector, data, e) BY <1>1, <2>1, InvFacts
  <2>4. PICK v \in Values :
          /\ Len(blocks) = Size[v]
          /\ \A j \in 1..Size[v] : data[blocks[j]] = Portion(sector.entry[e].hash, v, j)
    BY <2>1, <2>3 DEF Whole
  <2>5. DOMAIN blocks = 1..Size[v] BY <2>2, <2>4
  <2>6. dump[i].key = sector.entry[e].hash
        /\ dump[i].value = [j \in DOMAIN blocks |-> data[blocks[j]]]
    BY <1>5
  <2> HIDE DEF blocks
  <2>7. dump[i].value = Portions(dump[i].key, v) BY <2>4, <2>5, <2>6 DEF Portions
  <2> QED BY <2>1, <2>6, <2>7
<1>7. ASSUME NEW i \in live, NEW j \in live, dump[i].key = dump[j].key PROVE i = j
  <2>1. sector.entry[sector.lru[i]].hash = sector.entry[sector.lru[j]].hash
    BY <1>5, <1>7
  <2>2. sector.lru[i] = sector.lru[j] BY <1>2, <1>3, <2>1 DEF NoSecondCopy
  <2> QED BY <1>2, <2>2 DEF IsInjective
<1> QED BY <1>4, <1>6, <1>7 DEF DumpIsWhole, dump

\* A checkpoint taken at any moment holds whole values only, each key once.
THEOREM AlwaysDumpsWhole == SectorSpec => []DumpIsWhole
BY SectorInvariance, InvDumpsWhole, PTL

-----------------------------------------------------------------------------
(* The sector implements a lossy map.                                      *)

\* A reader still copies from the blocks of its entry.
Reading ==
  \A p \in Procs :
    proc[p].op = "read" => ToSet(proc[p].blocks) \subseteq Owned(sector, proc[p].entry)
LossyInv == SectorInv /\ Reading

\* What a map would find in a sector: StoredValue for any sector.
Live(s, e) == s.entry[e].hash # Nil /\ ~s.entry[e].creating
LiveFor(s, k) == {e \in Entries : s.entry[e].hash = k /\ ~s.entry[e].creating}
HeldIn(s, d, e) == [i \in DOMAIN s.entry[e].blocks |-> d[s.entry[e].blocks[i]]]
ValueIn(s, d, k) ==
  IF LiveFor(s, k) = {} THEN Nil ELSE HeldIn(s, d, CHOOSE e \in LiveFor(s, k) : TRUE)
OneEach(s) ==
  \A e, f \in Entries : s.entry[e].hash # Nil /\ e # f => s.entry[e].hash # s.entry[f].hash

\* What is in t was in s.
Kept(s, d, t, c, e) ==
  /\ s.entry[e].hash = t.entry[e].hash /\ s.entry[e].blocks = t.entry[e].blocks
  /\ \A b \in Owned(s, e) : c[b] = d[b]
Loses(s, d, t, c) == \A e \in Entries : Live(t, e) => Live(s, e) /\ Kept(s, d, t, c, e)

\* A step of p, at e, as the others see it: it touches no other entry in use, and of e
\* what a reader needs only where there is none.
SeenAt(p, e, x) ==
  /\ proc' = [proc EXCEPT ![p] = x]
  /\ \A f \in Entries \ {e} : KeptOrFreed(sector, sector', f)
  /\ \A b \in Blocks \ Owned(sector, e) : data'[b] = data[b]
  /\ \/ Readers(e) \ {p} = {}
     \/ sector'.entry[e].blocks = sector.entry[e].blocks /\ data' = data
  /\ x.op = "read" => ToSet(x.blocks) \subseteq Owned(sector', x.entry)

\* And it gives no key a value.
Hides(e) ==
  \/ ~Live(sector', e)
  \/ Live(sector, e) /\ Kept(sector, data, sector', data', e)

LEMMA StoredIsIn ==
  \A k : StoredValue(k) = ValueIn(sector, data, k)
BY DEF StoredValue, ValueIn, LiveFor, HeldIn

LEMMA ValueOf ==
  ASSUME NEW s, NEW d, OneEach(s), NEW e \in Entries, Live(s, e)
  PROVE  ValueIn(s, d, s.entry[e].hash) = HeldIn(s, d, e)
<1> DEFINE k == s.entry[e].hash
           L == LiveFor(s, k)
<1>1. e \in L BY DEF Live, LiveFor
<1>2. \A f \in L : f = e
  <2>1. \A f \in L : f \in Entries /\ s.entry[f].hash = k BY DEF LiveFor
  <2>2. k # Nil BY DEF Live
  <2> QED BY <2>1, <2>2 DEF OneEach
<1>3. L = {e} BY <1>1, <1>2
<1> HIDE DEF L
<1>4. (CHOOSE f \in {e} : TRUE) = e OBVIOUS
<1>5. (CHOOSE f \in L : TRUE) = e BY <1>3, <1>4
<1> QED BY <1>1, <1>5 DEF ValueIn, L

LEMMA HeldIsKept ==
  ASSUME NEW s \in SectorType, NEW d, NEW t, NEW c, NEW e \in Entries, Kept(s, d, t, c, e)
  PROVE  HeldIn(t, c, e) = HeldIn(s, d, e)
<1> DEFINE blocks == s.entry[e].blocks
<1>1. blocks \in Seq(Blocks) /\ t.entry[e].blocks = blocks BY SectorFields DEF Kept
<1>2. \A i \in DOMAIN blocks : blocks[i] \in Owned(s, e)
  <2> HIDE DEF blocks
  <2>1. \A i \in DOMAIN blocks : blocks[i] \in ToSet(blocks) BY <1>1, ToSetFacts
  <2> QED BY <2>1 DEF Owned, blocks
<1>3. \A i \in DOMAIN blocks : c[blocks[i]] = d[blocks[i]] BY <1>2 DEF Kept
<1> QED BY <1>1, <1>3 DEF HeldIn

LEMMA NoValueIn ==
  ASSUME NEW s, NEW d, NEW k \in Hashes, \A e \in Entries : s.entry[e].hash = k => ~Live(s, e)
  PROVE  ValueIn(s, d, k) = Nil
<1>1. k # Nil BY SizesAreNat
<1> QED BY <1>1 DEF ValueIn, LiveFor, Live

\* A step that gives no value takes some or none.
LEMMA LosesSome ==
  ASSUME NEW s \in SectorType, NEW d, NEW t, NEW c, OneEach(s), OneEach(t),
         Loses(s, d, t, c), NEW k \in Hashes
  PROVE  ValueIn(t, c, k) \in {Nil, ValueIn(s, d, k)}
<1>1. CASE \A e \in Entries : t.entry[e].hash = k => ~Live(t, e) BY <1>1, NoValueIn
<1>2. CASE \E e \in Entries : t.entry[e].hash = k /\ Live(t, e)
  <2>1. PICK e \in Entries : t.entry[e].hash = k /\ Live(t, e) BY <1>2
  <2>2. Live(s, e) /\ Kept(s, d, t, c, e) BY <2>1 DEF Loses
  <2>3. s.entry[e].hash = k BY <2>1, <2>2 DEF Kept
  <2>4. ValueIn(t, c, k) = HeldIn(t, c, e) BY <2>1, ValueOf
  <2>5. ValueIn(s, d, k) = HeldIn(s, d, e) BY <2>2, <2>3, ValueOf
  <2> QED BY <2>2, <2>4, <2>5, HeldIsKept
<1> QED BY <1>1, <1>2

\* The map after such a step is what is left of it.
LEMMA MapForgets ==
  ASSUME LossyInv, LossyInv', Loses(sector, data, sector', data')
  PROVE  \E K \in SUBSET Hashes :
           /\ [k \in Hashes |-> StoredValue(k)]' = LossyCache!Forgotten(K)
           /\ \A k \in Hashes : StoredValue(k)' = Nil => k \in K
<1> DEFINE K == {k \in Hashes : StoredValue(k)' = Nil}
<1>1. sector \in SectorType /\ OneEach(sector) /\ OneEach(sector')
  BY InvFacts DEF LossyInv, SectorInv, NoSecondCopy, OneEach
<1>2. \A k \in Hashes : StoredValue(k)' \in {Nil, StoredValue(k)}
  <2>1. SUFFICES ASSUME NEW k \in Hashes PROVE StoredValue(k)' \in {Nil, StoredValue(k)}
    OBVIOUS
  <2>2. StoredValue(k)' = ValueIn(sector', data', k)
    BY DEF StoredValue, ValueIn, LiveFor, HeldIn
  <2>3. StoredValue(k) = ValueIn(sector, data, k) BY StoredIsIn
  <2>4. ValueIn(sector', data', k) \in {Nil, ValueIn(sector, data, k)}
    BY <1>1, LosesSome
  <2> QED BY <2>2, <2>3, <2>4
<1>3. [k \in Hashes |-> StoredValue(k)]' =
        [k \in Hashes |-> IF k \in K THEN Nil ELSE StoredValue(k)]
  <2>1. \A k \in Hashes : StoredValue(k)' = IF k \in K THEN Nil ELSE StoredValue(k)
    BY <1>2
  <2>2. [k \in Hashes |-> StoredValue(k)]' = [k \in Hashes |-> StoredValue(k)'] OBVIOUS
  <2> HIDE DEF K
  <2> QED BY <2>1, <2>2
<1>4. LossyCache!Forgotten(K) = [k \in Hashes |-> IF k \in K THEN Nil ELSE StoredValue(k)]
  <2> HIDE DEF K
  <2>1. \A k \in Hashes : [j \in Hashes |-> StoredValue(j)][k] = StoredValue(k) OBVIOUS
  <2> QED BY <2>1 DEF LossyCache!Forgotten
<1>5. K \in SUBSET Hashes /\ \A k \in Hashes : StoredValue(k)' = Nil => k \in K OBVIOUS
<1> HIDE DEF K
<1> QED BY <1>3, <1>4, <1>5

\* FetchOf, for any data.
FetchIn(x, d) ==
  IF x.op = "read" THEN <<x.key, x.got \o [i \in DOMAIN x.blocks |-> d[x.blocks[i]]]>>
  ELSE Nil

\* Where the readers are that a step does not stop.
LEMMA ReadersStay ==
  ASSUME LossyInv, NEW p \in Procs, NEW e \in Entries, NEW x \in ProcOf, SeenAt(p, e, x),
         NEW q \in Procs \ {p}, proc[q].op = "read"
  PROVE  /\ ToSet(proc[q].blocks) \subseteq Owned(sector', proc[q].entry)
         /\ \A b \in ToSet(proc[q].blocks) : data'[b] = data[b]
<1> DEFINE f == proc[q].entry
<1>1. SectorInv /\ ToSet(proc[q].blocks) \subseteq Owned(sector, f)
  BY DEF LossyInv, Reading
<1>2. f \in Entries BY <1>1, InvFacts DEF Working, AtIt
<1>3. q \in Readers(f) BY DEF Readers
<1> HIDE DEF f
<1>4. sector.entry[f].open_count # 0 BY <1>1, <1>2, <1>3, BitsTell
<1>5. CASE f # e
  <2>1. sector'.entry[f] = sector.entry[f]
    BY <1>2, <1>4, <1>5 DEF SeenAt, KeptOrFreed, Writeable
  <2>2. Owned(sector, f) \subseteq Blocks /\ Owned(sector, f) \cap Owned(sector, e) = {}
    BY <1>1, <1>2, <1>5, InvFacts, SectorFields DEF Settled, Partition
  <2>3. Owned(sector', f) = Owned(sector, f) BY <2>1 DEF Owned
  <2> QED BY <1>1, <2>2, <2>3 DEF SeenAt, f
<1>6. CASE f = e
  <2>1. sector'.entry[e].blocks = sector.entry[e].blocks /\ data' = data
    BY <1>3, <1>6 DEF SeenAt
  <2> QED BY <1>1, <1>6, <2>1 DEF Owned, f
<1> QED BY <1>5, <1>6

LEMMA SeenKeepsReading ==
  ASSUME LossyInv, NEW p \in Procs, NEW e \in Entries, NEW x \in ProcOf, SeenAt(p, e, x)
  PROVE  Reading'
<1>1. SUFFICES ASSUME NEW q \in Procs, proc'[q].op = "read"
               PROVE  ToSet(proc'[q].blocks) \subseteq Owned(sector', proc'[q].entry)
  BY DEF Reading, Owned
<1>2. proc \in [Procs -> ProcOf] BY InvFacts DEF LossyInv
<1>3. CASE q = p
  <2>1. proc'[q] = x BY <1>2, <1>3 DEF SeenAt
  <2> QED BY <1>1, <2>1 DEF SeenAt
<1>4. CASE q # p
  <2>1. proc'[q] = proc[q] BY <1>2, <1>4 DEF SeenAt
  <2> QED BY <1>1, <1>4, <2>1, ReadersStay
<1> QED BY <1>3, <1>4

\* What a step leaves of what the processes do with the map.
LEMMA SeenMaps ==
  ASSUME LossyInv, NEW p \in Procs, NEW e \in Entries, NEW x \in ProcOf, SeenAt(p, e, x)
  PROVE  /\ [q \in Procs |-> PutOf(proc[q])]' =
              [[q \in Procs |-> PutOf(proc[q])] EXCEPT ![p] = PutOf(x)]
         /\ [q \in Procs |-> FetchOf(proc[q])]' =
              [[q \in Procs |-> FetchOf(proc[q])] EXCEPT ![p] = FetchIn(x, data')]
<1>1. proc \in [Procs -> ProcOf] BY InvFacts DEF LossyInv
<1>2. proc'[p] = x /\ \A q \in Procs \ {p} : proc'[q] = proc[q] BY <1>1 DEF SeenAt
<1>3. \A q \in Procs : PutOf(proc'[q]) = IF q = p THEN PutOf(x) ELSE PutOf(proc[q])
  BY <1>2
<1>4. \A q \in Procs :
        FetchIn(proc'[q], data') = IF q = p THEN FetchIn(x, data') ELSE FetchOf(proc[q])
  <2>1. SUFFICES ASSUME NEW q \in Procs \ {p}
                 PROVE  FetchIn(proc[q], data') = FetchOf(proc[q])
    BY <1>2
  <2>2. CASE proc[q].op # "read" BY <2>2 DEF FetchIn, FetchOf
  <2>3. CASE proc[q].op = "read"
    <3>1. PICK y \in ProcOf : y = proc[q] BY <1>1
    <3>2. y.blocks \in Seq(Blocks) BY DEF ProcOf
    <3>3. \A i \in DOMAIN y.blocks : y.blocks[i] \in ToSet(y.blocks) BY <3>2, ToSetFacts
    <3>4. \A i \in DOMAIN y.blocks : data'[y.blocks[i]] = data[y.blocks[i]]
      BY <2>3, <3>1, <3>3, ReadersStay
    <3>5. [i \in DOMAIN y.blocks |-> data'[y.blocks[i]]]
            = [i \in DOMAIN y.blocks |-> data[y.blocks[i]]]
      BY <3>4
    <3> QED BY <3>1, <3>5 DEF FetchIn, FetchOf
  <2> QED BY <2>2, <2>3
<1>5. \A q \in Procs : FetchOf(proc[q])' = FetchIn(proc'[q], data')
  BY DEF FetchIn, FetchOf
<1>6. \A q \in Procs : PutOf(proc[q])' = PutOf(proc'[q]) BY DEF PutOf
<1>7. \A q \in Procs : PutOf(proc[q])' = IF q = p THEN PutOf(x) ELSE PutOf(proc[q])
  BY <1>3, <1>6
<1>8. \A q \in Procs :
        FetchOf(proc[q])' = IF q = p THEN FetchIn(x, data') ELSE FetchOf(proc[q])
  BY <1>4, <1>5
<1>9. /\ [q \in Procs |-> PutOf(proc[q])]' = [q \in Procs |-> PutOf(proc[q])']
      /\ [q \in Procs |-> FetchOf(proc[q])]' = [q \in Procs |-> FetchOf(proc[q])']
  OBVIOUS
<1>10. [q \in Procs |-> PutOf(proc[q])]' =
         [[q \in Procs |-> PutOf(proc[q])] EXCEPT ![p] = PutOf(x)]
  BY <1>7, <1>9
<1>11. [q \in Procs |-> FetchOf(proc[q])]' =
         [[q \in Procs |-> FetchOf(proc[q])] EXCEPT ![p] = FetchIn(x, data')]
  BY <1>8, <1>9
<1> QED BY <1>10, <1>11

LEMMA SeenLoses ==
  ASSUME LossyInv, NEW p \in Procs, NEW e \in Entries, NEW x \in ProcOf, SeenAt(p, e, x),
         Hides(e)
  PROVE  Loses(sector, data, sector', data')
<1>1. SUFFICES ASSUME NEW f \in Entries, Live(sector', f)
               PROVE  Live(sector, f) /\ Kept(sector, data, sector', data', f)
  BY DEF Loses
<1>2. CASE f = e BY <1>1, <1>2 DEF Hides
<1>3. CASE f # e
  <2>1. sector'.entry[f] = sector.entry[f]
    BY <1>1, <1>3 DEF SeenAt, KeptOrFreed, Live, FreeEntry
  <2>2. Owned(sector, f) \subseteq Blocks /\ Owned(sector, f) \cap Owned(sector, e) = {}
    BY <1>1, <1>3, InvFacts, SectorFields DEF LossyInv, Settled, Partition
  <2>3. Live(sector, f) BY <1>1, <2>1 DEF Live
  <2> QED BY <2>1, <2>2, <2>3 DEF SeenAt, Kept
<1> QED BY <1>2, <1>3

-----------------------------------------------------------------------------
(* The kinds of steps of the map.                                          *)

Puts == [q \in Procs |-> PutOf(proc[q])]
Answers == [q \in Procs |-> FetchOf(proc[q])]
Store == [k \in Hashes |-> StoredValue(k)]

LEMMA SeenStep ==
  ASSUME LossyInv, SectorInv', NEW p \in Procs, NEW e \in Entries, NEW x \in ProcOf,
         SeenAt(p, e, x)
  PROVE  /\ LossyInv' /\ Puts' = [Puts EXCEPT ![p] = PutOf(x)]
         /\ Answers' = [Answers EXCEPT ![p] = FetchIn(x, data')]
         /\ Puts[p] = PutOf(proc[p]) /\ Answers[p] = FetchOf(proc[p])
<1>1. LossyInv' BY SeenKeepsReading DEF LossyInv
<1> QED BY <1>1, SeenMaps DEF Puts, Answers

\* What a step that hides e does to the map.
LEMMA SeenForgets ==
  ASSUME LossyInv, SectorInv', NEW p \in Procs, NEW e \in Entries, NEW x \in ProcOf,
         SeenAt(p, e, x), Hides(e)
  PROVE  \E K \in SUBSET Hashes :
           /\ Store' = LossyCache!Forgotten(K)
           /\ \A k \in Hashes : StoredValue(k)' = Nil => k \in K
<1>1. LossyInv' BY SeenStep
<1>2. Loses(sector, data, sector', data') BY SeenLoses
<1> QED BY <1>1, <1>2, MapForgets DEF Store

LEMMA ForgetStep ==
  ASSUME LossyInv, SectorInv', NEW p \in Procs, NEW e \in Entries, NEW x \in ProcOf,
         SeenAt(p, e, x), Hides(e), PutOf(x) = PutOf(proc[p]),
         FetchIn(x, data') = FetchOf(proc[p])
  PROVE  LossyInv' /\ LossyCache!Next
<1>1. LossyInv' /\ Puts' = Puts /\ Answers' = Answers
  <2>1. \A y : y = Puts[p] => [Puts EXCEPT ![p] = y] = Puts BY DEF Puts
  <2>2. \A y : y = Answers[p] => [Answers EXCEPT ![p] = y] = Answers BY DEF Answers
  <2> QED BY <2>1, <2>2, SeenStep
<1>2. PICK K \in SUBSET Hashes : Store' = LossyCache!Forgotten(K) BY SeenForgets
<1>3. LossyCache!Forget BY <1>1, <1>2 DEF LossyCache!Forget, Store, Puts, Answers
<1> QED BY <1>1, <1>3 DEF LossyCache!Next

LEMMA PutStep ==
  ASSUME LossyInv, SectorInv', NEW p \in Procs, NEW e \in Entries, NEW x \in ProcOf,
         SeenAt(p, e, x), Hides(e), FetchIn(x, data') = FetchOf(proc[p]),
         NEW k \in Hashes, NEW v \in Values, PutOf(proc[p]) = Nil,
         PutOf(x) = <<k, Portions(k, v)>>, StoredValue(k)' = Nil
  PROVE  LossyInv' /\ LossyCache!Next
<1>1. /\ LossyInv' /\ Puts' = [Puts EXCEPT ![p] = <<k, Portions(k, v)>>]
      /\ Answers' = Answers /\ Puts[p] = Nil
  <2>1. \A y : y = Answers[p] => [Answers EXCEPT ![p] = y] = Answers BY DEF Answers
  <2> QED BY <2>1, SeenStep
<1>2. PICK K \in SUBSET Hashes : Store' = LossyCache!Forgotten(K) /\ k \in K
  BY SeenForgets
<1>3. LossyCache!Put(p, k, Portions(k, v))
  BY <1>1, <1>2 DEF LossyCache!Put, Store, Puts, Answers
<1>4. Portions(k, v) \in StoredFor(k) BY DEF StoredFor
<1> QED BY <1>1, <1>3, <1>4 DEF LossyCache!Next

LEMMA AbandonStep ==
  ASSUME LossyInv, SectorInv', NEW p \in Procs, NEW e \in Entries, NEW x \in ProcOf,
         SeenAt(p, e, x), Hides(e), FetchIn(x, data') = FetchOf(proc[p]),
         PutOf(proc[p]) # Nil, PutOf(x) = Nil
  PROVE  LossyInv' /\ LossyCache!Next
<1>1. /\ LossyInv' /\ Puts' = [Puts EXCEPT ![p] = Nil]
      /\ Answers' = Answers /\ Puts[p] # Nil
  <2>1. \A y : y = Answers[p] => [Answers EXCEPT ![p] = y] = Answers BY DEF Answers
  <2> QED BY <2>1, SeenStep
<1>2. PICK K \in SUBSET Hashes : Store' = LossyCache!Forgotten(K) BY SeenForgets
<1>3. LossyCache!Abandon(p)
  BY <1>1, <1>2 DEF LossyCache!Abandon, Store, Puts, Answers
<1> QED BY <1>1, <1>3 DEF LossyCache!Next

\* A step that leaves what the map has.
LEMMA MapStays ==
  ASSUME data' = data, sector \in SectorType,
         \A e \in Entries : /\ sector'.entry[e].hash = sector.entry[e].hash
                            /\ sector'.entry[e].creating = sector.entry[e].creating
                            /\ sector'.entry[e].blocks = sector.entry[e].blocks
  PROVE  Store' = Store
<1>1. ASSUME NEW k \in Hashes PROVE ValueIn(sector', data', k) = ValueIn(sector, data, k)
  <2>1. LiveFor(sector', k) = LiveFor(sector, k) BY DEF LiveFor
  <2>2. \A e \in Entries : HeldIn(sector', data', e) = HeldIn(sector, data, e)
    BY DEF HeldIn
  <2>3. CASE LiveFor(sector, k) = {} BY <2>1, <2>3 DEF ValueIn
  <2>4. CASE LiveFor(sector, k) # {}
    <3>1. (CHOOSE e \in LiveFor(sector, k) : TRUE) \in Entries BY <2>4 DEF LiveFor
    <3> QED BY <2>1, <2>2, <2>4, <3>1 DEF ValueIn
  <2> QED BY <2>3, <2>4
<1>2. \A k \in Hashes : StoredValue(k)' = StoredValue(k)
  <2>1. SUFFICES ASSUME NEW k \in Hashes PROVE StoredValue(k)' = StoredValue(k) OBVIOUS
  <2>2. StoredValue(k)' = ValueIn(sector', data', k)
    BY DEF StoredValue, ValueIn, LiveFor, HeldIn
  <2> QED BY <1>1, <2>2, StoredIsIn
<1>3. Store' = [k \in Hashes |-> StoredValue(k)'] BY DEF Store
<1> QED BY <1>2, <1>3 DEF Store

LEMMA FetchStep ==
  ASSUME LossyInv, SectorInv', NEW p \in Procs, NEW e \in Entries, NEW x \in ProcOf,
         SeenAt(p, e, x), Store' = Store, PutOf(x) = PutOf(proc[p]),
         FetchOf(proc[p]) = Nil, NEW k \in Hashes, StoredValue(k) # Nil,
         FetchIn(x, data') = <<k, StoredValue(k)>>
  PROVE  LossyInv' /\ LossyCache!Next
<1>1. /\ LossyInv' /\ Puts' = Puts /\ Answers[p] = Nil
      /\ Answers' = [Answers EXCEPT ![p] = <<k, Store[k]>>] /\ Store[k] # Nil
  <2>1. \A y : y = Puts[p] => [Puts EXCEPT ![p] = y] = Puts BY DEF Puts
  <2>2. Store[k] = StoredValue(k) BY DEF Store
  <2> QED BY <2>1, <2>2, SeenStep
<1>2. LossyCache!Fetch(p, k) BY <1>1 DEF LossyCache!Fetch, Store, Puts, Answers
<1> QED BY <1>1, <1>2 DEF LossyCache!Next

LEMMA ReturnStep ==
  ASSUME LossyInv, SectorInv', NEW p \in Procs, NEW e \in Entries, NEW x \in ProcOf,
         SeenAt(p, e, x), Store' = Store, PutOf(x) = PutOf(proc[p]),
         FetchOf(proc[p]) # Nil, FetchIn(x, data') = Nil
  PROVE  LossyInv' /\ LossyCache!Next
<1>1. /\ LossyInv' /\ Puts' = Puts /\ Answers[p] # Nil
      /\ Answers' = [Answers EXCEPT ![p] = Nil]
  <2>1. \A y : y = Puts[p] => [Puts EXCEPT ![p] = y] = Puts BY DEF Puts
  <2> QED BY <2>1, SeenStep
<1>2. LossyCache!Return(p) BY <1>1 DEF LossyCache!Return, Store, Puts, Answers
<1> QED BY <1>1, <1>2 DEF LossyCache!Next

LEMMA CommitStep ==
  ASSUME LossyInv, SectorInv', NEW p \in Procs, NEW e \in Entries, NEW x \in ProcOf,
         SeenAt(p, e, x), FetchIn(x, data') = FetchOf(proc[p]),
         NEW k \in Hashes, NEW v, PutOf(proc[p]) = <<k, v>>, PutOf(x) = Nil, <<k, v>> # Nil,
         \A j \in Hashes : StoredValue(j)' = IF j = k THEN v ELSE StoredValue(j)
  PROVE  LossyInv' /\ LossyCache!Next
<1>1. /\ LossyInv' /\ Puts' = [Puts EXCEPT ![p] = Nil] /\ Answers' = Answers
      /\ Puts[p] = <<k, v>>
  <2>1. \A y : y = Answers[p] => [Answers EXCEPT ![p] = y] = Answers BY DEF Answers
  <2> QED BY <2>1, SeenStep
<1>2. Puts[p][1] = k /\ Puts[p][2] = v /\ Puts[p] # Nil BY <1>1
<1>3. Store' = [Store EXCEPT ![Puts[p][1]] = Puts[p][2]]
  <2>1. Store' = [j \in Hashes |-> StoredValue(j)'] BY DEF Store
  <2>2. [Store EXCEPT ![k] = v] = [j \in Hashes |-> IF j = k THEN v ELSE StoredValue(j)]
    BY DEF Store
  <2> QED BY <1>2, <2>1, <2>2
<1>4. LossyCache!Commit(p)
  BY <1>1, <1>2, <1>3 DEF LossyCache!Commit, Store, Puts, Answers
<1> QED BY <1>1, <1>4 DEF LossyCache!Next

-----------------------------------------------------------------------------
(* Each action as a step of the map.                                       *)

LEMMA PairsAreNotNil ==
  /\ \A c \in Seq(Contents) : c # Nil
  /\ \A k \in Hashes, c \in Seq(Contents) : <<k, c>> # Nil
  /\ \A k \in Hashes, v \in Values :
       Size[v] <= MaxBlocks => Portions(k, v) \in Seq(Contents) /\ <<k, Portions(k, v)>> # Nil
<1>1. \A c \in Seq(Contents) : c # Nil BY CopyAssumption
<1>2. \A k \in Hashes, c \in Seq(Contents) : <<k, c>> # Nil BY CopyAssumption
<1>3. ASSUME NEW k \in Hashes, NEW v \in Values, Size[v] <= MaxBlocks
      PROVE  Portions(k, v) \in Seq(Contents)
  <2>1. Size[v] \in Nat /\ MaxBlocks \in Nat BY SizesAreNat
  <2>2. \A i \in 1..Size[v] : Portion(k, v, i) \in Contents
    <3>1. \A i \in 1..Size[v] : i \in 1..MaxBlocks BY <1>3, <2>1
    <3> QED BY <3>1 DEF Contents
  <2> QED BY <2>1, <2>2 DEF Portions
<1> QED BY <1>1, <1>2, <1>3

LEMMA IdleMaps ==
  PutOf(Idle) = Nil /\ FetchOf(Idle) = Nil /\ \A d : FetchIn(Idle, d) = Nil
BY IdleFacts DEF PutOf, FetchOf, FetchIn

\* The locked half of a put.
LEMMA WriteMaps ==
  ASSUME LossyInv, SectorInv', NEW p \in Procs, NEW e \in Entries, NEW k \in Hashes,
         NEW v \in Values, Size[v] <= MaxBlocks, NEW time \in Times,
         NEW s, WriteAt(p, s, e, k, v, time), FetchOf(proc[p]) = Nil,
         PutOf(proc[p]) \in {Nil, <<k, Portions(k, v)>>}
  PROVE  LossyInv' /\ LossyCache!Next
<1> DEFINE t == PutIntoEntry(s, e, time, v)
           w == [Idle EXCEPT !.op = "write", !.key = k, !.value = v,
                             !.entry = e, !.blocks = t.entry[e].blocks]
           x == IF t.entry[e].creating THEN w ELSE Idle
<1>1. sector' = t /\ proc' = [proc EXCEPT ![p] = x] /\ data' = data BY DEF WriteAt, Write
<1>2. k # Nil /\ s.entry[e].hash # Nil /\ s.entry[e].hash = k BY SizesAreNat DEF WriteAt
<1>3. /\ Settled(t) /\ Written(s, t, e, v)
      /\ \A f \in Entries \ {e} : KeptOrFreed(s, t, f)
  BY <1>2, PutIntoEntryKeeps DEF WriteAt
<1> HIDE DEF t
<1>4. /\ t \in SectorType /\ t.entry[e].blocks \in Seq(Blocks)
      /\ t.entry[e].creating \in BOOLEAN
  BY <1>3, SectorFields DEF Settled
<1>5. Readers(e) = {} BY BitsTell DEF LossyInv, WriteAt
<1>6. \A f \in Entries \ {e} : KeptOrFreed(sector, sector', f)
  BY <1>1, <1>3 DEF KeptOrFreed, WriteAt
<1>7. /\ w \in ProcOf /\ w.op = "write" /\ w.key = k /\ w.value = v
  BY <1>4, IdleFacts DEF ProcOf, Ops
<1>8. x \in ProcOf /\ x.op # "read" BY <1>7, IdleFacts
<1>9. /\ PutOf(w) = <<k, Portions(k, v)>> /\ FetchIn(w, data') = Nil
  BY <1>7 DEF PutOf, FetchIn
<1>10. SeenAt(p, e, x)
  <2> HIDE DEF x
  <2> QED BY <1>1, <1>5, <1>6, <1>8 DEF SeenAt
<1>11. Hides(e) BY <1>1, <1>3 DEF Hides, Live, Written, FreeEntry
<1>12. <<k, Portions(k, v)>> # Nil BY PairsAreNotNil
<1>13. CASE t.entry[e].creating
  <2>1. x = w BY <1>13
  <2>2. StoredValue(k)' = Nil
    <3>1. OneEach(sector') BY DEF SectorInv, NoSecondCopy, OneEach
    <3>2. sector'.entry[e].hash = k BY <1>1, <1>2, <1>3, <1>13 DEF Written, FreeEntry
    <3>3. \A f \in Entries : sector'.entry[f].hash = k => ~Live(sector', f)
      BY <1>1, <1>2, <1>13, <3>1, <3>2 DEF OneEach, Live
    <3>4. StoredValue(k)' = ValueIn(sector', data', k)
      BY DEF StoredValue, ValueIn, LiveFor, HeldIn
    <3> QED BY <3>3, <3>4, NoValueIn
  <2> HIDE DEF w, x
  <2>3. CASE PutOf(proc[p]) = Nil
    BY <1>7, <1>9, <1>10, <1>11, <2>1, <2>2, <2>3, PutStep
  <2>4. CASE PutOf(proc[p]) = <<k, Portions(k, v)>>
    BY <1>7, <1>9, <1>10, <1>11, <2>1, <2>4, ForgetStep
  <2> QED BY <2>3, <2>4
<1>14. CASE ~t.entry[e].creating
  <2>1. x = Idle BY <1>14
  <2> HIDE DEF x
  <2>2. CASE PutOf(proc[p]) = Nil
    BY <1>10, <1>11, <2>1, <2>2, IdleMaps, IdleFacts, ForgetStep
  <2>3. CASE PutOf(proc[p]) = <<k, Portions(k, v)>>
    BY <1>10, <1>11, <1>12, <2>1, <2>3, IdleMaps, IdleFacts, AbandonStep
  <2> QED BY <2>2, <2>3
<1> QED BY <1>13, <1>14

\* A put or a delete that waits for readers.
LEMMA AwaitMaps ==
  ASSUME LossyInv, SectorInv', NEW p \in Procs, NEW e \in Entries, NEW x \in ProcOf,
         AwaitAt(p, e, x)
  PROVE  LossyInv' /\ LossyCache!Next
<1>1. /\ sector \in SectorType /\ proc[p] = Idle /\ data' = data /\ x.key \in Hashes
      /\ x.op \in {"await_put", "await_delete"} /\ sector' = Claimed(sector, e)
      /\ sector.entry[e].hash = x.key
  BY InvFacts DEF LossyInv, AwaitAt
<1>2. /\ sector'.entry[e].creating /\ sector'.entry[e].hash = x.key
      /\ sector'.entry[e].blocks = sector.entry[e].blocks
      /\ \A f \in Entries \ {e} : sector'.entry[f] = sector.entry[f]
  BY <1>1, ClaimedFacts
<1>3. SeenAt(p, e, x) BY <1>1, <1>2 DEF SeenAt, AwaitAt, KeptOrFreed
<1>4. Hides(e) BY <1>2 DEF Hides, Live
<1>5. PutOf(proc[p]) = Nil /\ FetchOf(proc[p]) = Nil /\ FetchIn(x, data') = Nil
  BY <1>1, IdleMaps DEF FetchIn
<1>6. CASE x.op = "await_delete"
  <2>1. PutOf(x) = Nil BY <1>6 DEF PutOf
  <2> QED BY <1>3, <1>4, <1>5, <2>1, ForgetStep
<1>7. CASE x.op = "await_put"
  <2>1. PutOf(x) = <<x.key, Portions(x.key, x.value)>> /\ x.value \in Values
    BY <1>7 DEF PutOf, AwaitAt
  <2>2. StoredValue(x.key)' = Nil
    <3>1. OneEach(sector') BY DEF SectorInv, NoSecondCopy, OneEach
    <3>2. x.key # Nil BY <1>1, SizesAreNat
    <3>3. \A f \in Entries : sector'.entry[f].hash = x.key => ~Live(sector', f)
      BY <1>2, <3>1, <3>2 DEF OneEach, Live
    <3>4. StoredValue(x.key)' = ValueIn(sector', data', x.key)
      BY DEF StoredValue, ValueIn, LiveFor, HeldIn
    <3> QED BY <1>1, <3>3, <3>4, NoValueIn
  <2> QED BY <1>1, <1>3, <1>4, <1>5, <2>1, <2>2, PutStep
<1> QED BY <1>1, <1>6, <1>7

LEMMA EraseMaps ==
  ASSUME LossyInv, SectorInv', NEW p \in Procs, NEW e \in Entries,
         EraseAt(p, e), PutOf(proc[p]) = Nil, FetchOf(proc[p]) = Nil
  PROVE  LossyInv' /\ LossyCache!Next
<1> USE DEF EraseAt
<1>1. /\ sector'.entry[e] = FreeEntry
      /\ \A f \in Entries \ {e} : sector'.entry[f] = sector.entry[f]
  BY InvFacts, DeleteEntryKeeps DEF LossyInv
<1>2. Readers(e) = {} BY BitsTell DEF LossyInv
<1>3. SeenAt(p, e, Idle) BY <1>1, <1>2, IdleFacts DEF SeenAt, KeptOrFreed
<1>4. Hides(e) BY <1>1 DEF Hides, Live, FreeEntry
<1> QED BY <1>3, <1>4, IdleFacts, IdleMaps, ForgetStep

LEMMA PutReadyMaps ==
  ASSUME LossyInv, SectorInv', NEW p \in Procs, PutReady(p) PROVE LossyInv' /\ LossyCache!Next
<1>1. PICK e \in Entries, k \in Hashes, v \in Values, time \in Times : \E s :
        /\ proc[p].op = "await_put" /\ proc[p].key = k /\ proc[p].value = v
        /\ Size[v] <= MaxBlocks /\ WriteAt(p, s, e, k, v, time)
  BY PutReadyIs DEF LossyInv
<1>2. PICK s :
        /\ proc[p].op = "await_put" /\ proc[p].key = k /\ proc[p].value = v
        /\ Size[v] <= MaxBlocks /\ WriteAt(p, s, e, k, v, time)
  BY <1>1
<1>3. PutOf(proc[p]) = <<k, Portions(k, v)>> /\ FetchOf(proc[p]) = Nil
  BY <1>2 DEF PutOf, FetchOf
<1> QED BY <1>2, <1>3, WriteMaps

\* One more block of a value in an entry that nobody else sees.
LEMMA CopyInMaps ==
  ASSUME LossyInv, SectorInv', NEW p \in Procs, CopyIn(p) PROVE LossyInv' /\ LossyCache!Next
<1>1. PICK x \in ProcOf : x = proc[p] BY SectorTypes DEF LossyInv, SectorInv
<1> DEFINE e == x.entry
           y == [x EXCEPT !.blocks = Tail(x.blocks)]
           blocks == sector.entry[e].blocks
           n == Len(blocks)
           m == Len(x.blocks)
           b == Head(x.blocks)
           c == Portion(x.key, x.value, Size[x.value] - m + 1)
<1>2. /\ x.op = "write" /\ x.blocks # <<>> /\ data' = [data EXCEPT ![b] = c]
      /\ proc' = [proc EXCEPT ![p] = y] /\ sector' = sector
  BY <1>1 DEF CopyIn
<1>3. /\ x.blocks \in Seq(Blocks) /\ Working(sector, data, x)
      /\ data \in [Blocks -> Contents] /\ sector \in SectorType
  BY <1>1, InvFacts DEF ProcOf, LossyInv
<1>4. e \in Entries /\ sector.entry[e].open_count = 0 /\ Copied(sector, data, x)
  BY <1>2, <1>3 DEF Working, AtIt
<1>5. p \in Writers(e) BY <1>1, <1>2 DEF Writers
<1>6. sector.entry[e].creating /\ Readers(e) = {} BY <1>4, <1>5, BitsTell DEF LossyInv
<1>7. blocks \in Seq(Blocks) /\ Owned(sector, e) = ToSet(blocks)
  BY <1>3, <1>4, SectorFields DEF Owned
<1>8. m <= n /\ n \in Nat /\ m \in Nat /\ m # 0 /\ \A j \in 1..m : x.blocks[j] = blocks[n - m + j]
  BY <1>2, <1>3, <1>4, <1>7 DEF Copied
<1>9. b = x.blocks[1] BY <1>2, <1>3
<1>10. b \in Owned(sector, e)
  <2> HIDE DEF n, m, b
  <2>1. 1 \in 1..m /\ n - m + 1 \in 1..n BY <1>8
  <2>2. b = blocks[n - m + 1] BY <1>8, <1>9, <2>1
  <2> QED BY <1>7, <2>1, <2>2, ToSetFacts DEF n
<1>11. /\ y \in ProcOf /\ y.op = "write" /\ y.key = x.key /\ y.value = x.value
  <2>1. Tail(x.blocks) \in Seq(Blocks) BY <1>2, <1>3
  <2> QED BY <1>2, <1>3, <2>1 DEF ProcOf
<1> HIDE DEF b, c, y
<1>12. \A f \in Entries : KeptOrFreed(sector, sector', f) BY <1>2 DEF KeptOrFreed
<1>13. \A d \in Blocks \ Owned(sector, e) : data'[d] = data[d] BY <1>2, <1>3, <1>10
<1>14. SeenAt(p, e, y) BY <1>2, <1>6, <1>11, <1>12, <1>13 DEF SeenAt
<1>15. Hides(e) BY <1>2, <1>6 DEF Hides, Live
<1>16. PutOf(y) = PutOf(proc[p]) /\ FetchIn(y, data') = FetchOf(proc[p])
  BY <1>1, <1>2, <1>11 DEF PutOf, FetchIn, FetchOf
<1> HIDE DEF e
<1> QED BY <1>4, <1>11, <1>14, <1>15, <1>16, ForgetStep

\* The put takes effect when its creating bit is cleared.
LEMMA PutDoneMaps ==
  ASSUME LossyInv, SectorInv', NEW p \in Procs, PutDone(p) PROVE LossyInv' /\ LossyCache!Next
<1>0. PICK x \in ProcOf : x = proc[p] BY SectorTypes DEF LossyInv, SectorInv
<1> DEFINE e == x.entry
           k == x.key
           v == x.value
           blocks == sector.entry[e].blocks
           z == [sector.entry[e] EXCEPT !.creating = FALSE]
           t == [sector EXCEPT !.entry = [sector.entry EXCEPT ![e] = z]]
<1>1. /\ x.op = "write" /\ x.blocks = <<>> /\ sector' = t
      /\ proc' = [proc EXCEPT ![p] = Idle] /\ data' = data
  BY <1>0 DEF PutDone
<1>2. Working(sector, data, x) /\ sector \in SectorType /\ SectorInv
  BY <1>0, InvFacts DEF LossyInv
<1>3. /\ e \in Entries /\ k \in Hashes /\ v \in Values /\ Size[v] <= MaxBlocks
      /\ sector.entry[e].hash = k /\ sector.entry[e].open_count = 0
      /\ Copied(sector, data, x)
  BY <1>1, <1>2 DEF Working, AtIt
<1>4. p \in Writers(e) BY <1>0, <1>1 DEF Writers
<1>5. Readers(e) = {} /\ sector.entry[e].creating BY <1>2, <1>3, <1>4, BitsTell
<1>6. /\ z \in EntryOf /\ z.hash = k /\ z.blocks = blocks /\ ~z.creating
      /\ blocks \in Seq(Blocks) /\ k # Nil
  BY <1>2, <1>3, SectorFields, SizesAreNat DEF EntryOf
<1> HIDE DEF z
<1>7. t.entry[e] = z /\ \A f \in Entries \ {e} : t.entry[f] = sector.entry[f]
  BY <1>2, <1>3, <1>6, EntryReplaced
<1> HIDE DEF t
<1>8. SeenAt(p, e, Idle)
  BY <1>1, <1>5, <1>7, IdleFacts DEF SeenAt, KeptOrFreed
<1>9. /\ Len(blocks) = Size[v]
      /\ \A i \in 1..Size[v] : data[blocks[i]] = Portion(k, v, i)
  <2>1. Len(x.blocks) = 0 BY <1>1
  <2>2. Len(blocks) - 0 = Len(blocks) BY <1>6
  <2> QED BY <1>3, <2>1, <2>2 DEF Copied
<1>10. HeldIn(t, data, e) = Portions(k, v)
  <2>1. DOMAIN blocks = 1..Size[v] BY <1>6, <1>9
  <2>2. t.entry[e].blocks = blocks BY <1>6, <1>7
  <2>3. HeldIn(t, data, e) = [i \in 1..Size[v] |-> data[blocks[i]]] BY <2>1, <2>2 DEF HeldIn
  <2> HIDE DEF blocks, k, v
  <2> QED BY <1>9, <2>3 DEF Portions
<1>11. OneEach(t) BY <1>1 DEF SectorInv, NoSecondCopy, OneEach
<1>12. Live(t, e) /\ t.entry[e].hash = k BY <1>6, <1>7 DEF Live
<1>13. ValueIn(t, data, k) = Portions(k, v) BY <1>3, <1>10, <1>11, <1>12, ValueOf
<1>14. ASSUME NEW j \in Hashes, j # k PROVE ValueIn(t, data, j) = ValueIn(sector, data, j)
  <2>1. LiveFor(t, j) = LiveFor(sector, j) /\ e \notin LiveFor(sector, j)
    BY <1>3, <1>7, <1>12, <1>14 DEF LiveFor
  <2>2. \A f \in LiveFor(sector, j) : HeldIn(t, data, f) = HeldIn(sector, data, f)
    BY <1>7, <2>1 DEF HeldIn, LiveFor
  <2>3. CASE LiveFor(sector, j) = {} BY <2>1, <2>3 DEF ValueIn
  <2>4. CASE LiveFor(sector, j) # {}
    <3>1. (CHOOSE f \in LiveFor(sector, j) : TRUE) \in LiveFor(sector, j) BY <2>4
    <3> QED BY <2>1, <2>2, <2>4, <3>1 DEF ValueIn
  <2> QED BY <2>3, <2>4
<1>15. \A j \in Hashes : StoredValue(j)' = IF j = k THEN Portions(k, v) ELSE StoredValue(j)
  <2>1. \A j : StoredValue(j)' = ValueIn(sector', data', j)
    BY DEF StoredValue, ValueIn, LiveFor, HeldIn
  <2> HIDE DEF k, v
  <2> QED BY <1>1, <1>13, <1>14, <2>1, StoredIsIn
<1>16. /\ PutOf(proc[p]) = <<k, Portions(k, v)>> /\ FetchOf(proc[p]) = Nil
       /\ <<k, Portions(k, v)>> # Nil
  BY <1>0, <1>1, <1>3, PairsAreNotNil DEF PutOf, FetchOf
<1> HIDE DEF e, k, v
<1>17. FetchIn(Idle, data') = FetchOf(proc[p]) /\ PutOf(Idle) = Nil BY <1>16, IdleMaps
<1> QED BY <1>3, <1>8, <1>15, <1>16, <1>17, IdleFacts, CommitStep

\* A get that finds its key has, from here on, the value of the map.
LEMMA GetMaps ==
  ASSUME LossyInv, SectorInv', NEW p \in Procs, NEW k \in Hashes, NEW time \in Times,
         Get(p, k, time), ~UNCHANGED <<sector, proc>>
  PROVE  LossyInv' /\ LossyCache!Next
<1>1. PICK e \in Entries, y \in ProcOf : GetAt(p, k, e, y) BY GetIs DEF LossyInv
<1>2. proc[p] = Idle BY GetIs DEF LossyInv
<1> DEFINE blocks == sector.entry[e].blocks
           held == HeldIn(sector, data, e)
<1>3. /\ sector \in SectorType /\ data \in [Blocks -> Contents] /\ k # Nil
      /\ blocks \in Seq(Blocks) /\ OneEach(sector)
  BY InvFacts, SectorFields, SizesAreNat DEF LossyInv, NoSecondCopy, OneEach
<1>4. SeenAt(p, e, y) BY <1>1 DEF SeenAt, GetAt, KeptOrFreed, Owned
<1>5. Store' = Store
  <2>1. \A f \in Entries : /\ sector'.entry[f].hash = sector.entry[f].hash
                           /\ sector'.entry[f].creating = sector.entry[f].creating
                           /\ sector'.entry[f].blocks = sector.entry[f].blocks
    <3>1. sector.entry[e].creating = FALSE BY <1>1, <1>3, SectorFields DEF GetAt
    <3> QED BY <1>1, <3>1 DEF GetAt
  <2> QED BY <1>1, <1>3, <2>1, MapStays DEF GetAt
<1>6. StoredValue(k) = held
  <2>1. Live(sector, e) /\ sector.entry[e].hash = k BY <1>1, <1>3 DEF GetAt, Live
  <2> QED BY <1>3, <2>1, ValueOf, StoredIsIn
<1>7. held \in Seq(Contents)
  <2>1. DOMAIN blocks = 1..Len(blocks) /\ Len(blocks) \in Nat BY <1>3
  <2>2. \A i \in 1..Len(blocks) : data[blocks[i]] \in Contents BY <1>3
  <2>3. held = [i \in 1..Len(blocks) |-> data[blocks[i]]] BY <2>1 DEF HeldIn
  <2> HIDE DEF blocks, held
  <2> QED BY <2>1, <2>2, <2>3
<1>8. FetchIn(y, data') = <<k, <<>> \o held>> BY <1>1 DEF GetAt, FetchIn, HeldIn
<1>9. <<>> \o held = held BY <1>7
<1>10. held # Nil BY <1>7, PairsAreNotNil
<1>11. PutOf(y) = PutOf(proc[p]) /\ FetchOf(proc[p]) = Nil
  BY <1>1, <1>2, IdleMaps DEF GetAt, PutOf
<1> HIDE DEF held
<1> QED BY <1>4, <1>5, <1>6, <1>8, <1>9, <1>10, <1>11, FetchStep

\* The first of what is left becomes the last of what there is.
LEMMA OneMoved ==
  ASSUME NEW S, NEW a \in Seq(S), NEW r \in Seq(S), r # <<>>, NEW l \in Seq(S),
         Len(l) = Len(r) - 1, \A i \in 1..(Len(r) - 1) : l[i] = r[i + 1]
  PROVE  Append(a, r[1]) \o l = a \o r
<1> DEFINE b == Append(a, r[1])
<1>1. Len(a) \in Nat /\ Len(r) \in Nat /\ Len(r) # 0 /\ r[1] \in S OBVIOUS
<1>2. /\ b \in Seq(S) /\ Len(b) = Len(a) + 1 /\ b[Len(a) + 1] = r[1]
      /\ \A i \in 1..Len(a) : b[i] = a[i]
  BY <1>1
<1> HIDE DEF b
<1>3. b \o l \in Seq(S) /\ a \o r \in Seq(S) BY <1>2
<1>4. Len(b \o l) = Len(b) + Len(l) /\ Len(a \o r) = Len(a) + Len(r)
  BY <1>2, ConcatFacts
<1>5. Len(b \o l) = Len(a \o r) BY <1>1, <1>2, <1>4
<1>6. ASSUME NEW i \in 1..Len(a \o r) PROVE (b \o l)[i] = (a \o r)[i]
  <2>1. CASE i \in 1..Len(a) BY <1>1, <1>2, <2>1
  <2>2. CASE i = Len(a) + 1 BY <1>1, <1>2, <2>2
  <2>3. CASE i \notin 1..(Len(a) + 1)
    <3>1. i - Len(a) \in 1..Len(r) /\ i - Len(b) \in 1..Len(l) /\ i > Len(b) /\ i > Len(a)
      BY <1>1, <1>2, <1>4, <2>3
    <3>2. (a \o r)[i] = r[i - Len(a)] BY <1>1, <1>4, <3>1
    <3>3. (b \o l)[i] = l[i - Len(b)] BY <1>1, <1>2, <1>4, <1>5, <3>1
    <3>4. (i - Len(b)) + 1 = i - Len(a) /\ i - Len(b) \in 1..(Len(r) - 1)
      BY <1>1, <1>2, <3>1
    <3>5. \A j \in 1..(Len(r) - 1) : l[j] = r[j + 1] OBVIOUS
    <3>6. l[i - Len(b)] = r[(i - Len(b)) + 1] BY <3>4, <3>5
    <3>7. r[(i - Len(b)) + 1] = r[i - Len(a)] BY Zenon, <3>4
    <3> QED BY Zenon, <3>2, <3>3, <3>6, <3>7
  <2> QED
    <3>1. i \in 1..(Len(a) + 1) \/ i \notin 1..(Len(a) + 1) OBVIOUS
    <3>2. i \in 1..(Len(a) + 1) => i \in 1..Len(a) \/ i = Len(a) + 1 BY <1>1
    <3> QED BY <2>1, <2>2, <2>3, <3>1, <3>2
<1> QED BY <1>3, <1>5, <1>6 DEF b

\* What a reader has and what it is still to copy stay the same whole.
LEMMA CopyOutMaps ==
  ASSUME LossyInv, SectorInv', NEW p \in Procs, CopyOut(p) PROVE LossyInv' /\ LossyCache!Next
<1>1. PICK x \in ProcOf : x = proc[p] BY SectorTypes DEF LossyInv, SectorInv
<1> DEFINE e == x.entry
           g == Append(x.got, data[Head(x.blocks)])
           y == [x EXCEPT !.blocks = Tail(x.blocks), !.got = g]
           rest == [i \in DOMAIN x.blocks |-> data[x.blocks[i]]]
           less == [i \in DOMAIN Tail(x.blocks) |-> data[Tail(x.blocks)[i]]]
<1>2. /\ x.op = "read" /\ x.blocks # <<>>
      /\ proc' = [proc EXCEPT ![p].blocks = Tail(@),
                              ![p].got = Append(@, data[Head(proc[p].blocks)])]
      /\ sector' = sector /\ data' = data
  BY <1>1 DEF CopyOut
<1>3. /\ x.blocks \in Seq(Blocks) /\ x.got \in Seq(Contents) /\ Working(sector, data, x)
      /\ data \in [Blocks -> Contents] /\ proc \in [Procs -> ProcOf]
  BY <1>1, InvFacts DEF ProcOf, LossyInv
<1>4. proc' = [proc EXCEPT ![p] = y] BY <1>1, <1>2, <1>3
<1>5. e \in Entries BY <1>2, <1>3 DEF Working, AtIt
<1>6. /\ y \in ProcOf /\ y.op = "read" /\ y.entry = e /\ y.key = x.key
      /\ y.blocks = Tail(x.blocks) /\ y.got = g
  <2>1. Tail(x.blocks) \in Seq(Blocks) /\ Head(x.blocks) \in Blocks BY <1>2, <1>3
  <2>2. g \in Seq(Contents) BY <1>3, <2>1
  <2> HIDE DEF g
  <2> QED BY <1>2, <1>3, <2>1, <2>2 DEF ProcOf
<1> HIDE DEF y
<1>7. ToSet(Tail(x.blocks)) \subseteq ToSet(x.blocks)
  <2>1. /\ Tail(x.blocks) \in Seq(Blocks) /\ Len(x.blocks) \in Nat /\ Len(x.blocks) # 0
        /\ Len(Tail(x.blocks)) = Len(x.blocks) - 1
        /\ \A i \in 1..(Len(x.blocks) - 1) : Tail(x.blocks)[i] = x.blocks[i + 1]
    BY <1>2, <1>3
  <2>2. \A i \in 1..(Len(x.blocks) - 1) : i + 1 \in 1..Len(x.blocks) BY <2>1
  <2>3. \A i \in 1..Len(Tail(x.blocks)) : Tail(x.blocks)[i] \in ToSet(x.blocks)
    BY <1>3, <2>1, <2>2, ToSetFacts
  <2>4. SUFFICES ASSUME NEW b \in ToSet(Tail(x.blocks)) PROVE b \in ToSet(x.blocks)
    OBVIOUS
  <2>5. PICK i \in 1..Len(Tail(x.blocks)) : Tail(x.blocks)[i] = b BY <2>1, ToSetFacts
  <2> QED BY <2>3, <2>5
<1>8. SeenAt(p, e, y)
  <2>1. ToSet(x.blocks) \subseteq Owned(sector, e) BY <1>1, <1>2 DEF LossyInv, Reading
  <2> HIDE DEF e
  <2> QED BY <1>2, <1>4, <1>6, <1>7, <2>1 DEF SeenAt, KeptOrFreed
<1>9. Hides(e) BY <1>2 DEF Hides, Kept, Live
<1>10. g \o less = x.got \o rest
  <2> DEFINE n == Len(x.blocks)
  <2>1. /\ n \in Nat /\ n # 0 /\ DOMAIN x.blocks = 1..n
        /\ Len(Tail(x.blocks)) = n - 1 /\ DOMAIN Tail(x.blocks) = 1..(n - 1)
        /\ \A i \in 1..(n - 1) : Tail(x.blocks)[i] = x.blocks[i + 1]
        /\ Head(x.blocks) = x.blocks[1]
        /\ \A i \in 1..n : x.blocks[i] \in Blocks
    BY <1>2, <1>3
  <2>2. \A i \in 1..n : data[x.blocks[i]] \in Contents BY <1>3, <2>1
  <2>3. rest = [i \in 1..n |-> data[x.blocks[i]]] BY <2>1
  <2>4. less = [i \in 1..(n - 1) |-> data[x.blocks[i + 1]]] BY <2>1
  <2>5. g = Append(x.got, data[x.blocks[1]]) BY <2>1
  <2> HIDE DEF n, g, less, rest
  <2>6. \A i \in 1..n : rest[i] = data[x.blocks[i]] BY <2>3
  <2>7. \A i \in 1..(n - 1) : less[i] = rest[i + 1]
    <3>1. \A i \in 1..(n - 1) : i + 1 \in 1..n BY <2>1
    <3> QED BY <2>3, <2>4, <3>1
  <2>8. rest \in Seq(Contents) /\ Len(rest) = n BY <2>1, <2>2, <2>3
  <2>9. less \in Seq(Contents) /\ Len(less) = n - 1
    <3>1. \A i \in 1..(n - 1) : less[i] \in Contents BY <2>1, <2>2, <2>6, <2>7
    <3> QED BY <2>1, <2>4, <3>1
  <2>10. g = Append(x.got, rest[1])
    <3>1. 1 \in 1..n BY <2>1
    <3> QED BY <2>5, <2>6, <3>1
  <2>11. rest # <<>> BY <2>1, <2>8
  <2> QED BY <1>3, <2>7, <2>8, <2>9, <2>10, <2>11, OneMoved
<1>11. PutOf(y) = PutOf(proc[p]) BY <1>1, <1>2, <1>6 DEF PutOf
<1>12. FetchIn(y, data') = FetchOf(proc[p])
  <2>1. FetchIn(y, data') = <<x.key, g \o less>> BY <1>2, <1>6 DEF FetchIn
  <2>2. FetchOf(proc[p]) = <<x.key, x.got \o rest>> BY <1>1, <1>2 DEF FetchOf
  <2> QED BY <1>10, <2>1, <2>2
<1> HIDE DEF e
<1> QED BY <1>5, <1>6, <1>8, <1>9, <1>11, <1>12, ForgetStep

LEMMA FetchingIsSome ==
  ASSUME LossyInv, NEW p \in Procs, proc[p].op = "read"
  PROVE  FetchOf(proc[p]) # Nil
<1>1. PICK x \in ProcOf : x = proc[p] BY SectorTypes DEF LossyInv, SectorInv
<1> DEFINE n == Len(x.blocks)
           rest == [i \in DOMAIN x.blocks |-> data[x.blocks[i]]]
<1>2. /\ x.blocks \in Seq(Blocks) /\ x.got \in Seq(Contents) /\ Working(sector, data, x)
      /\ data \in [Blocks -> Contents]
  BY <1>1, InvFacts DEF ProcOf, LossyInv
<1>3. x.key \in Hashes BY <1>1, <1>2 DEF Working, AtIt
<1>4. n \in Nat /\ DOMAIN x.blocks = 1..n /\ \A i \in 1..n : data[x.blocks[i]] \in Contents
  BY <1>2
<1>5. rest = [i \in 1..n |-> data[x.blocks[i]]] BY <1>4
<1> HIDE DEF n, rest
<1>6. rest \in Seq(Contents) BY <1>4, <1>5
<1>7. x.got \o rest \in Seq(Contents) BY <1>2, <1>6, ConcatFacts
<1>8. FetchOf(proc[p]) = <<x.key, x.got \o rest>> BY <1>1 DEF FetchOf, rest
<1> QED BY <1>3, <1>7, <1>8, PairsAreNotNil

LEMMA GetDoneMaps ==
  ASSUME LossyInv, SectorInv', NEW p \in Procs, GetDone(p) PROVE LossyInv' /\ LossyCache!Next
<1>1. PICK x \in ProcOf : x = proc[p] BY SectorTypes DEF LossyInv, SectorInv
<1> DEFINE e == x.entry
           n == sector.entry[e].open_count
           z == [sector.entry[e] EXCEPT !.open_count = n - 1]
           t == [sector EXCEPT !.entry = [sector.entry EXCEPT ![e] = z]]
<1>2. /\ x.op = "read" /\ proc' = [proc EXCEPT ![p] = Idle] /\ sector' = t
      /\ data' = data
  BY <1>1 DEF GetDone
<1>3. Working(sector, data, x) /\ sector \in SectorType
  BY <1>1, InvFacts DEF LossyInv
<1>4. e \in Entries BY <1>2, <1>3 DEF Working, AtIt
<1>5. p \in Readers(e) BY <1>1, <1>2 DEF Readers
<1>6. n \in Nat \ {0} BY <1>4, <1>5, BitsTell DEF LossyInv
<1>7. sector.entry[e] \in EntryOf BY <1>3, <1>4, SectorFields
<1> HIDE DEF n
<1>8. n - 1 \in Nat BY <1>6
<1>9. /\ z \in EntryOf /\ z.hash = sector.entry[e].hash
      /\ z.blocks = sector.entry[e].blocks /\ z.creating = sector.entry[e].creating
  BY <1>7, <1>8 DEF EntryOf
<1> HIDE DEF z
<1>10. t.entry[e] = z /\ \A f \in Entries \ {e} : t.entry[f] = sector.entry[f]
  BY <1>3, <1>4, <1>9, EntryReplaced
<1> HIDE DEF t
<1>11. SeenAt(p, e, Idle)
  BY <1>2, <1>9, <1>10, IdleFacts DEF SeenAt, KeptOrFreed
<1>12. Store' = Store BY <1>2, <1>3, <1>9, <1>10, MapStays
<1>13. PutOf(Idle) = PutOf(proc[p]) BY <1>1, <1>2, IdleMaps DEF PutOf
<1>14. FetchOf(proc[p]) # Nil /\ FetchIn(Idle, data') = Nil
  BY <1>1, <1>2, FetchingIsSome, IdleMaps
<1> HIDE DEF e
<1> QED BY <1>4, <1>11, <1>12, <1>13, <1>14, IdleFacts, ReturnStep

\* A killed writer's put is dropped, a killed reader's answer is lost.
LEMMA CrashMaps ==
  ASSUME LossyInv, SectorInv', NEW p \in Procs, Crash(p) PROVE LossyInv' /\ LossyCache!Next
<1>1. PICK x \in ProcOf : x = proc[p] BY SectorTypes DEF LossyInv, SectorInv
<1> DEFINE e == x.entry
<1>2. /\ x # Idle /\ proc' = [proc EXCEPT ![p] = Idle] /\ sector' = sector /\ data' = data
  BY <1>1 DEF Crash
<1>3. Working(sector, data, x) /\ sector \in SectorType /\ x.op \in Ops
  BY <1>1, InvFacts DEF ProcOf, LossyInv
<1>4. x.op # "idle" /\ e \in Entries /\ x.key \in Hashes
  BY <1>2, <1>3 DEF Working, AtIt
<1>5. SeenAt(p, e, Idle) BY <1>2, IdleFacts DEF SeenAt, KeptOrFreed
<1>6. Hides(e) BY <1>2 DEF Hides, Kept, Live
<1>7. CASE x.op = "read"
  <2>1. Store' = Store BY <1>2, <1>3, MapStays
  <2>2. PutOf(Idle) = PutOf(proc[p]) BY <1>1, <1>7, IdleMaps DEF PutOf
  <2>3. FetchOf(proc[p]) # Nil /\ FetchIn(Idle, data') = Nil
    BY <1>1, <1>7, FetchingIsSome, IdleMaps
  <2> HIDE DEF e
  <2> QED BY <1>4, <1>5, <2>1, <2>2, <2>3, IdleFacts, ReturnStep
<1>8. CASE x.op \in {"write", "await_put"}
  <2>1. x.value \in Values /\ Size[x.value] <= MaxBlocks BY <1>3, <1>8 DEF Working, AtIt
  <2>2. PutOf(proc[p]) = <<x.key, Portions(x.key, x.value)>> BY <1>1, <1>8 DEF PutOf
  <2>3. PutOf(proc[p]) # Nil BY <1>4, <2>1, <2>2, PairsAreNotNil
  <2>4. FetchIn(Idle, data') = FetchOf(proc[p]) /\ PutOf(Idle) = Nil
    BY <1>1, <1>8, IdleMaps DEF FetchOf
  <2> HIDE DEF e
  <2> QED BY <1>4, <1>5, <1>6, <2>3, <2>4, IdleFacts, AbandonStep
<1>9. CASE x.op = "await_delete"
  <2>1. /\ FetchIn(Idle, data') = FetchOf(proc[p]) /\ PutOf(Idle) = PutOf(proc[p])
    BY <1>1, <1>9, IdleMaps DEF FetchOf, PutOf
  <2> HIDE DEF e
  <2> QED BY <1>4, <1>5, <1>6, <2>1, IdleFacts, ForgetStep
<1> QED BY <1>3, <1>4, <1>7, <1>8, <1>9 DEF Ops

LEMMA DeleteReadyMaps ==
  ASSUME LossyInv, SectorInv', NEW p \in Procs, DeleteReady(p)
  PROVE  LossyInv' /\ LossyCache!Next
<1>1. proc[p].op = "await_delete" /\ \E e \in Entries : EraseAt(p, e)
  BY DeleteReadyIs DEF LossyInv
<1>2. PutOf(proc[p]) = Nil /\ FetchOf(proc[p]) = Nil BY <1>1 DEF PutOf, FetchOf
<1> QED BY <1>1, <1>2, EraseMaps

LEMMA CallMaps ==
  ASSUME LossyInv, SectorInv', NEW p \in Procs, NEW k \in Hashes,
         ~UNCHANGED <<sector, proc>>
  PROVE  /\ Delete(p, k) => LossyInv' /\ LossyCache!Next
         /\ \A v \in Values, time \in Times :
              PutUpdate(p, k, v, time) \/ PutReplace(p, k, v, time)
                => LossyInv' /\ LossyCache!Next
<1>1. SectorInv BY DEF LossyInv
<1>2. proc[p] = Idle => PutOf(proc[p]) = Nil /\ FetchOf(proc[p]) = Nil BY IdleMaps
<1>3. ASSUME Delete(p, k) PROVE LossyInv' /\ LossyCache!Next
  BY <1>1, <1>2, <1>3, DeleteIs, EraseMaps, AwaitMaps
<1>4. ASSUME NEW v \in Values, NEW time \in Times, PutUpdate(p, k, v, time)
      PROVE  LossyInv' /\ LossyCache!Next
  BY <1>1, <1>2, <1>4, PutUpdateIs, WriteMaps, AwaitMaps
<1>5. ASSUME NEW v \in Values, NEW time \in Times, PutReplace(p, k, v, time)
      PROVE  LossyInv' /\ LossyCache!Next
  BY <1>1, <1>2, <1>5, PutReplaceIs, WriteMaps
<1> QED BY <1>3, <1>4, <1>5

\* A step that changes nothing.
LEMMA StutterMaps ==
  ASSUME LossyInv, UNCHANGED <<sector, proc, data>>
  PROVE  Reading' /\ UNCHANGED LossyCache!vars
<1>1. Reading' BY DEF LossyInv, Reading, Owned
<1>2. UNCHANGED [k \in Hashes |-> StoredValue(k)] BY DEF StoredValue
<1>3. UNCHANGED [p \in Procs |-> PutOf(proc[p])] BY DEF PutOf
<1>4. UNCHANGED [p \in Procs |-> FetchOf(proc[p])] BY DEF FetchOf
<1> QED BY <1>1, <1>2, <1>3, <1>4 DEF LossyCache!vars

LEMMA LossyInitially == SectorInit => LossyInv /\ LossyCache!Init
<1>1. SUFFICES ASSUME SectorInit PROVE LossyInv /\ LossyCache!Init OBVIOUS
<1>2. \A p \in Procs : proc[p] = Idle BY <1>1 DEF SectorInit
<1>3. LossyInv BY <1>1, <1>2, SectorInitially, IdleFacts DEF LossyInv, Reading
<1>4. \A k \in Hashes : StoredValue(k) = Nil
  <2>1. SUFFICES ASSUME NEW k \in Hashes PROVE StoredValue(k) = Nil OBVIOUS
  <2>2. \A e \in Entries : sector.entry[e].hash = Nil BY <1>1 DEF SectorInit, FreeEntry
  <2>3. \A e \in Entries : sector.entry[e].hash # k BY <2>2, SizesAreNat
  <2>4. ValueIn(sector, data, k) = Nil BY <2>3, NoValueIn
  <2> QED BY <2>4, StoredIsIn
<1>5. \A p \in Procs : PutOf(proc[p]) = Nil /\ FetchOf(proc[p]) = Nil BY <1>2, IdleMaps
<1>6. LossyCache!Init BY <1>4, <1>5 DEF LossyCache!Init
<1> QED BY <1>3, <1>6

LEMMA LossySteps ==
  LossyInv /\ [SectorNext]_sectorVars => LossyInv' /\ [LossyCache!Next]_(LossyCache!vars)
<1>1. SUFFICES ASSUME LossyInv, [SectorNext]_sectorVars
               PROVE  LossyInv' /\ [LossyCache!Next]_(LossyCache!vars)
  OBVIOUS
<1>2. SectorInv' BY <1>1, SectorSteps DEF LossyInv
<1>3. CASE UNCHANGED <<sector, proc, data>> BY <1>1, <1>2, <1>3, StutterMaps DEF LossyInv
<1>4. ASSUME ~UNCHANGED <<sector, proc, data>> PROVE LossyInv' /\ LossyCache!Next
  <2>1. ASSUME NEW p \in Procs, Continue(p) PROVE LossyInv' /\ LossyCache!Next
    BY <1>1, <1>2, <2>1, PutReadyMaps, CopyInMaps, PutDoneMaps, CopyOutMaps, GetDoneMaps,
       DeleteReadyMaps DEF Continue
  <2>2. ASSUME NEW p \in Procs, Crash(p) PROVE LossyInv' /\ LossyCache!Next
    BY <1>1, <1>2, <2>2, CrashMaps
  <2>3. ASSUME NEW p \in Procs, NEW k \in Hashes, NEW time \in Times,
               \/ Get(p, k, time)
               \/ \E v \in Values : PutUpdate(p, k, v, time) \/ PutReplace(p, k, v, time)
        PROVE  LossyInv' /\ LossyCache!Next
    <3>1. ~UNCHANGED <<sector, proc>> BY <1>4, <2>3 DEF Get, PutUpdate, PutReplace
    <3> QED BY <1>1, <1>2, <2>3, <3>1, GetMaps, CallMaps
  <2>4. ASSUME NEW p \in Procs, NEW k \in Hashes, Delete(p, k)
        PROVE  LossyInv' /\ LossyCache!Next
    <3>1. ~UNCHANGED <<sector, proc>> BY <1>4, <2>4 DEF Delete
    <3> QED BY <1>1, <1>2, <2>4, <3>1, CallMaps
  <2>5. SectorNext BY <1>1, <1>4 DEF sectorVars
  <2> QED BY <2>1, <2>2, <2>3, <2>4, <2>5 DEF SectorNext
<1> QED BY <1>3, <1>4

\* SharedMemCache::Get, Put and Delete of any number of processes, killed at any moment
\* or not: a key may be forgotten, but a get misses or returns, whole, the value its
\* key had when it was looked up, and only a put that is running gives a key one.
THEOREM ImplementsLossyCache == SectorSpec => IsLossyCache
BY LossyInitially, LossySteps, PTL DEF SectorSpec, IsLossyCache, LossyCache!Spec
=============================================================================
