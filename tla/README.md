# Verification of PageSpeed's concurrent core

TLA+ models of the parts of mod_pagespeed where several threads or processes
share state, with the TLC configurations that check them and TLAPS proofs about
seven of them. Paths are relative to the repository unless they name a
module; `PROJECT.json` maps every definition to the lines it models.

## The system

PageSpeed rewrites HTML and its resources inside a web server. A request is
served by a `RewriteDriver`, whose filters create `RewriteContext`s; these fetch
resources, look up and store results in caches, ask a central controller whether
to do expensive work, and run that work on worker pools. Many server processes
share metadata through shared memory and cache files.

| Component | State | Operations | Talks to |
|---|---|---|---|
| Schedule-rewrite controller (`pagespeed/controller/popularity_contest_schedule_rewrite_controller.cc`) | rewrites by key (state, callback, saved priority), a priority queue, a retry queue, the number running | ScheduleRewrite, NotifyRewriteComplete, NotifyRewriteFailed | clients through callbacks, run after its mutex is released |
| Worker pool (`pagespeed/kernel/thread/queued_worker_pool.cc`, `worker.cc`) | sequences with work queues; queued and free sequences; active and available workers | NewSequence, FreeSequence, Add, CancelPendingFunctions, the worker loop, ShutDown | functions it runs or cancels; AsyncCache, RewriteDriver |
| Shared-memory cache (`pagespeed/kernel/sharedmem/shared_mem_cache.cc`, `_data.cc`) | per sector: entry directory, LRU list, free blocks, block contents | Put, Get, Delete, snapshot of a sector | other processes through shared memory and a mutex per sector |
| Rate controller (`net/instaweb/http/rate_controller.cc`) | per host: outbound count and queue; global queue size | Fetch, completion, ShutDown | the base fetcher, which completes fetches on any thread |
| Cache batcher (`pagespeed/kernel/cache/cache_batcher.cc`) | callbacks in flight and queued by key; groups, keys and gets counted | Get, MultiGet answers, ShutDown | an asynchronous cache (memcached, Redis) |
| Controller over named locks (`pagespeed/controller/named_lock_schedule_rewrite_controller.cc`) and of expensive operations | a LockInfo per key with its lock, waiting callbacks, pins; a queue or count of expensive operations | as above | in process, or over gRPC |
| Controller RPC client and server (`central_controller_rpc_client.cc`, `rpc_handler.h`, ...) | connection state, reconnect time shared by processes, registry of contexts; per request two state machines | StartContext, Notify, ShutDown; NotifyClient, the events of a stream | gRPC, the popularity contest |
| Process manager (`pagespeed/system/controller_manager.cc`) | pipes between root, babysitter and controller | fork, restart, quit | the operating system |
| Named locks (`pagespeed/kernel/sharedmem/shared_mem_lock_manager.cc`) | slots in buckets in shared memory, the time each lock object got its slot | TryLock, TryLockStealOld, Unlock | purge context, fetch with lock, named-lock controller |
| Scheduler (`pagespeed/kernel/thread/scheduler.cc`) and its sequences | outstanding and waiting alarms, signal count; functions queued for a request thread | alarms, timed waits, Signal, CancelAlarm; Add, RunTasksUntil, ForwardToWorkerPool | every timeout; Apache's request threads |
| Purge context (`pagespeed/kernel/cache/purge_context.cc`) | pending purges and callbacks, the purge file, purge index | AddPurgeUrl, UpdateCachePurgeFile, PollFileSystem | named lock, other processes through the file |
| Composed caches (`write_through_cache.cc`, `async_cache.cc`, ...) | two levels; operations outstanding | Get, Put, Delete, ShutDown | worker pool, batcher |
| Property cache (`pagespeed/opt/http`) | values with a 64-bit mask of recent changes | Read, Write, stability tests | HTTP cache, two-level store |
| Rewrite driver and contexts (`net/instaweb/rewriter/rewrite_driver.cc`, `rewrite_context.cc`) | reference counts by category, waiter, sets of initiated and detached contexts, slots, partitions | parse, flush, wait, detach, cleanup; lookup, lock, fetch, rewrite, propagate, render; FetchResource | everything above |
| HTML, CSS, JavaScript and image code | sequential | parse, transform | - |
| Server integrations, base libraries, installation | - | - | - |

What is hard in it: callbacks run after the mutex that chose them was released
(controllers, pool, batcher, rate controller); a decision taken under one lock
and carried out under another (`Sequence::Add`, `DeleteFetchInfoIfPossible`);
data copied in and out of shared memory with no lock held; processes killed at
any moment; locks that may be stolen; mutexes dropped in the middle of an
operation while a callback runs (scheduler); deadlines that detach work from
the request it was for; streams that break between two messages; shutdown racing
with everything else. The
components' correctness properties follow from these; `PROJECT.json` lists every
hazard at its line with the property that watches it.

## Modules

One action is one critical section of the code, with what its thread does before
the next lock. A mutex is therefore not a variable: what it protects changes in
one step (the Scheduler's is the exception, see below). What a thread still has
to do after it (callbacks to run, a sequence to queue, a worker to start) is
state, so that everything may happen in between. Where a property has several
ways to be broken, the module gives the suspicious test or update a name of its
own, with a faulty variant ("Mutant of ...") beside it; substituting the variant
breaks the property it is listed with in `PROJECT.json`.

Controllers and pools

* `PopularityContest` models the controller. `state`, `callback`,
  `saved_priority` are the fields of `Rewrite`, ABSENT where `all_rewrites_` has
  no entry; `queue` and `retry_queue` are the priority queues, `toRun` and
  `toCancel` what a thread calls after unlocking. ScheduleRewrite is three
  actions, one per branch; AttemptStartRewrite, called at the end of every
  handler, is an operator on the state the rest of the handler has computed.
  `client` is what each caller knows and `requests` a history of the requests
  made for a key. `ScheduleRewriteSpec` is the interface: each callback is run
  or cancelled, not both and once, one per key and a bounded number at a time.
  `ScheduleRewriteCalls` has the constants the two share.
* `QueuedWorkerPool` models sequences, pool and worker threads. `call` is the
  rest of a client's call, `pc` and `seq` a worker, `stage` the thread in
  ShutDown. Two switches say what clients do: cancel pending functions, and add
  while ShutDown starts. `SequencerSpec` is what a sequence is meant to be: a
  FIFO executor that runs one function at a time.
* `RateController` gives every HostFetchInfo an identity of its own, since it is
  reference counted and outlives its entry in the map. `status` of a fetch says
  which thread carries it and how far it is.

Caches

* `SharedMemCache` models one sector: `sector` is the shared metadata, `data`
  the blocks, `proc` where each process is, `lost` the processes killed per
  entry. A copy is one action per block. `LossyCacheSpec` is what processes see:
  a map that may forget anything, never returns a torn value, and where a value
  appears only when its put is done.
* `CacheBatcher` models groups of lookups, the maps `in_flight` and `queued`, and
  the answers of the cache in any order.

Locks and what is built on them

* `SharedMemLock` is one bucket: the slots, the time of acquisition each lock
  object remembers, the clock, and one operator per critical section. It is
  extended by the modules of its users, which say who calls what.
* `NamedLockScheduleRewrite` is the controller over such locks, one instance per
  server process: `locks` are the maps of LockInfos, `pc` the thread that carries
  each callback, `unlocking` the lock that NotifyRewriteComplete has taken out of
  its LockInfo and not yet released, `stolen` a history of the keys whose lock
  was taken from a holder. Processes are shut down, destroyed and killed.
* `PurgeContext` models the collecting of purges in each process, the chain of
  callbacks that waits for the lock, reads, merges, writes and verifies the file,
  its retries, and the polling of the file by other processes. A set of purges is
  the set of requests they came from; merging is union. Writes and reads may fail.
  `ReadPurgeFile` takes the file for an empty one when `ReadFile` fails or the first
  line does not parse and skips other lines that do not, so a chain or a poller makes
  any part of the file of it (`MadeOfFile`); `Verify` fails. History variables say what
  came of it: `forgotten` has the purges in the file that the read of a chain left out,
  until a chain reads again what is still there, `missed` what the last read of each
  poller left out, `unverified` what `Verify` could not read back.

Scheduler and request threads

* `Scheduler` has alarms of users and the alarms behind timed waits. Its mutex is
  a variable, because RunAlarms and Signal drop it while a callback runs and go
  on with alarms that others may have run or deleted meanwhile; `at` is where
  each thread is.
* `RequestThread` puts `ApacheFetch::Wait` and `Scheduler::Sequence` on top: a
  request thread runs the functions its workers add, sleeps when there are none,
  and forwards the rest to a pool when its fetch is done or given up.

Requests

* `RewriteDriver` has the references by category, the one waiter, the release of
  the driver (with the purge of a downstream cache before it) and the shutdown of
  the server.
* `HtmlRewrite` has the HTML thread (parse, flush, wait, render, detach) and the
  contexts of its flush windows: `stage` and the answers due to a context,
  predecessors over shared slots, contexts that repeat the key of another.
* `FetchRewrite` has the fetch of a `.pagespeed.` resource: cache lookup,
  reconstruction, the deadline alarm, the original as the answer that wins the
  race, and the rewrite that goes on detached.
* `RewriteRequest` composes them: one use of a driver, from the server giving it
  out to the server getting it back.

The controller as a process

* `GrpcStream` is external: what src/ relies on in a bidirectional stream.
* `RpcServer` is the controller process: one thread takes events, each handled to
  its end. It extends `PopularityContest`, whose `Threads` is here that thread alone
  (`Server`). `RpcClient` is the worker processes: registry, connection states, reconnect
  times, and the request of each callback.
* `ScheduleRewriteRpc` composes them with faults: a stream breaks, a worker or the
  controller dies (the controller is started again), another worker tells all to
  disconnect.

`MC*` give the constants small values.

## Runs

| Run | Shows | Instance |
|---|---|---|
| popularity | queues, states and counters agree; no idle slot while a key waits; popularity never lost; most popular first; implements `ScheduleRewriteSpec` with liveness | 2 threads, 6 callbacks of 4 keys, 1 slot, table of 3, 2 instants |
| pool_orderly | one worker serves a sequence; implements `SequencerSpec` | 2 sequences, 3 functions, 2 workers, 2 clients, queue bound 2 |
| pool_cancelling | with CancelPendingFunctions and load shedding: pool consistent, ShutDown returns, every function answered | as above, 1 worker, shedding above 1 |
| pool_sequential | finding: two workers in one sequence | 2 workers, cancelling clients |
| shm_cache | block accounting, LRU, lock bits, no second copy, whole snapshots; a waiting writer proceeds unless a reader was killed; implements `LossyCacheSpec` | 2 processes, 2 keys on 2 entries, 3 blocks, values of 1 and 2 blocks, 1 kill |
| rate_controller | counters match fetches, entries reclaimed, queued fetches answered | 5 fetches to 2 hosts, all thresholds 1 |
| cache_batcher | a get is in one place, counted, answered once; the CHECK of ExtractInFlightKeys fails only after a second lookup of a key in flight; no get left behind | 6 gets of 3 keys, 2 groups, 3 pending |
| named_lock | slots, lock objects and LockInfos agree; one rewrite of a key unless its lock was stolen; one answer per call, nothing left behind | 2 processes, 4 callbacks of 2 keys, 2 slots, steal at age 1, 3 instants, 1 kill |
| request_thread | alarms answered and deleted once; functions run in order; no wake-up of the request thread is lost | request thread, worker, user, scheduler thread; 2 alarms, 2 waits, 2 functions, 3 instants |
| purge | one chain at a time waits; unless the lock was stolen, an acknowledged purge stays in the file and reaches the processes, except what failed reads left out | 2 processes, 3 purges, 2 failures of the file, 1 retry, 1 kill, 1 poll |
| rewrite_request | waits end, references match the work, slow work holds up only slow work, contexts of a slot work in turn, the fetch is answered once, rendering only while the document is open, the driver is given back once, and in the end | a page of 2 flush windows with 5 contexts (chained, repeated) or one fetch |
| rewrite_rpc | every grant of the controller belongs to a handler and a client that know of it; all is settled on both sides in the end | 1 process, 3 callbacks of 2 keys, 1 slot, 1 fault |

The bounds are the smallest at which the interesting cases occur.

* Controller: three callbacks of one key let a request displace one, meet a
  running one and revive a failed one; a table of three with four keys fills up,
  drops retries, and lets two keys wait for the slot of a third.
* Pool: one worker fewer than sequences makes them queue; three functions
  overflow a queue of two.
* Shared-memory cache: two keys with the same two candidate entries compete, three
  blocks cannot hold two long values; two processes are a writer against a reader,
  and the dump against either. A third process adds only more readers.
* Rate controller: three fetches to one host with every threshold at one occupy
  the slot, the queue and the drop path, and a fourth, user-facing, goes above the
  limit.
* Batcher: two gets of one key coalesce, another key queues, the last is dropped;
  three gets of one key fill the bound on pending gets while the second group is
  free. The fourth is then given a second lookup of its key (the history variable
  `crowded`), whichever answers first takes the callbacks of both, and the CHECK of
  `ExtractInFlightKeys` fails at the other. `ExtractFinds` says that this is the only
  way to it; the hazard at `cache_batcher.cc:198` records it. The batcher's two options
  are assumed positive, as their defaults are.
* Named locks: both keys hash to the first slot, so that a hash is not always where
  its search begins; three instants let a thief be robbed in turn. Two callbacks
  of a key in one process and one in another meet inside a LockInfo and across
  processes.
* Request thread: two functions make an order; two waits of the request thread let
  an old alarm meet a new one; users set, cancel, wait and signal at any time.
* Purge: two requests of one process share a chain while a third, elsewhere,
  competes for the lock; two failures of the file, of reads or writes, are one more
  than are retried. A second failure is explored only without a theft, a kill or an
  unsignalled poll (the constraint `SecondFailureAlone`), which keeps the run to two
  minutes; one failure meets all of them.
* Request: a chain of two predecessors on two slots, a key repeated in a later
  window while the first is detached, deadlines at any flush.
* RPC: the third request at a time is one too many (PanicThreshold 1); one fault
  is any of a broken stream, a death or a disconnection at any point.

Times, kills, polls and pending calls are bounded by the constants `MaxTime`,
`Times`, `MaxCrashes`, `MaxKills`, `MaxPolls`, `MaxFaults`. Symmetry is used only
in runs without liveness properties. Deadlock is not checked where a bounded set
of requests leads to a state where all has been done.

Fairness is weak: a thread that has released a lock goes on, a worker runs,
functions return, the cache and the base fetcher answer, the client of a rewrite
reports back (its context does so from its destructor). Most modules state it per
thread; `RewriteRequest` and `ScheduleRewriteRpc` state it once for all steps
that are not a call, a fault, a shutdown of the server or the clock (`Progress`),
which is weaker, and enough because a request takes only finitely many of them.
Nobody is made to ask, add, free, kill, break or shut down. A writer in
`shm_cache` polls, and the condition it polls for stays true once readers are
gone because none can join, so weak fairness is enough. `NamedLockScheduleRewrite`,
`PurgeContext` and `RequestThread` make safety claims only; that a wake-up is not
lost is stated there as an invariant, which needs no fairness.

### What the code does against its documentation

*Sequences are not always sequential* (run `pool_sequential`,
`queued_worker_pool.cc:402`). After CancelPendingFunctions empties a sequence
that is queued for a worker, the next Add queues it again; two workers then
run its functions together, against `queued_worker_pool.h:60`.
`AsyncCache::ShutDown` makes this pair of calls. Nobody has to cancel: load shedding
(`queued_worker_pool.cc:207`, used by the low-priority pool,
`rewrite_driver_factory.cc:423`) unlocks the sequence between the functions it
cancels, and with a bound of one function an overflowing Add (`:389`) leaves the
length at one; both let the next Add queue the sequence again. A copy of
`MCPoolSequential.cfg` with `MaxQueueSize = 1` and `CancelsPending = FALSE` shows the
latter.

### Other observations

Each is a definition that no run lists, because it fails: to see the
counterexample, name it as an invariant (or set the constant) in a copy of the
configuration.

* `PoolIsThere` with `AddsDuringShutDown = TRUE`: `Sequence::Add` reads `pool_`
  after the unlock, and ShutDown may have cleared it (`queued_worker_pool.cc:409`).
* `BackgroundWithinLimit`: an entry of the rate controller is erased by host name,
  whichever HostFetchInfo it holds, and the limit of the host is exceeded
  (`rate_controller.cc:354`).
* `~check_failed` in `CacheBatcher`: with two groups the CHECK can fail, as described
  under the bounds above.
* `ExtractFinds` with `ShutsDownBusy = TRUE`: gets that ShutDown finds queued are
  reported without having been moved to `in_flight_`, and a CHECK fails
  (`cache_batcher.cc:309`).
* `HeldAtStart`: the lock of a chain may be stolen and given up by the time its
  callback runs, where a DCHECK expects it to be held (`purge_context.cc:266`).
* `forgotten = {}`, `unverified = {}` and `missed[p] = {}`, the exceptions of
  `FileKeepsPromise` and `PurgesReachProcesses`, fail with one misread each. No theft is
  needed: when the read of a chain fails, what it writes replaces purges that were
  acknowledged (`purge_context.cc:208`, `:222`; the TODO at line 367 thinks of merging
  what the process knows). When that of `Verify` fails, a purge that is in the file is
  retried or refused (`:255`). When that of a poller fails, its purges are gone until
  its next read.
* `TimeoutsFindTheirThread`: a thread that was signalled may have returned from its
  wait while the timeout of that wait is still to be run; it writes to the frame
  that is gone (`scheduler.cc:154`).
* `RegistryOpen`: StartContext sets the state to DISCONNECTED, unlocks and then
  cancels what is out; by then another thread may have reconnected, whose
  registry is shut down instead, and a CHECK fails at the next request
  (`central_controller_rpc_client.cc:75`). `ReviveAfterShutdown` also frees the old
  registry, which the first thread may be about to use or using; that is undefined and
  not modelled.

Two more come from reading: when a client that holds a grant cancels its stream,
its slot is freed while the rewrite goes on, so that two rewrites of a key may
run at a time; and the branches of the handlers for messages out of turn are
unreachable with this client (`RpcConsistent`).

## Proofs

TLC checks small instances; the eight `*Proofs` modules prove, for every value of the
constants, the invariants of all passing runs, the action properties among them, and
the safety of every refinement.

`ScheduleRewriteProofs` proves, for finite sets of threads, keys and
callbacks of any size and for all limits, what the run `popularity`
checks on a small instance: `TypeOK`, `QueuesMatchStates`, `WorkConserving`,
`ClientsRunTheirKeys`, `PopularityKept`, `MostPopularFirst`, and that the
controller implements the safety part of `ScheduleRewriteSpec`. The assumptions
are the named ones of `PopularityContest` (what the constructor CHECKs, and that
`None` is not a callback).

None of the properties is inductive. `IInv` joins them and adds what links a
stored callback, a callback on its way to be run and a client at work to the
state of their key (`Matched`, `Separate`, `Slots`) and the counter to the
RUNNING keys (`Counted`). Every handler ends in AttemptStartRewrite, so the
argument has two halves: the part of a handler before it leads from `IInv` to
`Between`, the invariant of its arguments, where a slot may be free although a
key waits; and the lemma `AttemptStart` leads from `Between` to `IInv'`. There
is one lemma per branch of a handler, and `Inductive` joins them. Theorem
`PopularityOrder` follows from `IInv` because only AttemptStartRewrite makes a key
RUNNING. `ImplementsInterface` maps each action to one of the interface or to a
stutter; that no more than the limit run follows by an injection of the clients
at work into the RUNNING keys.

Its second part is about the whole of `ScheduleRewriteRpc`, and proves `RpcConsistent`
of the run `rewrite_rpc` for any number of processes, requests and faults
(`AlwaysRpcConsistent`). `RpcServer` extends `PopularityContest`, so the lemmas of the
first part serve for the controller behind the event loop, and `ControllerBehindRpc`
says that its own invariants hold there too, also after a new start of its process.
What is added to `IInv` is what the two ends of a stream know of each other: the two
state machines of a handler agree with each other and with the controller (`Handlers`),
`StreamOf` lists how far each side and the messages in between may be while the stream
is open (`Open`), and what little is left to be said once it is broken, and the registry
of a process has every request on its way (`Registry`). A stream may break between any
two steps, so everything that is said of a stream that is not open must follow from what
held while it was; that is why `StreamOf` says no more.

`SharedMemLockProofs` is about a bucket with any number of slots, locks and
hashes, whoever calls its operations: no hash has two slots and at most one lock
object of a name owns one (`BucketIsSound`). What tells a holder from its thief
is a time in milliseconds, so the invariant `BucketInv` needs two facts about
times: none is later than the one a lock taken now would get, and a lock object
with that very time still holds its slot, which is then too young to be stolen
(`Fresh`; this is where the age at which callers steal must not be zero). The
lemmas `TakesSlot`, `GivesUp` and `BucketStays` say what each critical section does
to the owners; they are what the proofs of the modules above build on.

`NamedLockProofs` proves the three properties of the run `named_lock`, for any
number of processes, callbacks, keys and slots and any number of kills:
`LocksConsistent`, `OneRewritePerKey`, `EndsClean`. The assumptions are that
there are finitely many callbacks, that `Null` is neither a callback nor a
LockInfo, and those of the bucket. `IInv` has a part for each relation the
argument needs: a LockInfo counts the threads that pinned it and knows the
callbacks that wait (`Counted`); a lock in a LockInfo, or taken out of it, is one
of its process and key whose rewrite runs (`Placed`); the callbacks of a key that
nobody stole own a slot from the moment they got it until it is released, and
NotifyRewriteComplete takes out its own lock (`Owning`); whoever owns a slot is
held by something that will release it, or was killed (`Accounted`). Steps that
touch no slot and hand on no lock are dealt with once (`QuietStep`); the other six
have a lemma each with a step per part.

`DataPathProofs` has the components that requests for data pass through. It proves `CountsMatch` and `NoEntryLeaks` of the run
`rate_controller` for any number of hosts and fetches and any thresholds. A
completion lowers a counter for one fetch and raises it for another, in two
critical sections, so `IInv` says which fetch that is: a queue holds each fetch
once, and only fetches that wait for it (`InQueue`); the one that a completion has
popped is waited for by no other completion (`Deferred`). An entry of the map is
held by a fetch that will still try to delete it (`Covered`), for which a
HostFetchInfo must belong to one host (`OfOneHost`), since entries are erased by host
name. There is a lemma per action; what the three ways on of a new fetch have in
common is `LookedStep`.

Of the batcher it proves `GetsAccounted` and `ExtractFinds` of the run `cache_batcher`, for
any number of keys, gets, lookups and pending gets. A get that waits is in one list
(`Placed`): with a lookup in flight, in the queue, or with the callback that has taken
it; `Lookups` says which lookups go with which lists, `Queueing` that gets are queued
only while every group has yet to look at the queue. The bound on pending gets is the
less obvious one: the code checks it only when a get joins others, and `Tallied` says
that each group but the first may bring one get beyond it. `OneLookup` is what fails when
a key is `crowded`; with one lookup at a time, the only setting that
`system_caches.cc` makes, that cannot happen, and the CHECK never fails
(`OneSlotNeverFails`). The hypothesis of these theorems is `~ShutsDownBusy`, that
ShutDown finds nothing queued: with gets queued it breaks the CHECK, as shown above.

Of the shared-memory cache it proves `SectorConsistent` and `DumpIsWhole` of the run
`shm_cache`, for any number of processes, hashes, entries and blocks, any positions
and values, and processes killed at any step. `SectorInv` joins what the CHECKs
of `SanityCheck` look for (`Settled`: every block in the free list or one entry, the LRU
list and the entries in use the same, `Vacant` entries empty) with `InPosition`,
who holds the lock bits of an entry (`Locks`), how far each process
is (`Working`: a writer has copied a prefix of its value into the blocks that the
entry has now, and nobody reads) and that an entry not being written holds one value
of its own key (`Whole`). Within a critical section blocks are in hand: `SectorOK`
is `Settled` with a hand and an entry still to be listed, and each of the
sector's operations has a lemma over it (the rounds of TryAllocateBlocks,
PutIntoEntry, DeleteEntry). An eviction in the
middle of a Put may free any entry but those being read or written, so the lemmas say
that every other entry is as it was or was freed (`KeptOrFreed`); from that follows that
the processes at work elsewhere keep what they rely on. `Rounds` is a recursive
function, about which nothing can be shown by induction here; that it keeps the sector
is shown by a least counterexample instead. Only its result is needed for
consistency, not which entries it picks.

On `SectorInv` rests the refinement: a sector implements `LossyCacheSpec` step by step
(`IsLossyCache`). Nothing is added but `Reading`, that the blocks a reader has yet to
copy are its entry's. The map is what the entries in use hold that nobody
writes, so an action is compared with it in two respects. `SeenAt` says what the other
processes see of a step at an entry: no other entry in use changes, except that it may
be freed, and of this one only what no reader still needs, so that the value
a lookup was to answer with stays what it was. `Hides` says that the step gives no key a
value; then it is a `Forgotten` set of keys. Only the end of a put gives one, and its
writer has by then copied the whole of it. There is a lemma per kind
of abstract step (`ForgetStep` and the like) and one per action, over the cases
in which a put, a delete or a get ends up. It assumes that `Nil` is neither a copy of a
value nor a pair with one (`CopyAssumption`), since the map of the specification tells
by it that there is none.

`QueuedWorkerPoolProofs` proves `ServedByOne` of the run `pool_orderly`, and with it
`Sequential`, for any number of sequences, functions, workers and clients, under
`Orderly`: clients do not cancel what is pending and stop adding before ShutDown, no
load is shed, and a bound leaves room for a second function. Cancelling, shedding and
a bound of one each break the property (see above): each can bring a queued sequence
back to one function, upon which Add queues it again. The invariant says why nothing
else does: what is to be run of a sequence is in one place, with the caller of
QueueSequence, in the pool's queue, among a worker's tasks or with a worker
(`InOnePlace`), and a place of a sequence that is not active has functions in it
(`Service`); `active_` is set exactly while a worker serves it (`Busy`). A sequence
that was given back is in no place but its last worker's (`Freed`), which is why its
next owner finds it idle. There is a lemma per action and part. From this follows
that a sequence implements the safety part of `SequencerSpec`
(`ImplementsSequencer`), with one more fact: a pending function is in one queue, once
(`Pended`). There is a lemma that maps each action to one of the executor or to a
stutter.

The same module proves `PoolConsistent` of the run `pool_cancelling`, for any number
of workers, any limits, and clients that cancel; what is left of the assumptions is
that clients stop adding before ShutDown (`~AddsDuringShutDown`) and that there are
finitely many workers. Nothing may then be said of one place: a sequence whose
functions were cancelled while it was queued can be queued again. Its invariant `CInv`
says who holds a sequence that has work or is active (`Held`); that a worker
outside `available_workers_` is unborn, at work, or expects exactly one task
(`Hired`); how far ShutDown has got with each sequence (`Closing`), which is what
leaves nothing behind; and, of a sequence that was given back, that it is or will be
in the free list once (`Owned`).

`RequestThreadProofs` proves, for any threads, alarms and times, the four invariants
of the run `request_thread`: `AlarmsConsistent` and `AnsweredOnce` of the scheduler,
`AddedInOrder` and `WakeupNotLost` of a request thread that waits on its sequence. It
assumes that the bounds are numbers and that the request thread is not the
scheduler's. The invariant gives every live alarm its owners (`Owned`): the
scheduler's sets, a Signal that has taken it from `waiting_alarms_`, or the thread
that runs its callback, no two of which delete it. The flag `in_wait_dispatch_` is
what keeps a Signal and a timeout apart, which is why it is part of what is said of
an alarm in each place. What a step does to the request's wait is kept apart from that
(`Request`): whoever makes work for a sleeping request thread is on its way to Signal
it, and the blocked alarm of that thread is in `waiting_alarms_` or in the
hands of the Signal until it is woken. The order of functions follows from what each
step moves between the three sequences.

`PurgeContextProofs` proves the three invariants of the run `purge`, for any number of
processes, requests, kills, failed reads and writes, and polls: `OneChainWaits`,
`FileKeepsPromise`, `PurgesReachProcesses`. It assumes that all locks have one name,
since the lock is named after the purge file (`OneFileAssumption`). The first needs
nothing of the lock: the flag of a process stands for one chain (`Contexts`,
`Chaining`), and a request is pending, with one chain, or answered (`Accounted`). The
second needs that one chain is at work at a time, which comes from the lemmas about
the bucket: who takes a slot without stealing finds no owner. Then a chain reads,
writes and verifies a file that nobody else changes (`Serial`), puts nothing into it
but its own purges and leaves nothing out but what its read did (`Faithful`), and each
purge in the file has somebody who answers for it: a request that was told of success,
a chain that has written and will tell it, a process that was killed in between, or a
verification that could not read the file (`InFile`). So a refused purge is in the file
only if it is in `unverified`, and an acknowledged one has left it only if it is in
`forgotten`, however often reads and writes fail. The third adds that
each success told raises the counter, so that a process with the newest counter has
read the file after it (`Reaches`); it lacks only what the file has lost that way,
which never comes back (`Lost`), and what that read left out (`missed`). Once a lock was stolen from a chain at work, only
the first holds; the lock is advisory, as `purge_context.cc` says (line 263).

`RewriteRequestProofs` proves, for a page of any flush windows, contexts, chains over
slots and keys, and for a fetch, what the run `rewrite_request` checks short of
liveness: `WakeupNotLost`, `RefsMatch`, `SlowHoldsUpSlow`, `WorksInTurn`,
`FetchAnsweredOnce`, `DriverKept` and the action property `RendersWhileOpen`. It
assumes that a context is in the page once (`PageAssumption`), that there are finitely
many, each with a key (`ContextAssumption`), and that contexts over one slot are of
one flush window, as slots are of its elements (`SuccessorsAssumption`). None of the
seven is inductive by itself, and they need one another; `IInv` joins three parts:

- the driver: who holds each reference (`Counted`), so that the last one goes once
  and one thread is on its way to release the driver (`Released`); who waits for
  what, and that what a flush leaves behind at its deadline is slow (`WaitMatches`,
  `LeftBehind`), without which a context could propagate into a closed window;
- the page: where a context is by its phase and window (`Placed`, `Windows`),
  that the count of its predecessors is that of those that have not reported
  (`Started`), that `primary` of a key is the one context at work for it (`Works`,
  `Repeating`), that a context has at most one task, which finds it where it
  expects it (`HtmlTasks`), and that slowness is closed under `HeldUpBy`
  (`Slowness`), for which `CollectDependentTopLevel` is stated as the least set
  closed under it, which is what the recursion of the code collects;
- the fetch: how far it is, with its alarm and the references still to be dropped
  (`FetchStages`), and that each has at most one task (`FetchTasks`).

First come lemmas about sequences, sets of contexts, references and tasks, and about
what the parts of a step do (a signal, a context that starts, queues its task, ends
or turns slow); then there is a lemma per action and, where it disturbs several
parts, one per part.

Only model-checked: all liveness (out of TLAPS's reach, as is ENABLED), with it the
liveness halves of `ScheduleRewriteSpec` and `SequencerSpec`; and that the finding of
`pool_sequential` and the observations above do occur.

## Not modelled

`PROJECT.json` lists these with reasons. Left out for good: parsing and
transforming content (sequential, over inputs that cannot be enumerated), which
is most of the repository's lines; options and their parsing; server glue;
network clients (seen as an asynchronous cache); statistics counters; vendored
libraries. The process manager is modelled by its effect on `ScheduleRewriteRpc`.

Left out inside modelled components: statistics and log messages; attaching to and
laying out shared memory; the schedule of checkpoints (what a snapshot holds is
checked); invalid URLs in the rate controller; MemLock; of a driver, external
management, render-blocking events, BlockingFetch and in-place rewriting; of a
context, nesting, several partitions, and a slot shared twice by the same two
contexts; the format of the purge file (a line that does not parse is modelled), the
overflow of a set of purges, and a server with purging turned off; the
writing of a response by ApacheFetch; the handlers of expensive operations.

Abstractions worth knowing: spurious wake-ups add no state, since every wait is in
a loop over its condition; the shutdown of a server waits for a driver only when
no HTML thread waits for it, as a DCHECK there demands; the statistic that a
client compares with its threshold is read once per StartContext; a message that
waits for the one before it to be written is written with it.

## Plan

Done: all modules above. Next, in this order:

1. `WriteThroughCache` over two levels like `LossyCacheSpec`; late fills and the
   size limit.
2. Nested contexts in `HtmlRewrite`; the expensive-operation controllers under
   `RpcServer`.
3. The property cache's update mask and the heap of the priority queue as pure
   functions against a reference definition.
