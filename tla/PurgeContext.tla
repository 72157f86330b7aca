----------------------------- MODULE PurgeContext -----------------------------
(***************************************************************************)
(* PurgeContext (pagespeed/kernel/cache/purge_context.cc): each process    *)
(* collects the purges of its requests, takes the lock of module           *)
(* SharedMemLock over the purge file, merges what it collected into the    *)
(* file and answers the requests.  Other processes learn of it by polling  *)
(* a shared counter and read the file.                                     *)
(*                                                                         *)
(* The lock is waited for no longer than kTimeoutMs, may be stolen after   *)
(* kStealLockAfterMs, and each process has one lock object for all of its  *)
(* requests, so a lock is named by its process.  A request that starts a   *)
(* wait for the lock names the chain of callbacks that follows, which the  *)
(* requests that arrive meanwhile join.  Each action is a critical section *)
(* of mutex_, a file operation or an operation of the lock.                *)
(*                                                                         *)
(* A set of purges is the set of the requests they came from, merging is   *)
(* union.  Any read may fail, and then the file counts as empty; a line    *)
(* that does not parse is skipped.  History variables have what was left   *)
(* out by that.  Left out of the model: eviction from the set, which       *)
(* raises the global timestamp, statistics, enable_purge_ (which is on).   *)
(***************************************************************************)
EXTENDS SharedMemLock, FiniteSets, Sequences

CONSTANTS Requests,
          ProcOf,                \* the process that gets each request
          TimeoutMs,             \* kTimeoutMs
          MaxContentionRetries,  \* kMaxContentionRetries
          MaxFailures,           \* bound on writes and reads of the file that fail
          MaxKills,              \* bound on processes killed
          Pollers,               \* the processes whose polls are modelled
          MaxPolls,              \* bound on polls without a signal
          MaxTime                \* bound on now

Procs == Locks

ASSUME RequestsAssumption == ProcOf \in [Requests -> Procs] /\ Pollers \subseteq Procs
\* The name of the lock is that of the purge file.
ASSUME OneFileAssumption == \A p, q \in Procs : HashOf[p] = HashOf[q]
ASSUME BoundsAssumption ==
  /\ TimeoutMs \in Nat /\ MaxContentionRetries \in Nat
  /\ MaxFailures \in Nat /\ MaxKills \in Nat /\ MaxPolls \in Nat /\ MaxTime \in Nat

VARIABLES
  file,          \* the purge file
  purge_index,   \* statistic shared by the processes
  ctx,           \* what mutex_ protects, per process
  chain,         \* the locals of UpdateCachePurgeFile, per request
  answer,        \* how each request's callback was run
  killed,        \* processes that were killed
  stolen,        \* history: a lock was stolen from a chain at work
  forgotten,     \* history: purges in the file that the read of a chain left out
  unverified,    \* history: purges in a file that Verify could not read
  missed,        \* history: what the last read of each poller left out
  failed, polls  \* counters for the bounds

misreads == <<forgotten, unverified, missed>>
counters == <<failed, polls>>
purgeVars ==
  <<file, purge_index, ctx, chain, answer, killed, stolen, misreads, counters>>
vars == <<lockVars, purgeVars>>

FreshContext ==
  [pending_purges |-> {}, pending_callbacks |-> {}, waiting |-> FALSE,
   num_consecutive_failures |-> 0, purge_set |-> {}, local_purge_index |-> 0,
   reading |-> "no", purges_from_file |-> {}, needs_update |-> FALSE]
NoChain ==
  [pc |-> "new", end |-> 0, buffer |-> {}, callbacks |-> {}, purges |-> {},
   failures |-> 0, success |-> TRUE, again |-> FALSE]

Init ==
  /\ LockInit
  /\ file = {} /\ purge_index = 0
  /\ ctx = [p \in Procs |-> FreshContext]
  /\ chain = [r \in Requests |-> NoChain]
  /\ answer = [r \in Requests |-> <<>>]
  /\ killed = {} /\ stolen = FALSE
  /\ forgotten = {} /\ unverified = {} /\ missed = [p \in Procs |-> {}]
  /\ failed = 0 /\ polls = 0

At(r, place) == chain[r].pc = place /\ ProcOf[r] \notin killed
Goes(r, place) == chain' = [chain EXCEPT ![r].pc = place]
Ctx(r) == ctx[ProcOf[r]]
SetCtx(r, c) == ctx' = [ctx EXCEPT ![ProcOf[r]] = c]

-----------------------------------------------------------------------------
\* AddPurgeUrl, SetCachePurgeGlobalTimestampMs: the first to find nobody
\* waiting for the lock goes for it.
AddPurge(r) ==
  /\ At(r, "new")
  /\ SetCtx(r, [Ctx(r) EXCEPT !.pending_purges = @ \cup {r}, !.waiting = TRUE,
                              !.pending_callbacks = @ \cup {r}])
  /\ Goes(r, IF Ctx(r).waiting THEN "joined" ELSE "grab")
  /\ UNCHANGED <<lockVars, file, purge_index, answer, killed, stolen, misreads, counters>>

\* LockTimedWaitStealOld: one attempt that does not steal ...
GrabLockAndUpdate(r) ==
  /\ At(r, "grab")
  /\ \/ TryLock(ProcOf[r]) /\ Goes(r, "read")
     \/ /\ TryLockFails(ProcOf[r])
        /\ chain' = [chain EXCEPT ![r].pc = "poll", ![r].end = now + TimeoutMs]
  /\ UNCHANGED <<file, purge_index, ctx, answer, killed, stolen, misreads, counters>>

AtWork(r) == chain[r].pc \in {"read", "modify", "write", "verify", "failed", "unlock"}

\* ... then attempts that do, from busy loop and alarms.
PollLock(r) ==
  /\ At(r, "poll")
  /\ TryLockStealOld(ProcOf[r])
  /\ chain' = [chain EXCEPT ![r].pc = "read", ![r].end = 0]
  /\ stolen' = (stolen \/ \E s \in Requests : AtWork(s))
  /\ UNCHANGED <<file, purge_index, ctx, answer, killed, misreads, counters>>

\* The time is over: all that is pending is given up.
CancelCachePurgeFile(r) ==
  /\ At(r, "poll") /\ TryLockStealOldFails(ProcOf[r]) /\ now >= chain[r].end
  /\ answer' = [q \in Requests |->
       IF q \in Ctx(r).pending_callbacks THEN Append(answer[q], "timeout") ELSE answer[q]]
  /\ SetCtx(r, [Ctx(r) EXCEPT !.pending_purges = {}, !.pending_callbacks = {},
                              !.waiting = FALSE])
  /\ chain' = [chain EXCEPT ![r].pc = "over", ![r].end = 0]
  /\ UNCHANGED <<file, purge_index, killed, stolen, misreads, counters>>

-----------------------------------------------------------------------------
(* UpdateCachePurgeFile.                                                   *)

\* What a reader makes of the file: all that is in it, or less.  It takes the
\* file for an empty one when ReadFile fails or the first line does not parse, and
\* skips any other line that does not.
MadeOfFile(purges) ==
  \/ purges = file /\ UNCHANGED failed
  \/ /\ purges \subseteq file /\ purges # file
     /\ failed < MaxFailures /\ failed' = failed + 1

ReadPurgeFile(r) ==
  /\ At(r, "read")
  /\ \E purges \in SUBSET file :
       /\ MadeOfFile(purges)
       /\ chain' = [chain EXCEPT ![r].pc = "modify", ![r].buffer = purges]
       /\ forgotten' = (forgotten \cup file) \ purges
  /\ UNCHANGED <<lockVars, file, purge_index, ctx, answer, killed, stolen, unverified,
                 missed, polls>>

\* Mutant of ModifyPurgeSet: requests that came later are not made to wait for
\* another turn of the lock.
ModifyStillWaiting(r) ==
  /\ At(r, "modify")
  /\ chain' = [chain EXCEPT ![r].pc = "write",
                 ![r].buffer = @ \cup Ctx(r).pending_purges,
                 ![r].purges = Ctx(r).pending_purges,
                 ![r].callbacks = Ctx(r).pending_callbacks,
                 ![r].failures = Ctx(r).num_consecutive_failures,
                 ![r].success = TRUE, ![r].again = FALSE]
  /\ SetCtx(r, [Ctx(r) EXCEPT !.pending_purges = {}, !.pending_callbacks = {},
                              !.num_consecutive_failures = 0])
  /\ UNCHANGED <<lockVars, file, purge_index, answer, killed, stolen, misreads, counters>>
ModifyPurgeSet(r) ==
  /\ At(r, "modify")
  /\ chain' = [chain EXCEPT ![r].pc = "write",
                 ![r].buffer = @ \cup Ctx(r).pending_purges,
                 ![r].purges = Ctx(r).pending_purges,
                 ![r].callbacks = Ctx(r).pending_callbacks,
                 ![r].failures = Ctx(r).num_consecutive_failures,
                 ![r].success = TRUE, ![r].again = FALSE]
  /\ SetCtx(r, [Ctx(r) EXCEPT !.pending_purges = {}, !.pending_callbacks = {},
                              !.waiting = FALSE, !.num_consecutive_failures = 0])
  /\ UNCHANGED <<lockVars, file, purge_index, answer, killed, stolen, misreads, counters>>

WritePurgeFile(r) ==
  /\ At(r, "write")
  /\ \/ file' = chain[r].buffer /\ Goes(r, "verify") /\ UNCHANGED failed
     \/ /\ failed < MaxFailures /\ failed' = failed + 1
        /\ UNCHANGED file
        /\ chain' = [chain EXCEPT ![r].buffer = {}, ![r].pc = "failed"]
  /\ UNCHANGED <<lockVars, purge_index, ctx, answer, killed, stolen, misreads, polls>>

Verify(r) ==
  /\ At(r, "verify")
  /\ \/ /\ chain' = [chain EXCEPT ![r].buffer = {},
                       ![r].pc = IF file = chain[r].buffer THEN "unlock" ELSE "failed"]
        /\ UNCHANGED <<unverified, failed>>
     \/ /\ failed < MaxFailures /\ failed' = failed + 1
        /\ chain' = [chain EXCEPT ![r].buffer = {}, ![r].pc = "failed"]
        /\ unverified' = unverified \cup chain[r].purges
  /\ UNCHANGED <<lockVars, file, purge_index, ctx, answer, killed, stolen, forgotten,
                 missed, polls>>

\* Mutant of Restored: it retries the requests without their purges.
RestoredWithoutPurges(r) ==
  [Ctx(r) EXCEPT !.num_consecutive_failures = @ + chain[r].failures + 1,
                 !.pending_callbacks = @ \cup chain[r].callbacks, !.waiting = TRUE]
\* What HandleWriteFailure puts back, for a chain that waits already or for
\* this one, which then starts again.
Restored(r) ==
  [Ctx(r) EXCEPT !.num_consecutive_failures = @ + chain[r].failures + 1,
                 !.pending_callbacks = @ \cup chain[r].callbacks,
                 !.pending_purges = @ \cup chain[r].purges, !.waiting = TRUE]
HandleWriteFailure(r) ==
  /\ At(r, "failed")
  /\ IF Restored(r).num_consecutive_failures <= MaxContentionRetries
     THEN /\ SetCtx(r, Restored(r))
          /\ chain' = [chain EXCEPT ![r].pc = "unlock", ![r].success = FALSE,
               ![r].callbacks = {}, ![r].purges = {}, ![r].again = ~Ctx(r).waiting]
     ELSE /\ SetCtx(r, [Ctx(r) EXCEPT !.num_consecutive_failures = 0])
          /\ chain' = [chain EXCEPT ![r].pc = "unlock", ![r].success = FALSE]
  /\ UNCHANGED <<lockVars, file, purge_index, answer, killed, stolen, misreads, counters>>

UnlockFile(r) ==
  /\ At(r, "unlock")
  /\ Unlock(ProcOf[r])
  /\ Goes(r, "notify")
  /\ UNCHANGED <<file, purge_index, ctx, answer, killed, stolen, misreads, counters>>

\* Mutant of RunCallbacks: success is not signalled to other processes.
RunCallbacksUnsignaled(r) ==
  /\ At(r, "notify")
  /\ answer' = [q \in Requests |->
       IF q \in chain[r].callbacks
       THEN Append(answer[q], IF chain[r].success THEN "success" ELSE "failure")
       ELSE answer[q]]
  /\ chain' = [chain EXCEPT ![r] =
       [NoChain EXCEPT !.pc = IF chain[r].again THEN "grab" ELSE "over"]]
  /\ UNCHANGED <<lockVars, file, purge_index, ctx, killed, stolen, misreads, counters>>
RunCallbacks(r) ==
  /\ At(r, "notify")
  /\ purge_index' = IF chain[r].callbacks # {} /\ chain[r].success
                    THEN purge_index + 1 ELSE purge_index
  /\ answer' = [q \in Requests |->
       IF q \in chain[r].callbacks
       THEN Append(answer[q], IF chain[r].success THEN "success" ELSE "failure")
       ELSE answer[q]]
  /\ chain' = [chain EXCEPT ![r] =
       [NoChain EXCEPT !.pc = IF chain[r].again THEN "grab" ELSE "over"]]
  /\ UNCHANGED <<lockVars, file, ctx, killed, stolen, misreads, counters>>

-----------------------------------------------------------------------------
(* PollFileSystem, by one thread of a process at a time.                   *)

NeedsUpdate(p) == ctx[p].local_purge_index < purge_index

\* Because of a signal, or of time.
PollFileSystem(p) ==
  /\ p \notin killed /\ ctx[p].reading = "no"
  /\ NeedsUpdate(p) \/ polls < MaxPolls
  /\ polls' = IF NeedsUpdate(p) THEN polls ELSE polls + 1
  /\ ctx' = [ctx EXCEPT ![p].reading = "file", ![p].needs_update = NeedsUpdate(p),
               ![p].local_purge_index = IF NeedsUpdate(p) THEN purge_index ELSE @]
  /\ UNCHANGED <<lockVars, file, purge_index, chain, answer, killed, stolen, misreads,
                 failed>>

PollReadsFile(p) ==
  /\ p \notin killed /\ ctx[p].reading = "file"
  /\ \E purges \in SUBSET file :
       /\ MadeOfFile(purges)
       /\ ctx' = [ctx EXCEPT ![p].reading = "apply", ![p].purges_from_file = purges]
       /\ missed' = [missed EXCEPT ![p] = file \ purges]
  /\ UNCHANGED <<lockVars, file, purge_index, chain, answer, killed, stolen, forgotten,
                 unverified, polls>>

\* A change that no signal announced is signalled to the other processes.
CallCallbackIfChanged(p) ==
  LET new == ctx[p].purges_from_file
  IN  /\ p \notin killed /\ ctx[p].reading = "apply"
      /\ ctx' = [ctx EXCEPT ![p].reading = "no", ![p].purge_set = new,
                            ![p].purges_from_file = {}, ![p].needs_update = FALSE]
      /\ purge_index' = IF new # ctx[p].purge_set /\ ~ctx[p].needs_update
                        THEN purge_index + 1 ELSE purge_index
      /\ UNCHANGED <<lockVars, file, chain, answer, killed, stolen, misreads, counters>>

\* A process is killed: its memory is gone, its lock stays taken.
Kill(p) ==
  /\ p \notin killed /\ Cardinality(killed) < MaxKills
  /\ killed' = killed \cup {p}
  /\ ctx' = [ctx EXCEPT ![p] = FreshContext]
  /\ chain' = [r \in Requests |->
                 IF ProcOf[r] = p THEN [NoChain EXCEPT !.pc = "over"] ELSE chain[r]]
  /\ acquisition_time' = [acquisition_time EXCEPT ![p] = kNotAcquired]
  /\ UNCHANGED <<slots, now, file, purge_index, answer, stolen, misreads, counters>>

TimePasses == now < MaxTime /\ Tick /\ UNCHANGED purgeVars

Next ==
  \/ \E r \in Requests :
       \/ AddPurge(r) \/ GrabLockAndUpdate(r) \/ PollLock(r) \/ CancelCachePurgeFile(r)
       \/ ReadPurgeFile(r) \/ ModifyPurgeSet(r) \/ WritePurgeFile(r) \/ Verify(r)
       \/ HandleWriteFailure(r) \/ UnlockFile(r) \/ RunCallbacks(r)
  \/ \E p \in Pollers : PollFileSystem(p) \/ PollReadsFile(p) \/ CallCallbackIfChanged(p)
  \/ \E p \in Procs : Kill(p)
  \/ TimePasses

Spec == Init /\ [][Next]_vars

-----------------------------------------------------------------------------
Acknowledged == {r \in Requests : answer[r] = <<"success">>}
Refused == {r \in Requests : answer[r] \in {<<"timeout">>, <<"failure">>}}

\* In a process, the flag says that exactly one chain is on its way to
\* ModifyPurgeSet; then there is something for it to do, and otherwise nothing is
\* left behind; each pending purge has its callback, each callback its purge,
\* and no request is in two places or answered twice.  With failures and new
\* requests in any order (the DCHECKs of lines 267, 325, 330 and 331).
Chains(p) ==
  {r \in Requests : /\ ProcOf[r] = p
                    /\ chain[r].pc \in {"grab", "poll", "read", "modify"} \/ chain[r].again}
OneChainWaits ==
  /\ \A p \in Procs :
       /\ Cardinality(Chains(p)) = IF ctx[p].waiting THEN 1 ELSE 0
       /\ ctx[p].waiting <=> ctx[p].pending_callbacks # {}
       /\ ctx[p].pending_purges = ctx[p].pending_callbacks
  /\ \A r \in {q \in Requests : ProcOf[q] \notin killed} :
       LET holders == {q \in Requests : r \in chain[q].callbacks}
       IN  Len(answer[r]) + Cardinality(holders)
             + (IF r \in Ctx(r).pending_callbacks THEN 1 ELSE 0)
           = IF chain[r].pc = "new" THEN 0 ELSE 1

\* While no lock was stolen from a chain at work, a purge whose request was told
\* of success stays in the file unless a chain that read the file left out that
\* very purge, and a purge whose request was refused is not in it unless Verify,
\* for the chain that wrote that very purge, could not read the file: killed
\* processes, failing writes, retries, and misreads of other purges included.
FileKeepsPromise ==
  ~stolen => /\ Acknowledged \subseteq file \cup forgotten
             /\ file \cap Refused \subseteq unverified

\* A process that has followed the counter has the acknowledged purges, even those
\* that were acknowledged while it was reading the file for another reason.  It
\* lacks those that the file has lost by a misread of a chain, and what its own
\* last read left out, for which the next one makes up.
PurgesReachProcesses ==
  \A p \in Pollers :
    ~stolen /\ p \notin killed /\ ~NeedsUpdate(p) /\ ctx[p].reading = "no"
      => Acknowledged \subseteq ctx[p].purge_set \cup missed[p] \cup (forgotten \ file)

\* What UpdateCachePurgeFile checks when it starts.
HeldAtStart == \A r \in Requests : At(r, "read") => Held(ProcOf[r])
=============================================================================
