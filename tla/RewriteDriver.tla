---------------------------- MODULE RewriteDriver ----------------------------
(***************************************************************************)
(* The life of a RewriteDriver (net/instaweb/rewriter/rewrite_driver.cc):  *)
(* the references that keep it alive, one count per category; the one      *)
(* waiter it may have and the signal that ends the wait; the thread that   *)
(* sees the last reference go, which purges a downstream cache or gives    *)
(* the driver back to the ServerContext; and the shutdown of the server,   *)
(* which waits for the driver's work.  What takes and drops references is  *)
(* in HtmlRewrite and FetchRewrite.                                        *)
(***************************************************************************)
EXTENDS Integers, Sequences, FiniteSets

Categories == {"User", "Parsing", "PendingRewrites", "DetachedRewrites", "DeletingRewrites",
               "FetchUserFacing", "FetchBackground", "AsyncEvents"}

VARIABLES
  refs,                       \* ref_counts_
  possibly_quick_rewrites,
  waiting,                    \* "no", "completion", "render", "shutdown"
  deadline_reached,           \* waiting_deadline_reached_
  deadline,                   \* end_time_ms: "none", or "ahead" or "past" of now
  done,                       \* who has been told that its wait is over
  fully_rewrite_on_flush,
  release_driver,
  releasing,                  \* threads on their way to release the driver
  recycled,                   \* how often the server took the driver back
  deferred,                   \* the driver is in deferred_release_rewrite_drivers_
  shutdown,                   \* ShutDownDrivers: "no", "cleaning", "waiting", "over"
  purge,                      \* DownstreamCachePurger: "no", "issued", "over"
  num_detached,               \* num_detached_rewrites_ is not zero
  tasks                       \* of the rewrite thread: <<operation, arguments>>

waitVars == <<refs, possibly_quick_rewrites, waiting, deadline_reached, done, release_driver>>
endVars == <<releasing, recycled, deferred, shutdown, purge>>
driverVars == <<waitVars, deadline, fully_rewrite_on_flush, endVars, num_detached, tasks>>

DriverInit ==
  /\ refs = [c \in Categories |-> IF c = "User" THEN 1 ELSE 0]
  /\ possibly_quick_rewrites = 0
  /\ waiting = "no" /\ deadline_reached = FALSE /\ deadline = "none" /\ done = "none"
  /\ fully_rewrite_on_flush \in BOOLEAN
  /\ release_driver = FALSE /\ releasing = 0 /\ recycled = 0 /\ deferred = FALSE
  /\ shutdown = "no" /\ purge = "no" /\ num_detached = FALSE /\ tasks = <<>>

HeadIs(task) == tasks # <<>> /\ Head(tasks)[1] = task

-----------------------------------------------------------------------------
(* Waiting.  r and q stand for the references and possibly_quick_rewrites_ *)
(* before or after a change.                                               *)

RewritesComplete(r) ==
  \A c \in {"PendingRewrites", "DeletingRewrites", "DetachedRewrites", "FetchUserFacing"} : r[c] = 0

IsDone(mode, reached, r, q) ==
  /\ ~(r["AsyncEvents"] > 0 /\ (mode = "shutdown" \/ fully_rewrite_on_flush))
  /\ IF reached
     THEN mode = "render" => q = 0
     ELSE RewritesComplete(r) /\ (mode = "shutdown" => r["FetchBackground"] = 0)

TryCheckForCompletion(mode, reached, r, q) ==
  /\ deadline_reached' = reached
  /\ IF IsDone(mode, reached, r, q)
     THEN waiting' = "no" /\ done' = (IF mode = "shutdown" THEN "shutdown" ELSE "html")
     ELSE waiting' = mode /\ UNCHANGED done

\* end is "none" when the wait has no limit.
CheckForCompletionAsync(mode, end, r) ==
  /\ deadline' = end
  /\ TryCheckForCompletion(mode, FALSE, r, possibly_quick_rewrites)

\* Every reference of every category; LastRefRemoved when there is none.
Total(r) == r["User"] + r["Parsing"] + r["PendingRewrites"] + r["DetachedRewrites"]
            + r["DeletingRewrites"] + r["FetchUserFacing"] + r["FetchBackground"] + r["AsyncEvents"]
LastRefRemoved(r) == release_driver' = (release_driver \/ Total(r) = 0)

\* Mutant of SignalIfRequired: the waiter is not told.
SignalsNobody(r, q) ==
  refs' = r /\ possibly_quick_rewrites' = q /\ LastRefRemoved(r)
  /\ UNCHANGED <<waiting, deadline_reached, done>>
\* A change under the mutex between PrepareShouldSignal and SignalIfRequired.
\* Signal has the waiter check again.
SignalIfRequired(r, q) ==
  /\ refs' = r /\ possibly_quick_rewrites' = q /\ LastRefRemoved(r)
  /\ LET before == IsDone(waiting, deadline_reached, refs, possibly_quick_rewrites)
     IN  IF ~before /\ waiting # "no" /\ IsDone(waiting, deadline_reached, r, q)
         THEN TryCheckForCompletion(waiting, deadline = "past", r, q)
         ELSE UNCHANGED <<waiting, deadline_reached, done>>

\* AddRef: nobody is told.
AddRef(c) ==
  /\ refs' = [refs EXCEPT ![c] = @ + 1]
  /\ UNCHANGED <<possibly_quick_rewrites, waiting, deadline_reached, done, release_driver>>

\* The caller goes on to release the driver when the last reference is gone.
DropReference(c) ==
  /\ SignalIfRequired([refs EXCEPT ![c] = @ - 1], possibly_quick_rewrites)
  /\ releasing' = IF release_driver' THEN releasing + 1 ELSE releasing

\* Time passes the end of the wait, and some time later the alarm of the wait runs.
DeadlinePasses ==
  /\ waiting # "no" /\ deadline = "ahead" /\ deadline' = "past"
  /\ UNCHANGED <<waitVars, fully_rewrite_on_flush, endVars, num_detached, tasks>>
WaitTimesOut ==
  /\ waiting # "no" /\ deadline = "past" /\ ~deadline_reached
  /\ TryCheckForCompletion(waiting, TRUE, refs, possibly_quick_rewrites)
  /\ UNCHANGED <<refs, possibly_quick_rewrites, release_driver, deadline,
                 fully_rewrite_on_flush, endVars, num_detached, tasks>>

-----------------------------------------------------------------------------
(* The end of the driver.                                                  *)

\* MaybeIssuePurge, once per driver and only when rewrites missed the page; the
\* percentage that is enough is an option.  The purge keeps the driver alive.
MaybeIssuePurge ==
  /\ purge = "no" /\ num_detached
  /\ purge' = "issued"
  /\ refs' = [refs EXCEPT !["AsyncEvents"] = @ + 1]
  /\ UNCHANGED <<recycled, deferred>>

ReleaseRewriteDriver ==
  /\ IF shutdown # "no"
     THEN deferred' = TRUE /\ UNCHANGED recycled
     ELSE recycled' = recycled + 1 /\ UNCHANGED deferred
  /\ UNCHANGED <<purge, refs>>

PossiblyPurgeCachedResponseAndReleaseDriver ==
  /\ releasing > 0 /\ releasing' = releasing - 1
  /\ release_driver' = FALSE
  /\ MaybeIssuePurge \/ ReleaseRewriteDriver
  /\ UNCHANGED <<possibly_quick_rewrites, waiting, deadline_reached, done, deadline,
                 fully_rewrite_on_flush, shutdown, num_detached, tasks>>

\* HandleDone of the purge's fetch.
PurgeAnswered ==
  /\ purge = "issued" /\ purge' = "over"
  /\ DropReference("AsyncEvents")
  /\ UNCHANGED <<deadline, fully_rewrite_on_flush, recycled, deferred, shutdown, num_detached, tasks>>

-----------------------------------------------------------------------------
(* ServerContext::ShutDownDrivers.                                         *)

\* From here on a release is deferred; a driver that is gone is not waited for.
ShutDownDrivers ==
  /\ shutdown = "no"
  /\ shutdown' = IF recycled = 0 THEN "cleaning" ELSE "over"
  /\ UNCHANGED <<waitVars, deadline, fully_rewrite_on_flush, releasing, recycled, deferred, purge,
                 num_detached, tasks>>

BoundedWaitFor ==
  /\ shutdown = "cleaning" /\ shutdown' = "waiting"
  /\ refs' = [refs EXCEPT !["User"] = @ + 1]
  /\ CheckForCompletionAsync("shutdown", "ahead", refs')
  /\ UNCHANGED <<possibly_quick_rewrites, release_driver, fully_rewrite_on_flush, releasing,
                 recycled, deferred, purge, num_detached, tasks>>

WaitForShutDownReturns ==
  /\ shutdown = "waiting" /\ done = "shutdown"
  /\ shutdown' = "over"
  /\ LET r == [refs EXCEPT !["User"] = @ - 1]
     IN  /\ refs' = r /\ LastRefRemoved(r)
         /\ releasing' = IF release_driver' THEN releasing + 1 ELSE releasing
  /\ done' = "none"
  /\ UNCHANGED <<possibly_quick_rewrites, waiting, deadline_reached, deadline,
                 fully_rewrite_on_flush, recycled, deferred, purge, num_detached, tasks>>

Waits == DeadlinePasses \/ WaitTimesOut
Releases == PossiblyPurgeCachedResponseAndReleaseDriver \/ PurgeAnswered
ShutsDown == BoundedWaitFor \/ WaitForShutDownReturns

-----------------------------------------------------------------------------
(* A waiter that nobody will wake waits for a condition that is false: no  *)
(* change of the counts was made without the signal it called for.         *)
WakeupNotLost ==
  waiting # "no" => ~IsDone(waiting, deadline_reached, refs, possibly_quick_rewrites)
==============================================================================
