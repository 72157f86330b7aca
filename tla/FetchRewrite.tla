---------------------------- MODULE FetchRewrite -----------------------------
(***************************************************************************)
(* A .pagespeed. resource fetched through a RewriteDriver:                 *)
(* RewriteDriver::FetchResource and its callbacks (rewrite_driver.cc), the *)
(* fetch side of RewriteContext with its FetchContext (rewrite_context.cc) *)
(* and the QueuedAlarm of its deadline (pagespeed/kernel/thread/           *)
(* queued_alarm.cc).  The resource is found in a cache, reconstructed, or, *)
(* when that takes too long, answered with the original while the rewrite  *)
(* goes on in the background.                                              *)
(***************************************************************************)
EXTENDS RewriteDriver

VARIABLES
  fetch,           \* what the fetch waits for, "queued" when a task is
  kind,            \* of the resource: "fly", "rewritten", "outlined"; "none" before it is known
  answered,        \* how often the client's Done was called
  detached_fetch,  \* detached_
  deadline_alarm,  \* deadline_alarm_ is set
  alarm,           \* the QueuedAlarm: "none", "set", "running" or "queued"
  canceled,        \* its canceled_
  drops            \* references that a thread is about to drop, one by one

alarmVars == <<deadline_alarm, alarm, canceled>>
fetchVars == <<fetch, kind, answered, detached_fetch, alarmVars, drops>>

FetchIdle ==
  /\ kind = "none" /\ answered = 0 /\ detached_fetch = FALSE
  /\ deadline_alarm = FALSE /\ alarm = "none" /\ canceled = FALSE /\ drops = <<>>

Queue1(task) == fetch' = "queued" /\ tasks' = Append(tasks, <<task>>)
Await(what) == fetch' = what /\ UNCHANGED tasks

\* Done of the fetch given to the context.  Below it the ResourceFetch cleans the
\* driver up and the client is told; then the user-facing fetch is complete.
Done(held) == /\ answered' = answered + 1
              /\ drops' = held
Both == <<"User", "FetchUserFacing">>

RestOfDriver1 == <<deadline, fully_rewrite_on_flush, endVars, num_detached>>

\* A thread drops what it has to drop before anything else.
DropsReference ==
  /\ drops # <<>> /\ drops' = Tail(drops)
  /\ DropReference(Head(drops))
  /\ UNCHANGED <<deadline, fully_rewrite_on_flush, recycled, deferred, shutdown, purge, num_detached,
                 tasks, fetch, kind, answered, detached_fetch, alarmVars>>

-----------------------------------------------------------------------------
(* Before the rewrite thread.                                              *)

\* RewriteContext::Fetch from FilterFetch::Start: urls that cannot be fetched are
\* answered at once.
StartFilterFetch ==
  \/ Queue1("StartFetch") /\ UNCHANGED <<answered, drops>>
  \/ fetch' = "over" /\ UNCHANGED tasks /\ Done(Both)

\* A url that is no resource of ours, or a revalidation (If-Modified-Since), takes
\* no reference.
FetchResource ==
  /\ fetch = "start"
  /\ \/ /\ fetch' = "over" /\ Done(<<"User">>)
        /\ UNCHANGED <<waitVars, tasks, kind>>
     \/ /\ AddRef("FetchUserFacing")
        /\ \/ kind' = "fly" /\ StartFilterFetch
           \/ kind' \in {"rewritten", "outlined"} /\ Await("finding") /\ UNCHANGED <<answered, drops>>
  /\ UNCHANGED <<RestOfDriver1, detached_fetch, alarmVars>>

\* CacheCallback::Done.  An outlined resource has no filter to make it again.
CacheCallbackDone ==
  /\ fetch = "finding"
  /\ \/ fetch' = "over" /\ UNCHANGED tasks /\ Done(Both)
     \/ kind = "rewritten" /\ StartFilterFetch
  /\ UNCHANGED <<waitVars, RestOfDriver1, kind, detached_fetch, alarmVars>>

-----------------------------------------------------------------------------
(* The alarm.                                                              *)

\* Mutant of CancelDeadlineAlarm: only an alarm that has not run is cancelled.
CancelUnlessRunning ==
  /\ deadline_alarm' = FALSE
  /\ IF alarm = "set" THEN alarm' = "none" /\ UNCHANGED canceled
                      ELSE UNCHANGED <<alarm, canceled>>
\* FetchContext::CancelDeadlineAlarm and QueuedAlarm::CancelAlarm: an alarm that
\* runs already, or has queued its second half, is told to do nothing.
CancelDeadlineAlarm ==
  /\ deadline_alarm' = FALSE
  /\ IF ~deadline_alarm THEN UNCHANGED <<alarm, canceled>>
     ELSE IF alarm = "set" THEN alarm' = "none" /\ UNCHANGED canceled
                           ELSE canceled' = TRUE /\ UNCHANGED alarm

\* The scheduler takes the alarm out and runs it, in a thread of its own.
AlarmIsDue ==
  /\ alarm = "set" /\ alarm' = "running"
  /\ UNCHANGED <<driverVars, fetch, kind, answered, detached_fetch, deadline_alarm, canceled, drops>>
Run ==
  /\ alarm = "running"
  /\ IF canceled THEN alarm' = "none" /\ UNCHANGED tasks
                 ELSE alarm' = "queued" /\ tasks' = Append(tasks, <<"SequencePortionOfRun">>)
  /\ UNCHANGED <<waitVars, RestOfDriver1, fetch, kind, answered, detached_fetch, deadline_alarm,
                 canceled, drops>>

-----------------------------------------------------------------------------
(* The rewrite thread.                                                     *)

RunsFetch(task) == drops = <<>> /\ HeadIs(task)
Rest == UNCHANGED <<waitVars, RestOfDriver1, kind>>
Pop(more) == tasks' = Tail(tasks) \o more

\* Mutant of HandleDeadline: the background work takes no reference.
HandleDeadlineUnreferenced ==
  /\ deadline_alarm' = FALSE
  /\ detached_fetch' = TRUE
  /\ UNCHANGED waitVars
  /\ Done(Both)
\* DetachFetch and the fallback to the original.
HandleDeadline ==
  /\ deadline_alarm' = FALSE
  /\ detached_fetch' = TRUE
  /\ AddRef("FetchBackground")
  /\ Done(Both)
SequencePortionOfRun ==
  /\ RunsFetch("SequencePortionOfRun") /\ Pop(<<>>)
  /\ alarm' = "none"
  /\ IF canceled THEN UNCHANGED <<waitVars, deadline_alarm, detached_fetch, answered, drops>>
                 ELSE HandleDeadline
  /\ UNCHANGED <<RestOfDriver1, canceled, fetch, kind>>

\* And FetchFallbackDone: the client is answered unless that was done at the deadline.
FetchDone ==
  /\ fetch' = "over" /\ CancelDeadlineAlarm
  /\ IF detached_fetch THEN drops' = <<"FetchBackground">> /\ UNCHANGED answered
                       ELSE Done(Both)

\* Whether a lock comes first is up to the filter.  CancelFetch when the pool of the
\* rewrite threads is shut down.
StartFetch ==
  /\ RunsFetch("StartFetch")
  /\ \/ fetch' \in {"locking", "queued"}
        /\ Pop(IF fetch' = "queued" THEN <<<<"StartFetchImpl">>>> ELSE <<>>)
        /\ UNCHANGED <<answered, drops>>
     \/ fetch' = "over" /\ Pop(<<>>) /\ Done(Both)
  /\ Rest /\ UNCHANGED <<detached_fetch, alarmVars>>

\* StartRewriteForFetch, when the inputs are here.  Work that may fall back to the
\* original goes to the low-priority thread, under a deadline unless it is made on
\* the fly; other work is a task; inputs that cannot be used fail.
StartRewriteForFetch ==
  \/ /\ fetch' = "rewriting" /\ Pop(<<>>)
     /\ \/ kind # "fly" /\ deadline_alarm' = TRUE /\ alarm' = "set"
        \/ UNCHANGED <<deadline_alarm, alarm>>
  \/ /\ fetch' = "queued"
     /\ \E task \in {"Rewrite", "RewriteDoneImpl"} : Pop(<<<<task>>>>)
     /\ UNCHANGED <<deadline_alarm, alarm>>

\* StartFetchReconstruction, FetchInputs.
StartFetchReconstruction ==
  /\ \/ fetch' = "fetching" /\ Pop(<<>>) /\ UNCHANGED <<deadline_alarm, alarm>>
     \/ StartRewriteForFetch
  /\ UNCHANGED <<canceled, answered, drops>>

StartFetchImpl ==
  /\ RunsFetch("StartFetchImpl")
  /\ IF kind = "fly" THEN StartFetchReconstruction
     ELSE fetch' = "lookup" /\ Pop(<<>>) /\ UNCHANGED <<alarmVars, answered, drops>>
  /\ Rest /\ UNCHANGED detached_fetch

\* A hash that must match and does not; a result to look for; nothing to go by.
FetchCacheDone ==
  /\ RunsFetch("FetchCacheDone")
  /\ \/ fetch' = "over" /\ Pop(<<>>) /\ Done(Both) /\ UNCHANGED alarmVars
     \/ fetch' = "fallback" /\ Pop(<<>>) /\ UNCHANGED <<answered, drops, alarmVars>>
     \/ StartFetchReconstruction
  /\ Rest /\ UNCHANGED detached_fetch

FetchFallbackCacheDone ==
  /\ RunsFetch("FetchFallbackCacheDone")
  /\ \/ FetchDone /\ Pop(<<>>)
     \/ StartFetchReconstruction
  /\ Rest /\ UNCHANGED detached_fetch

ResourceFetchDoneForFetch ==
  /\ RunsFetch("ResourceFetchDone")
  /\ StartRewriteForFetch
  /\ Rest /\ UNCHANGED <<canceled, answered, drops, detached_fetch>>

Rewrite ==
  /\ RunsFetch("Rewrite") /\ fetch' = "rewriting" /\ Pop(<<>>)
  /\ Rest /\ UNCHANGED <<answered, drops, detached_fetch, alarmVars>>

RewriteDoneImplForFetch ==
  /\ RunsFetch("RewriteDoneImpl") /\ FetchDone /\ Pop(<<>>)
  /\ Rest /\ UNCHANGED detached_fetch

-----------------------------------------------------------------------------
(* Other threads answer with a task.                                       *)

TaskFor == [locking |-> "StartFetchImpl", lookup |-> "FetchCacheDone",
            fallback |-> "FetchFallbackCacheDone", fetching |-> "ResourceFetchDone",
            rewriting |-> "RewriteDoneImpl"]
FetchAnswer ==
  /\ fetch \in DOMAIN TaskFor
  /\ Queue1(TaskFor[fetch])
  /\ Rest /\ UNCHANGED <<answered, drops, detached_fetch, alarmVars>>

FetchNext ==
  \/ FetchResource \/ CacheCallbackDone \/ DropsReference \/ AlarmIsDue \/ Run
  \/ SequencePortionOfRun \/ StartFetch \/ StartFetchImpl \/ FetchCacheDone
  \/ FetchFallbackCacheDone \/ ResourceFetchDoneForFetch \/ Rewrite \/ RewriteDoneImplForFetch
  \/ FetchAnswer

-----------------------------------------------------------------------------
(* Properties.                                                             *)

(* The client is answered once, whichever of the rewrite and the deadline  *)
(* comes first, and not before one of them did.                            *)
AnsweredOnce ==
  /\ answered <= 1
  /\ fetch = "over" => answered = 1
  /\ detached_fetch => answered = 1

(* A deadline that is about to be handled finds a fetch that is still      *)
(* user-facing and not in the background, as DetachFetch checks.           *)
DeadlineFindsFetch ==
  /\ alarm = "queued" /\ ~canceled =>
       /\ answered = 0 /\ deadline_alarm
       /\ refs["FetchUserFacing"] = 1 /\ refs["FetchBackground"] = 0
  /\ deadline_alarm => alarm # "none" /\ ~canceled

(* The race between the deadline and the rewrite has one winner, and the   *)
(* loser's half of the alarm finds what it expects.                        *)
FetchAnsweredOnce == AnsweredOnce /\ DeadlineFindsFetch

(* While the fetch works, answered or not, a reference of its own keeps    *)
(* the driver: user-facing until the answer, then background.              *)
WorkKeepsDriver ==
  fetch \notin {"start", "unused", "over"} =>
    /\ refs["FetchUserFacing"] + refs["FetchBackground"] >= 1
    /\ (detached_fetch <=> refs["FetchBackground"] = 1)
==============================================================================
