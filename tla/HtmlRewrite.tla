----------------------------- MODULE HtmlRewrite -----------------------------
(***************************************************************************)
(* An HTML request in a RewriteDriver (rewrite_driver.cc) and its rewrite  *)
(* contexts (rewrite_context.cc).  The HTML thread parses one flush window *)
(* of the page after another; at each flush it starts the window's         *)
(* contexts, waits until they are done or the deadline is reached, and     *)
(* detaches the ones that are not.  The rewrite thread runs the contexts'  *)
(* tasks: metadata lookup, creation lock, input fetches and the rewriting  *)
(* itself answer by adding a task.  Contexts over the same slot run one    *)
(* after the other; contexts with the same key share the first one's       *)
(* result.                                                                 *)
(***************************************************************************)
EXTENDS RewriteDriver, SequencesExt

CONSTANTS Contexts,      \* top-level rewrite contexts of the page
          Page,          \* flush windows: a sequence of sequences of contexts
          Successors,    \* successors_ as AddSlot builds them: contexts of the same window
          Keys, Key,     \* partition_key_ of a context
          None

\* Every context is in the page once.
ASSUME PageAssumption ==
  /\ Page \in Seq(Seq(Contexts)) /\ Page # <<>>
  /\ Contexts \subseteq UNION {ToSet(Page[v]) : v \in DOMAIN Page}
  /\ \A v, w \in DOMAIN Page : \A i \in DOMAIN Page[v], j \in DOMAIN Page[w] :
       Page[v][i] = Page[w][j] => v = w /\ i = j
ASSUME ContextAssumption == /\ IsFiniteSet(Contexts) /\ None \notin Contexts
                            /\ Key \in [Contexts -> Keys]
ASSUME SuccessorsAssumption ==
  /\ Successors \in [Contexts -> SUBSET Contexts]
  /\ \A v \in DOMAIN Page : \A c \in ToSet(Page[v]) : Successors[c] \subseteq ToSet(Page[v])

VARIABLES
  html,              \* the HTML thread: what it does next
  window,            \* of the page
  can_rewrite_resources,
  rewrites,          \* rewrites_: contexts of the window, not initiated yet
  initiated,         \* initiated_rewrites_
  detached,          \* detached_rewrites_
  phase,             \* where a context is
  slow,              \* slow_
  starts,            \* how often Start ran
  num_predecessors,
  repeated,          \* repeated_
  primary,           \* primary_rewrite_context_map_
  locked,            \* contexts with a creation lock
  retiring,          \* contexts the rewrite thread is about to report complete
  rendered           \* contexts that were propagated with kRender

contextVars == <<phase, slow, starts, num_predecessors, repeated, primary, locked, retiring, rendered>>
pageVars == <<html, window, can_rewrite_resources, rewrites, initiated, detached>>
htmlVars == <<pageVars, contextVars>>

Predecessors(c) == {d \in Contexts : c \in Successors[d]}
Chained(c) == Predecessors(c) # {}

HtmlIdle ==
  /\ window = 1 /\ rewrites = <<>> /\ initiated = {} /\ detached = {}
  /\ phase = [c \in Contexts |-> "new"]
  /\ slow = [c \in Contexts |-> FALSE]
  /\ starts = [c \in Contexts |-> 0]
  /\ num_predecessors = [c \in Contexts |-> Cardinality(Predecessors(c))]
  /\ repeated = [c \in Contexts |-> <<>>]
  /\ primary = [k \in Keys |-> None]
  /\ locked = {} /\ retiring = <<>> /\ rendered = {}

Phase(c, p) == phase' = [phase EXCEPT ![c] = p]
StartTasks(s) == [i \in DOMAIN s |-> <<"Start", s[i]>>]

-----------------------------------------------------------------------------
(* The HTML thread.                                                        *)

\* StartParseId.  can_rewrite_resources_ is the health of the metadata cache.
StartParse ==
  /\ html = "start" /\ html' = "parsing"
  /\ can_rewrite_resources' \in BOOLEAN
  /\ AddRef("Parsing")
  /\ UNCHANGED <<deadline, fully_rewrite_on_flush, endVars, num_detached, tasks,
                 window, rewrites, initiated, detached, contextVars>>

Unparsed == {i \in DOMAIN Page[window] : phase[Page[window][i]] = "new"}

\* InitiateRewrite of the window's next context.
InitiateRewrite ==
  /\ html = "parsing"
  /\ \E i \in Unparsed : LET c == Page[window][i] IN
      /\ \A j \in Unparsed : i <= j
      /\ IF can_rewrite_resources
         THEN /\ rewrites' = Append(rewrites, c) /\ Phase(c, "created")
              /\ refs' = [refs EXCEPT !["PendingRewrites"] = @ + 1]
              /\ possibly_quick_rewrites' = possibly_quick_rewrites + 1
         ELSE /\ Phase(c, "deleted")
              /\ UNCHANGED <<rewrites, refs, possibly_quick_rewrites>>
  /\ UNCHANGED <<waiting, deadline_reached, done, release_driver, deadline,
                 fully_rewrite_on_flush, endVars, num_detached, tasks, html, window,
                 can_rewrite_resources, initiated, detached,
                 slow, starts, num_predecessors, repeated, primary, locked, retiring, rendered>>

\* Contexts of rewrites_ in its order.
InOrder(q) ==
  \A i, j \in DOMAIN q : i < j =>
    \E m, n \in DOMAIN rewrites : m < n /\ rewrites[m] = q[i] /\ rewrites[n] = q[j]

\* FlushAsync up to rewrites_.clear().  The contexts that follow no other start.
FlushAsync ==
  /\ html = "parsing" /\ Unparsed = {} /\ html' = "flushing"
  /\ initiated' = initiated \cup ToSet(rewrites)
  /\ \E q \in SetToSeqs({c \in ToSet(rewrites) : ~Chained(c)}) :
       InOrder(q) /\ tasks' = tasks \o StartTasks(q)
  /\ rewrites' = <<>>
  /\ UNCHANGED <<waitVars, deadline, fully_rewrite_on_flush, endVars, num_detached,
                 window, can_rewrite_resources, detached, contextVars>>

\* The rest of FlushAsync.
FlushAsyncWaits ==
  /\ html = "flushing" /\ html' = "waiting"
  /\ IF fully_rewrite_on_flush
     THEN CheckForCompletionAsync("completion", "none", refs)
     ELSE CheckForCompletionAsync("render", "ahead", refs)
  /\ UNCHANGED <<refs, possibly_quick_rewrites, release_driver, fully_rewrite_on_flush, endVars,
                 num_detached, tasks, window, can_rewrite_resources, rewrites, initiated, detached,
                 contextVars>>

\* What is outstanding is detached; the callback parses on, or finishes.
FlushAsyncDone ==
  /\ html = "waiting" /\ done = "html" /\ done' = "none"
  /\ LET n == Cardinality(initiated)
     IN  refs' = [refs EXCEPT !["DetachedRewrites"] = @ + n, !["PendingRewrites"] = @ - n]
  /\ detached' = detached \cup initiated
  /\ num_detached' = (num_detached \/ initiated # {})
  /\ initiated' = {}
  /\ IF window < Len(Page) THEN html' = "parsing" /\ window' = window + 1
                           ELSE html' = "finishing" /\ UNCHANGED window
  /\ UNCHANGED <<possibly_quick_rewrites, waiting, deadline_reached, release_driver, deadline,
                 fully_rewrite_on_flush, endVars, tasks, can_rewrite_resources, rewrites, contextVars>>

\* FinishParseAfterFlush, which drops two references.
FinishParseAfterFlush ==
  /\ \/ html = "finishing" /\ html' = "cleanup" /\ DropReference("Parsing")
     \/ html = "cleanup" /\ html' = "finished" /\ DropReference("User")
  /\ UNCHANGED <<deadline, fully_rewrite_on_flush, recycled, deferred, shutdown, purge, num_detached,
                 tasks, window, can_rewrite_resources, rewrites, initiated, detached, contextVars>>

-----------------------------------------------------------------------------
(* Slow rewrites.                                                          *)

\* Mutant of CollectDependentTopLevel: contexts that repeat c are left out.
CollectSuccessors(c) == {c} \cup Successors[c]
HeldUpBy(c) == Successors[c] \cup ToSet(repeated[c])
\* What waits for c or shares its result, and so on: what is in every set that has c
\* and whatever its members hold up.
CollectDependentTopLevel(c) ==
  {d \in Contexts : \A S \in SUBSET Contexts :
                      c \in S /\ (\A b \in S : HeldUpBy(b) \subseteq S) => d \in S}

\* Mutant of MarkSlow: contexts that were slow before are reported again.
MarkSlowCountsAll(c) ==
  LET all == CollectDependentTopLevel(c)
  IN  /\ slow' = [d \in Contexts |-> slow[d] \/ d \in all]
      /\ SignalIfRequired(refs, possibly_quick_rewrites - Cardinality(all))
\* With ReportSlowRewrites.
MarkSlow(c) ==
  LET new == {d \in CollectDependentTopLevel(c) : ~slow[d]}
  IN  /\ slow' = [d \in Contexts |-> slow[d] \/ d \in new]
      /\ IF new = {} THEN UNCHANGED waitVars
         ELSE SignalIfRequired(refs, possibly_quick_rewrites - Cardinality(new))

-----------------------------------------------------------------------------
(* The rewrite thread.  A task runs when the one before it has reported    *)
(* its contexts complete.                                                  *)

Runs(task) == retiring = <<>> /\ HeadIs(task)
TheContext == Head(tasks)[2]

RestOfDriver == <<deadline, fully_rewrite_on_flush, endVars, num_detached>>

\* Mutant of FinalizeRewriteForHtml: contexts that repeat c are forgotten.
FinalizeForgetsRepeated(c) ==
  /\ retiring' = <<c>>
  /\ primary' = [primary EXCEPT ![Key[c]] = IF @ = c THEN None ELSE @]
  /\ locked' = locked \ {c} /\ Phase(c, "done")
\* With what Finalize does before it.  Those who share the result are reported first.
FinalizeRewriteForHtml(c) ==
  /\ retiring' = Append(repeated[c], c)
  /\ primary' = [primary EXCEPT ![Key[c]] = IF @ = c THEN None ELSE @]
  /\ locked' = locked \ {c}
  /\ phase' = [d \in Contexts |-> IF d = c \/ d \in ToSet(repeated[c]) THEN "done" ELSE phase[d]]
Unfinished == UNCHANGED <<retiring, primary, locked>>

\* An earlier rewrite of a slot may have said that nothing may follow it.
Start ==
  /\ Runs("Start") /\ tasks' = Tail(tasks)
  /\ LET c == TheContext
         k == Key[c]
     IN  /\ starts' = [starts EXCEPT ![c] = @ + 1]
         /\ \/ /\ Chained(c) /\ retiring' = <<c>> /\ Phase(c, "done")
               /\ UNCHANGED <<waitVars, slow, repeated, primary>>
            \/ /\ primary[k] = None
               /\ primary' = [primary EXCEPT ![k] = c] /\ Phase(c, "lookup")
               /\ UNCHANGED <<waitVars, slow, repeated, retiring>>
            \/ /\ primary[k] # None
               /\ IF slow[primary[k]] THEN MarkSlow(c) ELSE UNCHANGED <<waitVars, slow>>
               /\ repeated' = [repeated EXCEPT ![primary[k]] = Append(@, c)]
               /\ Phase(c, "repeated")
               /\ UNCHANGED <<primary, retiring>>
  /\ UNCHANGED <<RestOfDriver, pageVars, num_predecessors, locked, rendered>>

\* A server that is shutting down gives no locks.
OutputCacheMiss(c) ==
  \/ Phase(c, "locking") /\ Unfinished
  \/ FinalizeRewriteForHtml(c)

\* "hit", "miss" or, when the inputs may be checked again, "revalidate".
OutputCacheDone ==
  /\ Runs("OutputCacheDone") /\ tasks' = Tail(tasks)
  /\ LET c == TheContext
     IN  \/ FinalizeRewriteForHtml(c) /\ UNCHANGED <<waitVars, slow>>
         \/ MarkSlow(c) /\ Phase(c, "revalidating") /\ Unfinished
         \/ MarkSlow(c) /\ OutputCacheMiss(c)
  /\ UNCHANGED <<RestOfDriver, pageVars, starts, num_predecessors, repeated, rendered>>

ResourceRevalidateDone ==
  /\ Runs("ResourceRevalidateDone") /\ tasks' = Tail(tasks)
  /\ FinalizeRewriteForHtml(TheContext) \/ OutputCacheMiss(TheContext)
  /\ UNCHANGED <<waitVars, RestOfDriver, pageVars, slow, starts, num_predecessors, repeated, rendered>>

LockFailed ==
  /\ Runs("LockFailed") /\ tasks' = Tail(tasks)
  /\ FinalizeRewriteForHtml(TheContext)
  /\ UNCHANGED <<waitVars, RestOfDriver, pageVars, slow, starts, num_predecessors, repeated, rendered>>

\* PartitionDone: with no partition there is nothing to rewrite.
Partition(c) ==
  \/ Phase(c, "rewriting") /\ Unfinished
  \/ FinalizeRewriteForHtml(c)

\* Inputs that are loaded need no fetch.
FetchInputs ==
  /\ Runs("FetchInputs") /\ tasks' = Tail(tasks)
  /\ \/ Phase(TheContext, "fetching") /\ Unfinished
     \/ Partition(TheContext)
  /\ UNCHANGED <<waitVars, RestOfDriver, pageVars, slow, starts, num_predecessors, repeated, rendered>>

ResourceFetchDone ==
  /\ Runs("ResourceFetchDone") /\ tasks' = Tail(tasks)
  /\ Partition(TheContext)
  /\ UNCHANGED <<waitVars, RestOfDriver, pageVars, slow, starts, num_predecessors, repeated, rendered>>

RewriteDoneImpl ==
  /\ Runs("RewriteDoneImpl") /\ tasks' = Tail(tasks)
  /\ FinalizeRewriteForHtml(TheContext)
  /\ UNCHANGED <<waitVars, RestOfDriver, pageVars, slow, starts, num_predecessors, repeated, rendered>>

\* Mutant of RunSuccessors: the other predecessors are not looked at.
RunAllSuccessors(c) == SetToSeq(Successors[c])
\* The successors that have no other predecessor left are started.
RunSuccessors(c) == SetToSeq({d \in Successors[c] : num_predecessors[d] = 1})

\* Mutant of Propagate: a detached context renders.
PropagateDetached(c) == rendered \cup {c}
\* The contexts that rendered, after RewriteComplete has c propagate its result.
Propagate(c) == IF c \in initiated THEN rendered \cup {c} ELSE rendered

RewriteComplete ==
  /\ retiring # <<>> /\ retiring' = Tail(retiring)
  /\ LET c == Head(retiring)
         attached == c \in initiated
         left == IF attached THEN "PendingRewrites" ELSE "DetachedRewrites"
     IN  /\ SignalIfRequired([refs EXCEPT !["DeletingRewrites"] = @ + 1, ![left] = @ - 1],
                             IF attached /\ ~slow[c] THEN possibly_quick_rewrites - 1
                                                     ELSE possibly_quick_rewrites)
         /\ initiated' = initiated \ {c} /\ detached' = detached \ {c}
         /\ rendered' = Propagate(c)
         /\ num_predecessors' = [d \in Contexts |-> IF d \in Successors[c] THEN num_predecessors[d] - 1
                                                    ELSE num_predecessors[d]]
         /\ tasks' = Append(tasks \o StartTasks(RunSuccessors(c)), <<"DeleteRewriteContext", c>>)
  /\ UNCHANGED <<RestOfDriver, html, window, can_rewrite_resources, rewrites,
                 phase, slow, starts, repeated, primary, locked>>

DeleteRewriteContext ==
  /\ Runs("DeleteRewriteContext") /\ tasks' = Tail(tasks)
  /\ Phase(TheContext, "deleted")
  /\ DropReference("DeletingRewrites")
  /\ UNCHANGED <<deadline, fully_rewrite_on_flush, recycled, deferred, shutdown, purge, num_detached,
                 pageVars, slow, starts, num_predecessors, repeated, primary, locked, retiring, rendered>>

-----------------------------------------------------------------------------
(* What the contexts wait for, in other threads, answers with a task.      *)

Answer(c, from, task, lock) ==
  /\ phase[c] = from /\ Phase(c, "queued")
  /\ tasks' = Append(tasks, <<task, c>>)
  /\ locked' = locked \cup lock
  /\ UNCHANGED <<waitVars, RestOfDriver, pageVars, slow, starts, num_predecessors, repeated, primary,
                 retiring, rendered>>

OutputCacheCallbackDone(c) == Answer(c, "lookup", "OutputCacheDone", {})
ResourceRevalidateCallback(c) == Answer(c, "revalidating", "ResourceRevalidateDone", {})
CallFetchInputs(c) == Answer(c, "locking", "FetchInputs", {c})
CallLockFailed(c) == Answer(c, "locking", "LockFailed", {})
ResourceFetchCallback(c) == Answer(c, "fetching", "ResourceFetchDone", {})
\* Also when the low-priority thread drops the work.
RewriteDone(c) == Answer(c, "rewriting", "RewriteDoneImpl", {})

HtmlThread ==
  \/ StartParse \/ InitiateRewrite \/ FlushAsync \/ FlushAsyncWaits \/ FlushAsyncDone
  \/ FinishParseAfterFlush
RewriteThread ==
  \/ Start \/ OutputCacheDone \/ ResourceRevalidateDone \/ LockFailed \/ FetchInputs
  \/ ResourceFetchDone \/ RewriteDoneImpl \/ RewriteComplete \/ DeleteRewriteContext
Answers == \E c \in Contexts :
  \/ OutputCacheCallbackDone(c) \/ ResourceRevalidateCallback(c) \/ CallFetchInputs(c)
  \/ CallLockFailed(c) \/ ResourceFetchCallback(c) \/ RewriteDone(c)
HtmlNext == HtmlThread \/ RewriteThread \/ Answers

-----------------------------------------------------------------------------
(* Properties.                                                             *)

Unreported == {c \in Contexts : c \in initiated \/ c \in ToSet(rewrites)}
Retired == {c \in Contexts : phase[c] = "done" /\ c \notin ToSet(retiring)}

(* The counts on which waits and the driver's life depend are those of the *)
(* sets of contexts: pending, detached, completed and not deleted, and     *)
(* attached ones not known to be slow.                                     *)
RefsMatch ==
  /\ refs["PendingRewrites"] = Cardinality(Unreported)
  /\ refs["DetachedRewrites"] = Cardinality(detached)
  /\ refs["DeletingRewrites"] = Cardinality(Retired)
  /\ possibly_quick_rewrites = Cardinality({c \in Unreported : ~slow[c]})
  /\ \A c \in detached : slow[c]

(* Whatever a slow context holds up is slow too, so a flush past its       *)
(* deadline waits only for contexts that need just their metadata: not for *)
(* one that is chained to, or repeats, a context that fetches or rewrites. *)
SlowHoldsUpSlow ==
  \A c \in Contexts : slow[c] /\ phase[c] # "done" /\ phase[c] # "deleted" =>
    \A d \in Successors[c] \cup ToSet(repeated[c]) : slow[d]

(* A context starts once, when everything before it on its slots is done.  *)
StartsInTurn ==
  \A c \in Contexts :
    /\ starts[c] <= 1
    /\ starts[c] = 1 => \A d \in Predecessors(c) : phase[d] \in {"done", "deleted"}

(* Two contexts of a request with one key never work at once: one works,   *)
(* the other repeats it.  A creation lock is kept by a context at work.    *)
OneWorksPerKey ==
  LET Working == {c \in Contexts : starts[c] = 1 /\ phase[c] \notin {"repeated", "done", "deleted"}}
  IN  /\ \A c, d \in Working : Key[c] = Key[d] => c = d
      /\ locked \subseteq Working

(* Chains and repetitions are worked off in turn.                          *)
WorksInTurn == StartsInTurn /\ OneWorksPerKey

(* A context writes to the page only while its flush window is held open:  *)
(* never once the window has been sent.                                    *)
RendersWhileOpen ==
  [][\A c \in rendered' \ rendered : c \in ToSet(Page[window]) /\ html \in {"flushing", "waiting"}]_htmlVars
==============================================================================
