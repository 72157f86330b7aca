------------------------------ MODULE RpcClient ------------------------------
(***************************************************************************)
(* The worker processes' side of the controller: CentralControllerRpcClient *)
(* with its ContextRegistry, and the RequestResultRpcClient of each         *)
(* callback (pagespeed/controller).  A thread that wants to rewrite calls   *)
(* ScheduleRewrite (StartContext); what gRPC answers is handled by the      *)
(* process's client thread, one event at a time.  When too many requests    *)
(* are out, or another process found so, the process disconnects, cancels   *)
(* what it has out and stays away until the reconnect time.                 *)
(*                                                                          *)
(* A context is in the registry as long as its ::grpc::ClientContext lives: *)
(* contexts[p].  The callback's Run and Cancel only queue on a sequence     *)
(* (central_controller_callback.h) and count here as its answer.            *)
(* Abstracted: the statistic is read once per StartContext.                 *)
(***************************************************************************)
EXTENDS GrpcStream, Integers, FiniteSets

CONSTANTS Procs, ProcOf,       \* the process that asks for a callback
          PanicThreshold,      \* controller_panic_threshold_
          ReconnectDelay,      \* kControllerReconnectDelayMs
          RetryDelay           \* the five seconds of ConsiderConnecting

ASSUME ProcOfAssumption == ProcOf \in [Callbacks -> Procs]

VARIABLES
  conn,              \* per process: state_, or "killed"
  reconnect_time,    \* reconnect_time_ms_
  statistic,         \* reconnect_time_ms_statistic_, shared by the processes
  contexts,          \* ContextRegistry::contexts_
  closed,            \* ContextRegistry::shutdown_
  pc,                \* where each callback's request has got to
  asked_at,          \* now_ms of its StartContext
  old_contexts,      \* of the CancelAllActive its thread, or ShutDown, is in
  shut,              \* how far ShutDown is
  answers            \* history: calls of Run and Cancel

connectionVars == <<conn, reconnect_time, statistic, contexts, closed>>
clientVars == <<connectionVars, pc, asked_at, old_contexts, shut, answers>>

ClientInit ==
  /\ conn = [p \in Procs |-> "running"]
  /\ reconnect_time = [p \in Procs |-> 0] /\ statistic = 0
  /\ contexts = [p \in Procs |-> {}] /\ closed = [p \in Procs |-> FALSE]
  /\ pc = [c \in Callbacks |-> "new"] /\ asked_at = [c \in Callbacks |-> 0]
  /\ old_contexts = [x \in Callbacks \cup Procs |-> {}]
  /\ shut = [p \in Procs |-> "no"]
  /\ answers = [c \in Callbacks |-> 0]

Goes(c, to) == pc' = [pc EXCEPT ![c] = to]
Answers(c) == answers' = [answers EXCEPT ![c] = @ + 1]
Removes(c) == contexts' = [contexts EXCEPT ![ProcOf[c]] = @ \ {c}]

-----------------------------------------------------------------------------
(* StartContext, of the callback c.                                         *)

\* The time is read before the lock is taken.
ReadTime(c, time) ==
  /\ pc[c] = "new" /\ Goes(c, "timed")
  /\ asked_at' = [asked_at EXCEPT ![c] = time]
  /\ UNCHANGED <<connectionVars, old_contexts, shut, answers, streamVars>>

\* TimestampsAllowConnection: what it leaves in reconnect_time_ms_, and its result.
Cached(p, t) == IF t >= reconnect_time[p] THEN statistic ELSE reconnect_time[p]
Allowed(p, t) == t >= Cached(p, t)

Enters(c) == pc[c] = "timed" /\ asked_at' = [asked_at EXCEPT ![c] = 0]
Caches(p, t) == reconnect_time' = [reconnect_time EXCEPT ![p] = Cached(p, t)]

\* Not RUNNING after ConsiderConnecting: CallCancel.
Refused(c) ==
  LET p == ProcOf[c] t == asked_at[c]
  IN  /\ Enters(c)
      /\ \/ conn[p] = "shutdown" /\ UNCHANGED reconnect_time
         \/ conn[p] = "disconnected" /\ ~Allowed(p, t) /\ Caches(p, t)
         \/ /\ conn[p] = "disconnected" /\ Allowed(p, t)
            /\ \/ /\ contexts[p] # {}
                  /\ reconnect_time' = [reconnect_time EXCEPT ![p] = t + RetryDelay]
               \/ /\ contexts[p] = {}      \* the thread does not start
                  /\ reconnect_time' = [reconnect_time EXCEPT ![p] = t + ReconnectDelay]
      /\ Goes(c, "over") /\ Answers(c)
      /\ UNCHANGED <<conn, statistic, contexts, closed, old_contexts, shut,
                     streamVars>>

MayRevive(p) == conn[p] = "disconnected" /\ contexts[p] = {}

\* Some process, this one included, detected that the controller is not responding.
Crowded(p) == Cardinality(contexts[p]) > PanicThreshold
Disconnects(c) ==
  LET p == ProcOf[c] t == asked_at[c]
  IN  /\ Enters(c) /\ conn[p] = "running"
      /\ \/ ~Allowed(p, t) /\ UNCHANGED statistic
         \/ Allowed(p, t) /\ Crowded(p) /\ statistic' = t + ReconnectDelay
      /\ Caches(p, t)
      /\ conn' = [conn EXCEPT ![p] = "disconnected"]
      /\ Goes(c, "flush")
      /\ UNCHANGED <<contexts, closed, old_contexts, shut, answers, streamVars>>

\* A connection that was there, or one that is made now with a new registry.
Connected(p, t) ==
  /\ Allowed(p, t)
  /\ \/ conn[p] = "running" /\ ~Crowded(p) /\ UNCHANGED <<conn, closed>>
     \/ /\ MayRevive(p)
        /\ conn' = [conn EXCEPT ![p] = "running"]
        /\ closed' = [closed EXCEPT ![p] = FALSE]

Starts(c) ==
  LET p == ProcOf[c] t == asked_at[c]
  IN  /\ Enters(c) /\ Connected(p, t) /\ Caches(p, t)
      /\ conn[p] = "running" => ~closed[p]
      /\ contexts' = [contexts EXCEPT ![p] = @ \cup {c}]
      /\ link' = [link EXCEPT ![c] = "opening"]
      /\ Goes(c, "starting")
      /\ UNCHANGED <<statistic, old_contexts, shut, answers, up, down>>

-----------------------------------------------------------------------------
(* CancelAllActive, by the thread of StartContext or by ShutDown: x.        *)

Closes(x, p) ==
  /\ closed' = [closed EXCEPT ![p] = TRUE]
  /\ old_contexts' = [old_contexts EXCEPT ![x] = contexts[p]]

\* TryCancel of d, if it is still in the registry.
Cancels(x, p, d) ==
  /\ d \in old_contexts[x]
  /\ old_contexts' = [old_contexts EXCEPT ![x] = @ \ {d}]
  /\ link' = IF d \in contexts[p] THEN BrokenIn({d}) ELSE link

Flush(c) ==
  \/ /\ pc[c] = "flush" /\ Closes(c, ProcOf[c]) /\ Goes(c, "cancelling")
     /\ UNCHANGED <<conn, reconnect_time, statistic, contexts, asked_at, shut, answers,
                    streamVars>>
  \/ /\ pc[c] = "cancelling" /\ \E d \in Callbacks : Cancels(c, ProcOf[c], d)
     /\ UNCHANGED <<connectionVars, pc, asked_at, shut, answers, up, down>>
  \/ /\ pc[c] = "cancelling" /\ old_contexts[c] = {} /\ Goes(c, "over") /\ Answers(c)
     /\ UNCHANGED <<connectionVars, asked_at, old_contexts, shut, streamVars>>

ShutDownStarts(p) ==
  /\ conn[p] \in {"running", "disconnected"}
  /\ conn' = [conn EXCEPT ![p] = "shutdown"]
  /\ shut' = [shut EXCEPT ![p] = "flush"]
  /\ UNCHANGED <<reconnect_time, statistic, contexts, closed, pc, asked_at, old_contexts,
                 answers, streamVars>>

\* CancelAllActiveAndWait, and the client thread is joined.
ShutDownGoesOn(p) ==
  \/ /\ shut[p] = "flush" /\ Closes(p, p) /\ shut' = [shut EXCEPT ![p] = "cancelling"]
     /\ UNCHANGED <<conn, reconnect_time, statistic, contexts, pc, asked_at, answers,
                    streamVars>>
  \/ /\ shut[p] = "cancelling" /\ \E d \in Callbacks : Cancels(p, p, d)
     /\ UNCHANGED <<connectionVars, pc, asked_at, shut, answers, up, down>>
  \/ /\ shut[p] = "cancelling" /\ old_contexts[p] = {} /\ contexts[p] = {}
     /\ shut' = [shut EXCEPT ![p] = "done"]
     /\ UNCHANGED <<connectionVars, pc, asked_at, old_contexts, answers, streamVars>>

-----------------------------------------------------------------------------
(* The request of c, on the client thread.                                  *)

unmoved == <<conn, reconnect_time, statistic, closed, asked_at, old_contexts, shut>>

\* And WriteServerRequestComplete, which reads the answer.
BootStrapFinished(c) ==
  /\ pc[c] = "starting" /\ link[c] = "opening"
  /\ link' = [link EXCEPT ![c] = "open"]
  /\ up' = Send(up, c, "request")
  /\ Goes(c, "reading")
  /\ UNCHANGED <<unmoved, contexts, answers, down>>

\* The RpcHolder stays until Finish is answered: the context is detached.
StartUpFailed(c) ==
  /\ pc[c] \in {"starting", "reading"} /\ Ended(c)
  /\ Goes(c, "over") /\ Answers(c)
  /\ UNCHANGED <<unmoved, contexts, streamVars>>

\* ok_to_proceed, or not: then rpc_.reset() ends the session.
NotifyClientOfServerDecision(c) ==
  /\ pc[c] = "reading" /\ down[c] # <<>>
  /\ down' = Received(down, c)
  /\ Answers(c)
  /\ \/ Head(down[c]) = "proceed" /\ Goes(c, "granted") /\ UNCHANGED contexts
     \/ Head(down[c]) = "deny" /\ Goes(c, "over") /\ Removes(c)
  /\ UNCHANGED <<unmoved, link, up>>

\* Mutant of SendResultToServer: nothing is sent for a rewrite that was dropped.
SendNothing(c, result) == UNCHANGED up
\* MarkSucceeded (or the destructor) and MarkFailed.  A stream that ended loses it.
SendResultToServer(c, result) ==
  up' = IF link[c] = "open" THEN Send(up, c, result) ELSE up

Report(c) ==
  /\ pc[c] = "granted" /\ Goes(c, "over")
  /\ \E result \in {"success", "failed"} : SendResultToServer(c, result)
  /\ UNCHANGED <<unmoved, contexts, answers, link, down>>

\* FinishSucceeded and FinishFailed delete the RpcHolder.
FinishDone(c) ==
  /\ pc[c] = "over" /\ c \in contexts[ProcOf[c]]
  /\ link[c] \in {"finished", "broken"}
  /\ Removes(c)
  /\ UNCHANGED <<unmoved, pc, answers, streamVars>>

-----------------------------------------------------------------------------
\* The process ends without cleaning up.
Dies(p) ==
  /\ conn' = [conn EXCEPT ![p] = "killed"]
  /\ link' = BrokenIn(contexts[p])
  /\ contexts' = [contexts EXCEPT ![p] = {}]
  /\ pc' = [c \in Callbacks |->
              IF ProcOf[c] = p /\ pc[c] # "over" THEN "killed" ELSE pc[c]]
  /\ old_contexts' = [x \in Callbacks \cup Procs |->
       IF x = p \/ (x \in Callbacks /\ ProcOf[x] = p) THEN {} ELSE old_contexts[x]]
  /\ shut' = [shut EXCEPT ![p] = "done"]
  /\ asked_at' = [c \in Callbacks |-> IF ProcOf[c] = p THEN 0 ELSE asked_at[c]]
  /\ UNCHANGED <<reconnect_time, statistic, closed, answers, up, down>>

Killed(p) == conn[p] # "killed" /\ Dies(p)

\* CHECK(registry_->TryRegisterContext(context)) fails: a CancelAllActive came
\* after the connection was made again, and closed the new registry.
CheckFails(c) ==
  LET p == ProcOf[c]
  IN  /\ Enters(c) /\ conn[p] = "running" /\ Allowed(p, asked_at[c]) /\ ~Crowded(p)
      /\ closed[p]
      /\ Dies(p)

ClientStep(c) ==
  \/ Refused(c) \/ Disconnects(c) \/ Starts(c) \/ Flush(c) \/ CheckFails(c)
  \/ BootStrapFinished(c) \/ StartUpFailed(c)
  \/ NotifyClientOfServerDecision(c) \/ Report(c) \/ FinishDone(c)
=============================================================================
