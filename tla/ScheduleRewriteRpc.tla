------------------------- MODULE ScheduleRewriteRpc -------------------------
(***************************************************************************)
(* Workers ask the controller process for leave to rewrite: RpcClient in   *)
(* each worker, RpcServer in the controller, PopularityContest behind it,  *)
(* streams between them.  Workers and the controller may die at any time;  *)
(* the controller is started again (system/controller_manager.cc).  A      *)
(* stream may break; a worker that is not modelled may disconnect all.     *)
(***************************************************************************)
EXTENDS RpcServer, RpcClient

CONSTANT MaxFaults      \* bound

VARIABLE faults

rpcVars == <<serverVars, clientVars, streamVars, faults>>

RpcInit == ServerInit /\ ClientInit /\ StreamInit /\ faults = 0

Call(c) == ReadTime(c, now) /\ UNCHANGED <<serverVars, faults>>
Client(c) == ClientStep(c) /\ UNCHANGED <<serverVars, faults>>
GoOn(p) == ShutDownGoesOn(p) /\ UNCHANGED <<serverVars, faults>>
Loop == LoopStep /\ UNCHANGED <<clientVars, faults>>
Time == Tick /\ UNCHANGED <<handlerVars, clientVars, streamVars, faults>>

StreamBreaks(c) ==
  /\ link[c] \in {"opening", "open"} /\ link' = BrokenIn({c})
  /\ UNCHANGED <<clientVars, serverVars, up, down>>
AnotherPanics ==
  /\ statistic' = now + ReconnectDelay
  /\ UNCHANGED <<conn, reconnect_time, contexts, closed, pc, asked_at, old_contexts, shut, answers,
                 serverVars, streamVars>>

Fault ==
  /\ faults < MaxFaults /\ faults' = faults + 1
  /\ \/ \E p \in Procs : (ShutDownStarts(p) \/ Killed(p)) /\ UNCHANGED serverVars
     \/ ServerRestarts /\ UNCHANGED clientVars
     \/ \E c \in Callbacks : StreamBreaks(c)
     \/ AnotherPanics

\* The processes that live do not all stop while one can go on, gRPC answers every
\* operation, and a rewrite that was granted ends and reports, by its destructor if
\* not before.  One fairness for all: no request can keep the others waiting for ever.
Progress ==
  \/ \E c \in Callbacks : Client(c)
  \/ \E p \in Procs : GoOn(p)
  \/ Loop

RpcNext ==
  \/ Progress
  \/ \E c \in Callbacks : Call(c)
  \/ Fault \/ Time

RpcSpec == RpcInit /\ [][RpcNext]_rpcVars /\ WF_rpcVars(Progress)

-----------------------------------------------------------------------------
(* Properties.                                                             *)

\* Between two events the controller counts a rewrite as running exactly for
\* the handlers that wait for a result: a slot is neither lost with a client
\* that went away nor given back twice.
GrantsHaveHandlers ==
  LoopReady => \A c \in Callbacks : client[c] = "running" <=> handler_state[c] = "operation"

\* A handler that waits for the controller can write its answer, and no message
\* comes in meanwhile: the branches for a client out of step are never taken.
InStep ==
  \A c \in Callbacks :
    handler_state[c] = "waiting"
      => rpc_state[c] = "running" /\ Writeable(c) /\ up[c] = <<>>

\* A worker that rewrites with its stream intact has its slot in the controller.
RewritesHaveSlots ==
  \A c \in Callbacks :
    pc[c] = "granted" /\ link[c] = "open" => handler_state[c] = "operation"

\* Run or Cancel is called at most once, and has been when the request is over.
AnsweredOnce ==
  \A c \in Callbacks :
    IF pc[c] = "killed" THEN answers[c] <= 1
    ELSE answers[c] = IF pc[c] \in {"granted", "over"} THEN 1 ELSE 0

\* The registry holds every request on its way, so that ShutDown can wait for all.
Registered ==
  \A c \in Callbacks :
    pc[c] \in {"starting", "reading", "granted"}
      => c \in contexts[ProcOf[c]] /\ shut[ProcOf[c]] # "done"

RpcConsistent ==
  GrantsHaveHandlers /\ InStep /\ RewritesHaveSlots /\ AnsweredOnce /\ Registered

\* central_controller_rpc_client.cc:70: CHECK(registry_->TryRegisterContext(context)).
RegistryOpen ==
  \A p \in Procs : conn[p] = "running" => ~closed[p]

\* Whatever fails, in the end nothing is left over: every request was answered or
\* its process is gone, the registry is empty, ShutDown has returned, and no rewrite
\* runs or waits in the controller.
Settled ==
  /\ \A c \in Callbacks : pc[c] \in {"new", "over", "killed"}
  /\ \A p \in Procs : contexts[p] = {} /\ shut[p] \in {"no", "done"}
  /\ \A k \in Keys : state[k] \in {"ABSENT", "AWAITING_RETRY"}

EverythingSettles == <>[]Settled
=============================================================================
