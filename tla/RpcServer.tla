------------------------------ MODULE RpcServer ------------------------------
(***************************************************************************)
(* The controller process: CentralControllerRpcServer runs one thread that *)
(* takes events from gRPC and, for each, runs a handler to its end         *)
(* (pagespeed/controller: rpc_handler.h, request_result_rpc_handler.h,     *)
(* schedule_rewrite_rpc_handler.cc).  A handler calls the controller of    *)
(* PopularityContest, which may call back into this handler and others     *)
(* (NotifyClient) before the thread takes its next event; those calls are  *)
(* steps of their own here, with the loop waiting for them.                *)
(*                                                                         *)
(* Each request has one handler with two state machines, that of the       *)
(* stream and that of the operation.  A message that does not fit them is  *)
(* an error of the client; the client of RpcClient sends none              *)
(* (RpcConsistent), so the branches that answer ABORTED are left out.     *)
(***************************************************************************)
EXTENDS PopularityContest, GrpcStream

CONSTANT Server          \* the thread of the event loop
ASSUME ServerAssumption == Server \in Threads

VARIABLES
  rpc_state,            \* RpcHandler::state_
  handler_state,        \* RequestResultRpcHandler::state_
  failing               \* the handler in HandleOperationFailed, or None

handlerVars == <<rpc_state, handler_state, failing>>
serverVars == <<vars, handlerVars>>

ServerInit ==
  /\ Init
  /\ rpc_state = [c \in Callbacks |-> "init"]
  /\ handler_state = [c \in Callbacks |-> "init"]
  /\ failing = None

\* MainLoop waits for an event.
LoopReady == Idle(Server) /\ failing = None

\* The next call is accepted, and its first message is read.
InitDone(c) ==
  /\ LoopReady
  /\ rpc_state[c] = "init" /\ Arrives(c)
  /\ rpc_state' = [rpc_state EXCEPT ![c] = "first_read"]
  /\ UNCHANGED <<vars, handler_state, failing, streamVars>>

\* The first ReadDone: HandleRequest in state INIT.
HandleClientRequest(c) ==
  /\ LoopReady
  /\ rpc_state[c] = "first_read" /\ up[c] # <<>>
  /\ rpc_state' = [rpc_state EXCEPT ![c] = "running"]
  /\ handler_state' = [handler_state EXCEPT ![c] = "waiting"]
  /\ up' = Received(up, c)
  /\ \/ ScheduleRejectedQueueFull(Server, c)
     \/ ScheduleRejectedInProgress(Server, c)
     \/ ScheduleQueued(Server, c)
  /\ UNCHANGED <<failing, link, down>>

\* A later ReadDone, in state OPERATION_RUNNING, and Finish.
HandleClientResult(c) ==
  /\ LoopReady
  /\ rpc_state[c] = "running" /\ handler_state[c] = "operation" /\ up[c] # <<>>
  /\ IF Head(up[c]) = "success"
     THEN NotifyRewriteComplete(Server, c)
     ELSE NotifyRewriteFailed(Server, c)
  /\ up' = Received(up, c)
  /\ rpc_state' = [rpc_state EXCEPT ![c] = "finished"]
  /\ handler_state' = [handler_state EXCEPT ![c] = "done"]
  /\ link' = FinishedIn(c)
  /\ UNCHANGED <<failing, down>>

\* Mutant of HandleError: the controller is not told.
HandleErrorSilently(c) ==
  /\ handler_state' = [handler_state EXCEPT ![c] = "done"]
  /\ UNCHANGED vars
HandleError(c) ==
  /\ IF handler_state[c] = "operation"
     THEN NotifyRewriteFailed(Server, c)
     ELSE UNCHANGED vars
  /\ handler_state' = [handler_state EXCEPT ![c] = "done"]

\* A Read or a Write failed: CallHandleError.
ClientIsGone(c) ==
  /\ LoopReady
  /\ link[c] = "broken"
  /\ \/ rpc_state[c] = "running" /\ HandleError(c)
     \/ rpc_state[c] = "first_read" /\ UNCHANGED <<vars, handler_state>>
  /\ rpc_state' = [rpc_state EXCEPT ![c] = "finished"]
  /\ up' = [up EXCEPT ![c] = <<>>]
  /\ UNCHANGED <<failing, link, down>>

-----------------------------------------------------------------------------
(* NotifyClientCallback.                                                   *)

\* IsClientWriteable: a handler writes once, so no write is ever outstanding.
Writeable(c) == rpc_state[c] \in {"first_read", "running"}
Write(c, message) == Writeable(c) /\ down' = Send(down, c, message)

\* NotifyClient(false).
Denied ==
  LET c == toCancel[Server]
  IN  /\ CallCancel(Server)
      /\ \/ /\ handler_state[c] = "waiting"
            /\ Write(c, "deny")
            /\ rpc_state' = [rpc_state EXCEPT ![c] = "finished"]
            /\ handler_state' = [handler_state EXCEPT ![c] = "done"]
            /\ link' = FinishedIn(c)
         \/ /\ handler_state[c] # "waiting"
            /\ UNCHANGED <<rpc_state, handler_state, down, link>>
      /\ UNCHANGED <<failing, up>>

Failing(c) == IF handler_state[c] # "waiting" THEN c ELSE None

\* NotifyClient(true).  When the client has gone meanwhile the controller is told.
Granted ==
  LET c == toRun[Server]
  IN  /\ CallRun(Server)
      /\ \/ /\ handler_state[c] = "waiting"
            /\ Write(c, "proceed")
            /\ handler_state' = [handler_state EXCEPT ![c] = "operation"]
         \/ /\ handler_state[c] # "waiting"
            /\ UNCHANGED <<handler_state, down>>
      /\ failing' = Failing(c)
      /\ UNCHANGED <<rpc_state, link, up>>

HandleOperationFailed ==
  /\ failing # None
  /\ NotifyRewriteFailed(Server, failing)
  /\ failing' = None
  /\ UNCHANGED <<rpc_state, handler_state, streamVars>>

LoopStep ==
  \/ \E c \in Callbacks :
       \/ InitDone(c) \/ HandleClientRequest(c) \/ HandleClientResult(c)
       \/ ClientIsGone(c)
  \/ Denied \/ Granted \/ HandleOperationFailed

\* A new PopularityContestScheduleRewriteController.
ControllerStartsAnew ==
  /\ state' = [k \in Keys |-> "ABSENT"] /\ callback' = [k \in Keys |-> None]
  /\ saved_priority' = [k \in Keys |-> 0] /\ queue' = [k \in Keys |-> 0]
  /\ retry_queue' = [k \in Keys |-> None] /\ running_rewrites' = 0
  /\ toCancel' = [t \in Threads |-> None] /\ toRun' = [t \in Threads |-> None]
  /\ requests' = [k \in Keys |-> 0]
  /\ UNCHANGED now

\* The process dies and is started again by the babysitter: streams break, the
\* controller forgets everything.
ServerRestarts ==
  LET unseen == {c \in Callbacks : rpc_state[c] = "init" /\ link[c] \in {"none", "opening"}}
      opening == {c \in Callbacks : link[c] = "opening"}
  IN  /\ ControllerStartsAnew
      /\ client' = [c \in Callbacks |-> IF c \in unseen THEN "new" ELSE "done"]
      /\ \E refused \in SUBSET opening :
           /\ link' = BrokenIn((Callbacks \ opening) \cup refused)
           /\ rpc_state' = [c \in Callbacks |->
                IF c \in unseen \ refused THEN "init" ELSE "finished"]
           /\ handler_state' = [c \in Callbacks |->
                IF c \in unseen \ refused THEN "init" ELSE "done"]
      /\ failing' = None
      /\ UNCHANGED <<up, down>>
=============================================================================
