------------------------- MODULE ScheduleRewriteSpec -------------------------
(***************************************************************************)
(* What a ScheduleRewriteController promises its clients, whatever policy  *)
(* it uses to choose among them (schedule_rewrite_controller.h): a client  *)
(* hands over one callback for one key; it is run or cancelled, never both *)
(* and never twice; of the callbacks of one key at most one is being       *)
(* worked on; and no more than MaxRunning keys are worked on together.     *)
(***************************************************************************)
EXTENDS FiniteSets, Integers

CONSTANTS Callbacks,   \* the Function objects clients pass to ScheduleRewrite
          KeyOf,       \* the key each of them is scheduled for
          MaxRunning   \* limit on the rewrites in progress

VARIABLE client        \* what its client knows of each callback

ClientStates == {"new", "waiting", "running", "cancelled", "done"}

Running == {c \in Callbacks : client[c] = "running"}

Init == client = [c \in Callbacks |-> "new"]

Request(c) ==
  /\ client[c] = "new"
  /\ client' = [client EXCEPT ![c] = "waiting"]

Cancel(c) ==
  /\ client[c] = "waiting"
  /\ client' = [client EXCEPT ![c] = "cancelled"]

Run(c) ==
  /\ client[c] = "waiting"
  /\ \A d \in Running : KeyOf[d] # KeyOf[c]
  /\ Cardinality(Running) < MaxRunning
  /\ client' = [client EXCEPT ![c] = "running"]

\* NotifyRewriteComplete or NotifyRewriteFailed.
Finish(c) ==
  /\ client[c] = "running"
  /\ client' = [client EXCEPT ![c] = "done"]

Next == \E c \in Callbacks : Request(c) \/ Cancel(c) \/ Run(c) \/ Finish(c)

SafeSpec == Init /\ [][Next]_client

\* Every callback handed over is eventually run or cancelled.
Spec == SafeSpec /\ \A c \in Callbacks : WF_client(Cancel(c) \/ Run(c))
=============================================================================
