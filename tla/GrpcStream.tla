----------------------------- MODULE GrpcStream -----------------------------
(***************************************************************************)
(* What the controller's client and server rely on in the gRPC library:    *)
(* one bidirectional stream per callback, in which messages are delivered   *)
(* in order and once, until the server finishes it (what it sent before    *)
(* still arrives) or it breaks (what is on its way may be lost, and both   *)
(* ends are told).  External: modelled from the calls src/ makes.          *)
(***************************************************************************)
EXTENDS ScheduleRewriteCalls, Sequences

VARIABLES
  link,                 \* "none", "opening", "open", "finished", "broken"
  up, down              \* messages on their way to the server, to the client

streamVars == <<link, up, down>>

StreamInit ==
  /\ link = [c \in Callbacks |-> "none"]
  /\ up = [c \in Callbacks |-> <<>>]
  /\ down = [c \in Callbacks |-> <<>>]

Send(box, c, message) == [box EXCEPT ![c] = Append(@, message)]
Received(box, c) == [box EXCEPT ![c] = Tail(@)]

\* The server sees a call once it is open, or may have seen it before it broke.
Arrives(c) == link[c] = "open" \/ (link[c] = "broken" /\ up[c] # <<>>)
\* A Read of the client fails only when nothing is left to read, or the stream is broken.
Ended(c) == link[c] = "broken" \/ (link[c] = "finished" /\ down[c] = <<>>)

\* TryCancel, the end of a process and a connection that is lost all do this.
BrokenIn(S) ==
  [c \in Callbacks |->
     IF c \in S /\ link[c] \in {"opening", "open"} THEN "broken" ELSE link[c]]
FinishedIn(c) == [link EXCEPT ![c] = IF @ = "open" THEN "finished" ELSE @]
=============================================================================
