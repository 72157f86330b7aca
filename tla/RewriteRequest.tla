--------------------------- MODULE RewriteRequest ----------------------------
(***************************************************************************)
(* One use of a RewriteDriver from the server giving it out to the server  *)
(* getting it back: for an HTML request (HtmlRewrite) or for the fetch of  *)
(* a resource (FetchRewrite), with the driver's own waiting, purging and   *)
(* shutdown (RewriteDriver).                                               *)
(***************************************************************************)
EXTENDS HtmlRewrite, FetchRewrite

vars == <<driverVars, htmlVars, fetchVars>>

Init ==
  /\ DriverInit /\ HtmlIdle /\ FetchIdle
  /\ can_rewrite_resources = FALSE
  /\ \/ html = "start" /\ fetch = "unused"
     \/ html = "unused" /\ fetch = "start"

\* The server's shutdown waits for a driver that no HTML thread waits for: a driver
\* has one waiter (CheckForCompletionAsync).
ServerShutsDown == html \in {"unused", "finished"} /\ ShutDownDrivers

DriverNext == Waits \/ Releases \/ ShutsDown

Progress ==
  \/ fetch = "unused" /\ HtmlNext /\ UNCHANGED fetchVars
  \/ html = "unused" /\ FetchNext /\ UNCHANGED htmlVars
  \/ DriverNext /\ UNCHANGED <<htmlVars, fetchVars>>
Next == Progress \/ (ServerShutsDown /\ UNCHANGED <<htmlVars, fetchVars>>)

\* The threads and what they wait for go on; a shutdown need not come.
Spec == Init /\ [][Next]_vars /\ WF_vars(Progress)

-----------------------------------------------------------------------------
(* When the server has the driver back nothing of the request is left, as  *)
(* RewriteDriver::Clear checks: no context, no task but the second half of *)
(* an alarm that was cancelled, no reference.                              *)
NothingLeft ==
  recycled = 1 =>
    /\ Total(refs) = 0 /\ releasing = 0 /\ waiting = "no"
    /\ html \in {"unused", "finished"} /\ fetch \in {"unused", "over"}
    /\ \A i \in DOMAIN tasks : tasks[i] = <<"SequencePortionOfRun">> /\ canceled
    /\ html = "finished" => \A c \in Contexts : phase[c] = "deleted"
    /\ initiated = {} /\ detached = {} /\ rewrites = <<>> /\ retiring = <<>> /\ locked = {}
    /\ possibly_quick_rewrites = 0
    /\ \A k \in Keys : primary[k] = None

GivenBackOnce == recycled <= 1 /\ NothingLeft

(* The driver stays while there is work for it, and goes back to the       *)
(* server once, when there is none.                                        *)
DriverKept == WorkKeepsDriver /\ GivenBackOnce

(* Every request ends: the page is sent or the fetch answered, the wait of *)
(* a shutdown returns, and the driver goes back to the server, or to the   *)
(* list the server deletes after its shutdown.                             *)
RequestEnds ==
  <>[]/\ html = "finished" \/ answered = 1
      /\ recycled = 1 \/ deferred
      /\ shutdown \in {"no", "over"}
==============================================================================
