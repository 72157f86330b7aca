------------------------ MODULE MCScheduleRewriteRpc ------------------------
(* A worker process with three requests, two of them for one key.  The      *)
(* third at a time is one too many for it.                                  *)
EXTENDS ScheduleRewriteRpc, TLC

CONSTANTS c1, c2, c3, k1, k2, p1

MCKeyOf == (c1 :> k1) @@ (c2 :> k2) @@ (c3 :> k1)
MCProcOf == [c \in {c1, c2, c3} |-> p1]
=============================================================================
