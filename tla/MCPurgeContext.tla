---------------------------- MODULE MCPurgeContext ----------------------------
(* Two processes, two requests in one and one in the other.                  *)
EXTENDS PurgeContext, TLC

CONSTANTS p1, p2, r1, r2, r3, k1
MCHashOf == (p1 :> k1) @@ (p2 :> k1)
MCBase == (k1 :> 0)
MCProcOf == (r1 :> p1) @@ (r2 :> p1) @@ (r3 :> p2)
\* A second failure of the file comes alone: without a theft, a kill or a poll that
\* nobody signalled.
SecondFailureAlone == failed = 2 => ~stolen /\ killed = {} /\ polls = 0
Symmetry == Permutations({r1, r2})
=============================================================================
