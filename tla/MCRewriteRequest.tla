-------------------------- MODULE MCRewriteRequest ---------------------------
\* A page of two flush windows: c3 follows c1 and c2 on their slots; in the second
\* window c4 and c5 have the key of c1.
EXTENDS RewriteRequest

CONSTANTS c1, c2, c3, c4, c5, k1, k2, k3

MCPage == <<<<c1, c2, c3>>, <<c4, c5>>>>
MCSuccessors == [c \in Contexts |-> IF c \in {c1, c2} THEN {c3} ELSE {}]
MCKey == (c1 :> k1) @@ (c2 :> k2) @@ (c3 :> k3) @@ (c4 :> k1) @@ (c5 :> k1)
==============================================================================
