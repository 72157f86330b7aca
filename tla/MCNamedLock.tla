----------------------------- MODULE MCNamedLock -----------------------------
(* Two processes; two keys of one bucket with two slots or one, so that it   *)
(* overflows; one key is asked for by both processes.                        *)
EXTENDS NamedLockScheduleRewrite, TLC

CONSTANTS c1, c2, c3, c4, p1, p2, k1, k2

MCKeyOf == c1 :> k1 @@ c2 :> k1 @@ c3 :> k1 @@ c4 :> k2
MCProcOf == c1 :> p1 @@ c2 :> p1 @@ c3 :> p2 @@ c4 :> p2
Symmetric == Permutations({c1, c2})
MCBase == k1 :> 0 @@ k2 :> 0
=============================================================================
