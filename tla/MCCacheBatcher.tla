--------------------------- MODULE MCCacheBatcher ---------------------------
(* Six gets over three keys: some join a lookup in flight, some the queue,   *)
(* the last to come finds it full.  Three gets of one key fill it too: then  *)
(* the fourth gets a lookup of its own if a group is free.                   *)
EXTENDS CacheBatcher, TLC

CONSTANTS k1, k2, k3, c1, c2, c3, c4, c5, c6

MCKeyOf == c1 :> k1 @@ c2 :> k1 @@ c3 :> k1 @@ c4 :> k1 @@ c5 :> k2 @@ c6 :> k3
=============================================================================
