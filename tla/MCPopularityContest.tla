------------------------ MODULE MCPopularityContest ------------------------
(* Six callbacks over four keys: three for one key, so that a request can    *)
(* displace one, meet a running one, or revive a failed one; a table of      *)
(* three, so that two keys can wait for the slot of a third, and be full.    *)
EXTENDS PopularityContest, TLC

CONSTANTS k1, k2, k3, k4, c1, c2, c3, c4, c5, c6, t1, t2

MCKeyOf == c1 :> k1 @@ c2 :> k1 @@ c3 :> k2 @@ c4 :> k3 @@ c5 :> k4 @@ c6 :> k1
=============================================================================
