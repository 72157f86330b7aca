-------------------------- MODULE MCRateController --------------------------
(* Four fetches from one host, one of them user-facing and so above the      *)
(* limit, and one from another that shares the global queue.                 *)
EXTENDS RateController, TLC

CONSTANTS a, b, f1, f2, f3, f4, f5

MCHostOf == f1 :> a @@ f2 :> a @@ f3 :> a @@ f4 :> a @@ f5 :> b
=============================================================================
