--------------------------- MODULE MCRequestThread ---------------------------
(* A request thread, a worker, a user of the scheduler and the scheduler's   *)
(* own thread; two alarms of users, two waits of the request thread at a     *)
(* time, two functions.                                                      *)
EXTENDS RequestThread, TLC

CONSTANTS r, w, u, s, a1, a2, b1, b2, f1, f2
MCThreads == {r, w, u, s}
MCAlarms == {a1, a2, b1, b2}
Symmetry == Permutations({a1, a2}) \cup Permutations({f1, f2})
=============================================================================
