------------------------- MODULE MCQueuedWorkerPool -------------------------
(* Two sequences for one or two workers, so that sequences queue, and three   *)
(* functions, so that one of them can be added at any moment of another.      *)
EXTENDS QueuedWorkerPool, TLC

Symmetric == Permutations(Functions) \cup Permutations(Clients)
             \cup Permutations(Workers) \cup Permutations(Seqs)
=============================================================================
