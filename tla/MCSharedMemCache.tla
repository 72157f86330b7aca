-------------------------- MODULE MCSharedMemCache --------------------------
(* Two hashes that collide in both entries of a sector of three blocks, and  *)
(* values of one and two blocks: a second value evicts, shrinks or finds no  *)
(* room, and a reader needs two copies that a writer could come between.     *)
EXTENDS SharedMemCache

CONSTANTS k1, k2, e1, e2, short, long

MCPosition == k1 :> <<e1, e2>> @@ k2 :> <<e2, e1>>
MCSize == short :> 1 @@ long :> 2
=============================================================================
