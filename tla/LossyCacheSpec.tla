--------------------------- MODULE LossyCacheSpec ---------------------------
(***************************************************************************)
(* What a CacheInterface promises to processes that share it: a key may be *)
(* forgotten at any time, but a lookup either misses or answers with one   *)
(* whole value, the one stored for that key when it was looked up, and     *)
(* only a put that is still running may give a key a value.                *)
(***************************************************************************)
CONSTANTS Keys, Procs,
          Stored(_),    \* the values a key may be given
          Nothing       \* no value, no put, no lookup

VARIABLES store,        \* the value of each key, or Nothing
          putting,      \* the <<key, value>> each process is storing
          fetched       \* the <<key, value>> each process was answered with

vars == <<store, putting, fetched>>

Init ==
  /\ store = [k \in Keys |-> Nothing]
  /\ putting = [p \in Procs |-> Nothing]
  /\ fetched = [p \in Procs |-> Nothing]

Forgotten(K) == [k \in Keys |-> IF k \in K THEN Nothing ELSE store[k]]

\* A delete, an eviction, or what making room for a put displaces.
Forget ==
  /\ \E K \in SUBSET Keys : store' = Forgotten(K)
  /\ UNCHANGED <<putting, fetched>>

Put(p, k, v) ==
  /\ putting[p] = Nothing
  /\ putting' = [putting EXCEPT ![p] = <<k, v>>]
  /\ \E K \in SUBSET Keys : k \in K /\ store' = Forgotten(K)
  /\ UNCHANGED fetched

\* The put takes effect.
Commit(p) ==
  /\ putting[p] # Nothing
  /\ store' = [store EXCEPT ![putting[p][1]] = putting[p][2]]
  /\ putting' = [putting EXCEPT ![p] = Nothing]
  /\ UNCHANGED fetched

\* The put is dropped.
Abandon(p) ==
  /\ putting[p] # Nothing
  /\ putting' = [putting EXCEPT ![p] = Nothing]
  /\ \E K \in SUBSET Keys : store' = Forgotten(K)
  /\ UNCHANGED fetched

Fetch(p, k) ==
  /\ fetched[p] = Nothing /\ store[k] # Nothing
  /\ fetched' = [fetched EXCEPT ![p] = <<k, store[k]>>]
  /\ UNCHANGED <<store, putting>>

Return(p) ==
  /\ fetched[p] # Nothing
  /\ fetched' = [fetched EXCEPT ![p] = Nothing]
  /\ UNCHANGED <<store, putting>>

Next ==
  \/ Forget
  \/ \E p \in Procs : \/ Commit(p) \/ Abandon(p) \/ Return(p)
                      \/ \E k \in Keys : \/ Fetch(p, k)
                                         \/ \E v \in Stored(k) : Put(p, k, v)

Spec == Init /\ [][Next]_vars
=============================================================================
