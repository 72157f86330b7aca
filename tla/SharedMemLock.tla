---------------------------- MODULE SharedMemLock ----------------------------
(***************************************************************************)
(* One bucket of SharedMemLockManager (pagespeed/kernel/sharedmem): slots  *)
(* in shared memory, each with the hash of a lock and the time at which it *)
(* was acquired, under a mutex of the bucket.  A lock object remembers the *)
(* time of its own acquisition; that time is all that tells a holder from  *)
(* the thief that took an old lock from it.                                *)
(*                                                                         *)
(* Each operation is one critical section, hence one action.  Components   *)
(* that use locks extend this module and say who calls what, and when.     *)
(***************************************************************************)
EXTENDS Integers

CONSTANTS Locks,      \* SharedMemLock objects
          Hashes,     \* the hashes of names that fall into the bucket
          HashOf,     \* the hash of the name of each lock object
          NumSlots,   \* kSlotsPerBucket
          Base,       \* hash % kSlotsPerBucket
          StealMs,    \* age at which callers may steal a lock
          NoHash      \* what fresh shared memory holds

ASSUME LocksAssumption == HashOf \in [Locks -> Hashes] /\ NoHash \notin Hashes
ASSUME SlotsAssumption ==
  /\ NumSlots \in Nat \ {0}
  /\ Base \in [Hashes -> 0..(NumSlots - 1)]
ASSUME StealAssumption == StealMs \in Nat \ {0}

VARIABLES
  slots,             \* bucket_->slots
  acquisition_time,  \* of each lock object
  now                \* timer()->NowMs()

lockVars == <<slots, acquisition_time, now>>

Slots == 0..(NumSlots - 1)
kNotAcquired == 0

LockInit ==
  /\ slots = [s \in Slots |-> [hash |-> NoHash, acquired_at_ms |-> kNotAcquired]]
  /\ acquisition_time = [l \in Locks |-> kNotAcquired]
  /\ now = 0

\* Time 0 is taken by "not acquired".
Stamp == IF now = kNotAcquired THEN now + 1 ELSE now

Free(s) == slots[s].acquired_at_ms = kNotAcquired
Matching(h) == {s \in Slots : slots[s].hash = h}

\* The search starts at a position that depends on the hash.
FirstOf(h, S) ==
  CHOOSE s \in S : \A t \in S : (s - Base[h]) % NumSlots <= (t - Base[h]) % NumSlots

OldEnough(s) == Stamp - slots[s].acquired_at_ms >= StealMs

\* Mutant of Candidates: it takes a free slot before it has looked further for
\* a slot of its own hash.
CandidatesFirstFree(l, steal) ==
  LET h == HashOf[l]
      usable == {s \in Slots : Free(s) \/ (slots[s].hash = h /\ steal /\ OldEnough(s))}
  IN  IF usable = {} THEN {} ELSE {FirstOf(h, usable)}
\* The slot TryLockImpl would take, in a set that is empty when it fails: the
\* slot that has the hash already, if there is one, must be free or old; only
\* when there is none is a free slot taken.
Candidates(l, steal) ==
  LET h == HashOf[l]
  IN  IF Matching(h) # {}
      THEN {s \in {FirstOf(h, Matching(h))} : Free(s) \/ (steal /\ OldEnough(s))}
      ELSE {s \in Slots : Free(s) /\ s = FirstOf(h, {t \in Slots : Free(t)})}

DoLockSlot(l, s) ==
  /\ slots' = [slots EXCEPT ![s] = [hash |-> HashOf[l], acquired_at_ms |-> Stamp]]
  /\ acquisition_time' = [acquisition_time EXCEPT ![l] = Stamp]
  /\ UNCHANGED now

TryLock(l) == \E s \in Candidates(l, FALSE) : DoLockSlot(l, s)
TryLockFails(l) == Candidates(l, FALSE) = {} /\ UNCHANGED lockVars
TryLockStealOld(l) == \E s \in Candidates(l, TRUE) : DoLockSlot(l, s)
TryLockStealOldFails(l) == Candidates(l, TRUE) = {} /\ UNCHANGED lockVars

\* Mutant of OwnSlots: the time of acquisition is not compared.
OwnSlotsAnyTime(l) ==
  {s \in Matching(HashOf[l]) : acquisition_time[l] # kNotAcquired}
\* The slot a lock object believes it holds.
OwnSlots(l) ==
  {s \in Matching(HashOf[l]) : /\ acquisition_time[l] # kNotAcquired
                               /\ slots[s].acquired_at_ms = acquisition_time[l]}

\* Unlock, which the destructor calls too; any number of locks of different
\* owners may be given up by one step of a component.
UnlockAll(S) ==
  /\ slots' = [s \in Slots |->
                 IF \E l \in S : s \in OwnSlots(l)
                 THEN [slots[s] EXCEPT !.acquired_at_ms = kNotAcquired] ELSE slots[s]]
  /\ acquisition_time' =
       [l \in Locks |-> IF l \in S THEN kNotAcquired ELSE acquisition_time[l]]
  /\ UNCHANGED now
Unlock(l) == UnlockAll({l})

Held(l) == acquisition_time[l] # kNotAcquired

Tick == now' = now + 1 /\ UNCHANGED <<slots, acquisition_time>>

LockNext ==
  \/ \E l \in Locks : TryLock(l) \/ TryLockStealOld(l) \/ Unlock(l)
  \/ Tick

LockSpec == LockInit /\ [][LockNext]_lockVars

-----------------------------------------------------------------------------
LockTypeOK ==
  /\ slots \in [Slots -> [hash : Hashes \cup {NoHash}, acquired_at_ms : Nat]]
  /\ acquisition_time \in [Locks -> Nat]
  /\ now \in Nat

\* No hash has two slots, free or taken: TryLockImpl relies on it when it takes
\* the first slot it finds (shared_mem_lock_manager.cc:228).
OneSlotPerHash == \A h \in Hashes : \A s, t \in Matching(h) : s = t

\* The lock objects that hold a slot which nobody stole.
Owners(h) == {l \in Locks : HashOf[l] = h /\ OwnSlots(l) # {}}
=============================================================================
