-------------------------- MODULE SharedMemLockProofs --------------------------
(***************************************************************************)
(* For any number of locks, hashes and slots: no hash ever has two slots,  *)
(* and at most one lock object has a claim to the slot of a hash.          *)
(*                                                                         *)
(* Only times of acquisition tell owners apart, so the invariant bounds    *)
(* them: none is later than the time a lock taken now would get, and a     *)
(* lock object that has that very time still holds its slot (Fresh), which *)
(* is too young to be stolen.  So the time given to a thief is not that of *)
(* anybody who lost the slot.                                              *)
(*                                                                         *)
(* The lemmas say what each critical section of the bucket does to the     *)
(* invariant and to the slots each lock object owns; the proofs about      *)
(* components that use locks start from them.                              *)
(***************************************************************************)
EXTENDS SharedMemLock, FiniteSetTheorems, TLAPS

Times ==
  /\ \A s \in Slots : slots[s].acquired_at_ms <= Stamp
  /\ \A l \in Locks : acquisition_time[l] <= Stamp
Fresh == \A l \in Locks : acquisition_time[l] = Stamp => OwnSlots(l) # {}
OneClaim ==
  \A l, m \in Locks :
    HashOf[l] = HashOf[m] /\ OwnSlots(l) # {} /\ OwnSlots(m) # {} => l = m

BucketInv == LockTypeOK /\ OneSlotPerHash /\ Times /\ Fresh /\ OneClaim

-----------------------------------------------------------------------------
\* The stamp of an acquisition is never the mark of a free slot, and time does
\* not take it back.
LEMMA StampIsPositive ==
  ASSUME LockTypeOK
  PROVE  /\ Stamp \in Nat \ {0}
         /\ Tick => Stamp' \in Nat /\ Stamp' >= Stamp
BY DEF LockTypeOK, Stamp, Tick, kNotAcquired

\* A slot that has the hash is found as the first of those that have it.
LEMMA FirstOfOne ==
  ASSUME NEW h \in Hashes, NEW s \in Slots, Matching(h) = {s}
  PROVE  FirstOf(h, Matching(h)) = s
<1>1. (s - Base[h]) % NumSlots <= (s - Base[h]) % NumSlots
  <2>1. NumSlots \in Nat /\ NumSlots > 0 /\ s - Base[h] \in Int
    BY SlotsAssumption DEF Slots
  <2> QED BY <2>1
<1> QED BY <1>1 DEF FirstOf

\* The slot TryLock takes is free or old; it is the only one of its hash, if
\* there is one, and no other lock object holds it unless it is stolen.
LEMMA CandidateFacts ==
  ASSUME BucketInv, NEW l \in Locks, NEW steal \in BOOLEAN,
         NEW s \in Candidates(l, steal)
  PROVE  /\ s \in Slots
         /\ Free(s) \/ (steal /\ OldEnough(s))
         /\ Matching(HashOf[l]) \subseteq {s}
         /\ slots[s].hash # HashOf[l] => Free(s) /\ Matching(HashOf[l]) = {}
<1> DEFINE h == HashOf[l]
<1>1. h \in Hashes
  BY LocksAssumption
<1>2. CASE Matching(h) # {}
  <2>1. PICK t \in Slots : t \in Matching(h)
    BY <1>2 DEF Matching
  <2>2. Matching(h) = {t}
    BY <1>1, <2>1 DEF BucketInv, OneSlotPerHash
  <2>3. FirstOf(h, Matching(h)) = t
    BY <1>1, <2>2, FirstOfOne
  <2>4. s = t /\ (Free(s) \/ (steal /\ OldEnough(s)))
    BY <1>2, <2>3 DEF Candidates
  <2> QED BY <2>1, <2>2, <2>4 DEF Matching
<1>3. CASE Matching(h) = {}
  BY <1>3 DEF Candidates
<1> QED BY <1>2, <1>3

\* A slot is taken: the lock object owns it, whoever had a claim to the hash
\* has none now, which is so before unless the slot was stolen, and the claims
\* to other hashes stay.
LEMMA TakesSlot ==
  ASSUME BucketInv, NEW l \in Locks, NEW steal \in BOOLEAN,
         NEW s \in Candidates(l, steal), DoLockSlot(l, s)
  PROVE  /\ BucketInv'
         /\ OwnSlots(l)' = {s}
         /\ \A m \in Locks \ {l} : HashOf[m] = HashOf[l] => OwnSlots(m)' = {}
         /\ \A m \in Locks : HashOf[m] # HashOf[l] => OwnSlots(m)' = OwnSlots(m)
         /\ \A m \in Locks :
              HashOf[m] = HashOf[l] /\ OwnSlots(m) # {} =>
                steal /\ s \in Matching(HashOf[l]) /\ ~Free(s)
<1> DEFINE h == HashOf[l]
<1>1. h \in Hashes /\ LockTypeOK /\ Stamp \in Nat /\ Stamp # 0 /\ Stamp' = Stamp
  BY LocksAssumption, StampIsPositive DEF BucketInv, DoLockSlot, Stamp
<1>2. /\ s \in Slots
      /\ Free(s) \/ (steal /\ OldEnough(s))
      /\ Matching(h) \subseteq {s}
      /\ slots[s].hash # h => Free(s) /\ Matching(h) = {}
  BY CandidateFacts
<1>3. slots[s].acquired_at_ms # Stamp
  BY <1>1, <1>2, StealAssumption DEF Free, OldEnough, kNotAcquired, LockTypeOK
<1>4. /\ \A t \in Slots \ {s} : slots'[t] = slots[t]
      /\ slots'[s] = [hash |-> h, acquired_at_ms |-> Stamp]
      /\ \A m \in Locks \ {l} : acquisition_time'[m] = acquisition_time[m]
      /\ acquisition_time'[l] = Stamp
      /\ now' = now
  BY <1>1, <1>2 DEF DoLockSlot, LockTypeOK
<1>5. LockTypeOK'
  BY <1>1, <1>2 DEF DoLockSlot, LockTypeOK
<1>6. Matching(h)' = {s}
  BY <1>2, <1>4 DEF Matching
<1>7. \A g \in Hashes : g # h => Matching(g)' = Matching(g) \ {s}
  BY <1>2, <1>4 DEF Matching
<1>8. OwnSlots(l)' = {s}
  BY <1>1, <1>4, <1>6 DEF OwnSlots, kNotAcquired
<1>9. ASSUME NEW m \in Locks \ {l}, HashOf[m] = h
      PROVE  OwnSlots(m)' = {}
  <2>1. SUFFICES ASSUME acquisition_time[m] = Stamp PROVE FALSE
    BY <1>4, <1>6, <1>9 DEF OwnSlots
  <2>2. PICK t \in Slots : t \in Matching(h) /\ slots[t].acquired_at_ms = Stamp
    BY <1>9, <2>1 DEF BucketInv, Fresh, OwnSlots, Matching
  <2> QED BY <1>2, <1>3, <2>2
<1>10. ASSUME NEW m \in Locks, HashOf[m] # h
       PROVE  OwnSlots(m)' = OwnSlots(m)
  <2>1. m # l /\ HashOf[m] \in Hashes
    BY <1>10, LocksAssumption
  <2>2. s \notin OwnSlots(m)
    <3>1. s \in OwnSlots(m) => slots[s].hash # h /\ ~Free(s)
      BY <1>10 DEF OwnSlots, Matching, Free
    <3> QED BY <1>2, <3>1
  <2>3. OwnSlots(m)' = OwnSlots(m) \ {s}
    BY <1>4, <1>7, <1>10, <2>1 DEF OwnSlots, Matching
  <2> QED BY <2>2, <2>3
<1>11. ASSUME NEW m \in Locks, HashOf[m] = h, OwnSlots(m) # {}
       PROVE  steal /\ s \in Matching(h) /\ ~Free(s)
  <2>1. s \in OwnSlots(m)
    BY <1>2, <1>11 DEF OwnSlots
  <2>2. s \in Matching(h) /\ ~Free(s)
    BY <1>11, <2>1 DEF OwnSlots, Free
  <2> QED BY <1>2, <2>2
<1>12. OneSlotPerHash'
  BY <1>6, <1>7 DEF BucketInv, OneSlotPerHash
<1>13. Times'
  BY <1>1, <1>2, <1>4 DEF BucketInv, Times
<1>14. Fresh'
  <2> SUFFICES ASSUME NEW m \in Locks, acquisition_time'[m] = Stamp
               PROVE  OwnSlots(m)' # {}
    BY <1>1 DEF Fresh
  <2>1. CASE m = l
    BY <1>8, <2>1
  <2>2. CASE m # l
    <3>1. OwnSlots(m) # {}
      BY <1>4, <2>2 DEF BucketInv, Fresh
    <3>2. PICK t \in OwnSlots(m) : t \in Slots /\ slots[t].hash = HashOf[m]
                                 /\ slots[t].acquired_at_ms = Stamp
      BY <1>4, <2>2, <3>1 DEF OwnSlots, Matching
    <3>3. HashOf[m] # h
      BY <1>2, <1>3, <3>2 DEF Matching
    <3> QED BY <1>10, <3>1, <3>3
  <2> QED BY <2>1, <2>2
<1>15. OneClaim'
  <2> SUFFICES ASSUME NEW m \in Locks, NEW n \in Locks, HashOf[m] = HashOf[n],
                      OwnSlots(m)' # {}, OwnSlots(n)' # {}
               PROVE  m = n
    BY DEF OneClaim
  <2>1. CASE HashOf[m] = h
    BY <1>9, <2>1
  <2>2. CASE HashOf[m] # h
    BY <1>10, <2>2 DEF BucketInv, OneClaim
  <2> QED BY <2>1, <2>2
<1> QED
  BY <1>5, <1>8, <1>9, <1>10, <1>11, <1>12, <1>13, <1>14, <1>15 DEF BucketInv

\* Locks are given up: their claims end and nobody else's does, a thief's
\* neither.
LEMMA GivesUp ==
  ASSUME BucketInv, NEW S \in SUBSET Locks, UnlockAll(S)
  PROVE  /\ BucketInv'
         /\ \A l \in S : OwnSlots(l)' = {}
         /\ \A l \in Locks \ S : OwnSlots(l)' = OwnSlots(l)
         /\ \A s \in Slots : ~Free(s)' =>
              slots'[s] = slots[s] /\ ~Free(s) /\ \A l \in S : s \notin OwnSlots(l)
<1>1. LockTypeOK /\ Stamp \in Nat /\ Stamp # 0 /\ Stamp' = Stamp
  BY StampIsPositive DEF BucketInv, UnlockAll, Stamp
<1>2. /\ \A s \in Slots :
           /\ slots'[s].hash = slots[s].hash
           /\ IF \E l \in S : s \in OwnSlots(l)
              THEN slots'[s].acquired_at_ms = 0 ELSE slots'[s] = slots[s]
      /\ \A l \in S : acquisition_time'[l] = 0
      /\ \A l \in Locks \ S : acquisition_time'[l] = acquisition_time[l]
  BY <1>1 DEF UnlockAll, LockTypeOK, kNotAcquired
<1>3. LockTypeOK'
  <2>1. \A s \in Slots :
          [slots[s] EXCEPT !.acquired_at_ms = kNotAcquired]
            \in [hash : Hashes \cup {NoHash}, acquired_at_ms : Nat]
    BY <1>1 DEF LockTypeOK, kNotAcquired
  <2> QED BY <1>1, <2>1 DEF UnlockAll, LockTypeOK, kNotAcquired
<1>4. \A h : Matching(h)' = Matching(h)
  BY <1>2 DEF Matching
<1>5. \A l \in S : OwnSlots(l)' = {}
  BY <1>2 DEF OwnSlots, kNotAcquired
<1>6. ASSUME NEW l \in Locks \ S
      PROVE  OwnSlots(l)' = OwnSlots(l)
  <2>1. ASSUME NEW s \in OwnSlots(l)
        PROVE  s \in OwnSlots(l)'
    <3>1. ~\E m \in S : s \in OwnSlots(m)
      <4> SUFFICES ASSUME NEW m \in S, s \in OwnSlots(m) PROVE FALSE
        OBVIOUS
      <4>1. HashOf[m] = HashOf[l]
        BY <2>1 DEF OwnSlots, Matching
      <4> QED BY <1>6, <2>1, <4>1 DEF BucketInv, OneClaim
    <3> QED BY <1>2, <1>4, <1>6, <2>1, <3>1 DEF OwnSlots, Matching
  <2>2. ASSUME NEW s \in OwnSlots(l)'
        PROVE  s \in OwnSlots(l)
    <3>1. s \in Slots /\ s \in Matching(HashOf[l]) /\ acquisition_time[l] # 0
          /\ slots'[s].acquired_at_ms = acquisition_time[l]
      BY <1>2, <1>4, <1>6, <2>2 DEF OwnSlots, Matching, kNotAcquired
    <3> QED BY <1>2, <3>1 DEF OwnSlots, kNotAcquired
  <2> QED BY <2>1, <2>2
<1>7. ASSUME NEW s \in Slots, ~Free(s)'
      PROVE  slots'[s] = slots[s] /\ ~Free(s) /\ \A l \in S : s \notin OwnSlots(l)
  BY <1>2, <1>7 DEF Free, kNotAcquired
<1>8. OneSlotPerHash'
  BY <1>4 DEF BucketInv, OneSlotPerHash
<1>9. Times'
  BY <1>1, <1>2 DEF BucketInv, Times
<1>10. Fresh'
  BY <1>1, <1>2, <1>6 DEF BucketInv, Fresh
<1>11. OneClaim'
  BY <1>5, <1>6 DEF BucketInv, OneClaim
<1> QED BY <1>3, <1>5, <1>6, <1>7, <1>8, <1>9, <1>10, <1>11 DEF BucketInv

\* Time passes, or another part of the system moves.
LEMMA BucketStays ==
  ASSUME BucketInv, Tick \/ UNCHANGED lockVars
  PROVE  /\ BucketInv'
         /\ \A l \in Locks : OwnSlots(l)' = OwnSlots(l)
<1>1. LockTypeOK /\ Stamp \in Nat /\ Stamp' \in Nat /\ Stamp' >= Stamp
  BY StampIsPositive DEF BucketInv, Stamp, lockVars
<1>2. slots' = slots /\ acquisition_time' = acquisition_time
  BY DEF Tick, lockVars
<1>3. \A l \in Locks : OwnSlots(l)' = OwnSlots(l)
  BY <1>2 DEF OwnSlots, Matching
<1>4. LockTypeOK' /\ OneSlotPerHash' /\ OneClaim'
  BY <1>1, <1>2, <1>3
     DEF BucketInv, LockTypeOK, OneSlotPerHash, OneClaim, Matching, Tick, lockVars
<1>5. Times'
  BY <1>1, <1>2 DEF BucketInv, Times, LockTypeOK
<1>6. Fresh'
  <2> SUFFICES ASSUME NEW l \in Locks, acquisition_time[l] = Stamp'
               PROVE  OwnSlots(l) # {}
    BY <1>2, <1>3 DEF Fresh
  <2>1. acquisition_time[l] \in Nat /\ acquisition_time[l] <= Stamp
    BY <1>1 DEF BucketInv, Times, LockTypeOK
  <2>2. acquisition_time[l] = Stamp
    BY <1>1, <2>1
  <2> QED BY <2>2 DEF BucketInv, Fresh
<1> QED BY <1>3, <1>4, <1>5, <1>6 DEF BucketInv

\* Fresh shared memory.
LEMMA BucketInit == LockInit => BucketInv
<1> SUFFICES ASSUME LockInit PROVE BucketInv
  OBVIOUS
<1>1. LockTypeOK
  BY DEF LockInit, LockTypeOK, kNotAcquired
<1>2. \A h \in Hashes : Matching(h) = {}
  BY LocksAssumption DEF LockInit, Matching
<1>3. OneSlotPerHash
  BY <1>2 DEF OneSlotPerHash
<1>4. Times /\ Fresh /\ OneClaim
  BY <1>1, StampIsPositive
     DEF LockInit, Times, Fresh, OneClaim, OwnSlots, kNotAcquired
<1> QED BY <1>1, <1>3, <1>4 DEF BucketInv

-----------------------------------------------------------------------------
\* Whoever calls TryLock, TryLockStealOld and Unlock, in whatever order: no hash
\* has two slots in the bucket, and of the lock objects of one name at most one
\* owns a slot, so that no Unlock frees the slot of a thief.
THEOREM BucketIsSound ==
  LockSpec => [](OneSlotPerHash /\ \A h \in Hashes : \A l, m \in Owners(h) : l = m)
<1>1. LockInit => BucketInv
  BY BucketInit
<1>2. BucketInv /\ [LockNext]_lockVars => BucketInv'
  <2> SUFFICES ASSUME BucketInv, [LockNext]_lockVars PROVE BucketInv'
    OBVIOUS
  <2>1. ASSUME NEW l \in Locks, TryLock(l) PROVE BucketInv'
    BY <2>1, TakesSlot DEF TryLock
  <2>2. ASSUME NEW l \in Locks, TryLockStealOld(l) PROVE BucketInv'
    BY <2>2, TakesSlot DEF TryLockStealOld
  <2>3. ASSUME NEW l \in Locks, Unlock(l) PROVE BucketInv'
    <3>1. {l} \in SUBSET Locks /\ UnlockAll({l})
      BY <2>3 DEF Unlock
    <3> QED BY <3>1, GivesUp
  <2>4. CASE Tick \/ UNCHANGED lockVars
    BY <2>4, BucketStays
  <2> QED BY <2>1, <2>2, <2>3, <2>4 DEF LockNext
<1>3. BucketInv => OneSlotPerHash /\ \A h \in Hashes : \A l, m \in Owners(h) : l = m
  BY DEF BucketInv, OneClaim, Owners
<1> QED BY <1>1, <1>2, <1>3, PTL DEF LockSpec
=============================================================================
