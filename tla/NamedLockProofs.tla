---------------------------- MODULE NamedLockProofs ----------------------------
(***************************************************************************)
(* For any number of processes, callbacks, keys and slots, with locks      *)
(* stolen, processes shut down and killed at any moment: the invariants of *)
(* NamedLockScheduleRewrite.                                               *)
(*                                                                         *)
(* The inductive invariant has a part for each relation that the argument  *)
(* needs: what a LockInfo counts (Counted), whose lock is where (Placed),  *)
(* what an ended process leaves (Ended), how callbacks were called         *)
(* (Answered), which locks own a slot as long as nobody stole (Owning),    *)
(* and who will free a slot that is taken (Accounted).  Each part is a     *)
(* lemma of its own, with a step per action.                               *)
(***************************************************************************)
EXTENDS NamedLockScheduleRewrite, SharedMemLockProofs

Waits == {"trying", "stealing", "obtained", "failed"}
Pins == {"unlock", "unpin"}
At(p, k, S) == {c \in Callbacks : ProcOf[c] = p /\ KeyOf[c] = k /\ pc[c] \in S}
InfoOf(p, k) == IF locks[p][k] = Null THEN FreshInfo ELSE locks[p][k]
Unused(info) ==
  info.lock = Null /\ info.pin_count <= 0 /\ info.pending_callbacks = {}

Typed ==
  /\ locks \in [Procs -> [Keys -> {Null} \cup LockInfos]]
  /\ phase \in [Procs -> {"up", "down", "gone", "killed"}]
  /\ to_cancel \in [Procs -> SUBSET Callbacks]
  /\ pc \in [Callbacks -> {"new", "running", "over"} \cup Waits \cup Pins]
  /\ unlocking \in [Callbacks -> Callbacks \cup {Null}]
  /\ answers \in [Callbacks -> Seq({"run", "cancel"})]
  /\ stolen \subseteq Keys

\* A LockInfo counts the threads that have pinned it and knows the callbacks
\* that wait, and is in the map just as long as it is of use.
Counted ==
  \A p \in Procs, k \in Keys :
    /\ InfoOf(p, k).pin_count = Cardinality(At(p, k, Pins))
    /\ InfoOf(p, k).pending_callbacks = At(p, k, Waits)
    /\ locks[p][k] # Null => ~Unused(locks[p][k])

\* A lock in a LockInfo, or taken out of it, is one of that process and key; its
\* rewrite runs unless ShutDown came first.
Placed ==
  /\ \A p \in Procs, k \in Keys, l \in Callbacks :
       InfoOf(p, k).lock = l =>
         /\ ProcOf[l] = p /\ KeyOf[l] = k
         /\ pc[l] = "running" \/ (pc[l] = "over" /\ phase[p] # "up")
  /\ \A c \in Callbacks :
       /\ unlocking[c] # Null => /\ ProcOf[unlocking[c]] = ProcOf[c]
                                 /\ KeyOf[unlocking[c]] = KeyOf[c]
       /\ pc[c] = "unlock" => unlocking[c] # Null

Ended ==
  \A p \in Procs :
    phase[p] = "gone" =>
      /\ \A k \in Keys : locks[p][k] = Null
      /\ \A c \in Of(p) : pc[c] \in {"new", "over"}

CalledRight(c) ==
  LET cancels == c \in to_cancel[ProcOf[c]]
      waits == pc[c] \in Waits
  IN  /\ Len(answers[c]) <= 1
      /\ cancels \/ pc[c] = "new" => answers[c] = <<>>
      /\ cancels => pc[c] # "new"
      /\ waits /\ phase[ProcOf[c]] = "up" => answers[c] = <<>>
      /\ waits /\ phase[ProcOf[c]] = "down" /\ ~cancels => answers[c] # <<>>
      /\ pc[c] # "new" /\ ~waits /\ ~cancels => answers[c] # <<>>
Answered ==
  /\ \A p \in Procs : phase[p] = "up" => to_cancel[p] = {}
  /\ \A c \in Callbacks : CalledRight(c)

Lives(p) == phase[p] \in {"up", "down"}

Owning ==
  \A k \in Keys \ stolen :
    /\ \A c \in Callbacks :
         KeyOf[c] = k /\ Alive(c) =>
           /\ pc[c] \in {"obtained", "running"} => OwnSlots(c) # {}
           /\ pc[c] = "unlock" => unlocking[c] = c
    /\ \A p \in Procs, l \in Callbacks :
         Lives(p) /\ InfoOf(p, k).lock = l => OwnSlots(l) # {}

\* Somebody will free the slot that l owns, unless a kill kept him from it.
WillFree(l) ==
  \/ phase[ProcOf[l]] = "killed"
  \/ pc[l] = "obtained"
  \/ InfoOf(ProcOf[l], KeyOf[l]).lock = l
  \/ \E c \in Callbacks : pc[c] = "unlock" /\ unlocking[c] = l
Accounted ==
  \A s \in Slots : ~Free(s) => \E l \in Locks : s \in OwnSlots(l) /\ WillFree(l)

ControllerInv == Typed /\ Counted /\ Placed /\ Ended /\ Answered
IInv == BucketInv /\ ControllerInv /\ Owning /\ Accounted

-----------------------------------------------------------------------------
\* What a LockInfo is after SetInfo.
InfoBecomes(c, info) ==
  /\ locks' \in [Procs -> [Keys -> {Null} \cup LockInfos]]
  /\ InfoOf(ProcOf[c], KeyOf[c])' = info
  /\ locks'[ProcOf[c]][KeyOf[c]] # Null => ~Unused(locks'[ProcOf[c]][KeyOf[c]])
  /\ \A p \in Procs, k \in Keys :
       p # ProcOf[c] \/ k # KeyOf[c] =>
         locks'[p][k] = locks[p][k] /\ InfoOf(p, k)' = InfoOf(p, k)

\* Every callback has a process and a key.
LEMMA Places ==
  ASSUME NEW c \in Callbacks
  PROVE  ProcOf[c] \in Procs /\ KeyOf[c] \in Keys
BY ProcsAssumption, LocksAssumption DEF Callbacks, Keys, KeyOf

LEMMA InfoTyped ==
  ASSUME Typed, NEW p \in Procs, NEW k \in Keys
  PROVE  /\ InfoOf(p, k) \in LockInfos
         /\ InfoOf(p, k).lock \in Callbacks \cup {Null}
         /\ InfoOf(p, k).pin_count \in Nat
         /\ InfoOf(p, k).pending_callbacks \subseteq Callbacks
<1>1. InfoOf(p, k) \in LockInfos
  BY DEF Typed, InfoOf, FreshInfo, LockInfos
<1> QED BY <1>1 DEF LockInfos

LEMMA GetIsInfoOf ==
  ASSUME NEW c \in Callbacks
  PROVE  GetLockInfo(c) = InfoOf(ProcOf[c], KeyOf[c])
BY DEF GetLockInfo, Info, InfoOf

LEMMA SetsInfo ==
  ASSUME Typed, NEW c \in Callbacks, NEW info \in LockInfos, ~Unused(info),
         SetInfo(c, info)
  PROVE  InfoBecomes(c, info)
<1>1. ProcOf[c] \in Procs /\ KeyOf[c] \in Keys /\ info # Null
  BY Places, NullAssumption
<1>2. /\ locks' \in [Procs -> [Keys -> {Null} \cup LockInfos]]
      /\ locks'[ProcOf[c]][KeyOf[c]] = info
      /\ \A p \in Procs, k \in Keys :
           p # ProcOf[c] \/ k # KeyOf[c] => locks'[p][k] = locks[p][k]
  BY <1>1 DEF SetInfo, Typed
<1> QED BY <1>1, <1>2 DEF InfoBecomes, InfoOf

LEMMA SetsOrDeletesInfo ==
  ASSUME Typed, NEW c \in Callbacks, NEW info \in LockInfos,
         SetInfo(c, DeletedIfUnused(info))
  PROVE  InfoBecomes(c, info)
<1>1. CASE ~Unused(info)
  BY <1>1, SetsInfo DEF DeletedIfUnused, Unused
<1>2. CASE Unused(info)
  <2>1. ProcOf[c] \in Procs /\ KeyOf[c] \in Keys
    BY Places
  <2>2. info = FreshInfo
    BY <1>2 DEF Unused, FreshInfo, LockInfos
  <2>3. /\ locks' \in [Procs -> [Keys -> {Null} \cup LockInfos]]
        /\ locks'[ProcOf[c]][KeyOf[c]] = Null
        /\ \A p \in Procs, k \in Keys :
             p # ProcOf[c] \/ k # KeyOf[c] => locks'[p][k] = locks[p][k]
    BY <1>2, <2>1 DEF SetInfo, Typed, DeletedIfUnused, Unused
  <2> QED BY <2>1, <2>2, <2>3 DEF InfoBecomes, InfoOf
<1> QED BY <1>1, <1>2

\* The sets of threads at a place when one of them moves.
LEMMA Moves ==
  ASSUME Typed, NEW c \in Callbacks, NEW to, pc' = [pc EXCEPT ![c] = to]
  PROVE  /\ pc'[c] = to
         /\ \A d \in Callbacks \ {c} : pc'[d] = pc[d]
         /\ At(ProcOf[c], KeyOf[c], Waits)' =
              IF to \in Waits THEN At(ProcOf[c], KeyOf[c], Waits) \cup {c}
                              ELSE At(ProcOf[c], KeyOf[c], Waits) \ {c}
         /\ At(ProcOf[c], KeyOf[c], Pins)' =
              IF to \in Pins THEN At(ProcOf[c], KeyOf[c], Pins) \cup {c}
                             ELSE At(ProcOf[c], KeyOf[c], Pins) \ {c}
         /\ (pc[c] \in Waits <=> to \in Waits) =>
              At(ProcOf[c], KeyOf[c], Waits)' = At(ProcOf[c], KeyOf[c], Waits)
         /\ (pc[c] \in Pins <=> to \in Pins) =>
              At(ProcOf[c], KeyOf[c], Pins)' = At(ProcOf[c], KeyOf[c], Pins)
<1>1. pc'[c] = to /\ \A d \in Callbacks \ {c} : pc'[d] = pc[d]
  BY DEF Typed
<1> QED BY <1>1 DEF At

LEMMA WaitsAndPins ==
  /\ \A x \in {"trying", "stealing", "obtained", "failed"} : x \in Waits /\ x \notin Pins
  /\ \A x \in {"unlock", "unpin"} : x \in Pins /\ x \notin Waits
  /\ \A x \in {"new", "running", "over"} : x \notin Waits /\ x \notin Pins
BY DEF Waits, Pins

LEMMA AtFinite ==
  ASSUME NEW p, NEW k, NEW S
  PROVE  /\ IsFiniteSet(At(p, k, S))
         /\ Cardinality(At(p, k, S)) \in Nat
         /\ Cardinality(At(p, k, S)) <= Cardinality(Callbacks)
<1>1. At(p, k, S) \subseteq Callbacks
  BY DEF At
<1> QED BY <1>1, FiniteAssumption, FS_Subset, FS_CardinalityType
\* LockInfos still count what they should when one thread moves and the LockInfo
\* of its key is set accordingly.
LEMMA CountedMoves ==
  ASSUME Typed, Counted, NEW c \in Callbacks, NEW to, pc' = [pc EXCEPT ![c] = to],
         NEW info, InfoBecomes(c, info),
         info.pin_count = Cardinality(At(ProcOf[c], KeyOf[c], Pins)'),
         info.pending_callbacks = At(ProcOf[c], KeyOf[c], Waits)'
  PROVE  Counted'
<1> SUFFICES ASSUME NEW p \in Procs, NEW k \in Keys
             PROVE  /\ InfoOf(p, k)'.pin_count = Cardinality(At(p, k, Pins)')
                    /\ InfoOf(p, k)'.pending_callbacks = At(p, k, Waits)'
                    /\ locks'[p][k] # Null => ~Unused(locks'[p][k])
  BY DEF Counted
<1>1. CASE p = ProcOf[c] /\ k = KeyOf[c]
  BY <1>1 DEF InfoBecomes
<1>2. CASE p # ProcOf[c] \/ k # KeyOf[c]
  <2>1. At(p, k, Pins)' = At(p, k, Pins) /\ At(p, k, Waits)' = At(p, k, Waits)
    <3>1. \A d \in Callbacks \ {c} : pc'[d] = pc[d]
      BY Moves
    <3> QED BY <1>2, <3>1 DEF At
  <2> QED BY <1>2, <2>1 DEF InfoBecomes, Counted
<1> QED BY <1>1, <1>2

LEMMA CountedStays ==
  ASSUME Typed, Counted, NEW c \in Callbacks, NEW to, pc' = [pc EXCEPT ![c] = to],
         locks' = locks, pc[c] \in Waits <=> to \in Waits,
         pc[c] \in Pins <=> to \in Pins
  PROVE  Counted'
<1>1. \A d \in Callbacks : /\ pc'[d] \in Waits <=> pc[d] \in Waits
                           /\ pc'[d] \in Pins <=> pc[d] \in Pins
  BY Moves
<1>2. \A p, k : At(p, k, Pins)' = At(p, k, Pins) /\ At(p, k, Waits)' = At(p, k, Waits)
  BY <1>1 DEF At
<1> QED BY <1>2 DEF Counted, InfoOf

\* A thread that moves does so in a process that has not ended.
LEMMA EndedStays ==
  ASSUME Ended, NEW c \in Callbacks, Alive(c), phase' = phase,
         \A d \in Callbacks \ {c} : pc'[d] = pc[d],
         \A p \in Procs \ {ProcOf[c]} : \A k \in Keys : locks'[p][k] = locks[p][k]
  PROVE  Ended'
BY DEF Ended, Alive, Of

LEMMA Answers ==
  ASSUME Typed, NEW c \in Callbacks, NEW how \in {"run", "cancel"}, Answer(c, how)
  PROVE  /\ answers' \in [Callbacks -> Seq({"run", "cancel"})]
         /\ answers'[c] = Append(answers[c], how)
         /\ \A d \in Callbacks \ {c} : answers'[d] = answers[d]
<1>1. answers \in [Callbacks -> Seq({"run", "cancel"})]
  BY DEF Typed
<1>2. Append(answers[c], how) \in Seq({"run", "cancel"})
  BY <1>1
<1> QED BY <1>1, <1>2 DEF Answer

\* Callbacks of other threads were called as before.
LEMMA AnsweredStays ==
  ASSUME Answered, NEW c \in Callbacks, phase' = phase,
         \A d \in Callbacks \ {c} :
           /\ pc'[d] = pc[d] /\ answers'[d] = answers[d]
           /\ d \in to_cancel'[ProcOf[d]] <=> d \in to_cancel[ProcOf[d]],
         \A p \in Procs : phase[p] = "up" => to_cancel'[p] = {},
         CalledRight(c)'
  PROVE  Answered'
<1>1. ASSUME NEW d \in Callbacks \ {c} PROVE CalledRight(d)'
  BY <1>1 DEF Answered, CalledRight
<1> QED BY <1>1 DEF Answered

\* Steps that neither take nor give up a lock nor move one from hand to hand.
Firm == {"obtained", "running", "unlock"}
Quiet ==
  /\ Tick \/ UNCHANGED lockVars
  /\ \A p \in Procs, k \in Keys : InfoOf(p, k)'.lock = InfoOf(p, k).lock
  /\ stolen' = stolen
  /\ \A p \in Procs :
       /\ Lives(p)' => Lives(p)
       /\ phase[p] = "killed" => phase'[p] = "killed"
       /\ phase'[p] = "up" => phase[p] = "up"
  /\ \A c \in Callbacks :
       /\ pc[c] \in Firm \cup {"over"} => pc'[c] = pc[c]
       /\ pc'[c] \in Firm => pc[c] = pc'[c]
       /\ unlocking'[c] \in {unlocking[c], Null}
       /\ pc[c] = "unlock" => unlocking'[c] = unlocking[c]

LEMMA QuietStep ==
  ASSUME IInv, Quiet
  PROVE  BucketInv' /\ Placed' /\ Owning' /\ Accounted'
<1>1. BucketInv' /\ \A l \in Locks : OwnSlots(l)' = OwnSlots(l)
  BY BucketStays DEF IInv, Quiet
<1>2. \A p \in Procs, k \in Keys :
        /\ InfoOf(p, k)'.lock = InfoOf(p, k).lock
        /\ InfoOf(p, k).lock \in Callbacks \cup {Null}
  BY InfoTyped DEF IInv, ControllerInv, Quiet
<1>3. Placed'
  <2>1. \A p \in Procs, k \in Keys, l \in Callbacks :
          InfoOf(p, k).lock = l =>
            /\ ProcOf[l] = p /\ KeyOf[l] = k
            /\ pc'[l] = "running" \/ (pc'[l] = "over" /\ phase'[p] # "up")
    BY DEF IInv, ControllerInv, Placed, Quiet, Firm
  <2>2. \A c \in Callbacks :
          /\ unlocking'[c] # Null => /\ ProcOf[unlocking'[c]] = ProcOf[c]
                                     /\ KeyOf[unlocking'[c]] = KeyOf[c]
          /\ pc'[c] = "unlock" => unlocking'[c] # Null
    BY DEF IInv, ControllerInv, Placed, Quiet, Firm
  <2> QED BY <1>2, <2>1, <2>2 DEF Placed
<1>4. Owning'
  <2> SUFFICES ASSUME NEW k \in Keys \ stolen
               PROVE  /\ \A c \in Callbacks :
                           KeyOf[c] = k /\ Alive(c)' =>
                             /\ pc'[c] \in {"obtained", "running"} => OwnSlots(c)' # {}
                             /\ pc'[c] = "unlock" => unlocking'[c] = c
                      /\ \A p \in Procs, l \in Callbacks :
                           Lives(p)' /\ InfoOf(p, k)'.lock = l => OwnSlots(l)' # {}
    BY DEF Owning, Quiet
  <2>1. ASSUME NEW c \in Callbacks, KeyOf[c] = k, Alive(c)'
        PROVE  /\ pc'[c] \in {"obtained", "running"} => OwnSlots(c)' # {}
               /\ pc'[c] = "unlock" => unlocking'[c] = c
    <3>1. Alive(c)
      BY <2>1, Places DEF Quiet, Alive, Lives
    <3> QED BY <1>1, <2>1, <3>1 DEF IInv, Owning, Quiet, Firm, Callbacks
  <2>2. ASSUME NEW p \in Procs, NEW l \in Callbacks, Lives(p)', InfoOf(p, k)'.lock = l
        PROVE  OwnSlots(l)' # {}
    <3>1. OwnSlots(l) # {}
      BY <1>2, <2>2 DEF IInv, Owning, Quiet
    <3> QED BY <1>1, <3>1 DEF Callbacks
  <2> QED BY <2>1, <2>2
<1>5. Accounted'
  <2> SUFFICES ASSUME NEW s \in Slots, ~Free(s)'
               PROVE  \E l \in Locks : s \in OwnSlots(l)' /\ WillFree(l)'
    BY DEF Accounted
  <2>1. ~Free(s)
    BY DEF Quiet, Tick, lockVars, Free
  <2>2. PICK l \in Locks : s \in OwnSlots(l) /\ WillFree(l)
    BY <2>1 DEF IInv, Accounted
  <2>3. ProcOf[l] \in Procs /\ KeyOf[l] \in Keys
    BY Places DEF Callbacks
  <2>4. WillFree(l)'
    BY <1>2, <2>2, <2>3 DEF WillFree, Quiet, Firm, Callbacks
  <2> QED BY <1>1, <2>2, <2>4
<1> QED BY <1>1, <1>3, <1>4, <1>5
-----------------------------------------------------------------------------
LEMMA ScheduleRewriteStep ==
  ASSUME IInv, NEW c \in Callbacks, ScheduleRewrite(c)
  PROVE  IInv'
<1> DEFINE info == GetLockInfo(c)
           asked == [info EXCEPT !.pending_callbacks = @ \cup {c}]
<1>1. Typed /\ Counted /\ Placed /\ Ended /\ Answered
  BY DEF IInv, ControllerInv
<1>2. ProcOf[c] \in Procs /\ KeyOf[c] \in Keys /\ Alive(c) /\ pc[c] = "new"
  BY Places DEF ScheduleRewrite, GoesTo
<1>3. UNCHANGED <<lockVars, phase, to_cancel, unlocking, stolen>>
  BY DEF ScheduleRewrite
<1>4. info = InfoOf(ProcOf[c], KeyOf[c]) /\ info \in LockInfos
  BY <1>1, <1>2, GetIsInfoOf, InfoTyped
<1>5. CASE ~ShutDownSet(c)
  <2>1. /\ pc' = [pc EXCEPT ![c] = "trying"] /\ SetInfo(c, asked)
        /\ answers' = answers /\ phase[ProcOf[c]] = "up"
    BY <1>5 DEF ScheduleRewrite, GoesTo, ShutDownSet, Alive
  <2>2. asked \in LockInfos /\ ~Unused(asked)
    BY <1>4 DEF LockInfos, Unused
  <2>3. InfoBecomes(c, asked)
    BY <1>1, <2>1, <2>2, SetsInfo
  <2>4. /\ \A d \in Callbacks \ {c} : pc'[d] = pc[d]
        /\ pc'[c] = "trying"
        /\ At(ProcOf[c], KeyOf[c], Waits)' = At(ProcOf[c], KeyOf[c], Waits) \cup {c}
        /\ At(ProcOf[c], KeyOf[c], Pins)' = At(ProcOf[c], KeyOf[c], Pins)
    BY <1>1, <1>2, <2>1, Moves, WaitsAndPins
  <2>5. Typed'
    BY <1>1, <1>3, <2>1, <2>3 DEF Typed, InfoBecomes, Waits
  <2>6. Counted'
    <3>1. /\ asked.pin_count = Cardinality(At(ProcOf[c], KeyOf[c], Pins)')
          /\ asked.pending_callbacks = At(ProcOf[c], KeyOf[c], Waits)'
      BY <1>1, <1>2, <1>4, <2>4 DEF Counted, LockInfos
    <3> QED BY <1>1, <2>1, <2>3, <3>1, CountedMoves
  <2>7. Ended'
    BY <1>1, <1>2, <1>3, <2>3, <2>4, EndedStays DEF InfoBecomes
  <2>8. Answered'
    <3>1. CalledRight(c)'
      BY <1>1, <1>2, <1>3, <2>1, <2>4, WaitsAndPins DEF Answered, CalledRight
    <3> QED BY <1>1, <1>3, <2>1, <2>4, <3>1, AnsweredStays DEF Answered
  <2>9. Quiet
    <3>1. \A p \in Procs, k \in Keys : InfoOf(p, k)'.lock = InfoOf(p, k).lock
      BY <1>4, <2>3 DEF InfoBecomes, LockInfos
    <3> QED BY <1>2, <1>3, <2>4, <3>1 DEF Quiet, Firm, Lives
  <2> QED BY <2>5, <2>6, <2>7, <2>8, <2>9, QuietStep DEF IInv, ControllerInv
<1>6. CASE ShutDownSet(c)
  <2>1. /\ pc' = [pc EXCEPT ![c] = "over"] /\ Answer(c, "cancel") /\ locks' = locks
    BY <1>6 DEF ScheduleRewrite, GoesTo
  <2>2. pc'[c] = "over" /\ \A d \in Callbacks \ {c} : pc'[d] = pc[d]
    BY <1>1, <2>1, Moves
  <2>3. /\ answers' \in [Callbacks -> Seq({"run", "cancel"})]
        /\ answers'[c] = Append(answers[c], "cancel")
        /\ \A d \in Callbacks \ {c} : answers'[d] = answers[d]
    BY <1>1, <2>1 DEF Typed, Answer
  <2>4. Typed'
    BY <1>1, <1>3, <2>1, <2>3 DEF Typed
  <2>5. Counted'
    BY <1>1, <1>2, <2>1, CountedStays DEF Waits, Pins
  <2>6. Ended'
    BY <1>1, <1>2, <1>3, <2>1, <2>2, EndedStays
  <2>7. Answered'
    <3>1. answers[c] = <<>> /\ answers'[c] # <<>> /\ Len(answers'[c]) = 1
      BY <1>1, <1>2, <2>3 DEF Answered, CalledRight
    <3>2. CalledRight(c)'
      BY <1>1, <1>2, <1>3, <2>2, <3>1, WaitsAndPins DEF Answered, CalledRight
    <3> QED BY <1>1, <1>3, <2>2, <2>3, <3>2, AnsweredStays DEF Answered
  <2>8. Quiet
    BY <1>2, <1>3, <2>1, <2>2 DEF Quiet, Firm, Lives, InfoOf
  <2> QED BY <2>4, <2>5, <2>6, <2>7, <2>8, QuietStep DEF IInv, ControllerInv
<1> QED BY <1>5, <1>6
\* A lock is taken, free or stolen.
LEMMA TakesLock ==
  ASSUME IInv, NEW c \in Callbacks, NEW steal \in BOOLEAN,
         NEW s \in Candidates(c, steal), DoLockSlot(c, s),
         pc[c] \in {"trying", "stealing"}, Alive(c), pc' = [pc EXCEPT ![c] = "obtained"],
         stolen \subseteq stolen', stolen' \subseteq Keys,
         steal /\ s \in Matching(KeyOf[c]) /\ ~Free(s) => KeyOf[c] \in stolen',
         UNCHANGED <<locks, phase, to_cancel, unlocking, answers>>
  PROVE  IInv'
<1>1. /\ Typed /\ Counted /\ Placed /\ Ended /\ Answered
      /\ BucketInv /\ Owning /\ Accounted
  BY DEF IInv, ControllerInv
<1>2. ProcOf[c] \in Procs /\ KeyOf[c] \in Keys /\ KeyOf[c] = HashOf[c] /\ c \in Locks
  BY Places DEF KeyOf, Callbacks
<1>3. pc'[c] = "obtained" /\ \A d \in Callbacks \ {c} : pc'[d] = pc[d]
  BY <1>1, Moves
<1>4. /\ BucketInv'
      /\ OwnSlots(c)' = {s}
      /\ \A l \in Callbacks : KeyOf[l] # KeyOf[c] => OwnSlots(l)' = OwnSlots(l)
      /\ \A l \in Callbacks :
           KeyOf[l] = KeyOf[c] /\ OwnSlots(l) # {} => KeyOf[c] \in stolen'
  BY <1>1, <1>2, TakesSlot DEF KeyOf, Callbacks
<1>5. /\ s \in Slots
      /\ Matching(HashOf[c]) \subseteq {s}
      /\ \A t \in Slots \ {s} : slots'[t] = slots[t]
  BY <1>1, <1>2, CandidateFacts DEF DoLockSlot, BucketInv, LockTypeOK
<1>6. \A p \in Procs, k \in Keys : InfoOf(p, k)' = InfoOf(p, k)
  BY DEF InfoOf
<1>7. Typed'
  BY <1>1, <1>3 DEF Typed, Waits
<1>8. Counted'
  BY <1>1, WaitsAndPins, CountedStays
<1>9. Placed'
  BY <1>1, <1>3, <1>6 DEF Placed
<1>10. Ended'
  BY <1>1, <1>3, EndedStays
<1>11. Answered'
  <2>1. CalledRight(c)'
    BY <1>1, <1>3, WaitsAndPins DEF Answered, CalledRight
  <2> QED BY <1>1, <1>3, <2>1, AnsweredStays DEF Answered
<1>12. Owning'
  <2> SUFFICES ASSUME NEW k \in Keys \ stolen'
               PROVE  /\ \A d \in Callbacks :
                           KeyOf[d] = k /\ Alive(d) =>
                             /\ pc'[d] \in {"obtained", "running"} => OwnSlots(d)' # {}
                             /\ pc'[d] = "unlock" => unlocking[d] = d
                      /\ \A p \in Procs, l \in Callbacks :
                           Lives(p) /\ InfoOf(p, k).lock = l => OwnSlots(l)' # {}
    BY <1>6 DEF Owning, Lives, Alive
  <2>1. k \in Keys \ stolen
    OBVIOUS
  <2>2. ASSUME NEW d \in Callbacks, KeyOf[d] = k, Alive(d)
        PROVE  /\ pc'[d] \in {"obtained", "running"} => OwnSlots(d)' # {}
               /\ pc'[d] = "unlock" => unlocking[d] = d
    BY <1>1, <1>3, <1>4, <2>1, <2>2 DEF Owning
  <2>3. ASSUME NEW p \in Procs, NEW l \in Callbacks, Lives(p), InfoOf(p, k).lock = l
        PROVE  OwnSlots(l)' # {}
    <3>1. OwnSlots(l) # {} /\ KeyOf[l] = k
      BY <1>1, <2>1, <2>3 DEF Owning, Placed
    <3> QED BY <1>4, <3>1
  <2> QED BY <2>2, <2>3
<1>13. Accounted'
  <2> SUFFICES ASSUME NEW t \in Slots, ~Free(t)'
               PROVE  \E l \in Locks : t \in OwnSlots(l)' /\ WillFree(l)'
    BY DEF Accounted
  <2>1. CASE t = s
    BY <1>2, <1>3, <1>4, <2>1 DEF WillFree
  <2>2. CASE t # s
    <3>1. ~Free(t)
      BY <1>5, <2>2 DEF Free
    <3>2. PICK l \in Locks : t \in OwnSlots(l) /\ WillFree(l)
      BY <1>1, <3>1 DEF Accounted
    <3>3. HashOf[l] # HashOf[c]
      BY <1>5, <2>2, <3>2 DEF OwnSlots
    <3>4. l # c /\ OwnSlots(l)' = OwnSlots(l)
      BY <1>4, <3>3 DEF KeyOf, Callbacks
    <3>5. ProcOf[l] \in Procs /\ KeyOf[l] \in Keys
      BY Places DEF Callbacks
    <3>6. WillFree(l)'
      BY <1>3, <1>6, <3>2, <3>4, <3>5 DEF WillFree, Callbacks
    <3> QED BY <3>2, <3>4, <3>6
  <2> QED BY <2>1, <2>2
<1> QED
  BY <1>4, <1>7, <1>8, <1>9, <1>10, <1>11, <1>12, <1>13 DEF IInv, ControllerInv

\* The lock is not to be had.
LEMMA LockRefused ==
  ASSUME IInv, NEW c \in Callbacks, NEW to \in {"stealing", "failed"},
         pc[c] \in {"trying", "stealing"}, Alive(c), pc' = [pc EXCEPT ![c] = to],
         UNCHANGED <<lockVars, locks, phase, to_cancel, unlocking, answers, stolen>>
  PROVE  IInv'
<1>1. Typed /\ Counted /\ Placed /\ Ended /\ Answered
  BY DEF IInv, ControllerInv
<1>2. pc'[c] = to /\ \A d \in Callbacks \ {c} : pc'[d] = pc[d]
  BY <1>1, Moves
<1>3. Typed'
  BY <1>1, <1>2 DEF Typed, Waits
<1>4. Counted'
  BY <1>1, WaitsAndPins, CountedStays
<1>5. Ended'
  BY <1>1, <1>2, EndedStays
<1>6. Answered'
  <2>1. CalledRight(c)'
    BY <1>1, <1>2, WaitsAndPins DEF Answered, CalledRight
  <2> QED BY <1>1, <1>2, <2>1, AnsweredStays DEF Answered
<1>7. Quiet
  BY <1>2 DEF Quiet, Firm, Lives, InfoOf
<1> QED BY <1>3, <1>4, <1>5, <1>6, <1>7, QuietStep DEF IInv, ControllerInv

LEMMA FastPathStep ==
  ASSUME IInv, NEW c \in Callbacks, FastPath(c)
  PROVE  IInv'
<1>1. CASE TryLock(c) /\ GoesTo(c, "trying", "obtained")
  <2>1. PICK s \in Candidates(c, FALSE) : DoLockSlot(c, s)
    BY <1>1 DEF TryLock
  <2>2. stolen' = stolen /\ stolen \subseteq Keys
    BY DEF FastPath, IInv, ControllerInv, Typed
  <2> QED BY <1>1, <2>1, <2>2, TakesLock DEF FastPath, GoesTo
<1>2. CASE TryLockFails(c) /\ GoesTo(c, "trying", "stealing")
  BY <1>2, LockRefused DEF FastPath, GoesTo, TryLockFails
<1> QED BY <1>1, <1>2 DEF FastPath

LEMMA StealOldOnceStep ==
  ASSUME IInv, NEW c \in Callbacks, StealOldOnce(c)
  PROVE  IInv'
<1>1. CASE /\ TryLockStealOld(c) /\ GoesTo(c, "stealing", "obtained")
           /\ stolen' = stolen \cup {h \in {KeyOf[c]} : \E s \in Matching(h) : ~Free(s)}
  <2>1. PICK s \in Candidates(c, TRUE) : DoLockSlot(c, s)
    BY <1>1 DEF TryLockStealOld
  <2>2. stolen \subseteq stolen' /\ stolen' \subseteq Keys
    BY <1>1, Places DEF IInv, ControllerInv, Typed
  <2>3. s \in Matching(KeyOf[c]) /\ ~Free(s) => KeyOf[c] \in stolen'
    BY <1>1
  <2> QED BY <1>1, <2>1, <2>2, <2>3, TakesLock DEF StealOldOnce, GoesTo
<1>2. CASE TryLockStealOldFails(c) /\ GoesTo(c, "stealing", "failed") /\ UNCHANGED stolen
  BY <1>2, LockRefused DEF StealOldOnce, GoesTo, TryLockStealOldFails
<1> QED BY <1>1, <1>2 DEF StealOldOnce
LEMMA LockObtainedStep ==
  ASSUME IInv, NEW c \in Callbacks, LockObtained(c)
  PROVE  IInv'
<1> DEFINE P == ProcOf[c]
           K == KeyOf[c]
           info == GetLockInfo(c)
           old == info.lock
           S == {old} \ {Null}
           with == [info EXCEPT !.lock = c, !.pending_callbacks = @ \ {c}]
           to == IF ShutDownSet(c) THEN "over" ELSE "running"
<1>1. /\ Typed /\ Counted /\ Placed /\ Ended /\ Answered
      /\ BucketInv /\ Owning /\ Accounted
  BY DEF IInv, ControllerInv
<1>2. /\ P \in Procs /\ K \in Keys /\ c \in Locks
      /\ Alive(c) /\ pc[c] = "obtained" /\ pc' = [pc EXCEPT ![c] = to]
      /\ UNCHANGED <<phase, to_cancel, unlocking, stolen>>
      /\ UnlockAll(S) /\ SetInfo(c, with)
  BY Places DEF LockObtained, GoesTo, Callbacks
<1>3. /\ info = InfoOf(P, K) /\ info \in LockInfos
      /\ old \in Callbacks \cup {Null} /\ S \in SUBSET Locks
  BY <1>1, <1>2, GetIsInfoOf, InfoTyped DEF Callbacks
<1>4. pc'[c] = to /\ \A d \in Callbacks \ {c} : pc'[d] = pc[d]
  BY <1>1, <1>2, Moves
<1>5. with \in LockInfos /\ with.lock = c /\ ~Unused(with)
  BY <1>3, NullAssumption DEF LockInfos, Unused
<1>6. InfoBecomes(c, with)
  BY <1>1, <1>2, <1>5, SetsInfo
<1>7. /\ BucketInv'
      /\ \A l \in Locks \ S : OwnSlots(l)' = OwnSlots(l)
      /\ \A t \in Slots : ~Free(t)' => ~Free(t) /\ \A l \in S : t \notin OwnSlots(l)
  BY <1>1, <1>2, <1>3, GivesUp
\* A lock that was displaced had been stolen.
<1>8. old # Null => old \in Callbacks /\ KeyOf[old] = K /\ ProcOf[old] = P /\ K \in stolen
  <2> SUFFICES ASSUME old # Null
               PROVE  old \in Callbacks /\ KeyOf[old] = K /\ ProcOf[old] = P /\ K \in stolen
    OBVIOUS
  <2>1. /\ old \in Callbacks /\ KeyOf[old] = K /\ ProcOf[old] = P
        /\ pc[old] \in {"running", "over"}
    BY <1>1, <1>2, <1>3 DEF Placed
  <2>2. ASSUME K \notin stolen PROVE FALSE
    <3>1. OwnSlots(c) # {} /\ OwnSlots(old) # {}
      BY <1>1, <1>2, <1>3, <2>1, <2>2 DEF Owning, Alive, Lives
    <3>2. old = c
      BY <1>1, <1>2, <2>1, <3>1 DEF BucketInv, OneClaim, KeyOf, Callbacks
    <3> QED BY <1>2, <2>1, <3>2
  <2> QED BY <2>1, <2>2
<1>9. \A l \in Callbacks : KeyOf[l] \notin stolen => OwnSlots(l)' = OwnSlots(l)
  BY <1>7, <1>8 DEF Callbacks
<1>10. Typed'
  <2>1. answers' \in [Callbacks -> Seq({"run", "cancel"})]
    <3>1. answers' = answers \/ Answer(c, "run")
      BY DEF LockObtained
    <3> QED BY <1>1, <3>1, Answers DEF Typed
  <2> QED BY <1>1, <1>2, <1>6, <2>1 DEF Typed, InfoBecomes
<1>11. Counted'
  <2>1. /\ At(P, K, Pins)' = At(P, K, Pins)
        /\ At(P, K, Waits)' = At(P, K, Waits) \ {c}
    BY <1>1, <1>2, Moves, WaitsAndPins
  <2>2. /\ with.pin_count = Cardinality(At(P, K, Pins)')
        /\ with.pending_callbacks = At(P, K, Waits)'
    BY <1>1, <1>2, <1>3, <2>1 DEF Counted, LockInfos
  <2> QED BY <1>1, <1>2, <1>6, <2>2, CountedMoves
<1>12. Placed'
  <2>1. ASSUME NEW p \in Procs, NEW k \in Keys, NEW l \in Callbacks,
               InfoOf(p, k)'.lock = l
        PROVE  /\ ProcOf[l] = p /\ KeyOf[l] = k
               /\ pc'[l] = "running" \/ (pc'[l] = "over" /\ phase'[p] # "up")
    <3>1. CASE p = P /\ k = K
      BY <1>2, <1>4, <1>5, <1>6, <2>1, <3>1 DEF InfoBecomes, ShutDownSet
    <3>2. CASE p # P \/ k # K
      <4>1. InfoOf(p, k).lock = l
        BY <1>6, <2>1, <3>2 DEF InfoBecomes
      <4> QED BY <1>1, <1>2, <1>4, <4>1 DEF Placed
    <3> QED BY <3>1, <3>2
  <2>2. \A d \in Callbacks : pc'[d] = "unlock" => pc[d] = "unlock"
    BY <1>4
  <2> QED BY <1>1, <1>2, <2>1, <2>2 DEF Placed
<1>13. Ended'
  BY <1>1, <1>2, <1>4, <1>6, EndedStays DEF InfoBecomes
<1>14. Answered'
  <2>1. \A d \in Callbacks \ {c} : answers'[d] = answers[d]
    BY <1>1 DEF LockObtained, Answer, Typed
  <2>2. CalledRight(c)'
    <3>1. CASE ShutDownSet(c)
      BY <1>1, <1>2, <1>4, <3>1, WaitsAndPins
         DEF LockObtained, ShutDownSet, Answered, CalledRight
    <3>2. CASE ~ShutDownSet(c)
      <4>1. phase[P] = "up" /\ pc[c] \in Waits
        BY <1>2, <3>2, WaitsAndPins DEF ShutDownSet, Alive
      <4>2. answers[c] = <<>> /\ c \notin to_cancel[P]
        BY <1>1, <1>2, <4>1 DEF Answered, CalledRight
      <4>3. answers'[c] = Append(answers[c], "run")
        BY <1>1, <3>2 DEF LockObtained, Answer, Typed
      <4>4. Len(answers'[c]) = 1 /\ answers'[c] # <<>>
        BY <4>2, <4>3
      <4> QED BY <1>2, <1>4, <3>2, <4>2, <4>4, WaitsAndPins DEF CalledRight
    <3> QED BY <3>1, <3>2
  <2> QED BY <1>1, <1>2, <1>4, <2>1, <2>2, AnsweredStays DEF Answered
<1>15. Owning'
  <2> SUFFICES ASSUME NEW k \in Keys \ stolen
               PROVE  /\ \A d \in Callbacks :
                           KeyOf[d] = k /\ Alive(d) =>
                             /\ pc'[d] \in {"obtained", "running"} => OwnSlots(d)' # {}
                             /\ pc'[d] = "unlock" => unlocking[d] = d
                      /\ \A p \in Procs, l \in Callbacks :
                           Lives(p) /\ InfoOf(p, k)'.lock = l => OwnSlots(l)' # {}
    BY <1>2 DEF Owning, Lives, Alive
  <2>1. ASSUME NEW d \in Callbacks, KeyOf[d] = k, Alive(d)
        PROVE  /\ pc'[d] \in {"obtained", "running"} => OwnSlots(d)' # {}
               /\ pc'[d] = "unlock" => unlocking[d] = d
    BY <1>1, <1>2, <1>4, <1>9, <2>1 DEF Owning
  <2>2. ASSUME NEW p \in Procs, NEW l \in Callbacks, Lives(p), InfoOf(p, k)'.lock = l
        PROVE  OwnSlots(l)' # {}
    <3>1. CASE p = P /\ k = K
      <4>1. l = c
        BY <1>5, <1>6, <2>2, <3>1 DEF InfoBecomes
      <4> QED BY <1>1, <1>2, <1>9, <3>1, <4>1 DEF Owning
    <3>2. CASE p # P \/ k # K
      <4>1. InfoOf(p, k).lock = l
        BY <1>6, <2>2, <3>2 DEF InfoBecomes
      <4> QED BY <1>1, <1>9, <2>2, <4>1 DEF Owning, Placed
    <3> QED BY <3>1, <3>2
  <2> QED BY <2>1, <2>2
<1>16. Accounted'
  <2> SUFFICES ASSUME NEW t \in Slots, ~Free(t)'
               PROVE  \E l \in Locks : t \in OwnSlots(l)' /\ WillFree(l)'
    BY DEF Accounted
  <2>1. PICK l \in Locks : t \in OwnSlots(l) /\ WillFree(l)
    BY <1>1, <1>7 DEF Accounted
  <2>2. l \notin S /\ OwnSlots(l)' = OwnSlots(l)
    BY <1>7, <2>1
  <2>3. ProcOf[l] \in Procs /\ KeyOf[l] \in Keys /\ l # old
    BY <2>2, Places, NullAssumption DEF Callbacks
  <2>4. WillFree(l)'
    <3>1. CASE phase[ProcOf[l]] = "killed"
      BY <1>2, <3>1 DEF WillFree
    <3>2. CASE pc[l] = "obtained"
      BY <1>4, <1>5, <1>6, <3>2 DEF WillFree, InfoBecomes, Callbacks
    <3>3. CASE InfoOf(ProcOf[l], KeyOf[l]).lock = l
      BY <1>3, <1>6, <2>3, <3>3 DEF WillFree, InfoBecomes
    <3>4. CASE \E d \in Callbacks : pc[d] = "unlock" /\ unlocking[d] = l
      BY <1>2, <1>4, <3>4 DEF WillFree
    <3> QED BY <2>1, <3>1, <3>2, <3>3, <3>4 DEF WillFree
  <2> QED BY <2>1, <2>2, <2>4
<1> QED
  BY <1>7, <1>10, <1>11, <1>12, <1>13, <1>14, <1>15, <1>16 DEF IInv, ControllerInv

LEMMA LockFailedStep ==
  ASSUME IInv, NEW c \in Callbacks, LockFailed(c)
  PROVE  IInv'
<1> DEFINE P == ProcOf[c]
           K == KeyOf[c]
           info == GetLockInfo(c)
           without == [info EXCEPT !.pending_callbacks = @ \ {c}]
<1>1. Typed /\ Counted /\ Placed /\ Ended /\ Answered
  BY DEF IInv, ControllerInv
<1>2. /\ P \in Procs /\ K \in Keys
      /\ Alive(c) /\ pc[c] = "failed" /\ pc' = [pc EXCEPT ![c] = "over"]
      /\ UNCHANGED <<lockVars, phase, to_cancel, unlocking, stolen>>
      /\ SetInfo(c, DeletedIfUnused(without))
  BY Places DEF LockFailed, GoesTo
<1>3. info = InfoOf(P, K) /\ info \in LockInfos
  BY <1>1, <1>2, GetIsInfoOf, InfoTyped
<1>4. pc'[c] = "over" /\ \A d \in Callbacks \ {c} : pc'[d] = pc[d]
  BY <1>1, <1>2, Moves
<1>5. without \in LockInfos /\ without.lock = info.lock
  BY <1>3 DEF LockInfos
<1>6. InfoBecomes(c, without)
  BY <1>1, <1>2, <1>5, SetsOrDeletesInfo
<1>7. Typed'
  <2>1. answers' \in [Callbacks -> Seq({"run", "cancel"})]
    <3>1. answers' = answers \/ Answer(c, "cancel")
      BY DEF LockFailed
    <3> QED BY <1>1, <3>1, Answers DEF Typed
  <2> QED BY <1>1, <1>2, <1>6, <2>1 DEF Typed, InfoBecomes
<1>8. Counted'
  <2>1. /\ At(P, K, Pins)' = At(P, K, Pins)
        /\ At(P, K, Waits)' = At(P, K, Waits) \ {c}
    BY <1>1, <1>2, Moves, WaitsAndPins
  <2>2. /\ without.pin_count = Cardinality(At(P, K, Pins)')
        /\ without.pending_callbacks = At(P, K, Waits)'
    BY <1>1, <1>2, <1>3, <2>1 DEF Counted, LockInfos
  <2> QED BY <1>1, <1>2, <1>6, <2>2, CountedMoves
<1>9. Ended'
  BY <1>1, <1>2, <1>4, <1>6, EndedStays DEF InfoBecomes
<1>10. Answered'
  <2>1. \A d \in Callbacks \ {c} : answers'[d] = answers[d]
    BY <1>1 DEF LockFailed, Answer, Typed
  <2>2. CalledRight(c)'
    <3>1. CASE ShutDownSet(c)
      BY <1>1, <1>2, <1>4, <3>1, WaitsAndPins
         DEF LockFailed, ShutDownSet, Answered, CalledRight
    <3>2. CASE ~ShutDownSet(c)
      <4>1. phase[P] = "up" /\ pc[c] \in Waits
        BY <1>2, <3>2, WaitsAndPins DEF ShutDownSet, Alive
      <4>2. answers[c] = <<>> /\ c \notin to_cancel[P]
        BY <1>1, <1>2, <4>1 DEF Answered, CalledRight
      <4>3. answers'[c] = Append(answers[c], "cancel")
        BY <1>1, <3>2 DEF LockFailed, Answer, Typed
      <4>4. Len(answers'[c]) = 1 /\ answers'[c] # <<>>
        BY <4>2, <4>3
      <4> QED BY <1>2, <1>4, <4>2, <4>4, WaitsAndPins DEF CalledRight
    <3> QED BY <3>1, <3>2
  <2> QED BY <1>1, <1>2, <1>4, <2>1, <2>2, AnsweredStays DEF Answered
<1>11. Quiet
  <2>1. \A p \in Procs, k \in Keys : InfoOf(p, k)'.lock = InfoOf(p, k).lock
    BY <1>3, <1>5, <1>6 DEF InfoBecomes
  <2> QED BY <1>2, <1>4, <2>1 DEF Quiet, Firm, Lives
<1> QED BY <1>7, <1>8, <1>9, <1>10, <1>11, QuietStep DEF IInv, ControllerInv
LEMMA NotifyRewriteCompleteStep ==
  ASSUME IInv, NEW c \in Callbacks, NotifyRewriteComplete(c)
  PROVE  IInv'
<1> DEFINE P == ProcOf[c]
           K == KeyOf[c]
           info == GetLockInfo(c)
           old == info.lock
           to == IF old = Null THEN "over" ELSE "unlock"
           after == IF old = Null THEN info
                    ELSE [info EXCEPT !.pin_count = @ + 1, !.lock = Null]
<1>1. /\ Typed /\ Counted /\ Placed /\ Ended /\ Answered
      /\ BucketInv /\ Owning /\ Accounted
  BY DEF IInv, ControllerInv
<1>2. /\ P \in Procs /\ K \in Keys /\ c \in Locks
      /\ Alive(c) /\ pc[c] = "running" /\ pc' = [pc EXCEPT ![c] = to]
      /\ UNCHANGED <<lockVars, phase, to_cancel, answers, stolen>>
      /\ unlocking' = IF old = Null THEN unlocking ELSE [unlocking EXCEPT ![c] = old]
  BY Places DEF NotifyRewriteComplete, GoesTo, Callbacks
<1>3. /\ info = InfoOf(P, K) /\ info \in LockInfos
      /\ old \in Callbacks \cup {Null}
  BY <1>1, <1>2, GetIsInfoOf, InfoTyped
<1>4. pc'[c] = to /\ \A d \in Callbacks \ {c} : pc'[d] = pc[d]
  BY <1>1, <1>2, Moves
<1>5. after \in LockInfos /\ after.lock = Null
  <2>1. CASE old = Null
    BY <1>3, <2>1
  <2>2. CASE old # Null
    <3>1. info.pin_count + 1 \in Nat
      BY <1>3 DEF LockInfos
    <3>2. after = [lock |-> Null, pending_callbacks |-> info.pending_callbacks,
                   pin_count |-> info.pin_count + 1]
      BY <1>3, <2>2 DEF LockInfos
    <3>3. info.pending_callbacks \in SUBSET Callbacks
      BY <1>3 DEF LockInfos
    <3> HIDE DEF after, info
    <3> QED BY <3>1, <3>2, <3>3 DEF LockInfos
  <2> QED BY <2>1, <2>2
<1>6. InfoBecomes(c, after)
  <2>1. CASE old = Null
    BY <1>1, <1>5, <2>1, SetsOrDeletesInfo DEF NotifyRewriteComplete
  <2>2. CASE old # Null
    <3>1. ~Unused(after)
      BY <1>3, <2>2 DEF LockInfos, Unused
    <3>2. SetInfo(c, after)
      BY <2>2 DEF NotifyRewriteComplete
    <3> QED BY <1>1, <1>5, <3>1, <3>2, SetsInfo
  <2> QED BY <2>1, <2>2
<1>7. BucketInv' /\ \A l \in Locks : OwnSlots(l)' = OwnSlots(l)
  BY <1>1, <1>2, BucketStays
\* The lock that is taken out is the one of this rewrite, unless it was stolen.
<1>8. old # Null =>
        old \in Callbacks /\ KeyOf[old] = K /\ ProcOf[old] = P /\ (K \notin stolen => old = c)
  <2> SUFFICES ASSUME old # Null
               PROVE  /\ old \in Callbacks /\ KeyOf[old] = K /\ ProcOf[old] = P
                      /\ K \notin stolen => old = c
    OBVIOUS
  <2>1. old \in Callbacks /\ KeyOf[old] = K /\ ProcOf[old] = P
    BY <1>1, <1>2, <1>3 DEF Placed
  <2>2. ASSUME K \notin stolen PROVE old = c
    <3>1. OwnSlots(c) # {} /\ OwnSlots(old) # {}
      BY <1>1, <1>2, <1>3, <2>1, <2>2 DEF Owning, Alive, Lives
    <3> QED BY <1>1, <1>2, <2>1, <3>1 DEF BucketInv, OneClaim, KeyOf, Callbacks
  <2> QED BY <2>1, <2>2
<1>9. /\ unlocking' \in [Callbacks -> Callbacks \cup {Null}]
      /\ \A d \in Callbacks \ {c} : unlocking'[d] = unlocking[d]
      /\ old # Null => unlocking'[c] = old
      /\ old = Null => unlocking'[c] = unlocking[c]
  BY <1>1, <1>2, <1>3 DEF Typed
<1>10. Typed'
  BY <1>1, <1>2, <1>6, <1>9 DEF Typed, InfoBecomes, Pins
<1>11. Counted'
  <2>1. At(P, K, Waits)' = At(P, K, Waits)
    BY <1>1, <1>2, Moves, WaitsAndPins
  <2>2. after.pin_count = Cardinality(At(P, K, Pins)')
    <3>1. info.pin_count = Cardinality(At(P, K, Pins)) /\ IsFiniteSet(At(P, K, Pins))
      BY <1>1, <1>2, <1>3, AtFinite DEF Counted
    <3>2. CASE old = Null
      <4>1. At(P, K, Pins)' = At(P, K, Pins)
        BY <1>1, <1>2, <3>2, Moves, WaitsAndPins
      <4> QED BY <3>1, <3>2, <4>1
    <3>3. CASE old # Null
      <4>1. At(P, K, Pins)' = At(P, K, Pins) \cup {c}
        BY <1>1, <1>2, <3>3, Moves, WaitsAndPins
      <4>2. c \notin At(P, K, Pins)
        BY <1>2, WaitsAndPins DEF At
      <4>3. Cardinality(At(P, K, Pins) \cup {c}) = Cardinality(At(P, K, Pins)) + 1
        BY <3>1, <4>2, FS_AddElement
      <4>4. after.pin_count = info.pin_count + 1
        BY <1>3, <3>3 DEF LockInfos
      <4> QED BY <3>1, <4>1, <4>3, <4>4
    <3> QED BY <3>2, <3>3
  <2>3. after.pending_callbacks = At(P, K, Waits)'
    BY <1>1, <1>2, <1>3, <2>1 DEF Counted, LockInfos
  <2> QED BY <1>1, <1>2, <1>6, <2>2, <2>3, CountedMoves
<1>12. Placed'
  <2>1. ASSUME NEW p \in Procs, NEW k \in Keys, NEW l \in Callbacks,
               InfoOf(p, k)'.lock = l
        PROVE  /\ ProcOf[l] = p /\ KeyOf[l] = k
               /\ pc'[l] = "running" \/ (pc'[l] = "over" /\ phase'[p] # "up")
    <3>1. p # P \/ k # K
      BY <1>5, <1>6, <2>1, NullAssumption DEF InfoBecomes
    <3>2. InfoOf(p, k).lock = l
      BY <1>6, <2>1, <3>1 DEF InfoBecomes
    <3> QED BY <1>1, <1>2, <1>4, <3>1, <3>2 DEF Placed
  <2>2. ASSUME NEW d \in Callbacks
        PROVE  /\ unlocking'[d] # Null => /\ ProcOf[unlocking'[d]] = ProcOf[d]
                                          /\ KeyOf[unlocking'[d]] = KeyOf[d]
               /\ pc'[d] = "unlock" => unlocking'[d] # Null
    BY <1>1, <1>4, <1>8, <1>9 DEF Placed
  <2> QED BY <2>1, <2>2 DEF Placed
<1>13. Ended'
  BY <1>1, <1>2, <1>4, <1>6, EndedStays DEF InfoBecomes
<1>14. Answered'
  <2>1. CalledRight(c)'
    BY <1>1, <1>2, <1>4, WaitsAndPins DEF Answered, CalledRight
  <2> QED BY <1>1, <1>2, <1>4, <2>1, AnsweredStays DEF Answered
<1>15. Owning'
  <2> SUFFICES ASSUME NEW k \in Keys \ stolen
               PROVE  /\ \A d \in Callbacks :
                           KeyOf[d] = k /\ Alive(d) =>
                             /\ pc'[d] \in {"obtained", "running"} => OwnSlots(d)' # {}
                             /\ pc'[d] = "unlock" => unlocking'[d] = d
                      /\ \A p \in Procs, l \in Callbacks :
                           Lives(p) /\ InfoOf(p, k)'.lock = l => OwnSlots(l)' # {}
    BY <1>2 DEF Owning, Lives, Alive
  <2>1. ASSUME NEW d \in Callbacks, KeyOf[d] = k, Alive(d)
        PROVE  /\ pc'[d] \in {"obtained", "running"} => OwnSlots(d)' # {}
               /\ pc'[d] = "unlock" => unlocking'[d] = d
    BY <1>1, <1>4, <1>7, <1>8, <1>9, <2>1 DEF Owning, Callbacks
  <2>2. ASSUME NEW p \in Procs, NEW l \in Callbacks, Lives(p), InfoOf(p, k)'.lock = l
        PROVE  OwnSlots(l)' # {}
    <3>1. p # P \/ k # K
      BY <1>5, <1>6, <2>2, NullAssumption DEF InfoBecomes
    <3>2. InfoOf(p, k).lock = l
      BY <1>6, <2>2, <3>1 DEF InfoBecomes
    <3> QED BY <1>1, <1>7, <2>2, <3>2 DEF Owning, Callbacks
  <2> QED BY <2>1, <2>2
<1>16. Accounted'
  <2> SUFFICES ASSUME NEW t \in Slots, ~Free(t)'
               PROVE  \E l \in Locks : t \in OwnSlots(l)' /\ WillFree(l)'
    BY DEF Accounted
  <2>1. ~Free(t)
    BY <1>2 DEF Free, lockVars
  <2>2. PICK l \in Locks : t \in OwnSlots(l) /\ WillFree(l)
    BY <1>1, <2>1 DEF Accounted
  <2>3. ProcOf[l] \in Procs /\ KeyOf[l] \in Keys /\ l # Null
    BY Places, NullAssumption DEF Callbacks
  <2>4. WillFree(l)'
    <3>1. CASE phase[ProcOf[l]] = "killed"
      BY <1>2, <3>1 DEF WillFree
    <3>2. CASE pc[l] = "obtained"
      BY <1>2, <1>4, <3>2 DEF WillFree, Callbacks
    <3>3. CASE InfoOf(ProcOf[l], KeyOf[l]).lock = l
      <4>1. CASE ProcOf[l] = P /\ KeyOf[l] = K
        BY <1>2, <1>3, <1>4, <1>9, <2>3, <3>3, <4>1 DEF WillFree
      <4>2. CASE ProcOf[l] # P \/ KeyOf[l] # K
        BY <1>6, <2>3, <3>3, <4>2 DEF WillFree, InfoBecomes
      <4> QED BY <4>1, <4>2
    <3>4. CASE \E d \in Callbacks : pc[d] = "unlock" /\ unlocking[d] = l
      BY <1>2, <1>4, <1>9, <3>4 DEF WillFree
    <3> QED BY <2>2, <3>1, <3>2, <3>3, <3>4 DEF WillFree
  <2> QED BY <1>7, <2>2, <2>4
<1> QED
  BY <1>7, <1>10, <1>11, <1>12, <1>13, <1>14, <1>15, <1>16 DEF IInv, ControllerInv

LEMMA NotifyUnlocksStep ==
  ASSUME IInv, NEW c \in Callbacks, NotifyUnlocks(c)
  PROVE  IInv'
<1> DEFINE old == unlocking[c]
<1>1. /\ Typed /\ Counted /\ Placed /\ Ended /\ Answered
      /\ BucketInv /\ Owning /\ Accounted
  BY DEF IInv, ControllerInv
<1>2. /\ c \in Locks /\ ProcOf[c] \in Procs /\ KeyOf[c] \in Keys
      /\ Alive(c) /\ pc[c] = "unlock" /\ pc' = [pc EXCEPT ![c] = "unpin"]
      /\ UNCHANGED <<locks, phase, to_cancel, unlocking, answers, stolen>>
      /\ UnlockAll({old})
  BY Places DEF NotifyUnlocks, GoesTo, Callbacks, Unlock
<1>3. /\ old \in Callbacks /\ {old} \in SUBSET Locks
      /\ KeyOf[old] = KeyOf[c] /\ (KeyOf[c] \notin stolen => old = c)
  BY <1>1, <1>2 DEF Typed, Placed, Owning, Callbacks
<1>4. pc'[c] = "unpin" /\ \A d \in Callbacks \ {c} : pc'[d] = pc[d]
  BY <1>1, <1>2, Moves
<1>5. /\ BucketInv'
      /\ \A l \in Locks \ {old} : OwnSlots(l)' = OwnSlots(l)
      /\ \A t \in Slots : ~Free(t)' => ~Free(t) /\ t \notin OwnSlots(old)
  <2> HIDE DEF old
  <2> QED BY <1>1, <1>2, <1>3, GivesUp
<1>6. \A p \in Procs, k \in Keys : InfoOf(p, k)' = InfoOf(p, k)
  BY <1>2 DEF InfoOf
<1>7. Typed'
  BY <1>1, <1>2, <1>4 DEF Typed, Pins
<1>8. Counted'
  BY <1>1, <1>2, WaitsAndPins, CountedStays
<1>9. Placed'
  BY <1>1, <1>2, <1>4, <1>6 DEF Placed
<1>10. Ended'
  BY <1>1, <1>2, <1>4, EndedStays
<1>11. Answered'
  <2>1. CalledRight(c)'
    BY <1>1, <1>2, <1>4, WaitsAndPins DEF Answered, CalledRight
  <2> QED BY <1>1, <1>2, <1>4, <2>1, AnsweredStays DEF Answered
<1>12. Owning'
  <2> SUFFICES ASSUME NEW k \in Keys \ stolen
               PROVE  /\ \A d \in Callbacks :
                           KeyOf[d] = k /\ Alive(d) =>
                             /\ pc'[d] \in {"obtained", "running"} => OwnSlots(d)' # {}
                             /\ pc'[d] = "unlock" => unlocking[d] = d
                      /\ \A p \in Procs, l \in Callbacks :
                           Lives(p) /\ InfoOf(p, k).lock = l => OwnSlots(l)' # {}
    BY <1>2, <1>6 DEF Owning, Lives, Alive
  <2>1. ASSUME NEW d \in Callbacks \ {c}, KeyOf[d] = k
        PROVE  OwnSlots(d)' = OwnSlots(d)
    BY <1>3, <1>5, <2>1 DEF Callbacks
  <2>2. ASSUME NEW d \in Callbacks, KeyOf[d] = k, Alive(d)
        PROVE  /\ pc'[d] \in {"obtained", "running"} => OwnSlots(d)' # {}
               /\ pc'[d] = "unlock" => unlocking[d] = d
    BY <1>1, <1>4, <2>1, <2>2 DEF Owning
  <2>3. ASSUME NEW p \in Procs, NEW l \in Callbacks, Lives(p), InfoOf(p, k).lock = l
        PROVE  OwnSlots(l)' # {}
    <3>1. KeyOf[l] = k /\ l # c /\ OwnSlots(l) # {}
      BY <1>1, <1>2, <2>3 DEF Placed, Owning
    <3> QED BY <2>1, <3>1
  <2> QED BY <2>2, <2>3
<1>13. Accounted'
  <2> SUFFICES ASSUME NEW t \in Slots, ~Free(t)'
               PROVE  \E l \in Locks : t \in OwnSlots(l)' /\ WillFree(l)'
    BY DEF Accounted
  <2>1. PICK l \in Locks : t \in OwnSlots(l) /\ WillFree(l)
    BY <1>1, <1>5 DEF Accounted
  <2>2. l # old /\ OwnSlots(l)' = OwnSlots(l)
    BY <1>5, <2>1
  <2>3. ProcOf[l] \in Procs /\ KeyOf[l] \in Keys
    BY Places DEF Callbacks
  <2>4. WillFree(l)'
    BY <1>2, <1>4, <1>6, <2>1, <2>2, <2>3 DEF WillFree, Callbacks
  <2> QED BY <2>1, <2>2, <2>4
<1> QED
  BY <1>5, <1>7, <1>8, <1>9, <1>10, <1>11, <1>12, <1>13 DEF IInv, ControllerInv

LEMMA NotifyUnpinsStep ==
  ASSUME IInv, NEW c \in Callbacks, NotifyUnpins(c)
  PROVE  IInv'
<1> DEFINE P == ProcOf[c]
           K == KeyOf[c]
           info == InfoOf(P, K)
           after == [info EXCEPT !.pin_count = @ - 1]
<1>1. Typed /\ Counted /\ Placed /\ Ended /\ Answered
  BY DEF IInv, ControllerInv
<1>2. /\ P \in Procs /\ K \in Keys
      /\ Alive(c) /\ pc[c] = "unpin" /\ pc' = [pc EXCEPT ![c] = "over"]
      /\ UNCHANGED <<lockVars, phase, to_cancel, answers, stolen>>
      /\ unlocking' = [unlocking EXCEPT ![c] = Null]
      /\ info = Info(c) /\ SetInfo(c, DeletedIfUnused(after))
  BY Places DEF NotifyUnpins, GoesTo, Info, InfoOf
<1>3. info \in LockInfos
  BY <1>1, <1>2, InfoTyped
<1>4. pc'[c] = "over" /\ \A d \in Callbacks \ {c} : pc'[d] = pc[d]
  BY <1>1, <1>2, Moves
<1>5. /\ c \in At(P, K, Pins) /\ IsFiniteSet(At(P, K, Pins))
      /\ At(P, K, Pins)' = At(P, K, Pins) \ {c}
      /\ At(P, K, Waits)' = At(P, K, Waits)
  <2>1. c \in At(P, K, Pins)
    BY <1>2, WaitsAndPins DEF At
  <2> QED BY <1>1, <1>2, <2>1, Moves, AtFinite, WaitsAndPins
<1>6. /\ Cardinality(At(P, K, Pins)) \in Nat /\ Cardinality(At(P, K, Pins)) # 0
      /\ Cardinality(At(P, K, Pins)') = Cardinality(At(P, K, Pins)) - 1
  BY <1>5, AtFinite, FS_RemoveElement, FS_EmptySet
<1>7. info.pin_count = Cardinality(At(P, K, Pins)) /\ info.pending_callbacks = At(P, K, Waits)
  BY <1>1, <1>2 DEF Counted
<1>8. after \in LockInfos /\ after.lock = info.lock
  BY <1>3, <1>6, <1>7 DEF LockInfos
<1>9. InfoBecomes(c, after)
  BY <1>1, <1>2, <1>8, SetsOrDeletesInfo
<1>10. Typed'
  BY <1>1, <1>2, <1>9 DEF Typed, InfoBecomes
<1>11. Counted'
  <2>1. /\ after.pin_count = Cardinality(At(P, K, Pins)')
        /\ after.pending_callbacks = At(P, K, Waits)'
    BY <1>3, <1>5, <1>6, <1>7 DEF LockInfos
  <2> QED BY <1>1, <1>2, <1>9, <2>1, CountedMoves
<1>12. Ended'
  BY <1>1, <1>2, <1>4, <1>9, EndedStays DEF InfoBecomes
<1>13. Answered'
  <2>1. CalledRight(c)'
    BY <1>1, <1>2, <1>4, WaitsAndPins DEF Answered, CalledRight
  <2> QED BY <1>1, <1>2, <1>4, <2>1, AnsweredStays DEF Answered
<1>14. Quiet
  <2>1. \A p \in Procs, k \in Keys : InfoOf(p, k)'.lock = InfoOf(p, k).lock
    BY <1>8, <1>9 DEF InfoBecomes
  <2>2. \A d \in Callbacks : /\ unlocking'[d] \in {unlocking[d], Null}
                             /\ pc[d] = "unlock" => unlocking'[d] = unlocking[d]
    BY <1>1, <1>2 DEF Typed
  <2> QED BY <1>2, <1>4, <2>1, <2>2 DEF Quiet, Firm, Lives
<1> QED BY <1>10, <1>11, <1>12, <1>13, <1>14, QuietStep DEF IInv, ControllerInv
\* Steps of a process as a whole change no thread's place.
LEMMA CountedUnmoved ==
  ASSUME Counted, UNCHANGED <<locks, pc>>
  PROVE  Counted'
BY DEF Counted, InfoOf, At

LEMMA ShutDownCancelsStep ==
  ASSUME IInv, NEW c \in Callbacks, ShutDownCancels(c)
  PROVE  IInv'
<1>1. Typed /\ Counted /\ Placed /\ Ended /\ Answered
  BY DEF IInv, ControllerInv
<1>2. /\ ProcOf[c] \in Procs /\ Alive(c) /\ c \in to_cancel[ProcOf[c]]
      /\ to_cancel' = [to_cancel EXCEPT ![ProcOf[c]] = @ \ {c}]
      /\ Answer(c, "cancel")
      /\ UNCHANGED <<lockVars, locks, phase, pc, unlocking, stolen>>
  BY Places DEF ShutDownCancels
<1>3. /\ answers' \in [Callbacks -> Seq({"run", "cancel"})]
      /\ answers'[c] = Append(answers[c], "cancel")
      /\ \A d \in Callbacks \ {c} : answers'[d] = answers[d]
  BY <1>1, <1>2, Answers
<1>4. /\ to_cancel' \in [Procs -> SUBSET Callbacks]
      /\ \A p \in Procs : to_cancel'[p] =
           IF p = ProcOf[c] THEN to_cancel[p] \ {c} ELSE to_cancel[p]
  BY <1>1, <1>2 DEF Typed
<1>5. Typed'
  BY <1>1, <1>2, <1>3, <1>4 DEF Typed
<1>6. Counted'
  BY <1>1, <1>2, CountedUnmoved
<1>7. Ended'
  BY <1>1, <1>2 DEF Ended
<1>8. Answered'
  <2>1. answers[c] = <<>> /\ pc[c] # "new" /\ phase[ProcOf[c]] # "up"
    BY <1>1, <1>2 DEF Answered, CalledRight
  <2>2. Len(answers'[c]) = 1 /\ answers'[c] # <<>>
    BY <1>3, <2>1
  <2>3. c \notin to_cancel'[ProcOf[c]]
    BY <1>2, <1>4
  <2>4. CalledRight(c)'
    BY <1>2, <2>1, <2>2, <2>3 DEF CalledRight
  <2>5. \A d \in Callbacks \ {c} : ProcOf[d] \in Procs /\
          (d \in to_cancel'[ProcOf[d]] <=> d \in to_cancel[ProcOf[d]])
    BY <1>4, Places
  <2>6. \A p \in Procs : phase[p] = "up" => to_cancel'[p] = {}
    BY <1>1, <1>4 DEF Answered
  <2> QED BY <1>1, <1>2, <1>3, <2>4, <2>5, <2>6, AnsweredStays
<1>9. Quiet
  BY <1>2 DEF Quiet, Firm, Lives, InfoOf
<1> QED BY <1>5, <1>6, <1>7, <1>8, <1>9, QuietStep DEF IInv, ControllerInv

LEMMA ShutDownStep ==
  ASSUME IInv, NEW p \in Procs, ShutDown(p)
  PROVE  IInv'
<1> DEFINE pending == UNION {locks[p][k].pending_callbacks :
                               k \in {j \in Keys : locks[p][j] # Null}}
<1>1. Typed /\ Counted /\ Placed /\ Ended /\ Answered
  BY DEF IInv, ControllerInv
<1>2. /\ phase[p] = "up" /\ phase' = [phase EXCEPT ![p] = "down"]
      /\ to_cancel' = [to_cancel EXCEPT ![p] = pending]
      /\ UNCHANGED <<lockVars, locks, pc, unlocking, answers, stolen>>
  BY DEF ShutDown
<1>3. \A d \in Callbacks : d \in pending <=> ProcOf[d] = p /\ pc[d] \in Waits
  <2>1. ASSUME NEW d \in pending PROVE ProcOf[d] = p /\ pc[d] \in Waits
    <3>1. PICK k \in Keys : locks[p][k] # Null /\ d \in locks[p][k].pending_callbacks
      OBVIOUS
    <3>2. d \in At(p, k, Waits)
      BY <1>1, <3>1 DEF Counted, InfoOf
    <3> QED BY <3>2 DEF At
  <2>2. ASSUME NEW d \in Callbacks, ProcOf[d] = p, pc[d] \in Waits PROVE d \in pending
    <3>1. KeyOf[d] \in Keys /\ d \in InfoOf(p, KeyOf[d]).pending_callbacks
      BY <1>1, <2>2, Places DEF Counted, At
    <3> QED BY <3>1 DEF InfoOf, FreshInfo
  <2> QED BY <2>1, <2>2
<1>4. pending \subseteq Callbacks
  <2>1. \A k \in Keys : InfoOf(p, k).pending_callbacks \subseteq Callbacks
    BY <1>1, InfoTyped
  <2> QED BY <2>1 DEF InfoOf
<1>5. /\ phase'[p] = "down" /\ to_cancel'[p] = pending
      /\ \A q \in Procs \ {p} : phase'[q] = phase[q] /\ to_cancel'[q] = to_cancel[q]
  BY <1>1, <1>2 DEF Typed
<1>6. Typed'
  BY <1>1, <1>2, <1>4 DEF Typed
<1>7. Counted'
  BY <1>1, <1>2, CountedUnmoved
<1>8. Ended'
  BY <1>1, <1>2, <1>5 DEF Ended
<1>9. Answered'
  <2> HIDE DEF pending
  <2>1. ASSUME NEW d \in Callbacks PROVE CalledRight(d)'
    <3>1. ProcOf[d] \in Procs /\ CalledRight(d) /\ to_cancel[p] = {}
      BY <1>1, <1>2, Places DEF Answered
    <3>2. CASE ProcOf[d] = p
      BY <1>2, <1>3, <1>5, <3>1, <3>2, WaitsAndPins DEF CalledRight
    <3>3. CASE ProcOf[d] # p
      BY <1>2, <1>5, <3>1, <3>3 DEF CalledRight
    <3> QED BY <3>2, <3>3
  <2> QED BY <1>1, <1>5, <2>1 DEF Answered
<1>10. Quiet
  BY <1>2, <1>5 DEF Quiet, Firm, Lives, InfoOf
<1> QED BY <1>6, <1>7, <1>8, <1>9, <1>10, QuietStep DEF IInv, ControllerInv

LEMMA DestroyStep ==
  ASSUME IInv, NEW p \in Procs, Destroy(p)
  PROVE  IInv'
<1> DEFINE S == {locks[p][k].lock : k \in {j \in Keys : locks[p][j] # Null}} \ {Null}
<1>1. /\ Typed /\ Counted /\ Placed /\ Ended /\ Answered
      /\ BucketInv /\ Owning /\ Accounted
  BY DEF IInv, ControllerInv
<1>2. /\ phase[p] = "down" /\ phase' = [phase EXCEPT ![p] = "gone"]
      /\ to_cancel[p] = {} /\ \A c \in Of(p) : pc[c] \in {"new", "over"}
      /\ UnlockAll(S) /\ locks' = [locks EXCEPT ![p] = [k \in Keys |-> Null]]
      /\ UNCHANGED <<to_cancel, pc, unlocking, answers, stolen>>
  BY DEF Destroy, AtRest
<1>3. /\ phase'[p] = "gone" /\ \A k \in Keys : locks'[p][k] = Null
      /\ \A q \in Procs \ {p} : phase'[q] = phase[q] /\ locks'[q] = locks[q]
  BY <1>1, <1>2 DEF Typed
<1>4. S \in SUBSET Locks /\ \A l \in S : ProcOf[l] = p
  <2>1. ASSUME NEW l \in S PROVE l \in Locks /\ ProcOf[l] = p
    <3>1. PICK k \in Keys : locks[p][k] # Null /\ l = locks[p][k].lock /\ l # Null
      OBVIOUS
    <3>2. InfoOf(p, k).lock = l /\ l \in Callbacks
      BY <1>1, <3>1, InfoTyped DEF InfoOf
    <3> QED BY <1>1, <3>2 DEF Placed, Callbacks
  <2> QED BY <2>1
<1>5. \A l \in Callbacks : \A k \in Keys : InfoOf(p, k).lock = l => l \in S
  BY NullAssumption DEF InfoOf, FreshInfo
<1>6. /\ BucketInv'
      /\ \A l \in Locks \ S : OwnSlots(l)' = OwnSlots(l)
      /\ \A t \in Slots : ~Free(t)' => ~Free(t) /\ \A l \in S : t \notin OwnSlots(l)
  <2> HIDE DEF S
  <2> QED BY <1>1, <1>2, <1>4, GivesUp
<1> HIDE DEF S
<1>7. /\ \A k \in Keys : InfoOf(p, k)' = FreshInfo
      /\ \A q \in Procs \ {p} : \A k \in Keys : InfoOf(q, k)' = InfoOf(q, k)
  BY <1>3 DEF InfoOf
<1>8. Typed'
  BY <1>1, <1>2 DEF Typed
<1>9. Counted'
  <2>1. ASSUME NEW k \in Keys
        PROVE  At(p, k, Pins)' = {} /\ At(p, k, Waits)' = {}
    BY <1>2, WaitsAndPins DEF At, Of
  <2>2. \A k \in Keys : /\ FreshInfo.pin_count = Cardinality(At(p, k, Pins)')
                        /\ FreshInfo.pending_callbacks = At(p, k, Waits)'
    BY <2>1, FS_EmptySet DEF FreshInfo
  <2>3. \A q \in Procs, k \in Keys :
          At(q, k, Pins)' = At(q, k, Pins) /\ At(q, k, Waits)' = At(q, k, Waits)
    BY <1>2 DEF At
  <2> QED BY <1>1, <1>3, <1>7, <2>2, <2>3 DEF Counted
<1>10. Placed'
  <2>1. ASSUME NEW q \in Procs, NEW k \in Keys, NEW l \in Callbacks,
               InfoOf(q, k)'.lock = l
        PROVE  /\ ProcOf[l] = q /\ KeyOf[l] = k
               /\ pc'[l] = "running" \/ (pc'[l] = "over" /\ phase'[q] # "up")
    <3>1. q # p
      BY <1>7, <2>1, NullAssumption DEF FreshInfo
    <3> QED BY <1>1, <1>2, <1>3, <1>7, <2>1, <3>1 DEF Placed
  <2> QED BY <1>1, <1>2, <2>1 DEF Placed
<1>11. Ended'
  BY <1>1, <1>2, <1>3 DEF Ended
<1>12. Answered'
  <2>1. ASSUME NEW d \in Callbacks PROVE CalledRight(d)'
    <3>1. ProcOf[d] \in Procs /\ CalledRight(d)
      BY <1>1, Places DEF Answered
    <3>2. CASE ProcOf[d] = p
      BY <1>2, <1>3, <3>1, <3>2 DEF CalledRight
    <3>3. CASE ProcOf[d] # p
      BY <1>2, <1>3, <3>1, <3>3 DEF CalledRight
    <3> QED BY <3>2, <3>3
  <2> QED BY <1>1, <1>2, <1>3, <2>1 DEF Answered
<1>13. Owning'
  <2>1. \A l \in Callbacks : ProcOf[l] # p => OwnSlots(l)' = OwnSlots(l)
    BY <1>4, <1>6 DEF Callbacks
  <2> SUFFICES ASSUME NEW k \in Keys \ stolen
               PROVE  /\ \A d \in Callbacks :
                           KeyOf[d] = k /\ Alive(d)' =>
                             /\ pc[d] \in {"obtained", "running"} => OwnSlots(d)' # {}
                             /\ pc[d] = "unlock" => unlocking[d] = d
                      /\ \A q \in Procs, l \in Callbacks :
                           Lives(q)' /\ InfoOf(q, k)'.lock = l => OwnSlots(l)' # {}
    BY <1>2 DEF Owning
  <2>2. ASSUME NEW d \in Callbacks, KeyOf[d] = k, Alive(d)'
        PROVE  /\ pc[d] \in {"obtained", "running"} => OwnSlots(d)' # {}
               /\ pc[d] = "unlock" => unlocking[d] = d
    <3>1. ProcOf[d] \in Procs /\ ProcOf[d] # p /\ Alive(d)
      BY <1>3, <2>2, Places DEF Alive
    <3> QED BY <1>1, <2>1, <2>2, <3>1 DEF Owning
  <2>3. ASSUME NEW q \in Procs, NEW l \in Callbacks, Lives(q)', InfoOf(q, k)'.lock = l
        PROVE  OwnSlots(l)' # {}
    <3>1. q # p /\ Lives(q) /\ InfoOf(q, k).lock = l
      BY <1>3, <1>7, <2>3 DEF Lives
    <3>2. ProcOf[l] = q /\ OwnSlots(l) # {}
      BY <1>1, <3>1 DEF Placed, Owning
    <3> QED BY <2>1, <3>1, <3>2
  <2> QED BY <2>2, <2>3
<1>14. Accounted'
  <2> SUFFICES ASSUME NEW t \in Slots, ~Free(t)'
               PROVE  \E l \in Locks : t \in OwnSlots(l)' /\ WillFree(l)'
    BY DEF Accounted
  <2>1. PICK l \in Locks : t \in OwnSlots(l) /\ WillFree(l)
    BY <1>1, <1>6 DEF Accounted
  <2>2. l \notin S /\ OwnSlots(l)' = OwnSlots(l)
    BY <1>6, <2>1
  <2>3. ProcOf[l] \in Procs /\ KeyOf[l] \in Keys /\ l \in Callbacks
    BY Places DEF Callbacks
  <2>4. WillFree(l)'
    <3>1. CASE phase[ProcOf[l]] = "killed"
      BY <1>2, <1>3, <2>3, <3>1 DEF WillFree
    <3>2. CASE pc[l] = "obtained"
      BY <1>2, <3>2 DEF WillFree
    <3>3. CASE InfoOf(ProcOf[l], KeyOf[l]).lock = l
      BY <1>5, <1>7, <2>2, <2>3, <3>3 DEF WillFree
    <3>4. CASE \E d \in Callbacks : pc[d] = "unlock" /\ unlocking[d] = l
      BY <1>2, <3>4 DEF WillFree
    <3> QED BY <2>1, <3>1, <3>2, <3>3, <3>4 DEF WillFree
  <2> QED BY <2>1, <2>2, <2>4
<1> QED
  BY <1>6, <1>8, <1>9, <1>10, <1>11, <1>12, <1>13, <1>14 DEF IInv, ControllerInv

LEMMA KillStep ==
  ASSUME IInv, NEW p \in Procs, Kill(p)
  PROVE  IInv'
<1>1. Typed /\ Counted /\ Placed /\ Ended /\ Answered
  BY DEF IInv, ControllerInv
<1>2. /\ phase[p] \in {"up", "down"} /\ phase' = [phase EXCEPT ![p] = "killed"]
      /\ UNCHANGED <<lockVars, locks, to_cancel, pc, unlocking, answers, stolen>>
  BY DEF Kill
<1>3. phase'[p] = "killed" /\ \A q \in Procs \ {p} : phase'[q] = phase[q]
  BY <1>1, <1>2 DEF Typed
<1>4. Typed'
  BY <1>1, <1>2 DEF Typed
<1>5. Counted'
  BY <1>1, <1>2, CountedUnmoved
<1>6. Ended'
  BY <1>1, <1>2, <1>3 DEF Ended
<1>7. Answered'
  <2>1. ASSUME NEW d \in Callbacks PROVE CalledRight(d)'
    BY <1>1, <1>2, <1>3, Places DEF Answered, CalledRight
  <2> QED BY <1>1, <1>2, <1>3, <2>1 DEF Answered
<1>8. Quiet
  BY <1>2, <1>3 DEF Quiet, Firm, Lives, InfoOf
<1> QED BY <1>4, <1>5, <1>6, <1>7, <1>8, QuietStep DEF IInv, ControllerInv

\* Time passes, or nothing does.
LEMMA IdleStep ==
  ASSUME IInv, Tick \/ UNCHANGED lockVars, UNCHANGED controllerVars
  PROVE  IInv'
<1>1. Typed /\ Counted /\ Placed /\ Ended /\ Answered
  BY DEF IInv, ControllerInv
<1>2. Typed' /\ Ended'
  BY <1>1 DEF controllerVars, Typed, Ended
<1>3. Counted'
  BY <1>1, CountedUnmoved DEF controllerVars
<1>4. Answered'
  BY <1>1 DEF controllerVars, Answered, CalledRight
<1>5. Quiet
  BY DEF controllerVars, Quiet, Firm, Lives, InfoOf
<1> QED BY <1>2, <1>3, <1>4, <1>5, QuietStep DEF IInv, ControllerInv

-----------------------------------------------------------------------------
LEMMA IInvInit == Init => IInv
<1> SUFFICES ASSUME Init PROVE IInv
  OBVIOUS
<1>1. BucketInv
  BY BucketInit DEF Init
<1>2. Typed
  <2>1. <<>> \in Seq({"run", "cancel"})
    OBVIOUS
  <2> QED BY <2>1 DEF Init, Typed
<1>3. Counted
  <2>1. \A p, k : At(p, k, Pins) = {} /\ At(p, k, Waits) = {}
    BY WaitsAndPins DEF Init, At
  <2>2. \A p \in Procs, k \in Keys : locks[p][k] = Null
    BY DEF Init
  <2> QED BY <2>1, <2>2, FS_EmptySet DEF Counted, InfoOf, FreshInfo
<1>4. Placed
  BY NullAssumption DEF Init, Placed, InfoOf, FreshInfo
<1>5. Ended
  BY DEF Init, Ended
<1>6. Answered
  <2>1. \A c \in Callbacks : /\ answers[c] = <<>> /\ pc[c] = "new"
                             /\ to_cancel[ProcOf[c]] = {}
    BY Places DEF Init
  <2>2. \A c \in Callbacks : Len(answers[c]) = 0
    BY <2>1
  <2>3. \A c \in Callbacks : CalledRight(c)
    BY <2>1, <2>2, WaitsAndPins DEF CalledRight
  <2> QED BY <2>3 DEF Init, Answered
<1>7. Owning /\ Accounted
  BY NullAssumption
     DEF Init, LockInit, Owning, Accounted, InfoOf, FreshInfo, Free, kNotAcquired
<1> QED BY <1>1, <1>2, <1>3, <1>4, <1>5, <1>6, <1>7 DEF IInv, ControllerInv

LEMMA IInvNext == IInv /\ [Next]_vars => IInv'
<1> SUFFICES ASSUME IInv, [Next]_vars PROVE IInv'
  OBVIOUS
<1>1. ASSUME NEW c \in Callbacks, ScheduleRewrite(c) \/ Carry(c)
      PROVE  IInv'
  BY <1>1, ScheduleRewriteStep, FastPathStep, StealOldOnceStep, LockObtainedStep,
     LockFailedStep, NotifyRewriteCompleteStep, NotifyUnlocksStep, NotifyUnpinsStep,
     ShutDownCancelsStep DEF Carry
<1>2. ASSUME NEW p \in Procs, ShutDown(p) \/ Destroy(p) \/ Kill(p)
      PROVE  IInv'
  BY <1>2, ShutDownStep, DestroyStep, KillStep
<1>3. CASE TimePasses \/ UNCHANGED vars
  BY <1>3, IdleStep DEF TimePasses, vars
<1> QED BY <1>1, <1>2, <1>3 DEF Next

LEMMA IInvAlways == Spec => []IInv
BY IInvInit, IInvNext, PTL DEF Spec

\* Slots, lock objects and LockInfos agree at any moment, whoever steals, shuts
\* down, destroys or is killed: at most one lock object has a claim to a slot of
\* a name, and NotifyRewriteComplete finds its LockInfo again.
THEOREM AlwaysConsistent == Spec => []LocksConsistent
<1>1. IInv => LocksConsistent
  <2> SUFFICES ASSUME IInv PROVE LocksConsistent
    OBVIOUS
  <2>1. Typed /\ Counted /\ BucketInv
    BY DEF IInv, ControllerInv
  <2>2. ASSUME NEW p \in Procs, NEW k \in Keys, locks[p][k] # Null
        PROVE  locks[p][k].pin_count <= Cardinality(Callbacks)
    <3>1. locks[p][k].pin_count = Cardinality(At(p, k, Pins))
      BY <2>1, <2>2 DEF Counted, InfoOf
    <3> QED BY <3>1, AtFinite
  <2>3. TypeOK
    BY <2>1, <2>2 DEF Typed, TypeOK, BucketInv, Waits, Pins
  <2>4. OneOwner
    <3>1. ASSUME NEW k \in Keys PROVE Cardinality(Owners(k)) <= 1
      <4>1. \A l, m \in Owners(k) : l = m
        BY <2>1 DEF BucketInv, OneClaim, Owners
      <4>2. CASE Owners(k) = {}
        BY <4>2, FS_EmptySet
      <4>3. CASE Owners(k) # {}
        <5>1. PICK l : l \in Owners(k)
          BY <4>3
        <5>2. Owners(k) = {l}
          BY <4>1, <5>1
        <5> QED BY <5>2, FS_Singleton
      <4> QED BY <4>2, <4>3
    <3> QED BY <2>1, <3>1 DEF OneOwner, BucketInv
  <2>5. PinnedInfoStays
    <3> SUFFICES ASSUME NEW c \in Callbacks, pc[c] \in {"unlock", "unpin"},
                        Info(c) = Null
                 PROVE  FALSE
      BY DEF PinnedInfoStays
    <3>1. ProcOf[c] \in Procs /\ KeyOf[c] \in Keys
      BY Places
    <3>2. Cardinality(At(ProcOf[c], KeyOf[c], Pins)) = 0
      BY <2>1, <3>1 DEF Counted, InfoOf, Info, FreshInfo
    <3>3. c \in At(ProcOf[c], KeyOf[c], Pins)
      BY WaitsAndPins DEF At
    <3> QED BY <3>2, <3>3, AtFinite, FS_EmptySet
  <2> QED BY <2>3, <2>4, <2>5 DEF LocksConsistent
<1> QED BY <1>1, IInvAlways, PTL

\* As long as nobody stole the lock of a key, one rewrite of it runs at a time in
\* all processes together, and owns a slot.
THEOREM OneRewriteAtATime == Spec => []OneRewritePerKey
<1>1. IInv => OneRewritePerKey
  <2> SUFFICES ASSUME IInv, NEW k \in Keys \ stolen
               PROVE  /\ \A c, d \in Working(k) : c = d
                      /\ \A c \in Working(k) : OwnSlots(c) # {}
    BY DEF OneRewritePerKey
  <2>1. ASSUME NEW c \in Working(k) PROVE c \in Locks /\ HashOf[c] = k /\ OwnSlots(c) # {}
    BY DEF IInv, Owning, Working, KeyOf, Callbacks
  <2> QED BY <2>1 DEF IInv, BucketInv, OneClaim
<1> QED BY <1>1, IInvAlways, PTL

\* Every call ends with one answer and, when nobody is inside, leaves no LockInfo
\* and, unless a process was killed, no slot behind.
THEOREM CallsEndClean == Spec => []EndsClean
<1>1. IInv => CalledOnce
  <2> SUFFICES ASSUME IInv, NEW c \in Callbacks
               PROVE  /\ Len(answers[c]) <= 1
                      /\ pc[c] = "over" /\ c \notin to_cancel[ProcOf[c]]
                           => answers[c] # <<>>
    BY DEF CalledOnce
  <2> QED BY WaitsAndPins DEF IInv, ControllerInv, Answered, CalledRight
<1>2. ASSUME IInv, NEW p \in Procs, phase[p] = "up", AtRest(p), NEW k \in Keys
      PROVE  locks[p][k] = Null
  <2>1. \A S : S = Pins \/ S = Waits => At(p, k, S) = {}
    BY <1>2, WaitsAndPins DEF AtRest, At, Of
  <2>2. /\ InfoOf(p, k).pin_count = 0 /\ InfoOf(p, k).pending_callbacks = {}
    BY <1>2, <2>1, FS_EmptySet DEF IInv, ControllerInv, Counted
  <2>3. InfoOf(p, k).lock = Null
    <3> SUFFICES ASSUME NEW l \in Callbacks, InfoOf(p, k).lock = l PROVE FALSE
      BY <1>2, InfoTyped DEF IInv, ControllerInv
    <3>1. ProcOf[l] = p /\ pc[l] = "running"
      BY <1>2 DEF IInv, ControllerInv, Placed
    <3> QED BY <1>2, <3>1 DEF AtRest, Of
  <2> QED BY <1>2, <2>2, <2>3 DEF IInv, ControllerInv, Counted, InfoOf, Unused
<1>3. ASSUME IInv, \A p \in Procs : phase[p] = "gone" \/ (phase[p] = "up" /\ AtRest(p)),
             NEW s \in Slots, ~Free(s)
      PROVE  FALSE
  <2>1. PICK l \in Locks : WillFree(l)
    BY <1>3 DEF IInv, Accounted
  <2>2. \A c \in Callbacks : pc[c] \in {"new", "over"}
    BY <1>3, Places DEF IInv, ControllerInv, Ended, AtRest, Of
  <2>3. ProcOf[l] \in Procs /\ KeyOf[l] \in Keys /\ l \in Callbacks
    BY Places DEF Callbacks
  <2>4. locks[ProcOf[l]][KeyOf[l]] = Null
    BY <1>2, <1>3, <2>3 DEF IInv, ControllerInv, Ended
  <2> QED BY <1>3, <2>1, <2>2, <2>3, <2>4, NullAssumption DEF WillFree, InfoOf, FreshInfo
<1>4. IInv => NothingHeldAtRest
  BY <1>2, <1>3 DEF NothingHeldAtRest
<1> QED BY <1>1, <1>4, IInvAlways, PTL DEF EndsClean
=============================================================================
