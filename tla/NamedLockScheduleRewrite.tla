----------------------- MODULE NamedLockScheduleRewrite -----------------------
(***************************************************************************)
(* NamedLockScheduleRewriteController (pagespeed/controller), one in each  *)
(* server process, over the shared-memory locks of module SharedMemLock.   *)
(* A rewrite of a key runs while its lock is held; the lock is tried once  *)
(* and not waited for (wait_ms 0), but an old one is stolen.  ShutDown     *)
(* cancels what is pending; a process may be killed and leave its slots    *)
(* behind.                                                                 *)
(*                                                                         *)
(* ScheduleRewrite makes a new lock object for each callback, so a lock    *)
(* object is named by its callback, its hash by its key.  An action is a   *)
(* critical section of the controller's mutex or of the bucket's, or the   *)
(* call of a callback between them.  Left out: statistics.                 *)
(***************************************************************************)
EXTENDS SharedMemLock, FiniteSets, Sequences

CONSTANTS Procs,    \* server processes, each with one controller
          ProcOf,   \* the process that schedules each callback
          MaxTime,  \* bound on now
          MaxCrashes, \* bound on the processes killed
          Null

Callbacks == Locks
Keys == Hashes
KeyOf == HashOf

LockInfos == [lock : Callbacks \cup {Null}, pending_callbacks : SUBSET Callbacks,
              pin_count : Nat]

ASSUME ProcsAssumption == ProcOf \in [Callbacks -> Procs]
ASSUME FiniteAssumption == IsFiniteSet(Callbacks)
ASSUME NullAssumption == Null \notin Callbacks \cup LockInfos
ASSUME BoundsAssumption == MaxTime \in Nat /\ MaxCrashes \in Nat

VARIABLES
  locks,       \* locks_ of each process: key to LockInfo, Null where absent
  phase,       \* per process: "up", shut_down_ set: "down", "gone", "killed"
  to_cancel,   \* per process: what ShutDown still has to cancel
  pc,          \* where the thread that carries each callback is
  unlocking,   \* the lock taken out of its LockInfo by NotifyRewriteComplete
  answers,     \* how each callback was called: run or cancel, in order
  stolen       \* history: the keys whose lock was stolen from a holder

controllerVars == <<locks, phase, to_cancel, pc, unlocking, answers, stolen>>
vars == <<lockVars, controllerVars>>

FreshInfo == [lock |-> Null, pending_callbacks |-> {}, pin_count |-> 0]

Init ==
  /\ LockInit
  /\ locks = [p \in Procs |-> [k \in Keys |-> Null]]
  /\ phase = [p \in Procs |-> "up"]
  /\ to_cancel = [p \in Procs |-> {}]
  /\ pc = [c \in Callbacks |-> "new"]
  /\ unlocking = [c \in Callbacks |-> Null]
  /\ answers = [c \in Callbacks |-> <<>>]
  /\ stolen = {}

Info(c) == locks[ProcOf[c]][KeyOf[c]]
GetLockInfo(c) == IF Info(c) = Null THEN FreshInfo ELSE Info(c)
DeletedIfUnused(info) ==
  IF /\ info.lock = Null /\ info.pin_count <= 0
     /\ info.pending_callbacks = {}
  THEN Null ELSE info
SetInfo(c, info) == locks' = [locks EXCEPT ![ProcOf[c]][KeyOf[c]] = info]

Alive(c) == phase[ProcOf[c]] \in {"up", "down"}
ShutDownSet(c) == phase[ProcOf[c]] = "down"
GoesTo(c, from, to) == Alive(c) /\ pc[c] = from /\ pc' = [pc EXCEPT ![c] = to]
Answer(c, how) == answers' = [answers EXCEPT ![c] = Append(@, how)]

-----------------------------------------------------------------------------
ScheduleRewrite(c) ==
  /\ \/ /\ ~ShutDownSet(c)
        /\ GoesTo(c, "new", "trying")
        /\ SetInfo(c, [GetLockInfo(c) EXCEPT !.pending_callbacks = @ \cup {c}])
        /\ UNCHANGED answers
     \/ /\ ShutDownSet(c)
        /\ GoesTo(c, "new", "over")
        /\ Answer(c, "cancel")
        /\ UNCHANGED locks
  /\ UNCHANGED <<lockVars, phase, to_cancel, unlocking, stolen>>

\* LockTimedWaitStealOld with wait_ms = 0: the fast path, ...
FastPath(c) ==
  /\ \/ TryLock(c) /\ GoesTo(c, "trying", "obtained")
     \/ TryLockFails(c) /\ GoesTo(c, "trying", "stealing")
  /\ UNCHANGED <<locks, phase, to_cancel, unlocking, answers, stolen>>

\* ... then one attempt that may steal.
StealOldOnce(c) ==
  /\ \/ /\ TryLockStealOld(c)
        /\ GoesTo(c, "stealing", "obtained")
        /\ stolen' = stolen \cup {h \in {KeyOf[c]} : \E s \in Matching(h) : ~Free(s)}
     \/ /\ TryLockStealOldFails(c)
        /\ GoesTo(c, "stealing", "failed")
        /\ UNCHANGED stolen
  /\ UNCHANGED <<locks, phase, to_cancel, unlocking, answers>>

\* Mutant of LockObtained: the lock that it displaces is dropped, still locked.
LockObtainedLeaks(c) ==
  /\ GoesTo(c, "obtained", IF ShutDownSet(c) THEN "over" ELSE "running")
  /\ SetInfo(c, [GetLockInfo(c) EXCEPT !.lock = c, !.pending_callbacks = @ \ {c}])
  /\ IF ShutDownSet(c) THEN UNCHANGED answers ELSE Answer(c, "run")
  /\ UNCHANGED <<lockVars, phase, to_cancel, unlocking, stolen>>
\* Puts the lock into its LockInfo, which deletes, and so unlocks, another that
\* it finds there; then calls the callback, unless ShutDown has been there.
LockObtained(c) ==
  LET old == GetLockInfo(c).lock
  IN  /\ GoesTo(c, "obtained", IF ShutDownSet(c) THEN "over" ELSE "running")
      /\ UnlockAll({old} \ {Null})
      /\ SetInfo(c, [GetLockInfo(c) EXCEPT !.lock = c,
                                           !.pending_callbacks = @ \ {c}])
      /\ IF ShutDownSet(c) THEN UNCHANGED answers ELSE Answer(c, "run")
      /\ UNCHANGED <<phase, to_cancel, unlocking, stolen>>

\* Mutant of LockFailed: it does not look at shut_down_.
LockFailedAnswersTwice(c) ==
  /\ GoesTo(c, "failed", "over")
  /\ SetInfo(c, DeletedIfUnused([GetLockInfo(c) EXCEPT !.pending_callbacks = @ \ {c}]))
  /\ Answer(c, "cancel")
  /\ UNCHANGED <<lockVars, phase, to_cancel, unlocking, stolen>>
LockFailed(c) ==
  /\ GoesTo(c, "failed", "over")
  /\ SetInfo(c, DeletedIfUnused([GetLockInfo(c) EXCEPT !.pending_callbacks = @ \ {c}]))
  /\ IF ShutDownSet(c) THEN UNCHANGED answers ELSE Answer(c, "cancel")
  /\ UNCHANGED <<lockVars, phase, to_cancel, unlocking, stolen>>

\* NotifyRewriteComplete, or NotifyRewriteFailed which calls it.  Its first
\* half takes the lock, whoever it belongs to, out of the LockInfo.
NotifyRewriteComplete(c) ==
  /\ IF GetLockInfo(c).lock = Null
     THEN /\ GoesTo(c, "running", "over")
          /\ SetInfo(c, DeletedIfUnused(GetLockInfo(c)))
          /\ UNCHANGED unlocking
     ELSE /\ GoesTo(c, "running", "unlock")
          /\ SetInfo(c, [GetLockInfo(c) EXCEPT !.pin_count = @ + 1, !.lock = Null])
          /\ unlocking' = [unlocking EXCEPT ![c] = GetLockInfo(c).lock]
  /\ UNCHANGED <<lockVars, phase, to_cancel, answers, stolen>>

NotifyUnlocks(c) ==
  /\ GoesTo(c, "unlock", "unpin")
  /\ Unlock(unlocking[c])
  /\ UNCHANGED <<locks, phase, to_cancel, unlocking, answers, stolen>>

\* The pinned LockInfo is used again: it must still be in the map.
NotifyUnpins(c) ==
  /\ GoesTo(c, "unpin", "over")
  /\ Info(c) # Null
  /\ SetInfo(c, DeletedIfUnused([Info(c) EXCEPT !.pin_count = @ - 1]))
  /\ unlocking' = [unlocking EXCEPT ![c] = Null]
  /\ UNCHANGED <<lockVars, phase, to_cancel, answers, stolen>>

ShutDown(p) ==
  /\ phase[p] = "up"
  /\ phase' = [phase EXCEPT ![p] = "down"]
  /\ to_cancel' = [to_cancel EXCEPT ![p] =
       UNION {locks[p][k].pending_callbacks : k \in {j \in Keys : locks[p][j] # Null}}]
  /\ UNCHANGED <<lockVars, locks, pc, unlocking, answers, stolen>>

ShutDownCancels(c) ==
  /\ Alive(c) /\ c \in to_cancel[ProcOf[c]]
  /\ to_cancel' = [to_cancel EXCEPT ![ProcOf[c]] = @ \ {c}]
  /\ Answer(c, "cancel")
  /\ UNCHANGED <<lockVars, locks, phase, pc, unlocking, stolen>>

Of(p) == {c \in Callbacks : ProcOf[c] = p}
AtRest(p) == to_cancel[p] = {} /\ \A c \in Of(p) : pc[c] \in {"new", "over"}

\* The destructor, when nobody is inside: it deletes the locks still held.
Destroy(p) ==
  /\ phase[p] = "down" /\ AtRest(p)
  /\ phase' = [phase EXCEPT ![p] = "gone"]
  /\ UnlockAll({locks[p][k].lock : k \in {j \in Keys : locks[p][j] # Null}} \ {Null})
  /\ locks' = [locks EXCEPT ![p] = [k \in Keys |-> Null]]
  /\ UNCHANGED <<to_cancel, pc, unlocking, answers, stolen>>

\* The process is killed: its slots stay as they are.
Kill(p) ==
  /\ phase[p] \in {"up", "down"}
  /\ Cardinality({q \in Procs : phase[q] = "killed"}) < MaxCrashes
  /\ phase' = [phase EXCEPT ![p] = "killed"]
  /\ UNCHANGED <<lockVars, locks, to_cancel, pc, unlocking, answers, stolen>>

TimePasses == now < MaxTime /\ Tick /\ UNCHANGED controllerVars

Carry(c) ==
  \/ FastPath(c) \/ StealOldOnce(c) \/ LockObtained(c) \/ LockFailed(c)
  \/ NotifyRewriteComplete(c) \/ NotifyUnlocks(c) \/ NotifyUnpins(c)
  \/ ShutDownCancels(c)

Next ==
  \/ \E c \in Callbacks : ScheduleRewrite(c) \/ Carry(c)
  \/ \E p \in Procs : ShutDown(p) \/ Destroy(p) \/ Kill(p)
  \/ TimePasses

Spec == Init /\ [][Next]_vars

-----------------------------------------------------------------------------
TypeOK ==
  /\ LockTypeOK
  /\ locks \in [Procs -> [Keys -> {Null} \cup LockInfos]]
  /\ \A p \in Procs, k \in Keys :
       locks[p][k] # Null => locks[p][k].pin_count <= Cardinality(Callbacks)
  /\ phase \in [Procs -> {"up", "down", "gone", "killed"}]
  /\ to_cancel \in [Procs -> SUBSET Callbacks]
  /\ pc \in [Callbacks -> {"new", "trying", "stealing", "obtained", "failed",
        "running", "unlock", "unpin", "over"}]
  /\ unlocking \in [Callbacks -> Callbacks \cup {Null}]
  /\ answers \in [Callbacks -> Seq({"run", "cancel"})]
  /\ stolen \subseteq Keys

Working(k) == {c \in Callbacks : KeyOf[c] = k /\ pc[c] = "running" /\ Alive(c)}

\* Unless its lock was stolen, one rewrite of a key runs at a time in all
\* processes together, and it owns a slot of the bucket: a lost race, a kill, a
\* shutdown or a full bucket lets nobody else in.
OneRewritePerKey ==
  \A k \in Keys \ stolen :
    /\ \A c, d \in Working(k) : c = d
    /\ \A c \in Working(k) : OwnSlots(c) # {}

\* Stealing or not, at most one lock object has a claim to a slot, so that an
\* Unlock too late cannot free the slot of a thief.
OneOwner == OneSlotPerHash /\ \A k \in Keys : Cardinality(Owners(k)) <= 1

\* The LockInfo that NotifyRewriteComplete uses again after it released the
\* mutex is still in the map.
PinnedInfoStays == \A c \in Callbacks : pc[c] \in {"unlock", "unpin"} => Info(c) # Null

\* Slots, lock objects and LockInfos agree, with stealing and destruction at any
\* moment.
LocksConsistent == TypeOK /\ OneOwner /\ PinnedInfoStays

\* When no thread is inside a controller that was not shut down, no LockInfo is
\* left in its map; and when that is so of all processes and none was killed,
\* no slot is left taken.
NothingHeldAtRest ==
  /\ \A p \in Procs :
       phase[p] = "up" /\ AtRest(p) => \A k \in Keys : locks[p][k] = Null
  /\ (\A p \in Procs : phase[p] = "gone" \/ (phase[p] = "up" /\ AtRest(p)))
       => \A s \in Slots : Free(s)

\* A callback is called once, run or cancelled, whether the lock's answer or
\* ShutDown comes first, and has been when its thread is through.
CalledOnce ==
  \A c \in Callbacks :
    /\ Len(answers[c]) <= 1
    /\ pc[c] = "over" /\ c \notin to_cancel[ProcOf[c]] => answers[c] # <<>>

\* Whatever way a call ended, it answered once and left nothing behind.
EndsClean == NothingHeldAtRest /\ CalledOnce
=============================================================================
