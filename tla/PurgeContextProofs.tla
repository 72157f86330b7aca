-------------------------- MODULE PurgeContextProofs --------------------------
(***************************************************************************)
(* For any number of processes, requests, kills, failures and polls: every *)
(* request is in one place and answered once; and as long as no lock was   *)
(* stolen from a chain at work, the purge file keeps what was acknowledged *)
(* and what it knows reaches the processes that poll it, except for what   *)
(* failing reads of the file are to blame for, purge by purge.             *)
(*                                                                         *)
(* The first needs no lock (Contexts, Chaining, Accounted).  The second    *)
(* needs that one chain is at work at a time (Serial), which comes from    *)
(* the invariant of the bucket, and says who is responsible for each purge *)
(* that is in the file: a request told of success, a chain that will tell  *)
(* it, a process that was killed before it could, or a verification that   *)
(* could not read the file (InFile).                                       *)
(***************************************************************************)
EXTENDS PurgeContext, SharedMemLockProofs

Places == {"new", "grab", "joined", "poll", "read", "modify", "write", "verify",
           "failed", "unlock", "notify", "over"}
ContextType ==
  [pending_purges : SUBSET Requests, pending_callbacks : SUBSET Requests,
   waiting : BOOLEAN, num_consecutive_failures : Nat, purge_set : SUBSET Requests,
   local_purge_index : Nat, reading : {"no", "file", "apply"},
   purges_from_file : SUBSET Requests, needs_update : BOOLEAN]
ChainType ==
  [pc : Places, end : Nat, buffer : SUBSET Requests, callbacks : SUBSET Requests,
   purges : SUBSET Requests, failures : Nat, success : BOOLEAN, again : BOOLEAN]
Answers == {<<>>, <<"success">>, <<"failure">>, <<"timeout">>}
Typed ==
  /\ BucketInv
  /\ file \in SUBSET Requests /\ purge_index \in Nat
  /\ ctx \in [Procs -> ContextType]
  /\ chain \in [Requests -> ChainType]
  /\ answer \in [Requests -> Answers]
  /\ killed \in SUBSET Procs /\ stolen \in BOOLEAN
  /\ forgotten \in SUBSET Requests /\ unverified \in SUBSET Requests
  /\ missed \in [Procs -> SUBSET Requests]

\* Chain r is the one that its process's flag stands for.
Waits(r) == chain[r].pc \in {"grab", "poll", "read", "modify"} \/ chain[r].again
ContextIsSound(p) ==
  /\ ctx[p].pending_purges = ctx[p].pending_callbacks
  /\ ctx[p].waiting <=> ctx[p].pending_callbacks # {}
  /\ \A r \in ctx[p].pending_callbacks : ProcOf[r] = p
  /\ ctx[p].waiting <=> \E r \in Requests : ProcOf[r] = p /\ Waits(r)
  /\ p \in killed => ~ctx[p].waiting
Contexts == \A p \in Procs : ContextIsSound(p)
OneInLine ==
  \A q, r \in Requests : ProcOf[q] = ProcOf[r] /\ Waits(q) /\ Waits(r) => q = r
ChainIsSound(r) ==
  /\ chain[r].again => chain[r].pc \in {"unlock", "notify"}
  /\ chain[r].pc \in {"write", "verify", "failed"}
       => /\ chain[r].callbacks # {} /\ chain[r].purges = chain[r].callbacks
          /\ chain[r].success
  /\ chain[r].again
       \/ chain[r].pc \notin {"write", "verify", "failed", "unlock", "notify"}
       => chain[r].callbacks = {}
  /\ \A q \in chain[r].callbacks : ProcOf[q] = ProcOf[r]
  /\ ProcOf[r] \in killed => chain[r].pc = "over"
Chaining == OneInLine /\ \A r \in Requests : ChainIsSound(r)

Holds(q, r) == r \in chain[q].callbacks
Pending(r) == r \in Ctx(r).pending_callbacks
Accounted ==
  /\ \A p, q, r \in Requests : Holds(p, r) /\ Holds(q, r) => p = q
  /\ \A q, r \in Requests : Holds(q, r) => answer[r] = <<>> /\ ~Pending(r)
  /\ \A r \in Requests : Pending(r) => answer[r] = <<>>
  /\ \A r \in Requests :
       chain[r].pc = "new" =>
         answer[r] = <<>> /\ ~Pending(r) /\ \A q \in Requests : ~Holds(q, r)
  /\ \A r \in Requests :
       chain[r].pc # "new" /\ ProcOf[r] \notin killed =>
         answer[r] # <<>> \/ Pending(r) \/ \E q \in Requests : Holds(q, r)

\* Chain q has written its purges, and will say so.
Wrote(q) == chain[q].pc \in {"verify", "unlock", "notify"} /\ chain[q].success
\* A chain puts nothing into the file but its purges, and leaves nothing out but
\* what its read did.
Faithful(r) ==
  /\ chain[r].pc = "modify"
       => chain[r].buffer \subseteq file /\ file \ chain[r].buffer \subseteq forgotten
  /\ chain[r].pc = "write"
       => /\ chain[r].purges \subseteq chain[r].buffer
          /\ chain[r].buffer \subseteq file \cup chain[r].purges
          /\ file \ chain[r].buffer \subseteq forgotten
  /\ chain[r].pc = "verify" => chain[r].buffer = file
  /\ Wrote(r) => chain[r].callbacks \subseteq file \cup forgotten
Serial ==
  /\ \A q, r \in Requests : AtWork(q) /\ AtWork(r) => q = r
  /\ \A r \in Requests : AtWork(r) => OwnSlots(ProcOf[r]) # {}
  /\ \A r \in Requests : Faithful(r)
InFile ==
  \A x \in file :
    \/ answer[x] = <<"success">>
    \/ \E q \in Requests : Holds(q, x) /\ Wrote(q)
    \/ ProcOf[x] \in killed /\ answer[x] = <<>>
    \/ x \in unverified
Kept == Acknowledged \subseteq file \cup forgotten
Promise == ~stolen => Serial /\ InFile /\ Kept

\* What the file has lost it never gets back.
Lost == forgotten \ file
Follows(p) ==
  /\ ctx[p].local_purge_index <= purge_index
  /\ ~stolen /\ ~NeedsUpdate(p) /\ p \in Pollers \ killed
       => /\ ctx[p].reading = "no"
               => Acknowledged \subseteq ctx[p].purge_set \cup missed[p] \cup Lost
          /\ ctx[p].reading = "apply"
               => Acknowledged \subseteq ctx[p].purges_from_file \cup missed[p] \cup Lost
Reaches == \A p \in Procs : Follows(p)

IInv == Typed /\ Contexts /\ Chaining /\ Accounted /\ Promise /\ Reaches

-----------------------------------------------------------------------------
(* What the steps have in common.                                          *)

\* A callback is run once: its answer is the one that was given.
LEMMA AnAnswer ==
  /\ <<>> # <<"success">> /\ <<>> # <<"failure">> /\ <<>> # <<"timeout">>
  /\ <<"success">> # <<"failure">> /\ <<"success">> # <<"timeout">>
  /\ \A w \in {"success", "failure", "timeout"} : Append(<<>>, w) = <<w>>
OBVIOUS

\* One chain moves, and the others stay as they are.
LEMMA OthersStay ==
  ASSUME Chaining, NEW r \in Requests, killed' = killed,
         \A q \in Requests \ {r} : chain'[q] = chain[q]
  PROVE  \A q \in Requests \ {r} :
           /\ ChainIsSound(q)'
           /\ Waits(q)' <=> Waits(q)
           /\ AtWork(q)' <=> AtWork(q)
           /\ Wrote(q)' <=> Wrote(q)
BY DEF Chaining, ChainIsSound, Waits, AtWork, Wrote

\* A step that moves nobody from or to the line of a process, and no request
\* from or to the callbacks of a chain, leaves every request accounted for.
LEMMA LineStays ==
  ASSUME Contexts, OneInLine, Accounted, killed' = killed, answer' = answer,
         ProcOf \in [Requests -> Procs],
         \A p \in Procs : /\ ctx'[p].pending_purges = ctx[p].pending_purges
                          /\ ctx'[p].pending_callbacks = ctx[p].pending_callbacks
                          /\ ctx'[p].waiting = ctx[p].waiting,
         \A q \in Requests : /\ Waits(q)' <=> Waits(q)
                             /\ chain'[q].callbacks = chain[q].callbacks
                             /\ chain'[q].pc = "new" <=> chain[q].pc = "new"
  PROVE  Contexts' /\ OneInLine' /\ Accounted'
<1>1. Contexts'
  BY DEF Contexts, ContextIsSound
<1>2. OneInLine'
  BY DEF OneInLine
<1>3. \A q \in Requests : Pending(q)' <=> Pending(q)
  BY DEF Pending, Ctx
<1>4. \A q, r \in Requests : Holds(q, r)' <=> Holds(q, r)
  BY DEF Holds
<1>5. Accounted'
  BY <1>3, <1>4 DEF Accounted
<1> QED BY <1>1, <1>2, <1>5

\* What chain r may do to the record of what was misread: when it reads the file
\* it starts a new one of what is about to be lost, and keeps what is lost.
MisreadBy(r) ==
  /\ forgotten' \in SUBSET Requests /\ Lost \subseteq forgotten'
  /\ forgotten' = forgotten \/ AtWork(r)
  /\ unverified' \in SUBSET Requests /\ unverified \subseteq unverified'
  /\ missed' = missed

LEMMA NothingMisread ==
  ASSUME Typed, NEW r \in Requests, UNCHANGED misreads PROVE MisreadBy(r)
BY DEF Typed, misreads, MisreadBy, Lost

\* While a chain makes its way, what was promised is kept if it is true of the
\* chain itself afterwards, if it is alone at work, and if it told nobody.
LEMMA PromiseStays ==
  ASSUME Promise, Chaining, file \subseteq Requests, NEW r \in Requests,
         stolen' = stolen, file' = file, MisreadBy(r),
         killed' = killed, Acknowledged' = Acknowledged,
         \A q \in Requests : ProcOf[q] \in killed => answer'[q] = answer[q],
         \A q \in Requests : OwnSlots(ProcOf[q])' = OwnSlots(ProcOf[q]),
         \A q \in Requests \ {r} : chain'[q] = chain[q],
         AtWork(r)' => AtWork(r),
         ~stolen => Faithful(r)',
         \A x \in Requests :
           ~stolen /\ Holds(r, x) /\ Wrote(r)
             => (Holds(r, x)' /\ Wrote(r)') \/ x \in unverified'
  PROVE  Promise'
<1> SUFFICES ASSUME ~stolen PROVE Serial' /\ InFile' /\ Kept'
  BY DEF Promise
<1>1. Serial /\ InFile /\ Kept
  BY DEF Promise
<1>2. \A q \in Requests \ {r} : /\ AtWork(q)' <=> AtWork(q)
                                /\ Wrote(q)' <=> Wrote(q)
                                /\ \A x \in Requests : Holds(q, x)' <=> Holds(q, x)
  BY OthersStay DEF Holds, Wrote, AtWork
<1>a. \A q \in Requests \ {r} : Faithful(q)'
  <2>1. CASE forgotten' = forgotten
    BY <1>1, <1>2, <2>1 DEF Serial, Faithful
  <2>2. CASE AtWork(r)
    <3>1. \A q \in Requests \ {r} :
            ~AtWork(q) /\ (Wrote(q) => chain[q].callbacks \subseteq file \cup forgotten)
      BY <1>1, <2>2 DEF Serial, Faithful
    <3> QED BY <1>2, <3>1 DEF Faithful, AtWork, MisreadBy, Lost
  <2> QED BY <2>1, <2>2 DEF MisreadBy
<1>3. Serial'
  BY <1>1, <1>2, <1>a DEF Serial
<1>4. InFile'
  BY <1>1, <1>2 DEF InFile, Acknowledged, MisreadBy
<1>5. Kept'
  BY <1>1 DEF Kept, MisreadBy, Lost
<1> QED BY <1>3, <1>4, <1>5

\* So is what the polling processes know, if none of them does anything.
LEMMA ReachesStay ==
  ASSUME Reaches, stolen => stolen', purge_index' = purge_index,
         killed \subseteq killed', missed' = missed,
         Acknowledged' = Acknowledged,
         ~stolen' => Acknowledged \cap Lost \subseteq Lost',
         \A p \in Procs :
              /\ ctx'[p].local_purge_index = ctx[p].local_purge_index
              /\ ctx'[p].reading = ctx[p].reading
              /\ ctx'[p].purge_set = ctx[p].purge_set
              /\ ctx'[p].purges_from_file = ctx[p].purges_from_file
  PROVE  Reaches'
BY DEF Reaches, Follows, NeedsUpdate

\* A chain makes its way and leaves the lock, the file and what is pending alone.
LEMMA ChainMoves ==
  ASSUME IInv, NEW r \in Requests, UNCHANGED lockVars,
         UNCHANGED <<file, purge_index, answer, killed, stolen>>, MisreadBy(r),
         ctx' \in [Procs -> ContextType],
         \A p \in Procs : /\ ctx'[p].pending_purges = ctx[p].pending_purges
                          /\ ctx'[p].pending_callbacks = ctx[p].pending_callbacks
                          /\ ctx'[p].waiting = ctx[p].waiting
                          /\ ctx'[p].local_purge_index = ctx[p].local_purge_index
                          /\ ctx'[p].reading = ctx[p].reading
                          /\ ctx'[p].purge_set = ctx[p].purge_set
                          /\ ctx'[p].purges_from_file = ctx[p].purges_from_file,
         chain' \in [Requests -> ChainType],
         \A q \in Requests \ {r} : chain'[q] = chain[q],
         chain[r].pc # "new", chain'[r].pc # "new",
         chain'[r].callbacks = chain[r].callbacks,
         Waits(r)' <=> Waits(r), AtWork(r)' => AtWork(r),
         ~stolen /\ Wrote(r) => Wrote(r)' \/ chain[r].callbacks \subseteq unverified',
         ChainIsSound(r)', ~stolen => Faithful(r)'
  PROVE  IInv'
<1>1. /\ Typed /\ Contexts /\ OneInLine /\ Chaining /\ Accounted /\ Promise /\ Reaches
      /\ ProcOf \in [Requests -> Procs] /\ BucketInv /\ file \subseteq Requests
  BY RequestsAssumption DEF IInv, Chaining, Typed
<1>2. BucketInv' /\ \A p \in Procs : OwnSlots(p)' = OwnSlots(p)
  BY <1>1, BucketStays DEF Procs
<1>3. Typed'
  BY <1>1, <1>2 DEF Typed, MisreadBy
<1>4. Contexts' /\ OneInLine' /\ Accounted'
  BY <1>1, OthersStay, LineStays
<1>5. Chaining'
  BY <1>1, <1>4, OthersStay DEF Chaining
<1>6. Promise'
  BY <1>1, <1>2, PromiseStays DEF Acknowledged, Holds
<1>7. Reaches'
  BY <1>1, ReachesStay DEF Acknowledged, MisreadBy, Lost
<1> QED BY <1>3, <1>4, <1>5, <1>6, <1>7 DEF IInv

-----------------------------------------------------------------------------
(* The way to the lock.                                                    *)

\* Who takes the lock without stealing it from a chain at work finds nobody at
\* work.
LEMMA LockTaken ==
  ASSUME IInv, NEW r \in Requests, NEW steal \in BOOLEAN,
         NEW s \in Candidates(ProcOf[r], steal), DoLockSlot(ProcOf[r], s),
         UNCHANGED <<file, purge_index, ctx, answer, killed, misreads>>,
         stolen' \in BOOLEAN, stolen => stolen',
         ~stolen' => (steal => \A q \in Requests : ~AtWork(q)),
         chain[r].pc \in {"grab", "poll"}, chain'[r].pc = "read",
         chain' \in [Requests -> ChainType],
         chain'[r].again = chain[r].again, chain'[r].callbacks = chain[r].callbacks,
         \A q \in Requests \ {r} : chain'[q] = chain[q]
  PROVE  IInv'
<1>1. /\ Typed /\ Contexts /\ OneInLine /\ Chaining /\ Accounted /\ Promise /\ Reaches
      /\ ProcOf \in [Requests -> Procs] /\ ProcOf[r] \in Procs /\ BucketInv
      /\ ProcOf[r] \in Locks /\ file \subseteq Requests /\ ChainIsSound(r)
  BY RequestsAssumption DEF IInv, Chaining, Typed, Procs
<1>2. /\ BucketInv' /\ OwnSlots(ProcOf[r])' # {}
      /\ \A q \in Requests : OwnSlots(ProcOf[q]) # {} => steal
  <2>1. \A m \in Locks : HashOf[m] = HashOf[ProcOf[r]]
    BY <1>1, OneFileAssumption DEF Procs
  <2> QED BY <1>1, <2>1, TakesSlot DEF Procs
<1>3. Typed'
  BY <1>1, <1>2 DEF Typed, misreads
<1>4. Waits(r)' /\ Waits(r)
  BY DEF Waits
<1>5. Contexts' /\ OneInLine' /\ Accounted'
  BY <1>1, <1>4, OthersStay, LineStays
<1>6. ChainIsSound(r)'
  BY <1>1 DEF ChainIsSound
<1>7. Chaining'
  BY <1>1, <1>5, <1>6, OthersStay DEF Chaining
<1>8. Promise'
  <2> SUFFICES ASSUME ~stolen'
               PROVE  Serial' /\ InFile' /\ Kept'
    BY DEF Promise
  <2>1. Serial /\ InFile /\ Kept
    BY <1>1 DEF Promise
  <2>2. \A q \in Requests : ~AtWork(q)
    BY <1>2, <2>1 DEF Serial
  <2>3. \A q \in Requests \ {r} :
          /\ ~AtWork(q)' /\ (Wrote(q)' <=> Wrote(q)) /\ (Faithful(q)' <=> Faithful(q))
          /\ \A x \in Requests : Holds(q, x)' <=> Holds(q, x)
    BY <2>2 DEF AtWork, Wrote, Faithful, Holds, misreads
  <2>4. ~Wrote(r)' /\ ~Wrote(r) /\ Faithful(r)'
    BY DEF Wrote, Faithful
  <2>5. Serial'
    BY <1>2, <2>1, <2>3, <2>4 DEF Serial
  <2>6. InFile'
    BY <1>1, <2>1, <2>3, <2>4 DEF InFile, misreads
  <2>7. Kept'
    BY <2>1 DEF Kept, Acknowledged, misreads
  <2> QED BY <2>5, <2>6, <2>7
<1>9. Reaches'
  BY <1>1, ReachesStay DEF Acknowledged, Lost, misreads
<1> QED BY <1>3, <1>5, <1>7, <1>8, <1>9 DEF IInv

LEMMA GrabLockAndUpdateKeeps ==
  ASSUME IInv, NEW r \in Requests, GrabLockAndUpdate(r) PROVE IInv'
<1>1. /\ Typed /\ Contexts /\ OneInLine /\ Chaining /\ Accounted /\ Promise /\ Reaches
      /\ ProcOf \in [Requests -> Procs] /\ BucketInv
      /\ file \subseteq Requests /\ ChainIsSound(r) /\ stolen \in BOOLEAN
  BY RequestsAssumption DEF IInv, Chaining, Typed
<1>2. /\ chain \in [Requests -> ChainType] /\ now + TimeoutMs \in Nat
      /\ ctx \in [Procs -> ContextType]
  BY <1>1, BoundsAssumption DEF Typed, BucketInv, LockTypeOK
<1>3. UNCHANGED <<file, purge_index, ctx, answer, killed, stolen, misreads>>
  BY DEF GrabLockAndUpdate
<1>4. CASE TryLock(ProcOf[r]) /\ Goes(r, "read")
  <2>1. /\ chain[r].pc = "grab" /\ chain'[r].pc = "read"
        /\ \A q \in Requests \ {r} : chain'[q] = chain[q]
        /\ chain'[r].again = chain[r].again /\ chain'[r].callbacks = chain[r].callbacks
        /\ chain' \in [Requests -> ChainType]
    BY <1>2, <1>4 DEF GrabLockAndUpdate, At, Goes, ChainType, Places
  <2>2. PICK s \in Candidates(ProcOf[r], FALSE) : DoLockSlot(ProcOf[r], s)
    BY <1>4 DEF TryLock
  <2> QED BY <1>1, <1>3, <2>1, <2>2, LockTaken
<1>5. CASE /\ TryLockFails(ProcOf[r])
           /\ chain' = [chain EXCEPT ![r].pc = "poll", ![r].end = now + TimeoutMs]
  <2>1. /\ chain[r].pc = "grab" /\ chain'[r].pc = "poll"
        /\ \A q \in Requests \ {r} : chain'[q] = chain[q]
        /\ chain'[r].again = chain[r].again /\ chain'[r].callbacks = chain[r].callbacks
    BY <1>2, <1>5 DEF GrabLockAndUpdate, At, ChainType
  <2>1a. chain' \in [Requests -> ChainType]
    BY <1>2, <1>5 DEF ChainType, Places
  <2>2. UNCHANGED lockVars
    BY <1>5 DEF TryLockFails
  <2>3. /\ Waits(r)' /\ Waits(r) /\ ~AtWork(r)' /\ ~Wrote(r) /\ Faithful(r)'
        /\ ChainIsSound(r)'
    BY <1>1, <1>3, <2>1 DEF Waits, AtWork, Wrote, Faithful, ChainIsSound
  <2> QED BY <1>1, <1>2, <1>3, <2>1, <2>1a, <2>2, <2>3, NothingMisread, ChainMoves
<1> QED BY <1>4, <1>5 DEF GrabLockAndUpdate

LEMMA PollLockKeeps ==
  ASSUME IInv, NEW r \in Requests, PollLock(r) PROVE IInv'
<1>1. chain \in [Requests -> ChainType] /\ stolen \in BOOLEAN
  BY DEF IInv, Typed
<1>2. /\ chain[r].pc = "poll" /\ chain'[r].pc = "read"
      /\ \A q \in Requests \ {r} : chain'[q] = chain[q]
      /\ chain'[r].again = chain[r].again /\ chain'[r].callbacks = chain[r].callbacks
  BY <1>1 DEF PollLock, At, ChainType
<1>5. chain' \in [Requests -> ChainType]
  BY <1>1 DEF PollLock, ChainType, Places
<1>3. /\ UNCHANGED <<file, purge_index, ctx, answer, killed, misreads>>
      /\ stolen' = (stolen \/ \E s \in Requests : AtWork(s))
  BY DEF PollLock
<1>4. PICK s \in Candidates(ProcOf[r], TRUE) : DoLockSlot(ProcOf[r], s)
  BY DEF PollLock, TryLockStealOld
<1> QED BY <1>1, <1>2, <1>3, <1>4, <1>5, LockTaken

-----------------------------------------------------------------------------
(* Steps that change who is in line.                                       *)

LEMMA AddPurgeKeeps ==
  ASSUME IInv, NEW r \in Requests, AddPurge(r) PROVE IInv'
<1> DEFINE p == ProcOf[r]
<1>1. /\ Typed /\ Contexts /\ OneInLine /\ Chaining /\ Accounted /\ Promise /\ Reaches
      /\ ProcOf \in [Requests -> Procs] /\ p \in Procs /\ BucketInv
      /\ chain \in [Requests -> ChainType] /\ ctx \in [Procs -> ContextType]
      /\ file \subseteq Requests /\ ChainIsSound(r) /\ ContextIsSound(p)
  BY RequestsAssumption DEF IInv, Chaining, Contexts, Typed
<1>2. /\ UNCHANGED <<file, purge_index, answer, killed, stolen, misreads>>
      /\ UNCHANGED lockVars
      /\ chain[r].pc = "new" /\ p \notin killed
      /\ \A o \in Procs \ {p} : ctx'[o] = ctx[o]
      /\ \A q \in Requests \ {r} : chain'[q] = chain[q]
  BY DEF AddPurge, Goes, SetCtx, At, Typed
<1>3. /\ ctx'[p].pending_purges = ctx[p].pending_purges \cup {r}
      /\ ctx'[p].pending_callbacks = ctx[p].pending_callbacks \cup {r}
      /\ ctx'[p].waiting = TRUE
  BY <1>1 DEF AddPurge, SetCtx, Ctx, ContextType
<1>4. /\ ctx'[p].local_purge_index = ctx[p].local_purge_index
      /\ ctx'[p].reading = ctx[p].reading
      /\ ctx'[p].purge_set = ctx[p].purge_set
      /\ ctx'[p].purges_from_file = ctx[p].purges_from_file
  BY <1>1 DEF AddPurge, SetCtx, Ctx, ContextType
<1>5. ctx' \in [Procs -> ContextType]
  <2> DEFINE c == [ctx[p] EXCEPT !.pending_purges = @ \cup {r}, !.waiting = TRUE,
                                 !.pending_callbacks = @ \cup {r}]
  <2>1. c \in ContextType
    BY <1>1 DEF ContextType
  <2>2. ctx' = [ctx EXCEPT ![p] = c]
    BY DEF AddPurge, SetCtx, Ctx
  <2> HIDE DEF c
  <2> QED BY <1>1, <2>1, <2>2
<1>6. /\ chain'[r].pc = IF ctx[p].waiting THEN "joined" ELSE "grab"
      /\ chain'[r].again = chain[r].again /\ chain'[r].callbacks = chain[r].callbacks
  BY <1>1 DEF AddPurge, Goes, Ctx, ChainType
<1>7. chain' \in [Requests -> ChainType]
  BY <1>1 DEF AddPurge, Goes, Ctx, ChainType, Places
<1>8. BucketInv' /\ \A o \in Procs : OwnSlots(o)' = OwnSlots(o)
  BY <1>1, <1>2, BucketStays DEF Procs
<1>9. Typed'
  BY <1>1, <1>2, <1>5, <1>7, <1>8 DEF Typed, misreads
<1>10. /\ ~Waits(r) /\ (Waits(r)' <=> ~ctx[p].waiting)
       /\ ~AtWork(r)' /\ ~Wrote(r) /\ Faithful(r)'
       /\ chain[r].callbacks = {}
  BY <1>1, <1>2, <1>6 DEF Waits, AtWork, Wrote, Faithful, ChainIsSound
<1>11. ContextIsSound(p)'
  <2>1. \E q \in Requests : ProcOf[q] = p /\ Waits(q)'
    BY <1>1, <1>2, <1>10, OthersStay DEF ContextIsSound
  <2> QED BY <1>1, <1>2, <1>3, <2>1 DEF ContextIsSound
<1>12. Contexts'
  <2> SUFFICES ASSUME NEW o \in Procs, o # p PROVE ContextIsSound(o)'
    BY <1>11 DEF Contexts
  <2>1. \A q \in Requests : ProcOf[q] = o => (Waits(q)' <=> Waits(q))
    BY <1>1, <1>2, OthersStay
  <2> QED BY <1>1, <1>2, <2>1 DEF Contexts, ContextIsSound
<1>13. OneInLine'
  BY <1>1, <1>2, <1>10, OthersStay DEF OneInLine, ContextIsSound
<1>14. ChainIsSound(r)'
  BY <1>1, <1>2, <1>6, <1>10 DEF ChainIsSound
<1>15. Chaining'
  BY <1>1, <1>2, <1>13, <1>14, OthersStay DEF Chaining
<1>16. /\ Pending(r)' /\ \A q \in Requests \ {r} : Pending(q)' <=> Pending(q)
       /\ \A q, x \in Requests : Holds(q, x)' <=> Holds(q, x)
  BY <1>1, <1>2, <1>3, <1>6 DEF Pending, Ctx, Holds
<1>17. Accounted'
  <2>1. answer[r] = <<>> /\ \A q \in Requests : ~Holds(q, r)
    BY <1>1, <1>2 DEF Accounted
  <2>2. \A x \in Requests : x # r /\ chain'[x].pc = "new" => chain[x].pc = "new"
    BY <1>2
  <2>3. chain'[r].pc # "new"
    BY <1>6
  <2> QED BY <1>1, <1>2, <1>16, <2>1, <2>2, <2>3 DEF Accounted
<1>18. Promise'
  BY <1>1, <1>2, <1>8, <1>10, NothingMisread, PromiseStays
     DEF Acknowledged
<1>19. Reaches'
  BY <1>1, <1>2, <1>4, ReachesStay DEF Acknowledged, Lost, misreads
<1> QED BY <1>9, <1>12, <1>15, <1>17, <1>18, <1>19 DEF IInv

LEMMA CancelCachePurgeFileKeeps ==
  ASSUME IInv, NEW r \in Requests, CancelCachePurgeFile(r) PROVE IInv'
<1> DEFINE p == ProcOf[r]
<1>1. /\ Typed /\ Contexts /\ OneInLine /\ Chaining /\ Accounted /\ Promise /\ Reaches
      /\ ProcOf \in [Requests -> Procs] /\ p \in Procs /\ BucketInv
      /\ chain \in [Requests -> ChainType] /\ ctx \in [Procs -> ContextType]
      /\ file \subseteq Requests /\ ChainIsSound(r) /\ ContextIsSound(p)
  BY RequestsAssumption DEF IInv, Chaining, Contexts, Typed
<1>a. chain' = [chain EXCEPT ![r].pc = "over", ![r].end = 0]
  BY DEF CancelCachePurgeFile
<1>2. /\ UNCHANGED <<file, purge_index, killed, stolen, misreads>>
      /\ UNCHANGED lockVars
      /\ chain[r].pc = "poll" /\ p \notin killed
      /\ \A o \in Procs \ {p} : ctx'[o] = ctx[o]
      /\ \A q \in Requests \ {r} : chain'[q] = chain[q]
  <2>1. \A q \in Requests \ {r} : chain'[q] = chain[q]
    BY <1>1, <1>a DEF Typed, ChainType
  <2>2. \A o \in Procs \ {p} : ctx'[o] = ctx[o]
    BY <1>1 DEF CancelCachePurgeFile, SetCtx, Typed
  <2>3. UNCHANGED lockVars
    BY DEF CancelCachePurgeFile, TryLockStealOldFails
  <2> QED BY <2>1, <2>2, <2>3 DEF CancelCachePurgeFile, At
<1>3. /\ ctx'[p].pending_purges = {} /\ ctx'[p].pending_callbacks = {}
      /\ ctx'[p].waiting = FALSE
  BY <1>1 DEF CancelCachePurgeFile, SetCtx, Ctx, ContextType
<1>4. /\ ctx'[p].local_purge_index = ctx[p].local_purge_index
      /\ ctx'[p].reading = ctx[p].reading
      /\ ctx'[p].purge_set = ctx[p].purge_set
      /\ ctx'[p].purges_from_file = ctx[p].purges_from_file
  BY <1>1 DEF CancelCachePurgeFile, SetCtx, Ctx, ContextType
<1>5. ctx' \in [Procs -> ContextType]
  <2> DEFINE c == [ctx[p] EXCEPT !.pending_purges = {}, !.pending_callbacks = {},
                                 !.waiting = FALSE]
  <2>1. c \in ContextType
    BY <1>1 DEF ContextType
  <2>2. ctx' = [ctx EXCEPT ![p] = c]
    BY DEF CancelCachePurgeFile, SetCtx, Ctx
  <2> HIDE DEF c
  <2> QED BY <1>1, <2>1, <2>2
<1>6. /\ chain'[r].pc = "over"
      /\ chain'[r].again = chain[r].again /\ chain'[r].callbacks = chain[r].callbacks
  BY <1>1, <1>a DEF Typed, ChainType
<1>7. chain' \in [Requests -> ChainType]
  <2> DEFINE b == [chain[r] EXCEPT !.pc = "over"]
             c == [b EXCEPT !.end = 0]
  <2>1. b \in ChainType
    BY <1>1 DEF ChainType, Places
  <2>2. chain' = [chain EXCEPT ![r] = c]
    BY <1>1, <1>a DEF ChainType
  <2> HIDE DEF b
  <2>3. c \in ChainType
    BY <2>1 DEF ChainType
  <2> HIDE DEF c
  <2> QED BY <1>1, <2>2, <2>3
<1>8. BucketInv' /\ \A o \in Procs : OwnSlots(o)' = OwnSlots(o)
  BY <1>1, <1>2, BucketStays DEF Procs
<1>9. /\ \A q \in Requests : q \in ctx[p].pending_callbacks
           <=> ProcOf[q] = p /\ Pending(q)
      /\ \A q \in ctx[p].pending_callbacks : answer[q] = <<>>
           /\ answer'[q] = <<"timeout">>
      /\ \A q \in Requests \ ctx[p].pending_callbacks : answer'[q] = answer[q]
  <2>1. \A q \in Requests : q \in ctx[p].pending_callbacks
          <=> ProcOf[q] = p /\ Pending(q)
    BY <1>1 DEF ContextIsSound, Pending, Ctx
  <2>2. ASSUME NEW q \in Requests, q \in ctx[p].pending_callbacks
        PROVE  answer[q] = <<>> /\ answer'[q] = <<"timeout">>
    <3>1. answer[q] = <<>>
      BY <1>1, <2>1, <2>2 DEF Accounted
    <3>2. answer'[q] = Append(answer[q], "timeout")
      BY <2>2 DEF CancelCachePurgeFile, Ctx
    <3> QED BY <3>1, <3>2, AnAnswer
  <2>3. ASSUME NEW q \in Requests, q \notin ctx[p].pending_callbacks
        PROVE  answer'[q] = answer[q]
    BY <2>3 DEF CancelCachePurgeFile, Ctx
  <2>4. ctx[p].pending_callbacks \subseteq Requests
    BY <1>1 DEF ContextType
  <2> QED BY <2>1, <2>2, <2>3, <2>4
<1>10. answer' \in [Requests -> Answers]
  <2>1. answer' = [q \in Requests |-> answer'[q]]
    BY DEF CancelCachePurgeFile
  <2>2. \A q \in Requests : answer'[q] \in Answers
    BY <1>1, <1>9 DEF Typed, Answers
  <2> QED BY <2>1, <2>2
<1>11. Typed'
  BY <1>1, <1>2, <1>5, <1>7, <1>8, <1>10 DEF Typed, misreads
<1>12. /\ Waits(r) /\ ~Waits(r)' /\ ~AtWork(r)' /\ ~Wrote(r) /\ ~Wrote(r)'
            /\ Faithful(r)'
       /\ chain[r].callbacks = {} /\ ~chain[r].again
  BY <1>1, <1>2, <1>6 DEF Waits, AtWork, Wrote, Faithful, ChainIsSound
<1>13. ContextIsSound(p)'
  <2>1. \A q \in Requests : ProcOf[q] = p => ~Waits(q)'
    BY <1>1, <1>2, <1>12, OthersStay DEF OneInLine
  <2> QED BY <1>1, <1>2, <1>3, <2>1 DEF ContextIsSound
<1>14. Contexts'
  <2> SUFFICES ASSUME NEW o \in Procs, o # p PROVE ContextIsSound(o)'
    BY <1>13 DEF Contexts
  <2>1. \A q \in Requests : ProcOf[q] = o => (Waits(q)' <=> Waits(q))
    BY <1>1, <1>2, OthersStay
  <2> QED BY <1>1, <1>2, <2>1 DEF Contexts, ContextIsSound
<1>15. OneInLine'
  BY <1>1, <1>2, <1>12, OthersStay DEF OneInLine
<1>16. ChainIsSound(r)'
  BY <1>1, <1>2, <1>6, <1>12 DEF ChainIsSound
<1>17. Chaining'
  BY <1>1, <1>2, <1>15, <1>16, OthersStay DEF Chaining
<1>18. /\ \A q \in Requests : Pending(q)' <=> Pending(q) /\ ProcOf[q] # p
       /\ \A q, x \in Requests : Holds(q, x)' <=> Holds(q, x)
  BY <1>1, <1>2, <1>3, <1>6 DEF Pending, Ctx, Holds
<1>19. Accounted'
  <2>1. /\ \A x \in Requests : chain'[x].pc = "new" <=> chain[x].pc = "new"
        /\ \A q, x \in Requests : Holds(q, x) => answer'[x] = <<>>
        /\ \A x \in Requests : chain[x].pc = "new" => answer'[x] = <<>>
        /\ \A x \in Requests : answer[x] # <<>> => answer'[x] # <<>>
        /\ \A x \in Requests : Pending(x) /\ ProcOf[x] = p => answer'[x] # <<>>
        /\ \A x \in Requests : Pending(x) /\ ProcOf[x] # p => answer'[x] = <<>>
    BY <1>1, <1>2, <1>6, <1>9, AnAnswer DEF Accounted
  <2> QED BY <1>1, <1>2, <1>18, <2>1 DEF Accounted
<1>20. Acknowledged' = Acknowledged
  BY <1>9, AnAnswer DEF Acknowledged
<1>21. \A q \in Requests : ProcOf[q] \in killed => answer'[q] = answer[q]
  BY <1>2, <1>9
<1>22. Promise'
  BY <1>1, <1>2, <1>8, <1>12, <1>20, <1>21, NothingMisread, PromiseStays
<1>23. Reaches'
  BY <1>1, <1>2, <1>4, <1>20, ReachesStay DEF Lost, misreads
<1> QED BY <1>11, <1>14, <1>17, <1>19, <1>22, <1>23 DEF IInv

-----------------------------------------------------------------------------
(* UpdateCachePurgeFile.                                                   *)

LEMMA ReadPurgeFileKeeps ==
  ASSUME IInv, NEW r \in Requests, ReadPurgeFile(r) PROVE IInv'
<1>1. /\ ChainIsSound(r) /\ chain \in [Requests -> ChainType] /\ Typed
      /\ ctx \in [Procs -> ContextType] /\ file \in SUBSET Requests
  BY DEF IInv, Chaining, Typed
<1>2. PICK purges \in SUBSET file :
        /\ chain' = [chain EXCEPT ![r].pc = "modify", ![r].buffer = purges]
        /\ forgotten' = (forgotten \cup file) \ purges
  BY DEF ReadPurgeFile
<1>3. /\ UNCHANGED lockVars
      /\ UNCHANGED <<file, purge_index, ctx, answer, killed, stolen>>
      /\ chain[r].pc = "read"
  BY DEF ReadPurgeFile, At
<1>4. /\ \A q \in Requests \ {r} : chain'[q] = chain[q]
      /\ chain'[r].pc = "modify" /\ chain'[r].buffer = purges
      /\ chain'[r].again = chain[r].again /\ chain'[r].callbacks = chain[r].callbacks
  BY <1>1, <1>2 DEF ChainType
<1>5. chain' \in [Requests -> ChainType]
  <2> DEFINE b == [chain[r] EXCEPT !.pc = "modify"]
             c == [b EXCEPT !.buffer = purges]
  <2>1. b \in ChainType
    BY <1>1 DEF ChainType, Places
  <2>2. chain' = [chain EXCEPT ![r] = c]
    BY <1>1, <1>2 DEF ChainType
  <2> HIDE DEF b
  <2>3. c \in ChainType
    BY <1>1, <2>1 DEF ChainType
  <2> HIDE DEF c
  <2> QED BY <1>1, <2>2, <2>3
<1>6. /\ Waits(r)' /\ Waits(r) /\ AtWork(r) /\ ~Wrote(r) /\ ChainIsSound(r)'
  BY <1>1, <1>3, <1>4 DEF Waits, AtWork, Wrote, ChainIsSound
<1>7. Faithful(r)'
  BY <1>2, <1>3, <1>4 DEF Faithful, Wrote
<1>8. MisreadBy(r)
  BY <1>1, <1>2, <1>6 DEF ReadPurgeFile, Typed, MisreadBy, Lost
<1> QED BY <1>1, <1>3, <1>4, <1>5, <1>6, <1>7, <1>8, ChainMoves

\* What was written is what is there, as long as nobody stole the lock and it can
\* be read.
LEMMA VerifyKeeps ==
  ASSUME IInv, NEW r \in Requests, Verify(r) PROVE IInv'
<1>1. /\ ChainIsSound(r) /\ chain \in [Requests -> ChainType] /\ Typed
      /\ ctx \in [Procs -> ContextType] /\ (~stolen => Faithful(r))
  BY DEF IInv, Chaining, Typed, Promise, Serial
<1>2. PICK place \in {"unlock", "failed"} :
        /\ chain' = [chain EXCEPT ![r].buffer = {}, ![r].pc = place]
        /\ \/ (file = chain[r].buffer => place = "unlock") /\ unverified' = unverified
           \/ place = "failed" /\ unverified' = unverified \cup chain[r].purges
  <2>1. CASE /\ chain' = [chain EXCEPT ![r].buffer = {},
                 ![r].pc = IF file = chain[r].buffer THEN "unlock" ELSE "failed"]
             /\ UNCHANGED <<unverified, failed>>
    <3>1. CASE file = chain[r].buffer
      BY <2>1, <3>1
    <3>2. CASE file # chain[r].buffer
      BY <2>1, <3>2
    <3> QED BY <3>1, <3>2
  <2>2. CASE /\ chain' = [chain EXCEPT ![r].buffer = {}, ![r].pc = "failed"]
             /\ unverified' = unverified \cup chain[r].purges
    BY <2>2
  <2> QED BY <2>1, <2>2 DEF Verify
<1>3. /\ UNCHANGED lockVars
      /\ UNCHANGED <<file, purge_index, ctx, answer, killed, stolen, forgotten, missed>>
      /\ chain[r].pc = "verify" /\ ProcOf[r] \notin killed
  BY DEF Verify, At
<1>4. /\ \A q \in Requests \ {r} : chain'[q] = chain[q]
      /\ chain'[r].pc = place /\ chain'[r].success = chain[r].success
      /\ chain'[r].purges = chain[r].purges
      /\ chain'[r].again = chain[r].again /\ chain'[r].callbacks = chain[r].callbacks
  BY <1>1, <1>2 DEF ChainType
<1>5. chain' \in [Requests -> ChainType]
  <2> DEFINE b == [chain[r] EXCEPT !.buffer = {}]
             c == [b EXCEPT !.pc = place]
  <2>1. b \in ChainType
    BY <1>1 DEF ChainType
  <2>2. chain' = [chain EXCEPT ![r] = c]
    BY <1>1, <1>2 DEF ChainType
  <2> HIDE DEF b
  <2>3. c \in ChainType
    BY <2>1 DEF ChainType, Places
  <2> HIDE DEF c
  <2> QED BY <1>1, <2>2, <2>3
<1>6. /\ ~Waits(r)' /\ ~Waits(r) /\ AtWork(r) /\ Wrote(r)
      /\ ChainIsSound(r)' /\ chain[r].purges = chain[r].callbacks
  BY <1>1, <1>3, <1>4 DEF Waits, AtWork, Wrote, ChainIsSound
<1>7. ~stolen => Faithful(r)'
                 /\ (Wrote(r)' \/ chain[r].callbacks \subseteq unverified')
  BY <1>1, <1>2, <1>3, <1>4, <1>6 DEF Faithful, Wrote
<1>8. MisreadBy(r)
  BY <1>1, <1>2, <1>3 DEF Typed, ChainType, MisreadBy, Lost
<1> QED BY <1>1, <1>3, <1>4, <1>5, <1>6, <1>7, <1>8, ChainMoves

\* The chain takes over all requests that are pending, and the next request
\* starts a new chain.
LEMMA ModifyPurgeSetKeeps ==
  ASSUME IInv, NEW r \in Requests, ModifyPurgeSet(r) PROVE IInv'
<1> DEFINE p == ProcOf[r]
           P == Ctx(r).pending_purges
           C == Ctx(r).pending_callbacks
           n == Ctx(r).num_consecutive_failures
           c == [chain[r] EXCEPT !.pc = "write", !.buffer = @ \cup P, !.purges = P,
                   !.callbacks = C, !.failures = n, !.success = TRUE, !.again = FALSE]
           d == [ctx[p] EXCEPT !.pending_purges = {}, !.pending_callbacks = {},
                   !.waiting = FALSE, !.num_consecutive_failures = 0]
<1>1. /\ Typed /\ Contexts /\ OneInLine /\ Chaining /\ Accounted /\ Promise /\ Reaches
      /\ ProcOf \in [Requests -> Procs] /\ p \in Procs /\ BucketInv
      /\ chain \in [Requests -> ChainType] /\ ctx \in [Procs -> ContextType]
      /\ file \subseteq Requests /\ ChainIsSound(r) /\ ContextIsSound(p)
  BY RequestsAssumption DEF IInv, Chaining, Contexts, Typed
<1>2. /\ UNCHANGED <<file, purge_index, answer, killed, stolen, misreads>>
      /\ UNCHANGED lockVars
      /\ chain[r].pc = "modify" /\ p \notin killed
  BY DEF ModifyPurgeSet, At
<1>3. chain' = [chain EXCEPT ![r] = c]
  BY <1>1 DEF ChainType, ModifyPurgeSet
<1>4. ctx' = [ctx EXCEPT ![p] = d]
  BY DEF ModifyPurgeSet, SetCtx, Ctx
<1>5. P \in SUBSET Requests /\ C \in SUBSET Requests /\ n \in Nat
  BY <1>1 DEF Ctx, ContextType
<1>6. /\ c \in ChainType /\ c.pc = "write" /\ c.buffer = chain[r].buffer \cup P
      /\ c.purges = P /\ c.callbacks = C /\ c.success = TRUE /\ c.again = FALSE
  <2> HIDE DEF P, C, n
  <2>1. ASSUME NEW k \in ChainType
        PROVE  [k EXCEPT !.pc = "write", !.buffer = @ \cup P, !.purges = P,
                   !.callbacks = C, !.failures = n, !.success = TRUE, !.again = FALSE]
                 \in ChainType
    BY <1>5, <2>1 DEF ChainType, Places
  <2>2. c \in ChainType
    BY <1>1, <2>1
  <2> QED BY <1>1, <2>2 DEF ChainType
<1>7. /\ d \in ContextType
      /\ d.pending_purges = {} /\ d.pending_callbacks = {} /\ d.waiting = FALSE
      /\ d.local_purge_index = ctx[p].local_purge_index /\ d.reading = ctx[p].reading
      /\ d.purge_set = ctx[p].purge_set /\ d.purges_from_file = ctx[p].purges_from_file
  <2>1. d \in ContextType
    BY <1>1 DEF ContextType
  <2> QED BY <1>1, <2>1 DEF ContextType
<1> HIDE DEF c, d
<1>8. /\ chain'[r] = c /\ \A q \in Requests \ {r} : chain'[q] = chain[q]
      /\ chain' \in [Requests -> ChainType]
  BY <1>1, <1>3, <1>6
<1>9. /\ ctx'[p] = d /\ \A o \in Procs \ {p} : ctx'[o] = ctx[o]
      /\ ctx' \in [Procs -> ContextType]
  BY <1>1, <1>4, <1>7
<1>10. BucketInv' /\ \A o \in Procs : OwnSlots(o)' = OwnSlots(o)
  BY <1>1, <1>2, BucketStays DEF Procs
<1>11. Typed'
  BY <1>1, <1>2, <1>8, <1>9, <1>10 DEF Typed, misreads
<1>12. /\ Waits(r) /\ ~Waits(r)' /\ AtWork(r) /\ ~Wrote(r) /\ ~Wrote(r)'
       /\ chain[r].callbacks = {}
  BY <1>1, <1>2, <1>6, <1>8 DEF Waits, AtWork, Wrote, ChainIsSound
<1>13. C # {} /\ P = C /\ \A q \in C : ProcOf[q] = p
  BY <1>1, <1>12 DEF ContextIsSound, Ctx
<1>14. \A q \in Requests : q \in C <=> ProcOf[q] = p /\ Pending(q)
  BY <1>1, <1>13 DEF Pending, Ctx
<1> HIDE DEF P, C, n
<1>15. ContextIsSound(p)'
  <2>1. \A q \in Requests : ProcOf[q] = p => ~Waits(q)'
    BY <1>1, <1>2, <1>8, <1>12, OthersStay DEF OneInLine
  <2> QED BY <1>1, <1>2, <1>7, <1>9, <2>1 DEF ContextIsSound
<1>16. Contexts'
  <2> SUFFICES ASSUME NEW o \in Procs, o # p PROVE ContextIsSound(o)'
    BY <1>15 DEF Contexts
  <2>1. \A q \in Requests : ProcOf[q] = o => (Waits(q)' <=> Waits(q))
    BY <1>1, <1>2, <1>8, OthersStay
  <2> QED BY <1>1, <1>2, <1>9, <2>1 DEF Contexts, ContextIsSound
<1>17. OneInLine'
  BY <1>1, <1>2, <1>8, <1>12, OthersStay DEF OneInLine
<1>18. ChainIsSound(r)'
  BY <1>2, <1>6, <1>8, <1>13 DEF ChainIsSound
<1>19. Chaining'
  BY <1>1, <1>2, <1>8, <1>17, <1>18, OthersStay DEF Chaining
<1>20. /\ \A q \in Requests : Pending(q)' <=> Pending(q) /\ ProcOf[q] # p
       /\ \A q, x \in Requests :
            Holds(q, x)' <=> IF q = r THEN ProcOf[x] = p /\ Pending(x) ELSE Holds(q, x)
       /\ \A x \in Requests : ~Holds(r, x)
  BY <1>1, <1>6, <1>7, <1>8, <1>9, <1>12, <1>14 DEF Pending, Ctx, Holds
<1>21. Accounted'
  <2>1. \A x \in Requests : chain'[x].pc = "new" <=> chain[x].pc = "new"
    BY <1>2, <1>6, <1>8
  <2>2. \A x \in Requests :
          (Pending(x) \/ \E q \in Requests : Holds(q, x)) =>
             (Pending(x)' \/ \E q \in Requests : Holds(q, x)')
    BY <1>20
  <2>3. \A q, o, x \in Requests : Holds(q, x)' /\ Holds(o, x)' => q = o
    BY <1>1, <1>20 DEF Accounted
  <2>4. \A q, x \in Requests : Holds(q, x)' => answer[x] = <<>> /\ ~Pending(x)'
    BY <1>1, <1>20 DEF Accounted
  <2> QED BY <1>1, <1>2, <1>20, <2>1, <2>2, <2>3, <2>4 DEF Accounted
<1>22. ~stolen => Faithful(r)'
  <2>1. ~stolen => /\ chain[r].buffer \subseteq file
                   /\ file \ chain[r].buffer \subseteq forgotten
    BY <1>1, <1>2 DEF Promise, Serial, Faithful
  <2> QED BY <1>2, <1>6, <1>8, <1>12, <2>1 DEF Faithful, misreads
<1>23. Promise'
  BY <1>1, <1>2, <1>8, <1>10, <1>12, <1>22, NothingMisread, PromiseStays
     DEF Acknowledged
<1>24. Reaches'
  BY <1>1, <1>2, <1>7, <1>9, ReachesStay DEF Acknowledged, Lost, misreads
<1> QED BY <1>11, <1>16, <1>19, <1>21, <1>23, <1>24 DEF IInv

\* A failure to write is tried again by the chain that waits already, or by this
\* one, unless there were too many.
LEMMA HandleWriteFailureKeeps ==
  ASSUME IInv, NEW r \in Requests, HandleWriteFailure(r) PROVE IInv'
<1> DEFINE p == ProcOf[r]
           again == ~ctx[p].waiting
<1>1. /\ Typed /\ Contexts /\ OneInLine /\ Chaining /\ Accounted /\ Promise /\ Reaches
      /\ ProcOf \in [Requests -> Procs] /\ p \in Procs /\ BucketInv
      /\ chain \in [Requests -> ChainType] /\ ctx \in [Procs -> ContextType]
      /\ file \subseteq Requests /\ ChainIsSound(r) /\ ContextIsSound(p)
  BY RequestsAssumption DEF IInv, Chaining, Contexts, Typed
<1>2. /\ UNCHANGED <<file, purge_index, answer, killed, stolen, misreads>>
      /\ UNCHANGED lockVars
      /\ chain[r].pc = "failed" /\ p \notin killed
  BY DEF HandleWriteFailure, At
<1>3. ~Waits(r) /\ AtWork(r) /\ ~Wrote(r) /\ ~chain[r].again
  BY <1>1, <1>2 DEF Waits, AtWork, Wrote, ChainIsSound
<1>4. CASE /\ SetCtx(r, Restored(r))
           /\ chain' = [chain EXCEPT ![r].pc = "unlock", ![r].success = FALSE,
                ![r].callbacks = {}, ![r].purges = {}, ![r].again = ~Ctx(r).waiting]
  <2> DEFINE n == ctx[p].num_consecutive_failures + chain[r].failures + 1
             C == chain[r].callbacks
             P == chain[r].purges
             c == [chain[r] EXCEPT !.pc = "unlock", !.success = FALSE,
                     !.callbacks = {}, !.purges = {}, !.again = again]
             d == [ctx[p] EXCEPT !.num_consecutive_failures = n,
                     !.pending_callbacks = @ \cup C,
                     !.pending_purges = @ \cup P, !.waiting = TRUE]
  <2>1. chain' = [chain EXCEPT ![r] = c]
    BY <1>1, <1>4 DEF Ctx, ChainType
  <2>2. ctx' = [ctx EXCEPT ![p] = d]
    BY <1>4 DEF SetCtx, Ctx, Restored
  <2>3. P = C /\ C # {} /\ C \in SUBSET Requests /\ n \in Nat /\ again \in BOOLEAN
        /\ \A q \in C : ProcOf[q] = p
    BY <1>1, <1>2 DEF ChainType, ContextType, ChainIsSound
  <2>4. /\ c \in ChainType /\ c.pc = "unlock"
        /\ c.callbacks = {} /\ c.success = FALSE /\ c.again = again
    <3> HIDE DEF again
    <3>1. ASSUME NEW k \in ChainType
          PROVE  [k EXCEPT !.pc = "unlock", !.success = FALSE,
                     !.callbacks = {}, !.purges = {}, !.again = again] \in ChainType
      BY <2>3, <3>1 DEF ChainType, Places
    <3>2. c \in ChainType
      BY <1>1, <3>1
    <3> QED BY <1>1, <3>2 DEF ChainType
  <2>5. /\ d \in ContextType
        /\ d.pending_purges = ctx[p].pending_purges \cup C
        /\ d.pending_callbacks = ctx[p].pending_callbacks \cup C /\ d.waiting = TRUE
        /\ d.local_purge_index = ctx[p].local_purge_index /\ d.reading = ctx[p].reading
        /\ d.purge_set = ctx[p].purge_set
             /\ d.purges_from_file = ctx[p].purges_from_file
    <3> HIDE DEF n, C, P
    <3>1. ASSUME NEW k \in ContextType
          PROVE  [k EXCEPT !.num_consecutive_failures = n,
                     !.pending_callbacks = @ \cup C,
                     !.pending_purges = @ \cup P, !.waiting = TRUE] \in ContextType
      BY <2>3, <3>1 DEF ContextType
    <3>2. d \in ContextType
      BY <1>1, <3>1
    <3> QED BY <1>1, <2>3, <3>2 DEF ContextType
  <2> HIDE DEF c, d
  <2>6. /\ chain'[r] = c /\ \A q \in Requests \ {r} : chain'[q] = chain[q]
        /\ chain' \in [Requests -> ChainType]
    BY <1>1, <2>1, <2>4
  <2>7. /\ ctx'[p] = d /\ \A o \in Procs \ {p} : ctx'[o] = ctx[o]
        /\ ctx' \in [Procs -> ContextType]
    BY <1>1, <2>2, <2>5
  <2>8. BucketInv' /\ \A o \in Procs : OwnSlots(o)' = OwnSlots(o)
    BY <1>1, <1>2, BucketStays DEF Procs
  <2>9. Typed'
    BY <1>1, <1>2, <2>6, <2>7, <2>8 DEF Typed, misreads
  <2>10. Waits(r)' <=> ~ctx[p].waiting
    BY <2>4, <2>6 DEF Waits
  <2>11. ~Wrote(r)' /\ Faithful(r)'
    BY <2>4, <2>6 DEF Wrote, Faithful
  <2> HIDE DEF n, C, P, again
  <2>12. ContextIsSound(p)'
    <3>1. \E q \in Requests : ProcOf[q] = p /\ Waits(q)'
      BY <1>1, <1>2, <1>3, <2>6, <2>10, OthersStay DEF ContextIsSound
    <3> QED BY <1>1, <1>2, <2>3, <2>5, <2>7, <3>1 DEF ContextIsSound
  <2>13. Contexts'
    <3> SUFFICES ASSUME NEW o \in Procs, o # p PROVE ContextIsSound(o)'
      BY <2>12 DEF Contexts
    <3>1. \A q \in Requests : ProcOf[q] = o => (Waits(q)' <=> Waits(q))
      BY <1>1, <1>2, <2>6, OthersStay
    <3> QED BY <1>1, <1>2, <2>7, <3>1 DEF Contexts, ContextIsSound
  <2>14. OneInLine'
    BY <1>1, <1>2, <2>6, <2>10, OthersStay DEF OneInLine, ContextIsSound
  <2>15. ChainIsSound(r)'
    BY <1>2, <2>4, <2>6 DEF ChainIsSound
  <2>16. Chaining'
    BY <1>1, <1>2, <2>6, <2>14, <2>15, OthersStay DEF Chaining
  <2>17. /\ \A x \in Requests : Pending(x)' <=> Pending(x) \/ Holds(r, x)
         /\ \A q, x \in Requests : Holds(q, x)' <=> Holds(q, x) /\ q # r
    BY <1>1, <2>3, <2>4, <2>5, <2>6, <2>7 DEF Pending, Ctx, Holds, C
  <2>18. Accounted'
    <3>1. \A x \in Requests : chain'[x].pc = "new" <=> chain[x].pc = "new"
      BY <1>2, <2>4, <2>6
    <3>2. \A x \in Requests :
            (Pending(x) \/ \E q \in Requests : Holds(q, x)) =>
               (Pending(x)' \/ \E q \in Requests : Holds(q, x)')
      BY <2>17
    <3>3. \A q, x \in Requests : Holds(q, x)' => ~Pending(x)'
      BY <1>1, <2>17 DEF Accounted
    <3> QED BY <1>1, <1>2, <2>17, <3>1, <3>2, <3>3 DEF Accounted
  <2>19. Promise'
    BY <1>1, <1>2, <1>3, <2>6, <2>8, <2>11, NothingMisread, PromiseStays
     DEF Acknowledged
  <2>20. Reaches'
    BY <1>1, <1>2, <2>5, <2>7, ReachesStay DEF Acknowledged, Lost, misreads
  <2> QED BY <2>9, <2>13, <2>16, <2>18, <2>19, <2>20 DEF IInv
<1>5. CASE /\ SetCtx(r, [Ctx(r) EXCEPT !.num_consecutive_failures = 0])
           /\ chain' = [chain EXCEPT ![r].pc = "unlock", ![r].success = FALSE]
  <2> DEFINE c == [chain[r] EXCEPT !.pc = "unlock", !.success = FALSE]
             d == [ctx[p] EXCEPT !.num_consecutive_failures = 0]
  <2>1. chain' = [chain EXCEPT ![r] = c]
    BY <1>1, <1>5 DEF ChainType
  <2>2. ctx' = [ctx EXCEPT ![p] = d]
    BY <1>5 DEF SetCtx, Ctx
  <2>3. /\ c \in ChainType /\ c.pc = "unlock" /\ c.success = FALSE
        /\ c.again = chain[r].again /\ c.callbacks = chain[r].callbacks
    <3>1. ASSUME NEW k \in ChainType
          PROVE  [k EXCEPT !.pc = "unlock", !.success = FALSE] \in ChainType
      BY <3>1 DEF ChainType, Places
    <3>2. c \in ChainType
      BY <1>1, <3>1
    <3> QED BY <1>1, <3>2 DEF ChainType
  <2>4. /\ d \in ContextType /\ d.pending_purges = ctx[p].pending_purges
        /\ d.pending_callbacks = ctx[p].pending_callbacks /\ d.waiting = ctx[p].waiting
        /\ d.local_purge_index = ctx[p].local_purge_index /\ d.reading = ctx[p].reading
        /\ d.purge_set = ctx[p].purge_set
             /\ d.purges_from_file = ctx[p].purges_from_file
    BY <1>1 DEF ContextType
  <2> HIDE DEF c, d
  <2>5. /\ chain'[r] = c /\ \A q \in Requests \ {r} : chain'[q] = chain[q]
        /\ chain' \in [Requests -> ChainType]
    BY <1>1, <2>1, <2>3
  <2>6. /\ ctx' \in [Procs -> ContextType]
        /\ ctx'[p] = d /\ \A o \in Procs \ {p} : ctx'[o] = ctx[o]
    BY <1>1, <2>2, <2>4
  <2>7. ~Waits(r)' /\ ~Wrote(r)' /\ Faithful(r)' /\ ChainIsSound(r)'
    BY <1>1, <1>2, <1>3, <2>3, <2>5 DEF Waits, Wrote, Faithful, ChainIsSound
  <2> QED BY <1>1, <1>2, <1>3, <2>3, <2>4, <2>5, <2>6, <2>7, NothingMisread,
             ChainMoves
<1> QED BY <1>4, <1>5 DEF HandleWriteFailure

\* The file grows by the purges of the chain, which is alone at work, and loses
\* what its read left out.
LEMMA WritePurgeFileKeeps ==
  ASSUME IInv, NEW r \in Requests, WritePurgeFile(r) PROVE IInv'
<1>1. /\ Typed /\ Contexts /\ OneInLine /\ Chaining /\ Accounted /\ Promise /\ Reaches
      /\ ProcOf \in [Requests -> Procs] /\ ProcOf[r] \in Procs /\ BucketInv
      /\ chain \in [Requests -> ChainType] /\ ctx \in [Procs -> ContextType]
      /\ file \subseteq Requests /\ ChainIsSound(r)
  BY RequestsAssumption DEF IInv, Chaining, Typed
<1>2. /\ UNCHANGED <<purge_index, ctx, answer, killed, stolen, misreads>>
      /\ UNCHANGED lockVars
      /\ chain[r].pc = "write" /\ ProcOf[r] \notin killed
  BY DEF WritePurgeFile, At
<1>3. /\ ~Waits(r) /\ AtWork(r) /\ ~Wrote(r) /\ ~chain[r].again
      /\ chain[r].purges = chain[r].callbacks /\ chain[r].buffer \subseteq Requests
  BY <1>1, <1>2 DEF Waits, AtWork, Wrote, ChainIsSound, ChainType
<1>4. CASE file' = chain[r].buffer /\ Goes(r, "verify")
  <2>1. /\ \A q \in Requests \ {r} : chain'[q] = chain[q]
        /\ chain'[r].pc = "verify" /\ chain'[r].buffer = chain[r].buffer
        /\ chain'[r].success = chain[r].success /\ chain'[r].purges = chain[r].purges
        /\ chain'[r].again = chain[r].again /\ chain'[r].callbacks = chain[r].callbacks
    BY <1>1, <1>4 DEF Goes, ChainType
  <2>2. chain' \in [Requests -> ChainType]
    BY <1>1, <1>4 DEF Goes, ChainType, Places
  <2>3. BucketInv' /\ \A p \in Procs : OwnSlots(p)' = OwnSlots(p)
    BY <1>1, <1>2, BucketStays DEF Procs
  <2>4. Typed'
    BY <1>1, <1>2, <1>3, <1>4, <2>2, <2>3 DEF Typed, misreads
  <2>5. ~Waits(r)' /\ AtWork(r)' /\ ChainIsSound(r)'
    BY <1>1, <1>2, <1>3, <2>1 DEF Waits, AtWork, ChainIsSound
  <2>6. Contexts' /\ OneInLine' /\ Accounted'
    BY <1>1, <1>2, <1>3, <2>1, <2>5, OthersStay, LineStays
  <2>7. Chaining'
    BY <1>1, <1>2, <2>1, <2>5, <2>6, OthersStay DEF Chaining
  <2>8. Promise'
    <3> SUFFICES ASSUME ~stolen
                 PROVE  Serial' /\ InFile' /\ Kept'
      BY <1>2 DEF Promise
    <3>1. Serial /\ InFile /\ Kept
      BY <1>1 DEF Promise
    <3>2. /\ file' \subseteq file \cup chain[r].callbacks
          /\ chain[r].callbacks \subseteq file'
          /\ file \ file' \subseteq forgotten
          /\ forgotten' = forgotten /\ unverified' = unverified
      BY <1>2, <1>3, <1>4, <3>1 DEF Serial, Faithful, misreads
    <3>3. \A q \in Requests \ {r} :
            /\ ~AtWork(q) /\ ~AtWork(q)'
            /\ Wrote(q)' <=> Wrote(q)
            /\ \A x \in Requests : Holds(q, x)' <=> Holds(q, x)
      BY <1>3, <2>1, <3>1 DEF Serial, AtWork, Wrote, Holds
    <3>4. \A q \in Requests \ {r} : Faithful(q)'
      BY <2>1, <3>1, <3>2, <3>3 DEF Serial, Faithful, AtWork, Wrote
    <3>5. Faithful(r)' /\ Wrote(r)' /\ \A x \in chain[r].callbacks : Holds(r, x)'
      BY <1>1, <1>2, <1>4, <2>1, <3>2 DEF Faithful, Wrote, Holds, ChainIsSound
    <3>6. Serial'
      BY <1>1, <2>3, <2>5, <1>3, <3>1, <3>3, <3>4, <3>5 DEF Serial
    <3>7. InFile'
      BY <1>1, <1>2, <1>3, <3>1, <3>2, <3>3, <3>5 DEF InFile
    <3>8. Kept'
      BY <1>2, <3>1, <3>2 DEF Kept, Acknowledged
    <3> QED BY <3>6, <3>7, <3>8
  <2>9. Reaches'
    <3>1. ~stolen => file' \subseteq file \cup chain[r].callbacks
      BY <1>1, <1>2, <1>3, <1>4 DEF Promise, Serial, Faithful
    <3>2. \A x \in chain[r].callbacks \cap Requests : answer[x] = <<>>
      BY <1>1 DEF Accounted, Holds
    <3>3. ~stolen => Acknowledged \cap Lost \subseteq Lost'
      BY <1>2, <3>1, <3>2, AnAnswer DEF Acknowledged, Lost, misreads
    <3> QED BY <1>1, <1>2, <3>3, ReachesStay DEF Acknowledged, misreads
  <2> QED BY <2>4, <2>6, <2>7, <2>8, <2>9 DEF IInv
<1>5. CASE /\ file' = file
           /\ chain' = [chain EXCEPT ![r].buffer = {}, ![r].pc = "failed"]
  <2> DEFINE c == [chain[r] EXCEPT !.buffer = {}, !.pc = "failed"]
  <2>1. chain' = [chain EXCEPT ![r] = c]
    BY <1>1, <1>5 DEF ChainType
  <2>2. c \in ChainType
    <3>1. ASSUME NEW k \in ChainType
          PROVE  [k EXCEPT !.buffer = {}, !.pc = "failed"] \in ChainType
      BY <3>1 DEF ChainType, Places
    <3> QED BY <1>1, <3>1
  <2>3. /\ c.pc = "failed" /\ c.again = chain[r].again /\ c.purges = chain[r].purges
        /\ c.callbacks = chain[r].callbacks /\ c.success = chain[r].success
    BY <1>1 DEF ChainType
  <2> HIDE DEF c
  <2>4. /\ chain'[r] = c /\ \A q \in Requests \ {r} : chain'[q] = chain[q]
        /\ chain' \in [Requests -> ChainType]
    BY <1>1, <2>1, <2>2
  <2>5. ~Waits(r)' /\ Faithful(r)' /\ ChainIsSound(r)'
    BY <1>1, <1>2, <1>3, <2>3, <2>4 DEF Waits, Wrote, Faithful, ChainIsSound
  <2> QED BY <1>1, <1>2, <1>3, <1>5, <2>3, <2>4, <2>5, NothingMisread, ChainMoves
<1> QED BY <1>4, <1>5 DEF WritePurgeFile

LEMMA UnlockFileKeeps ==
  ASSUME IInv, NEW r \in Requests, UnlockFile(r) PROVE IInv'
<1>1. /\ Typed /\ Contexts /\ OneInLine /\ Chaining /\ Accounted /\ Promise /\ Reaches
      /\ ProcOf \in [Requests -> Procs] /\ ProcOf[r] \in Procs /\ BucketInv
      /\ chain \in [Requests -> ChainType] /\ ctx \in [Procs -> ContextType]
      /\ file \subseteq Requests /\ ChainIsSound(r)
  BY RequestsAssumption DEF IInv, Chaining, Typed
<1>2. /\ UNCHANGED <<file, purge_index, ctx, answer, killed, stolen, misreads>>
      /\ UnlockAll({ProcOf[r]})
      /\ chain[r].pc = "unlock" /\ ProcOf[r] \notin killed
  BY DEF UnlockFile, At, Unlock
<1>3. /\ \A q \in Requests \ {r} : chain'[q] = chain[q]
      /\ chain'[r].pc = "notify"
      /\ chain'[r].success = chain[r].success
      /\ chain'[r].again = chain[r].again /\ chain'[r].callbacks = chain[r].callbacks
  BY <1>1 DEF UnlockFile, Goes, ChainType
<1>4. chain' \in [Requests -> ChainType]
  BY <1>1 DEF UnlockFile, Goes, ChainType, Places
<1>5. BucketInv'
  BY <1>1, <1>2, GivesUp DEF Procs
<1>6. Typed'
  BY <1>1, <1>2, <1>4, <1>5 DEF Typed, misreads
<1>7. /\ Waits(r)' <=> Waits(r)
      /\ AtWork(r) /\ ~AtWork(r)' /\ (Wrote(r)' <=> Wrote(r)) /\ ChainIsSound(r)'
      /\ Faithful(r) => Faithful(r)'
  BY <1>1, <1>2, <1>3 DEF Waits, AtWork, Wrote, ChainIsSound, Faithful, misreads
<1>8. Contexts' /\ OneInLine' /\ Accounted'
  BY <1>1, <1>2, <1>3, <1>7, OthersStay, LineStays
<1>9. Chaining'
  BY <1>1, <1>2, <1>3, <1>7, <1>8, OthersStay DEF Chaining
<1>10. Promise'
  <2> SUFFICES ASSUME ~stolen PROVE Serial' /\ InFile' /\ Kept'
    BY <1>2 DEF Promise
  <2>1. Serial /\ InFile /\ Kept
    BY <1>1 DEF Promise
  <2>2. \A q \in Requests : /\ ~AtWork(q)'
                            /\ Wrote(q)' <=> Wrote(q)
                            /\ Faithful(q) => Faithful(q)'
                            /\ \A x \in Requests : Holds(q, x)' <=> Holds(q, x)
    BY <1>2, <1>3, <1>7, <2>1 DEF Serial, AtWork, Wrote, Faithful, Holds, misreads
  <2>3. Serial'
    BY <2>1, <2>2 DEF Serial
  <2>4. InFile'
    BY <1>1, <1>2, <2>1, <2>2 DEF InFile, misreads
  <2>5. Kept'
    BY <1>2, <2>1 DEF Kept, Acknowledged, misreads
  <2> QED BY <2>3, <2>4, <2>5
<1>11. Reaches'
  BY <1>1, <1>2, ReachesStay DEF Acknowledged, Lost, misreads
<1> QED BY <1>6, <1>8, <1>9, <1>10, <1>11 DEF IInv

\* Each callback is run by the only chain that has it; what is told of success is
\* in the file, and the counter says so to the processes that do not know it yet.
LEMMA RunCallbacksKeeps ==
  ASSUME IInv, NEW r \in Requests, RunCallbacks(r) PROVE IInv'
<1> DEFINE C == chain[r].callbacks
           told == chain[r].success
           w == IF told THEN "success" ELSE "failure"
           c == [NoChain EXCEPT !.pc = IF chain[r].again THEN "grab" ELSE "over"]
<1>1. /\ Typed /\ Contexts /\ OneInLine /\ Chaining /\ Accounted /\ Promise /\ Reaches
      /\ ProcOf \in [Requests -> Procs] /\ ProcOf[r] \in Procs /\ BucketInv
      /\ chain \in [Requests -> ChainType] /\ ctx \in [Procs -> ContextType]
      /\ file \subseteq Requests /\ ChainIsSound(r)
      /\ answer \in [Requests -> Answers] /\ purge_index \in Nat
  BY RequestsAssumption DEF IInv, Chaining, Typed
<1>2. /\ UNCHANGED <<file, ctx, killed, stolen, misreads>>
      /\ UNCHANGED lockVars
      /\ chain[r].pc = "notify" /\ ProcOf[r] \notin killed
  BY DEF RunCallbacks, At
<1>3. /\ chain' = [chain EXCEPT ![r] = c]
      /\ purge_index' = IF C # {} /\ told THEN purge_index + 1 ELSE purge_index
      /\ answer' = [q \in Requests |->
                      IF q \in C THEN Append(answer[q], w) ELSE answer[q]]
  BY DEF RunCallbacks
<1>4. /\ c \in ChainType /\ c.pc = IF chain[r].again THEN "grab" ELSE "over"
      /\ c.callbacks = {} /\ c.again = FALSE /\ c.success = TRUE
  BY DEF NoChain, ChainType, Places
<1> HIDE DEF c
<1>5. /\ chain'[r] = c /\ \A q \in Requests \ {r} : chain'[q] = chain[q]
      /\ chain' \in [Requests -> ChainType]
  BY <1>1, <1>3, <1>4
<1>6. /\ C \in SUBSET Requests /\ told \in BOOLEAN /\ w \in {"success", "failure"}
      /\ <<w>> \in Answers /\ <<w>> # <<>>
      /\ told <=> <<w>> = <<"success">>
  <2>1. C \in SUBSET Requests /\ told \in BOOLEAN
    BY <1>1 DEF ChainType
  <2>2. CASE told
    <3>1. w = "success"
      BY <2>2
    <3> HIDE DEF w, told, C
    <3>2. w \in {"success", "failure"}
      BY <3>1
    <3>3. <<w>> \in Answers
      BY <3>1 DEF Answers
    <3>4. <<w>> # <<>>
      OBVIOUS
    <3>5. told <=> <<w>> = <<"success">>
      BY <2>2, <3>1, AnAnswer
    <3> QED BY <2>1, <3>2, <3>3, <3>4, <3>5
  <2>3. CASE ~told
    <3>1. w = "failure"
      BY <2>3
    <3> HIDE DEF w, told, C
    <3>2. w \in {"success", "failure"}
      BY <3>1
    <3>3. <<w>> \in Answers
      BY <3>1 DEF Answers
    <3>4. <<w>> # <<>>
      OBVIOUS
    <3>5. told <=> <<w>> = <<"success">>
      BY <2>3, <3>1, AnAnswer
    <3> QED BY <2>1, <3>2, <3>3, <3>4, <3>5
  <2> QED BY <2>2, <2>3
<1>7. /\ \A q \in Requests : q \in C <=> Holds(r, q)
      /\ \A q \in C : answer[q] = <<>> /\ ~Pending(q) /\ ProcOf[q] = ProcOf[r]
  BY <1>1, <1>6 DEF Holds, Accounted, ChainIsSound
<1> HIDE DEF C, w, told
<1>8. /\ \A q \in C : answer'[q] = <<w>>
      /\ \A q \in Requests \ C : answer'[q] = answer[q]
  <2>1. ASSUME NEW q \in C PROVE answer'[q] = <<w>>
    <3>1. answer'[q] = Append(answer[q], w)
      BY <1>3, <1>6
    <3> QED BY <1>6, <1>7, <3>1, AnAnswer
  <2> QED BY <1>3, <2>1
<1>9. answer' \in [Requests -> Answers]
  <2>1. \A q \in Requests : answer'[q] \in Answers
    BY <1>1, <1>6, <1>8
  <2>2. answer' = [q \in Requests |-> answer'[q]]
    BY <1>3
  <2> QED BY <2>1, <2>2
<1>10. BucketInv' /\ \A p \in Procs : OwnSlots(p)' = OwnSlots(p)
  BY <1>1, <1>2, BucketStays DEF Procs
<1>11. Typed'
  <2>1. purge_index' \in Nat
    BY <1>1, <1>3
  <2> QED BY <1>1, <1>2, <1>5, <1>9, <1>10, <2>1 DEF Typed, misreads
<1>12. /\ Waits(r)' <=> Waits(r)
       /\ ~AtWork(r) /\ ~AtWork(r)' /\ ~Wrote(r)' /\ (Wrote(r) <=> told)
       /\ Faithful(r)' /\ ChainIsSound(r)'
  BY <1>1, <1>2, <1>4, <1>5
     DEF Waits, AtWork, Wrote, Faithful, ChainIsSound, told
<1>13. \A q \in Requests : Waits(q)' <=> Waits(q)
  BY <1>1, <1>2, <1>5, <1>12, OthersStay
<1>14. Contexts'
  BY <1>1, <1>2, <1>13 DEF Contexts, ContextIsSound
<1>15. Chaining'
  <2>1. OneInLine'
    BY <1>1, <1>13 DEF OneInLine
  <2> QED BY <1>1, <1>2, <1>5, <1>12, <2>1, OthersStay DEF Chaining
<1>16. /\ \A q, x \in Requests : Holds(q, x)' <=> Holds(q, x) /\ q # r
       /\ \A x \in Requests : Pending(x)' <=> Pending(x)
  BY <1>2, <1>4, <1>5 DEF Holds, Pending, Ctx
<1>17. Accounted'
  <2>1. \A x \in Requests : chain'[x].pc = "new" <=> chain[x].pc = "new"
    BY <1>2, <1>4, <1>5
  <2>2. \A q, x \in Requests : Holds(q, x)' => answer'[x] = <<>> /\ ~Pending(x)'
    BY <1>1, <1>7, <1>8, <1>16 DEF Accounted
  <2>3. \A x \in Requests : Pending(x)' => answer'[x] = <<>>
    BY <1>1, <1>7, <1>8, <1>16 DEF Accounted
  <2>4. \A x \in Requests : chain[x].pc = "new" =>
          answer'[x] = <<>> /\ ~Pending(x) /\ \A q \in Requests : ~Holds(q, x)
    BY <1>1, <1>7, <1>8 DEF Accounted
  <2>5. \A x \in Requests :
          answer[x] # <<>> \/ Pending(x) \/ (\E q \in Requests : Holds(q, x)) =>
            answer'[x] # <<>> \/ Pending(x)' \/ (\E q \in Requests : Holds(q, x)')
    BY <1>6, <1>7, <1>8, <1>16
  <2> QED BY <1>1, <1>2, <1>16, <2>1, <2>2, <2>3, <2>4, <2>5 DEF Accounted
<1>18. Acknowledged' = Acknowledged \cup (IF told THEN C ELSE {})
  <2>1. \A q \in C : answer[q] # <<"success">>
    BY <1>7, AnAnswer
  <2> QED BY <1>6, <1>8, <2>1 DEF Acknowledged
<1>19. Promise'
  <2> SUFFICES ASSUME ~stolen PROVE Serial' /\ InFile' /\ Kept'
    BY <1>2 DEF Promise
  <2>1. Serial /\ InFile /\ Kept
    BY <1>1 DEF Promise
  <2>2. \A q \in Requests \ {r} : /\ AtWork(q)' <=> AtWork(q)
                                  /\ Wrote(q)' <=> Wrote(q)
                                  /\ Faithful(q)' <=> Faithful(q)
    BY <1>2, <1>5 DEF AtWork, Wrote, Faithful, misreads
  <2>3. Serial'
    BY <1>1, <1>10, <1>12, <2>1, <2>2 DEF Serial
  <2>4. \A q \in C : ProcOf[q] \notin killed /\ answer[q] # <<"success">>
    BY <1>2, <1>7, AnAnswer
  <2>5. InFile'
    <3> SUFFICES ASSUME NEW x \in file
                 PROVE  \/ answer'[x] = <<"success">>
                        \/ \E q \in Requests : Holds(q, x)' /\ Wrote(q)'
                        \/ ProcOf[x] \in killed /\ answer'[x] = <<>>
                        \/ x \in unverified
      BY <1>2 DEF InFile, misreads
    <3>1. CASE x \in C
      <4>1. x \in unverified \/ \E q \in Requests : Holds(q, x) /\ Wrote(q)
        BY <1>7, <2>1, <2>4, <3>1 DEF InFile
      <4>2. \A q \in Requests : Holds(q, x) => q = r
        BY <1>1, <1>7, <3>1 DEF Accounted
      <4> QED BY <1>6, <1>8, <1>12, <3>1, <4>1, <4>2
    <3>2. CASE x \notin C
      <4>1. x \in Requests /\ answer'[x] = answer[x] /\ ~Holds(r, x)
        BY <1>1, <1>7, <1>8, <3>2
      <4> QED BY <1>16, <2>1, <2>2, <4>1 DEF InFile
    <3> QED BY <3>1, <3>2
  <2>6. Kept'
    <3>1. told => C \subseteq file \cup forgotten
      BY <1>12, <2>1 DEF Serial, Faithful, C
    <3> QED BY <1>2, <1>18, <2>1, <3>1 DEF Kept, misreads
  <2> QED BY <2>3, <2>5, <2>6
<1>20. Reaches'
  <2>1. CASE C # {} /\ told
    <3>1. purge_index' = purge_index + 1
      BY <1>3, <2>1
    <3>2. ASSUME NEW p \in Procs PROVE Follows(p)'
      <4>1. ctx[p].local_purge_index \in Nat /\ ctx[p].local_purge_index <= purge_index
        BY <1>1 DEF Reaches, Follows, ContextType
      <4>2. ctx'[p].local_purge_index = ctx[p].local_purge_index
        BY <1>2
      <4>3. ctx'[p].local_purge_index < purge_index'
        BY <1>1, <3>1, <4>1, <4>2
      <4>4. ctx'[p].local_purge_index <= purge_index'
        BY <1>1, <3>1, <4>1, <4>2
      <4> QED BY <4>3, <4>4 DEF Follows, NeedsUpdate
    <3> QED BY <3>2 DEF Reaches
  <2>2. CASE ~(C # {} /\ told)
    <3>1. purge_index' = purge_index /\ Acknowledged' = Acknowledged
      BY <1>3, <1>18, <2>2
    <3> QED BY <1>1, <1>2, <3>1, ReachesStay DEF Lost, misreads
  <2> QED BY <2>1, <2>2
<1> QED BY <1>11, <1>14, <1>15, <1>17, <1>19, <1>20 DEF IInv

-----------------------------------------------------------------------------
(* PollFileSystem, kills and time.                                         *)

\* Nothing but what a process knows of the file changes, or the time.
LEMMA OnlyKnowledgeChanges ==
  ASSUME IInv, Tick \/ UNCHANGED lockVars,
         UNCHANGED <<file, chain, answer, killed, stolen, forgotten, unverified>>,
         purge_index' \in Nat, missed' \in [Procs -> SUBSET Requests],
         ctx' \in [Procs -> ContextType],
         \A p \in Procs : /\ ctx'[p].pending_purges = ctx[p].pending_purges
                          /\ ctx'[p].pending_callbacks = ctx[p].pending_callbacks
                          /\ ctx'[p].waiting = ctx[p].waiting,
         Reaches'
  PROVE  IInv'
<1>1. /\ Typed /\ Contexts /\ OneInLine /\ Chaining /\ Accounted /\ Promise
      /\ ProcOf \in [Requests -> Procs] /\ BucketInv
  BY RequestsAssumption DEF IInv, Chaining, Typed
<1>2. BucketInv' /\ \A p \in Procs : OwnSlots(p)' = OwnSlots(p)
  BY <1>1, BucketStays DEF Procs
<1>3. Typed'
  BY <1>1, <1>2 DEF Typed
<1>4. \A q \in Requests : /\ Waits(q)' <=> Waits(q)
                          /\ ChainIsSound(q)' <=> ChainIsSound(q)
                          /\ AtWork(q)' <=> AtWork(q)
                          /\ Wrote(q)' <=> Wrote(q)
                          /\ Faithful(q)' <=> Faithful(q)
                          /\ \A x \in Requests : Holds(q, x)' <=> Holds(q, x)
  BY DEF Waits, ChainIsSound, AtWork, Wrote, Faithful, Holds
<1>5. Contexts' /\ OneInLine' /\ Accounted'
  BY <1>1, <1>4, LineStays
<1>6. Chaining'
  BY <1>1, <1>4, <1>5 DEF Chaining
<1>7. Promise'
  <2>1. Serial => Serial'
    BY <1>1, <1>2, <1>4 DEF Serial
  <2>2. InFile => InFile'
    BY <1>1, <1>4 DEF InFile, Typed
  <2>3. Acknowledged' = Acknowledged
    BY DEF Acknowledged
  <2> QED BY <1>1, <2>1, <2>2, <2>3 DEF Promise, Kept
<1> QED BY <1>3, <1>5, <1>6, <1>7 DEF IInv

LEMMA PollFileSystemKeeps ==
  ASSUME IInv, NEW p \in Procs, PollFileSystem(p) PROVE IInv'
<1> DEFINE index == IF NeedsUpdate(p) THEN purge_index ELSE ctx[p].local_purge_index
           d == [ctx[p] EXCEPT !.reading = "file", !.needs_update = NeedsUpdate(p),
                               !.local_purge_index = index]
<1>1. /\ ctx \in [Procs -> ContextType] /\ purge_index \in Nat /\ Reaches
      /\ missed \in [Procs -> SUBSET Requests]
  BY DEF IInv, Typed
<1>2. /\ UNCHANGED <<file, purge_index, chain, answer, killed, stolen>>
      /\ UNCHANGED lockVars /\ UNCHANGED <<forgotten, unverified, missed>>
  BY DEF PollFileSystem, misreads
<1>3. ctx' = [ctx EXCEPT ![p] = d]
  BY <1>1 DEF PollFileSystem, ContextType
<1>4. index \in Nat /\ NeedsUpdate(p) \in BOOLEAN /\ index <= purge_index
  BY <1>1 DEF ContextType, NeedsUpdate, Reaches, Follows
<1> HIDE DEF index
<1>5. /\ d \in ContextType /\ d.reading = "file" /\ d.local_purge_index = index
      /\ d.pending_purges = ctx[p].pending_purges
      /\ d.pending_callbacks = ctx[p].pending_callbacks /\ d.waiting = ctx[p].waiting
  <2>1. ASSUME NEW k \in ContextType, NEW b \in BOOLEAN
        PROVE  [k EXCEPT !.reading = "file", !.needs_update = b,
                         !.local_purge_index = index] \in ContextType
    BY <1>4, <2>1 DEF ContextType
  <2>2. d \in ContextType
    BY <1>1, <1>4, <2>1
  <2> QED BY <1>1, <2>2 DEF ContextType
<1> HIDE DEF d
<1>6. /\ ctx'[p] = d /\ \A o \in Procs \ {p} : ctx'[o] = ctx[o]
      /\ ctx' \in [Procs -> ContextType]
  BY <1>1, <1>3, <1>5
<1>7. Reaches'
  <2>1. Follows(p)'
    BY <1>2, <1>4, <1>5, <1>6 DEF Follows
  <2>2. ASSUME NEW o \in Procs, o # p PROVE Follows(o)'
    BY <1>1, <1>2, <1>6, <2>2 DEF Reaches, Follows, NeedsUpdate, Acknowledged, Lost
  <2> QED BY <2>1, <2>2 DEF Reaches
<1> QED BY <1>1, <1>2, <1>5, <1>6, <1>7, OnlyKnowledgeChanges

\* What the read does not leave out is every acknowledged purge that the file has
\* not lost, and a later one raises the counter.
LEMMA PollReadsFileKeeps ==
  ASSUME IInv, NEW p \in Procs, PollReadsFile(p) PROVE IInv'
<1>1. /\ ctx \in [Procs -> ContextType] /\ purge_index \in Nat /\ Reaches
      /\ missed \in [Procs -> SUBSET Requests]
      /\ file \in SUBSET Requests /\ Promise
  BY DEF IInv, Typed
<1>2. /\ UNCHANGED <<file, purge_index, chain, answer, killed, stolen>>
      /\ UNCHANGED lockVars /\ UNCHANGED <<forgotten, unverified>>
  BY DEF PollReadsFile
<1>3. PICK purges \in SUBSET file :
        /\ ctx' = [ctx EXCEPT ![p].reading = "apply", ![p].purges_from_file = purges]
        /\ missed' = [missed EXCEPT ![p] = file \ purges]
  BY DEF PollReadsFile
<1> DEFINE d == [ctx[p] EXCEPT !.reading = "apply", !.purges_from_file = purges]
<1>4. /\ d \in ContextType /\ d.reading = "apply" /\ d.purges_from_file = purges
      /\ d.local_purge_index = ctx[p].local_purge_index
      /\ d.pending_purges = ctx[p].pending_purges
      /\ d.pending_callbacks = ctx[p].pending_callbacks /\ d.waiting = ctx[p].waiting
  <2>1. ASSUME NEW k \in ContextType
        PROVE  [k EXCEPT !.reading = "apply", !.purges_from_file = purges] \in ContextType
    BY <1>1, <2>1 DEF ContextType
  <2>2. d \in ContextType
    BY <1>1, <2>1
  <2> QED BY <1>1, <2>2 DEF ContextType
<1>a. ctx' = [ctx EXCEPT ![p] = d]
  BY <1>1, <1>3 DEF ContextType
<1> HIDE DEF d
<1>5. /\ ctx'[p] = d /\ \A o \in Procs \ {p} : ctx'[o] = ctx[o]
      /\ ctx' \in [Procs -> ContextType]
      /\ missed'[p] = file \ purges /\ \A o \in Procs \ {p} : missed'[o] = missed[o]
      /\ missed' \in [Procs -> SUBSET Requests]
  BY <1>1, <1>3, <1>a, <1>4
<1>6. Reaches'
  <2>1. Follows(p)'
    <3>1. Acknowledged' = Acknowledged /\ Lost' = Lost
      BY <1>2 DEF Acknowledged, Lost
    <3>2. ~stolen => Acknowledged \subseteq purges \cup (file \ purges) \cup Lost
      BY <1>1 DEF Promise, Kept, Lost
    <3> QED BY <1>1, <1>2, <1>4, <1>5, <3>1, <3>2 DEF Reaches, Follows, NeedsUpdate
  <2>2. ASSUME NEW o \in Procs, o # p PROVE Follows(o)'
    BY <1>1, <1>2, <1>5, <2>2 DEF Reaches, Follows, NeedsUpdate, Acknowledged, Lost
  <2> QED BY <2>1, <2>2 DEF Reaches
<1> QED BY <1>1, <1>2, <1>4, <1>5, <1>6, OnlyKnowledgeChanges

LEMMA CallCallbackIfChangedKeeps ==
  ASSUME IInv, NEW p \in Procs, CallCallbackIfChanged(p) PROVE IInv'
<1> DEFINE new == ctx[p].purges_from_file
           d == [ctx[p] EXCEPT !.reading = "no", !.purge_set = new,
                               !.purges_from_file = {}, !.needs_update = FALSE]
<1>1. /\ ctx \in [Procs -> ContextType] /\ purge_index \in Nat /\ Reaches
      /\ missed \in [Procs -> SUBSET Requests]
  BY DEF IInv, Typed
<1>2. /\ UNCHANGED <<file, chain, answer, killed, stolen>>
      /\ UNCHANGED <<forgotten, unverified, missed>>
      /\ UNCHANGED lockVars /\ ctx[p].reading = "apply"
      /\ ctx' = [ctx EXCEPT ![p] = d]
  BY <1>1 DEF CallCallbackIfChanged, ContextType, misreads
<1>3. purge_index' \in Nat /\ purge_index' >= purge_index
  BY <1>1 DEF CallCallbackIfChanged
<1>4. new \in SUBSET Requests
  BY <1>1 DEF ContextType
<1>5. /\ d \in ContextType /\ d.reading = "no" /\ d.purge_set = new
      /\ d.local_purge_index = ctx[p].local_purge_index
      /\ d.pending_purges = ctx[p].pending_purges
      /\ d.pending_callbacks = ctx[p].pending_callbacks /\ d.waiting = ctx[p].waiting
  <2> HIDE DEF new
  <2>1. ASSUME NEW k \in ContextType
        PROVE  [k EXCEPT !.reading = "no", !.purge_set = new,
                         !.purges_from_file = {},
                         !.needs_update = FALSE] \in ContextType
    BY <1>4, <2>1 DEF ContextType
  <2>2. d \in ContextType
    BY <1>1, <2>1
  <2> QED BY <1>1, <2>2 DEF ContextType
<1> HIDE DEF d
<1>6. /\ ctx'[p] = d /\ \A o \in Procs \ {p} : ctx'[o] = ctx[o]
      /\ ctx' \in [Procs -> ContextType]
  BY <1>1, <1>2, <1>5
<1>7. \A o \in Procs : /\ ctx[o].local_purge_index \in Nat
                       /\ ctx'[o].local_purge_index = ctx[o].local_purge_index
                       /\ ctx[o].local_purge_index <= purge_index
                       /\ NeedsUpdate(o) => NeedsUpdate(o)'
  <2> SUFFICES ASSUME NEW o \in Procs
               PROVE  /\ ctx[o].local_purge_index \in Nat
                      /\ ctx'[o].local_purge_index = ctx[o].local_purge_index
                      /\ ctx[o].local_purge_index <= purge_index
                      /\ NeedsUpdate(o) => NeedsUpdate(o)'
    OBVIOUS
  <2>1. /\ ctx[o].local_purge_index \in Nat
        /\ ctx'[o].local_purge_index = ctx[o].local_purge_index
        /\ ctx[o].local_purge_index <= purge_index
    BY <1>1, <1>5, <1>6 DEF ContextType, Reaches, Follows
  <2> QED BY <1>1, <1>3, <2>1 DEF NeedsUpdate
<1>8. Reaches'
  <2>1. Acknowledged' = Acknowledged /\ Lost' = Lost
    BY <1>2 DEF Acknowledged, Lost
  <2>2. Follows(p)'
    BY <1>1, <1>2, <1>3, <1>5, <1>6, <1>7, <2>1 DEF Reaches, Follows
  <2>3. ASSUME NEW o \in Procs, o # p PROVE Follows(o)'
    BY <1>1, <1>2, <1>3, <1>6, <1>7, <2>1, <2>3 DEF Reaches, Follows
  <2> QED BY <2>2, <2>3 DEF Reaches
<1> QED BY <1>1, <1>2, <1>3, <1>5, <1>6, <1>8, OnlyKnowledgeChanges

LEMMA TimePassesKeeps ==
  ASSUME IInv, TimePasses \/ UNCHANGED vars PROVE IInv'
<1>1. /\ ctx \in [Procs -> ContextType] /\ purge_index \in Nat /\ Reaches
      /\ missed \in [Procs -> SUBSET Requests]
  BY DEF IInv, Typed
<1>2. /\ UNCHANGED <<file, purge_index, ctx, chain, answer, killed, stolen>>
      /\ UNCHANGED <<forgotten, unverified, missed>>
      /\ Tick \/ UNCHANGED lockVars
  BY DEF TimePasses, purgeVars, vars, misreads
<1>3. Reaches'
  BY <1>1, <1>2, ReachesStay DEF Acknowledged, Lost
<1> QED BY <1>1, <1>2, <1>3, OnlyKnowledgeChanges

\* A lock object is gone without having unlocked: its claim is, and the slot stays
\* taken until it is old.
LEMMA Forgotten ==
  ASSUME BucketInv, NEW p \in Locks,
         acquisition_time' = [acquisition_time EXCEPT ![p] = kNotAcquired],
         UNCHANGED <<slots, now>>
  PROVE  BucketInv' /\ OwnSlots(p)' = {}
           /\ \A o \in Locks \ {p} : OwnSlots(o)' = OwnSlots(o)
<1>1. LockTypeOK /\ Stamp \in Nat /\ Stamp # 0 /\ Stamp' = Stamp
  BY StampIsPositive DEF BucketInv, Stamp
<1>2. /\ acquisition_time' \in [Locks -> Nat] /\ acquisition_time'[p] = 0
      /\ \A o \in Locks \ {p} : acquisition_time'[o] = acquisition_time[o]
  BY <1>1 DEF LockTypeOK, kNotAcquired
<1>3. OwnSlots(p)' = {}
  BY <1>2 DEF OwnSlots, kNotAcquired
<1>4. \A o \in Locks \ {p} : OwnSlots(o)' = OwnSlots(o)
  BY <1>2 DEF OwnSlots, Matching
<1>5. LockTypeOK' /\ OneSlotPerHash'
  BY <1>1, <1>2 DEF BucketInv, LockTypeOK, OneSlotPerHash, Matching
<1>6. Times'
  BY <1>1, <1>2 DEF BucketInv, Times
<1>7. Fresh'
  BY <1>1, <1>2, <1>4 DEF BucketInv, Fresh
<1>8. OneClaim'
  BY <1>3, <1>4 DEF BucketInv, OneClaim
<1> QED BY <1>3, <1>4, <1>5, <1>6, <1>7, <1>8 DEF BucketInv

LEMMA KillKeeps ==
  ASSUME IInv, NEW p \in Procs, Kill(p) PROVE IInv'
<1>1. /\ Typed /\ Contexts /\ OneInLine /\ Chaining /\ Accounted /\ Promise /\ Reaches
      /\ ProcOf \in [Requests -> Procs] /\ BucketInv
      /\ chain \in [Requests -> ChainType] /\ ctx \in [Procs -> ContextType]
      /\ file \subseteq Requests /\ purge_index \in Nat /\ p \in Locks
  BY RequestsAssumption DEF IInv, Chaining, Typed, Procs
<1>2. /\ UNCHANGED <<file, purge_index, answer, stolen, misreads>>
      /\ killed' = killed \cup {p}
  BY DEF Kill
<1>3. /\ ctx'[p] = FreshContext /\ \A o \in Procs \ {p} : ctx'[o] = ctx[o]
      /\ ctx' \in [Procs -> ContextType]
  <2>1. FreshContext \in ContextType
    BY DEF FreshContext, ContextType
  <2> QED BY <1>1, <2>1 DEF Kill
<1>4. /\ chain' \in [Requests -> ChainType]
      /\ \A q \in Requests : ProcOf[q] # p => chain'[q] = chain[q]
      /\ \A q \in Requests : ProcOf[q] = p =>
           chain'[q].pc = "over" /\ ~chain'[q].again /\ chain'[q].callbacks = {}
  <2> DEFINE c == [NoChain EXCEPT !.pc = "over"]
  <2>1. c \in ChainType /\ c.pc = "over" /\ ~c.again /\ c.callbacks = {}
    BY DEF NoChain, ChainType, Places
  <2>2. chain' = [q \in Requests |-> IF ProcOf[q] = p THEN c ELSE chain[q]]
    BY DEF Kill
  <2> HIDE DEF c
  <2> QED BY <1>1, <2>1, <2>2
<1>5. BucketInv' /\ \A o \in Procs : o # p => OwnSlots(o)' = OwnSlots(o)
  BY <1>1, Forgotten DEF Kill, Procs
<1>6. Typed'
  BY <1>1, <1>2, <1>3, <1>4, <1>5 DEF Typed, misreads
<1>7. \A q \in Requests :
        /\ Waits(q)' <=> Waits(q) /\ ProcOf[q] # p
        /\ AtWork(q)' <=> AtWork(q) /\ ProcOf[q] # p
        /\ Wrote(q)' <=> Wrote(q) /\ ProcOf[q] # p
        /\ Faithful(q) => Faithful(q)'
        /\ ChainIsSound(q)'
        /\ \A x \in Requests : Holds(q, x)' <=> Holds(q, x) /\ ProcOf[q] # p
        /\ Pending(q)' <=> Pending(q) /\ ProcOf[q] # p
  <2> SUFFICES ASSUME NEW q \in Requests
               PROVE  /\ Waits(q)' <=> Waits(q) /\ ProcOf[q] # p
                      /\ AtWork(q)' <=> AtWork(q) /\ ProcOf[q] # p
                      /\ Wrote(q)' <=> Wrote(q) /\ ProcOf[q] # p
                      /\ Faithful(q) => Faithful(q)'
                      /\ ChainIsSound(q)'
                      /\ \A x \in Requests : Holds(q, x)'
                           <=> Holds(q, x) /\ ProcOf[q] # p
                      /\ Pending(q)' <=> Pending(q) /\ ProcOf[q] # p
    OBVIOUS
  <2>1. ProcOf[q] \in Procs /\ ChainIsSound(q)
    BY <1>1 DEF Chaining
  <2>2. CASE ProcOf[q] = p
    <3>1. chain'[q].pc = "over" /\ ~chain'[q].again /\ chain'[q].callbacks = {}
      BY <1>4, <2>2
    <3>2. ctx'[p].pending_callbacks = {}
      BY <1>3 DEF FreshContext
    <3> QED BY <2>2, <3>1, <3>2
            DEF Waits, AtWork, Wrote, Faithful, ChainIsSound, Holds, Pending, Ctx,
                misreads
  <2>3. CASE ProcOf[q] # p
    <3>1. /\ chain'[q] = chain[q] /\ ctx'[ProcOf[q]] = ctx[ProcOf[q]]
          /\ ProcOf[q] \in killed' => ProcOf[q] \in killed
      BY <1>2, <1>3, <1>4, <2>1, <2>3
    <3> QED BY <1>2, <2>1, <2>3, <3>1
            DEF Waits, AtWork, Wrote, Faithful, ChainIsSound, Holds, Pending, Ctx,
                misreads
  <2> QED BY <2>2, <2>3
<1>8. Contexts'
  <2>1. ContextIsSound(p)'
    BY <1>2, <1>3, <1>7 DEF ContextIsSound, FreshContext
  <2>2. ASSUME NEW o \in Procs, o # p PROVE ContextIsSound(o)'
    BY <1>1, <1>2, <1>3, <1>7, <2>2 DEF Contexts, ContextIsSound
  <2> QED BY <2>1, <2>2 DEF Contexts
<1>9. Chaining'
  BY <1>1, <1>7 DEF Chaining, OneInLine
<1>10. Accounted'
  <2>1. \A q, x \in Requests : Holds(q, x) => ProcOf[x] = ProcOf[q]
    BY <1>1 DEF Chaining, ChainIsSound, Holds
  <2>2. \A x \in Requests : /\ chain'[x].pc = "new" => chain[x].pc = "new"
                            /\ ProcOf[x] # p /\ chain'[x].pc # "new"
                                 => chain[x].pc # "new"
    BY <1>4
  <2>3. \A x \in Requests : ProcOf[x] \notin killed'
          => ProcOf[x] # p /\ ProcOf[x] \notin killed
    BY <1>2
  <2> QED BY <1>1, <1>2, <1>7, <2>1, <2>2, <2>3 DEF Accounted
<1>11. Promise'
  <2> SUFFICES ASSUME ~stolen PROVE Serial' /\ InFile' /\ Kept'
    BY <1>2 DEF Promise
  <2>1. Serial /\ InFile /\ Kept
    BY <1>1 DEF Promise
  <2>2. Serial'
    BY <1>1, <1>5, <1>7, <2>1 DEF Serial
  <2>3. \A q, x \in Requests : Holds(q, x) => ProcOf[x] = ProcOf[q] /\ answer[x] = <<>>
    BY <1>1 DEF Chaining, ChainIsSound, Holds, Accounted
  <2>4. InFile'
    BY <1>1, <1>2, <1>7, <2>1, <2>3 DEF InFile, misreads
  <2>5. Kept'
    BY <1>2, <2>1 DEF Kept, Acknowledged, misreads
  <2> QED BY <2>2, <2>4, <2>5
<1>12. Reaches'
  <2>1. Follows(p)'
    BY <1>1, <1>2, <1>3 DEF Follows, FreshContext
  <2>2. ASSUME NEW o \in Procs, o # p PROVE Follows(o)'
    BY <1>1, <1>2, <1>3, <2>2
       DEF Reaches, Follows, NeedsUpdate, Acknowledged, Lost, misreads
  <2> QED BY <2>1, <2>2 DEF Reaches
<1> QED BY <1>6, <1>8, <1>9, <1>10, <1>11, <1>12 DEF IInv

-----------------------------------------------------------------------------
LEMMA InitIInv == Init => IInv
<1> SUFFICES ASSUME Init PROVE IInv
  OBVIOUS
<1>1. BucketInv /\ ProcOf \in [Requests -> Procs]
  BY BucketInit, RequestsAssumption DEF Init
<1>2. \A p \in Procs : ctx[p] = FreshContext
  BY DEF Init
<1>3. \A r \in Requests : chain[r] = NoChain /\ answer[r] = <<>>
  BY DEF Init
<1>4. Typed
  <2>1. FreshContext \in ContextType /\ NoChain \in ChainType
    BY DEF FreshContext, ContextType, NoChain, ChainType, Places
  <2>2. <<>> \in Answers
    BY DEF Answers
  <2> QED BY <1>1, <2>1, <2>2 DEF Init, Typed
<1>5. \A r \in Requests : /\ ~Waits(r) /\ ~AtWork(r) /\ ~Wrote(r) /\ Faithful(r)
                          /\ ~Pending(r) /\ \A q \in Requests : ~Holds(q, r)
  BY <1>1, <1>2, <1>3
     DEF NoChain, FreshContext, Waits, AtWork, Wrote, Faithful, Pending, Ctx, Holds
<1>6. Contexts
  BY <1>2, <1>5 DEF Init, Contexts, ContextIsSound, FreshContext
<1>7. Chaining
  BY <1>3, <1>5 DEF Init, Chaining, OneInLine, ChainIsSound, NoChain
<1>8. Accounted
  BY <1>3, <1>5 DEF Accounted, NoChain
<1>9. Acknowledged = {}
  BY <1>3, AnAnswer DEF Acknowledged
<1>10. Promise
  BY <1>5, <1>9 DEF Init, Promise, Serial, InFile, Kept
<1>11. Reaches
  BY <1>2, <1>9 DEF Init, Reaches, Follows, FreshContext
<1> QED BY <1>4, <1>6, <1>7, <1>8, <1>10, <1>11 DEF IInv

\* In every reachable state.
THEOREM Invariant == Spec => []IInv
<1>1. IInv /\ [Next]_vars => IInv'
  <2> SUFFICES ASSUME IInv, [Next]_vars PROVE IInv'
    OBVIOUS
  <2>1. ASSUME NEW r \in Requests, AddPurge(r) PROVE IInv'
    BY <2>1, AddPurgeKeeps
  <2>2. ASSUME NEW r \in Requests, GrabLockAndUpdate(r) PROVE IInv'
    BY <2>2, GrabLockAndUpdateKeeps
  <2>3. ASSUME NEW r \in Requests, PollLock(r) PROVE IInv'
    BY <2>3, PollLockKeeps
  <2>4. ASSUME NEW r \in Requests, CancelCachePurgeFile(r) PROVE IInv'
    BY <2>4, CancelCachePurgeFileKeeps
  <2>5. ASSUME NEW r \in Requests, ReadPurgeFile(r) PROVE IInv'
    BY <2>5, ReadPurgeFileKeeps
  <2>6. ASSUME NEW r \in Requests, ModifyPurgeSet(r) PROVE IInv'
    BY <2>6, ModifyPurgeSetKeeps
  <2>7. ASSUME NEW r \in Requests, WritePurgeFile(r) PROVE IInv'
    BY <2>7, WritePurgeFileKeeps
  <2>8. ASSUME NEW r \in Requests, Verify(r) PROVE IInv'
    BY <2>8, VerifyKeeps
  <2>9. ASSUME NEW r \in Requests, HandleWriteFailure(r) PROVE IInv'
    BY <2>9, HandleWriteFailureKeeps
  <2>10. ASSUME NEW r \in Requests, UnlockFile(r) PROVE IInv'
    BY <2>10, UnlockFileKeeps
  <2>11. ASSUME NEW r \in Requests, RunCallbacks(r) PROVE IInv'
    BY <2>11, RunCallbacksKeeps
  <2>12. ASSUME NEW p \in Pollers,
                PollFileSystem(p) \/ PollReadsFile(p) \/ CallCallbackIfChanged(p)
         PROVE  IInv'
    <3>1. p \in Procs
      BY RequestsAssumption
    <3> QED BY <2>12, <3>1, PollFileSystemKeeps, PollReadsFileKeeps,
               CallCallbackIfChangedKeeps
  <2>13. ASSUME NEW p \in Procs, Kill(p) PROVE IInv'
    BY <2>13, KillKeeps
  <2>14. CASE TimePasses \/ UNCHANGED vars
    BY <2>14, TimePassesKeeps
  <2> QED BY <2>1, <2>2, <2>3, <2>4, <2>5, <2>6, <2>7, <2>8, <2>9, <2>10, <2>11, <2>12,
             <2>13, <2>14 DEF Next
<1> QED BY <1>1, InitIInv, PTL DEF Spec

\* Each request is in one place and answered once: the flag of a process stands
\* for one chain that will take what is pending, whatever fails and however often
\* the chain starts again (AddPurgeUrl, ModifyPurgeSet, HandleWriteFailure).
THEOREM RequestsAreAnsweredOnce == Spec => []OneChainWaits
<1>1. IInv => OneChainWaits
  <2> SUFFICES ASSUME IInv PROVE OneChainWaits
    OBVIOUS
  <2>1. Contexts /\ OneInLine /\ Accounted /\ answer \in [Requests -> Answers]
    BY DEF IInv, Chaining, Typed
  <2>2. ASSUME NEW p \in Procs
        PROVE  /\ Cardinality(Chains(p)) = IF ctx[p].waiting THEN 1 ELSE 0
               /\ ctx[p].waiting <=> ctx[p].pending_callbacks # {}
               /\ ctx[p].pending_purges = ctx[p].pending_callbacks
    <3>1. Chains(p) = {r \in Requests : ProcOf[r] = p /\ Waits(r)}
      BY DEF Chains, Waits
    <3>2. ContextIsSound(p)
      BY <2>1 DEF Contexts
    <3>3. CASE ctx[p].waiting
      <4>1. PICK r \in Requests : ProcOf[r] = p /\ Waits(r)
        BY <3>2, <3>3 DEF ContextIsSound
      <4>2. Chains(p) = {r}
        BY <2>1, <3>1, <4>1 DEF OneInLine
      <4> QED BY <3>2, <3>3, <4>2, FS_Singleton DEF ContextIsSound
    <3>4. CASE ~ctx[p].waiting
      <4>1. Chains(p) = {}
        BY <3>1, <3>2, <3>4 DEF ContextIsSound
      <4> QED BY <3>2, <3>4, <4>1, FS_EmptySet DEF ContextIsSound
    <3> QED BY <3>3, <3>4
  <2>3. ASSUME NEW r \in Requests, ProcOf[r] \notin killed
        PROVE  LET holders == {q \in Requests : r \in chain[q].callbacks}
               IN  Len(answer[r]) + Cardinality(holders)
                     + (IF r \in Ctx(r).pending_callbacks THEN 1 ELSE 0)
                   = IF chain[r].pc = "new" THEN 0 ELSE 1
    <3> DEFINE holders == {q \in Requests : r \in chain[q].callbacks}
               pending == IF r \in Ctx(r).pending_callbacks THEN 1 ELSE 0
    <3>1. holders = {q \in Requests : Holds(q, r)}
      BY DEF Holds
    <3>2. pending = IF Pending(r) THEN 1 ELSE 0
      BY DEF Pending
    <3>3. /\ answer[r] = <<>> => Len(answer[r]) = 0
          /\ answer[r] # <<>> => Len(answer[r]) = 1
      BY <2>1 DEF Answers
    <3>4. Cardinality({}) = 0
      BY FS_EmptySet
    <3> HIDE DEF holders, pending
    <3>5. CASE \E q \in Requests : Holds(q, r)
      <4>1. PICK q \in Requests : Holds(q, r)
        BY <3>5
      <4>2. holders = {q}
        BY <2>1, <3>1, <4>1 DEF Accounted
      <4>3. Cardinality(holders) = 1
        BY <4>2, FS_Singleton
      <4>4. Len(answer[r]) = 0 /\ pending = 0 /\ chain[r].pc # "new"
        BY <2>1, <3>2, <3>3, <4>1 DEF Accounted
      <4>5. Len(answer[r]) + Cardinality(holders) + pending = 1
        BY <4>3, <4>4
      <4> QED BY <4>4, <4>5 DEF holders, pending
    <3>6. CASE ~\E q \in Requests : Holds(q, r)
      <4>1. Cardinality(holders) = 0
        <5>1. holders = {}
          BY <3>1, <3>6
        <5> QED BY <3>4, <5>1
      <4>2. Len(answer[r]) + pending = IF chain[r].pc = "new" THEN 0 ELSE 1
        <5>1. CASE Pending(r)
          <6>1. answer[r] = <<>> /\ chain[r].pc # "new"
            BY <2>1, <5>1 DEF Accounted
          <6> QED BY <3>2, <3>3, <5>1, <6>1
        <5>2. CASE ~Pending(r) /\ answer[r] # <<>>
          <6>1. chain[r].pc # "new"
            BY <2>1, <5>2 DEF Accounted
          <6> QED BY <3>2, <3>3, <5>2, <6>1
        <5>3. CASE ~Pending(r) /\ answer[r] = <<>>
          <6>1. chain[r].pc = "new"
            BY <2>1, <2>3, <3>6, <5>3 DEF Accounted
          <6> QED BY <3>2, <3>3, <5>3, <6>1
        <5> QED BY <5>1, <5>2, <5>3
      <4>3. Len(answer[r]) \in {0, 1} /\ pending \in {0, 1}
        BY <3>2, <3>3
      <4>4. Len(answer[r]) + Cardinality(holders) + pending
              = IF chain[r].pc = "new" THEN 0 ELSE 1
        BY <4>1, <4>2, <4>3
      <4> QED BY <4>4 DEF holders, pending
    <3> QED BY <3>5, <3>6
  <2> QED BY <2>2, <2>3 DEF OneChainWaits
<1> QED BY <1>1, Invariant, PTL

\* As long as no lock was stolen from a chain at work, what a request was told is
\* true of the file, for good, but for what the reads of the file get wrong: a
\* purge of which success was told is lost only if the read of a chain left out that
\* purge, and one that was refused is in the file only if Verify could not read it.
THEOREM PurgeFileKeepsPromise == Spec => []FileKeepsPromise
<1>1. IInv => FileKeepsPromise
  <2> SUFFICES ASSUME IInv, ~stolen
               PROVE  /\ Acknowledged \subseteq file \cup forgotten
                      /\ file \cap Refused \subseteq unverified
    BY DEF FileKeepsPromise
  <2>1. Kept /\ InFile /\ Accounted /\ file \subseteq Requests
    BY DEF IInv, Promise, Typed
  <2>2. \A x \in file : \/ answer[x] = <<"success">> \/ answer[x] = <<>>
                       \/ x \in unverified
    BY <2>1 DEF InFile, Accounted
  <2>3. \A x \in Refused : answer[x] # <<"success">> /\ answer[x] # <<>>
    BY AnAnswer DEF Refused
  <2> QED BY <2>1, <2>2, <2>3 DEF Kept
<1> QED BY <1>1, Invariant, PTL

\* And a process that has followed the counter knows of it, but for what the file
\* has lost and what the last read of this process left out.
THEOREM AcknowledgedPurgesReach == Spec => []PurgesReachProcesses
<1>1. IInv => PurgesReachProcesses
  BY RequestsAssumption DEF IInv, Reaches, Follows, PurgesReachProcesses, Lost
<1> QED BY <1>1, Invariant, PTL
=============================================================================
