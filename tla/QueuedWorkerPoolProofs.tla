----------------------- MODULE QueuedWorkerPoolProofs -----------------------
(***************************************************************************)
(* What the pool promises, for any number of sequences, functions, workers *)
(* and clients.                                                            *)
(*                                                                         *)
(* An orderly pool (Orderly: nothing takes functions out of a sequence     *)
(* that waits for a worker) serves a sequence with one worker at a time.   *)
(* What is to be run of a sequence is in one place (OnePlace): with the    *)
(* caller of QueueSequence, in the pool's queue, among the tasks of a      *)
(* worker, or with a worker.  Add makes a new place for a sequence that is *)
(* not active and has one function, so one that has a place and is not     *)
(* active must have functions already (Service); and a sequence gets a new *)
(* owner from one place too, after the last worker has left it (Freed).    *)
(* Such a sequence implements SequencerSpec: a function that is pending is *)
(* in a queue once (Pended), so that every step of the pool is a step of   *)
(* the executor or none.                                                   *)
(*                                                                         *)
(* Any pool, whose clients may cancel what is pending and which may shed   *)
(* load, is consistent all the same (CInv): a sequence may then be in many *)
(* places, but it is in one while it has work (Held).                      *)
(***************************************************************************)
EXTENDS QueuedWorkerPool, FiniteSetTheorems, SequenceTheorems, TLAPS

\* Clients keep the functions they added and stop adding before ShutDown; no
\* load is shed; and a bound leaves room for a function besides the new one.
Orderly ==
  ~CancelsPending /\ ~AddsDuringShutDown /\ LoadShedding = 0 /\ MaxQueueSize # 1

Working == {"next", "run", "drain"}

CallHas(c, s) == call[c].seq = s /\ call[c].op \in {"queue", "start"}
QueueHas(i, s) == i \in 1..Len(queued_sequences) /\ queued_sequences[i] = s
TaskHas(w, i, s) == i \in 1..Len(tasks[w]) /\ tasks[w][i] = s
WorkerHas(w, s) == seq[w] = s /\ pc[w] \in Working

Carried(s) ==
  \/ \E c \in Clients : CallHas(c, s)
  \/ \E i \in Nat : QueueHas(i, s)
  \/ \E w \in Workers, i \in Nat : TaskHas(w, i, s)
  \/ \E w \in Workers : WorkerHas(w, s)

OnePlace(s) ==
  /\ \A c, d \in Clients : CallHas(c, s) /\ CallHas(d, s) => c = d
  /\ \A i, j \in Nat : QueueHas(i, s) /\ QueueHas(j, s) => i = j
  /\ \A v, w \in Workers, i, j \in Nat :
       TaskHas(v, i, s) /\ TaskHas(w, j, s) => v = w /\ i = j
  /\ \A v, w \in Workers : WorkerHas(v, s) /\ WorkerHas(w, s) => v = w
  /\ \A c \in Clients, i \in Nat : ~(CallHas(c, s) /\ QueueHas(i, s))
  /\ \A c \in Clients, w \in Workers, i \in Nat : ~(CallHas(c, s) /\ TaskHas(w, i, s))
  /\ \A c \in Clients, w \in Workers : ~(CallHas(c, s) /\ WorkerHas(w, s))
  /\ \A w \in Workers, i, j \in Nat : ~(QueueHas(i, s) /\ TaskHas(w, j, s))
  /\ \A w \in Workers, i \in Nat : ~(QueueHas(i, s) /\ WorkerHas(w, s))
  /\ \A v, w \in Workers, i \in Nat : ~(TaskHas(v, i, s) /\ WorkerHas(w, s))

InOnePlace == \A s \in Seqs : OnePlace(s)

\* A call knows what it is about, and workers their sequence.
Calls ==
  /\ \A c \in Clients :
       /\ call[c].op \in {"queue", "start", "free"} => call[c].seq \in Seqs
       /\ call[c].op = "start" => call[c].worker \in Workers
       /\ call[c].op # "drop"
  /\ \A w \in Workers : pc[w] \in Working \cup {"release"} => seq[w] \in Seqs
  /\ \A w \in Workers : pc[w] = "run" => run[w] \in Functions
  /\ stage # "up" => shutdown

\* active_ says whether a worker has begun with the sequence.
Busy ==
  /\ \A s \in Seqs : active[s] => \E w \in Workers : WorkerHas(w, s)
  /\ \A w \in Workers : pc[w] \in {"run", "drain"} => active[seq[w]]

\* Sequences in service, given back, and never used.
Service ==
  ~shutdown =>
    /\ \A s \in Seqs : Carried(s) /\ ~active[s] => s \in live /\ work_queue[s] # <<>>
    /\ \A s \in live : ~seq_shutdown[s]
    /\ \A s \in Seqs \ all_sequences : ~active[s] /\ ~seq_shutdown[s]
    /\ \A w \in Workers : pc[w] = "drain" => seq[w] \notin live

\* A sequence that nobody owns is given to the pool from one place.
FreeHas(i, s) == i \in 1..Len(free_sequences) /\ free_sequences[i] = s
CallFrees(c, s) == call[c].op = "free" /\ call[c].seq = s
Releases(w, s) == pc[w] = "release" /\ seq[w] = s

FreedOnce(s) ==
  /\ \A i, j \in Nat : FreeHas(i, s) /\ FreeHas(j, s) => i = j
  /\ \A c, d \in Clients : CallFrees(c, s) /\ CallFrees(d, s) => c = d
  /\ \A v, w \in Workers : Releases(v, s) /\ Releases(w, s) => v = w
  /\ \A i \in Nat, c \in Clients : ~(FreeHas(i, s) /\ CallFrees(c, s))
  /\ \A i \in Nat, w \in Workers : ~(FreeHas(i, s) /\ Releases(w, s))
  /\ \A c \in Clients, w \in Workers : ~(CallFrees(c, s) /\ Releases(w, s))

IsFreed(s) ==
  \/ \E i \in Nat : FreeHas(i, s)
  \/ \E c \in Clients : CallFrees(c, s)
  \/ \E w \in Workers : Releases(w, s)

Freed ==
  ~shutdown =>
    \A s \in Seqs :
      /\ FreedOnce(s)
      /\ IsFreed(s) => s \in all_sequences \ live /\ ~active[s]

IInv == TypeOK /\ InOnePlace /\ Calls /\ Busy /\ Service /\ Freed

\* Places of the new state were there before, or are the place that was left.
PlacesKept == \A s \in Seqs : OnePlace(s)' /\ (Carried(s)' => Carried(s))
FreedKept == \A s \in Seqs : FreedOnce(s)' /\ (IsFreed(s)' => IsFreed(s))

-----------------------------------------------------------------------------
(* Sequences of anything, at both ends.                                    *)

LEMMA AtEnds ==
  ASSUME NEW S, NEW q \in Seq(S)
  PROVE  /\ Len(q) \in Nat
         /\ \A i \in 1..Len(q) : q[i] \in S
         /\ \A e \in S :
              /\ Append(q, e) \in Seq(S) /\ Len(Append(q, e)) = Len(q) + 1
              /\ \A i \in 1..Len(q) : Append(q, e)[i] = q[i]
              /\ Append(q, e)[Len(q) + 1] = e
         /\ q # <<>> =>
              /\ Len(q) > 0 /\ Head(q) = q[1] /\ Head(q) \in S
              /\ Tail(q) \in Seq(S) /\ Len(Tail(q)) = Len(q) - 1
              /\ \A i \in 1..Len(Tail(q)) : Tail(q)[i] = q[i + 1]
OBVIOUS

LEMMA WithoutLast ==
  ASSUME NEW S, NEW q \in Seq(S), q # <<>>
  PROVE  LET p == SubSeq(q, 1, Len(q) - 1)
         IN  /\ q[Len(q)] \in S /\ p \in Seq(S) /\ Len(p) = Len(q) - 1
             /\ \A i \in 1..(Len(q) - 1) : p[i] = q[i]
<1>1. PICK n \in Nat : Len(q) = n + 1
  <2>1. Len(q) \in Nat /\ Len(q) # 0
    OBVIOUS
  <2> QED BY <2>1
<1>2. \A i \in 1..(n + 1) : q[i] \in S
  BY <1>1
<1>3. /\ SubSeq(q, 1, n) \in Seq(S)
      /\ Len(SubSeq(q, 1, n)) = IF 1 <= n THEN n - 1 + 1 ELSE 0
      /\ \A i \in 1..(n - 1 + 1) : SubSeq(q, 1, n)[i] = q[1 + i - 1]
  BY <1>2, SubSeqProperties
<1>4. Len(SubSeq(q, 1, n)) = n
  BY <1>3
<1>5. \A i \in 1..n : SubSeq(q, 1, n)[i] = q[i]
  <2> TAKE i \in 1..n
  <2>1. i \in 1..(n - 1 + 1) /\ 1 + i - 1 = i
    OBVIOUS
  <2> QED BY <1>3, <2>1
<1>6. Len(q) - 1 = n /\ q[Len(q)] \in S
  BY <1>1, <1>2
<1> QED BY <1>3, <1>4, <1>5, <1>6

\* No place is new.
LEMMA NoNewPlace ==
  ASSUME InOnePlace, UNCHANGED <<queued_sequences, tasks>>,
         \A s \in Seqs : \A c \in Clients : CallHas(c, s)' => CallHas(c, s),
         \A s \in Seqs : \A w \in Workers : WorkerHas(w, s)' => WorkerHas(w, s)
  PROVE  PlacesKept
<1> SUFFICES ASSUME NEW s \in Seqs PROVE OnePlace(s)' /\ (Carried(s)' => Carried(s))
  BY DEF PlacesKept
<1>1. /\ \A i : QueueHas(i, s)' <=> QueueHas(i, s)
      /\ \A w, i : TaskHas(w, i, s)' <=> TaskHas(w, i, s)
  BY DEF QueueHas, TaskHas
<1>2. OnePlace(s)
  BY DEF InOnePlace
<1>3. OnePlace(s)'
  BY <1>1, <1>2 DEF OnePlace
<1> QED BY <1>1, <1>3 DEF Carried

LEMMA NoNewFreed ==
  ASSUME \A s \in Seqs : FreedOnce(s), free_sequences' = free_sequences,
         \A s \in Seqs : \A c \in Clients : CallFrees(c, s)' => CallFrees(c, s),
         \A s \in Seqs : \A w \in Workers : Releases(w, s)' => Releases(w, s)
  PROVE  FreedKept
<1> SUFFICES ASSUME NEW s \in Seqs PROVE FreedOnce(s)' /\ (IsFreed(s)' => IsFreed(s))
  BY DEF FreedKept
<1>1. \A i : FreeHas(i, s)' <=> FreeHas(i, s)
  BY DEF FreeHas
<1>2. FreedOnce(s)'
  BY <1>1 DEF FreedOnce
<1> QED BY <1>1, <1>2 DEF IsFreed

\* What is left to say of a step that keeps the places of sequences and puts none
\* in or out of service.
LEMMA KeepsService ==
  ASSUME IInv, PlacesKept, ~shutdown => FreedKept,
         UNCHANGED <<live, all_sequences, shutdown, seq_shutdown, active, work_queue>>,
         \A w \in Workers : pc'[w] = "drain" => pc[w] = "drain" /\ seq'[w] = seq[w]
  PROVE  InOnePlace' /\ Service' /\ Freed'
<1>1. InOnePlace'
  BY DEF PlacesKept, InOnePlace
<1>2. Service'
  BY DEF IInv, Service, PlacesKept
<1>3. Freed'
  BY DEF IInv, Freed, FreedKept
<1> QED BY <1>1, <1>2, <1>3

-----------------------------------------------------------------------------
(* Clients.                                                                *)

LEMMA NewSequenceStep ==
  ASSUME IInv, NEW c \in Clients, NewSequence(c)
  PROVE  IInv'
<1>1. /\ TypeOK /\ InOnePlace /\ Calls /\ Busy /\ Service /\ Freed /\ ~shutdown
      /\ UNCHANGED <<work_queue, has_pool, shutdown, queued_sequences, active_workers,
                     available_workers, tasks, exit, pc, seq, run, call, stage, waiting,
                     status>>
  BY DEF IInv, NewSequence, workerVars, downVars
<1>2. PICK s \in Seqs :
        /\ live' = live \cup {s} /\ s \in all_sequences'
        /\ all_sequences \subseteq all_sequences'
        /\ all_sequences' \subseteq all_sequences \cup {s}
        /\ s \notin live /\ ~active[s]
        /\ active' = active /\ seq_shutdown' = [seq_shutdown EXCEPT ![s] = FALSE]
        /\ free_sequences' \in Seq(Seqs)
        /\ \A i : \A r \in Seqs : FreeHas(i, r)' => FreeHas(i, r)
        /\ ~IsFreed(s)'
  <2>1. CASE free_sequences = <<>>
    <3>1. PICK s \in Seqs \ all_sequences :
            /\ all_sequences' = all_sequences \cup {s} /\ live' = live \cup {s}
            /\ UNCHANGED <<free_sequences, seq_shutdown, active>>
      BY <2>1 DEF NewSequence
    <3>2. ~active[s] /\ ~seq_shutdown[s] /\ s \notin live /\ ~IsFreed(s)
      BY <1>1 DEF Service, Freed, TypeOK
    <3>3. seq_shutdown' = [seq_shutdown EXCEPT ![s] = FALSE]
      BY <1>1, <3>1, <3>2 DEF TypeOK
    <3>4. /\ \A i : \A r \in Seqs : FreeHas(i, r)' <=> FreeHas(i, r)
          /\ IsFreed(s)' <=> IsFreed(s)
      BY <1>1, <3>1 DEF FreeHas, IsFreed, CallFrees, Releases
    <3> QED BY <1>1, <3>1, <3>2, <3>3, <3>4 DEF TypeOK
  <2>2. CASE free_sequences # <<>>
    <3>1. free_sequences \in Seq(Seqs)
      BY <1>1 DEF TypeOK
    <3>2. PICK n \in Nat : n = Len(free_sequences) /\ n > 0
      BY <2>2, <3>1, AtEnds
    <3>3. PICK s \in Seqs : s = free_sequences[n]
      BY <2>2, <3>1, <3>2, WithoutLast
    <3>4. /\ free_sequences' = SubSeq(free_sequences, 1, n - 1)
          /\ seq_shutdown' = [seq_shutdown EXCEPT ![s] = FALSE]
          /\ active' = [active EXCEPT ![s] = FALSE]
          /\ live' = live \cup {s} /\ all_sequences' = all_sequences
      BY <2>2, <3>2, <3>3 DEF NewSequence
    <3>5. /\ free_sequences' \in Seq(Seqs) /\ Len(free_sequences') = n - 1
          /\ \A i \in 1..(n - 1) : free_sequences'[i] = free_sequences[i]
      BY <2>2, <3>1, <3>2, <3>4, WithoutLast
    <3>6. \A i : \A r \in Seqs : FreeHas(i, r)' => FreeHas(i, r) /\ i # n
      BY <3>2, <3>5 DEF FreeHas
    <3>7. FreeHas(n, s) /\ FreedOnce(s) /\ s \in all_sequences \ live /\ ~active[s]
      BY <1>1, <3>2, <3>3 DEF FreeHas, IsFreed, Freed
    <3>8. active' = active
      BY <1>1, <3>4, <3>7 DEF TypeOK
    <3>9. ~IsFreed(s)'
      BY <1>1, <3>2, <3>6, <3>7 DEF IsFreed, FreedOnce, CallFrees, Releases
    <3> QED BY <3>4, <3>5, <3>6, <3>7, <3>8, <3>9
  <2> QED BY <2>1, <2>2
<1>3. TypeOK'
  BY <1>1, <1>2 DEF TypeOK
<1>4. PlacesKept
  BY <1>1, NoNewPlace DEF CallHas, WorkerHas
<1>5. InOnePlace' /\ Calls' /\ Busy'
  BY <1>1, <1>2, <1>4 DEF InOnePlace, PlacesKept, Calls, Busy, WorkerHas
<1>6. Service'
  <2>1. ~Carried(s)
    BY <1>1, <1>2 DEF Service
  <2>2. \A w \in Workers : pc[w] = "drain" => seq[w] # s
    BY <1>1, <1>2 DEF Busy
  <2> QED BY <1>1, <1>2, <1>4, <2>1, <2>2 DEF Service, PlacesKept, TypeOK
<1>7. Freed'
  <2> SUFFICES ASSUME NEW r \in Seqs
               PROVE  /\ FreedOnce(r)'
                      /\ IsFreed(r)' => r \in all_sequences' \ live' /\ ~active'[r]
    BY DEF Freed
  <2>1. FreedOnce(r) /\ (IsFreed(r) => r \in all_sequences \ live /\ ~active[r])
    BY <1>1 DEF Freed
  <2>2. FreedOnce(r)'
    BY <1>1, <1>2, <2>1 DEF FreedOnce, CallFrees, Releases
  <2>3. IsFreed(r)' => IsFreed(r) /\ r # s
    BY <1>1, <1>2 DEF IsFreed, CallFrees, Releases
  <2> QED BY <1>2, <2>1, <2>2, <2>3
<1> QED BY <1>3, <1>5, <1>6, <1>7 DEF IInv

LEMMA FreeSequenceStep ==
  ASSUME IInv, NEW c \in Clients, NEW s \in Seqs, FreeSequence(c, s)
  PROVE  IInv'
<1>1. /\ TypeOK /\ InOnePlace /\ Calls /\ Busy /\ Service /\ Freed
      /\ UNCHANGED <<work_queue, active, has_pool, shutdown, all_sequences,
                     queued_sequences, free_sequences, active_workers,
                     available_workers, tasks, exit, pc, seq, run, stage, waiting,
                     status>>
      /\ call[c] = NoCall /\ s \in live /\ live' = live \ {s} /\ work_queue[s] = <<>>
      /\ seq_shutdown' = [seq_shutdown EXCEPT ![s] = TRUE]
      /\ call' = [call EXCEPT ![c] = IF Recyclable(s) THEN Call("free", s, None) ELSE NoCall]
  BY DEF IInv, FreeSequence, poolVars, workerVars, downVars
<1>2. /\ \A d \in Clients \ {c} : call'[d] = call[d]
      /\ call'[c] = IF Recyclable(s) THEN Call("free", s, None) ELSE NoCall
      /\ call' \in [Clients -> [op : Ops, seq : Seqs \cup {None}, worker : Workers \cup {None}]]
  BY <1>1 DEF TypeOK, Call, NoCall, Ops
<1>3. TypeOK'
  BY <1>1, <1>2 DEF TypeOK
<1>4. PlacesKept
  <2>1. \A r \in Seqs : \A d \in Clients : CallHas(d, r)' => CallHas(d, r)
    BY <1>2 DEF CallHas, Call, NoCall
  <2> QED BY <1>1, <2>1, NoNewPlace DEF WorkerHas
<1>5. InOnePlace' /\ Calls' /\ Busy'
  <2>1. Calls'
    BY <1>1, <1>2 DEF Calls, Call, NoCall
  <2> QED BY <1>1, <1>4, <2>1 DEF InOnePlace, PlacesKept, Busy, WorkerHas
<1>6. Service'
  BY <1>1, <1>4 DEF Service, PlacesKept, TypeOK
<1>7. Freed'
  <2> SUFFICES ASSUME ~shutdown, NEW r \in Seqs
               PROVE  /\ FreedOnce(r)'
                      /\ IsFreed(r)' => r \in all_sequences' \ live' /\ ~active'[r]
    BY <1>1 DEF Freed
  <2>1. FreedOnce(r) /\ (IsFreed(r) => r \in all_sequences \ live /\ ~active[r])
    BY <1>1 DEF Freed
  <2>2. /\ \A i : FreeHas(i, r)' <=> FreeHas(i, r)
        /\ \A w \in Workers : Releases(w, r)' <=> Releases(w, r)
        /\ \A d \in Clients :
             CallFrees(d, r)' => CallFrees(d, r) \/ (r = s /\ d = c /\ ~active[s])
    BY <1>1, <1>2 DEF FreeHas, Releases, CallFrees, Recyclable, Call, NoCall
  <2>3. ~IsFreed(s) /\ s \in all_sequences
    BY <1>1 DEF Freed, TypeOK
  <2>4. FreedOnce(r)'
    BY <2>1, <2>2, <2>3 DEF FreedOnce, IsFreed
  <2>5. IsFreed(r)' => IsFreed(r) \/ (r = s /\ ~active[s])
    BY <2>2 DEF IsFreed
  <2> QED BY <1>1, <2>1, <2>3, <2>4, <2>5
<1> QED BY <1>3, <1>5, <1>6, <1>7 DEF IInv

LEMMA PushFreeStep ==
  ASSUME IInv, NEW c \in Clients, PushFree(c)
  PROVE  IInv'
<1>1. /\ TypeOK /\ InOnePlace /\ Calls /\ Busy /\ Service /\ Freed
      /\ UNCHANGED <<work_queue, active, has_pool, seq_shutdown, shutdown,
                     all_sequences, queued_sequences, active_workers, available_workers,
                     tasks, exit, pc, seq, run, stage, waiting, live, status>>
      /\ call[c].op = "free"
      /\ free_sequences' = Append(free_sequences, call[c].seq)
      /\ call' = [call EXCEPT ![c] = NoCall]
  BY DEF IInv, PushFree, seqVars, workerVars, downVars
<1>2. PICK s \in Seqs : s = call[c].seq
  BY <1>1 DEF Calls
<1>3. /\ \A d \in Clients \ {c} : call'[d] = call[d]
      /\ call'[c] = NoCall
      /\ call' \in [Clients -> [op : Ops, seq : Seqs \cup {None}, worker : Workers \cup {None}]]
  BY <1>1 DEF TypeOK, NoCall, Ops
<1>4. PICK n \in Nat :
        /\ n = Len(free_sequences) /\ Len(free_sequences') = n + 1
        /\ free_sequences' \in Seq(Seqs) /\ free_sequences'[n + 1] = s
        /\ \A i \in 1..n : free_sequences'[i] = free_sequences[i]
  <2>1. free_sequences \in Seq(Seqs)
    BY <1>1 DEF TypeOK
  <2> QED BY <1>1, <1>2, <2>1, AtEnds
<1>5. TypeOK'
  BY <1>1, <1>3, <1>4 DEF TypeOK
<1>6. PlacesKept
  <2>1. \A r \in Seqs : \A d \in Clients : CallHas(d, r)' => CallHas(d, r)
    BY <1>3 DEF CallHas, NoCall
  <2> QED BY <1>1, <2>1, NoNewPlace DEF WorkerHas
<1>7. FreedKept \/ shutdown
  <2> SUFFICES ASSUME ~shutdown, NEW r \in Seqs
               PROVE  FreedOnce(r)' /\ (IsFreed(r)' => IsFreed(r))
    BY DEF FreedKept
  <2>1. FreedOnce(r) /\ CallFrees(c, s)
    BY <1>1, <1>2 DEF Freed, CallFrees
  <2>2. /\ \A i \in Nat : FreeHas(i, r)' => FreeHas(i, r) \/ (r = s /\ i = n + 1)
        /\ \A w \in Workers : Releases(w, r)' <=> Releases(w, r)
        /\ \A d \in Clients : CallFrees(d, r)' <=> CallFrees(d, r) /\ d # c
    BY <1>1, <1>2, <1>3, <1>4 DEF FreeHas, Releases, CallFrees, NoCall
  <2>3. FreedOnce(r)'
    BY <2>1, <2>2 DEF FreedOnce
  <2>4. IsFreed(r)' => IsFreed(r)
    BY <2>1, <2>2 DEF IsFreed
  <2> QED BY <2>3, <2>4
<1>8. Calls' /\ Busy'
  BY <1>1, <1>3 DEF Calls, Busy, WorkerHas, NoCall
<1>9. InOnePlace' /\ Service' /\ Freed'
  BY <1>1, <1>6, <1>7, KeepsService
<1> QED BY <1>5, <1>8, <1>9 DEF IInv

LEMMA AddStep ==
  ASSUME Orderly, IInv, NEW c \in Clients, NEW s \in Seqs, NEW f \in Functions,
         Add(c, s, f)
  PROVE  IInv'
<1>1. /\ TypeOK /\ InOnePlace /\ Calls /\ Busy /\ Service /\ Freed
      /\ UNCHANGED <<active, seq_shutdown, has_pool, shutdown, all_sequences,
                     queued_sequences, free_sequences, active_workers,
                     available_workers, tasks, exit, pc, seq, run, stage, waiting,
                     live>>
      /\ call[c] = NoCall /\ s \in live /\ (~shutdown \/ seq_shutdown[s])
  BY DEF IInv, Add, MayAdd, Orderly, poolVars, workerVars, downVars
<1>2. status' \in [Functions -> Statuses]
  BY <1>1 DEF Add, TypeOK, Statuses
<1>3. CASE seq_shutdown[s]
  <2>1. work_queue' = work_queue /\ call' = call
    BY <1>3 DEF Add
  <2>2. TypeOK'
    BY <1>1, <1>2, <2>1 DEF TypeOK
  <2>3. PlacesKept
    BY <1>1, <2>1, NoNewPlace DEF CallHas, WorkerHas
  <2>4. ~shutdown => FreedKept
    BY <1>1, <2>1, NoNewFreed DEF Freed, CallFrees, Releases
  <2>5. Calls' /\ Busy'
    BY <1>1, <2>1 DEF Calls, Busy, WorkerHas
  <2>6. InOnePlace' /\ Service' /\ Freed'
    BY <1>1, <2>1, <2>3, <2>4, KeepsService
  <2> QED BY <2>2, <2>5, <2>6 DEF IInv
<1>4. CASE ~seq_shutdown[s]
  <2>1. work_queue[s] \in Seq(Functions)
    BY <1>1 DEF TypeOK
  <2>2. PICK q \in Seq(Functions) :
          /\ work_queue' = [work_queue EXCEPT ![s] = q]
          /\ call' = [call EXCEPT ![c] = IF QueuesSequence(s, q) THEN Call("queue", s, None)
                                         ELSE NoCall]
          /\ q # <<>>
          /\ MaxQueueSize # 0 => Len(q) <= MaxQueueSize
          /\ Len(q) = 1 => work_queue[s] = <<>>
    <3>1. PICK kept \in Seq(Functions) :
            /\ kept = IF Overflows(s) THEN Tail(work_queue[s]) ELSE work_queue[s]
            /\ work_queue' = [work_queue EXCEPT ![s] = Append(kept, f)]
            /\ call' = [call EXCEPT ![c] = IF QueuesSequence(s, Append(kept, f))
                                           THEN Call("queue", s, None) ELSE NoCall]
      <4>1. Overflows(s) => work_queue[s] # <<>>
        <5>1. Overflows(s) => Len(work_queue[s]) > 0
          BY <2>1, LimitAssumption DEF Overflows
        <5> QED BY <5>1
      <4>2. (IF Overflows(s) THEN Tail(work_queue[s]) ELSE work_queue[s]) \in Seq(Functions)
        BY <2>1, <4>1, AtEnds
      <4> QED BY <1>4, <4>2 DEF Add
    <3>2. /\ Append(kept, f) \in Seq(Functions) /\ Len(Append(kept, f)) = Len(kept) + 1
          /\ Len(kept) \in Nat /\ Append(kept, f) # <<>>
      <4>1. /\ Append(kept, f) \in Seq(Functions)
            /\ Len(Append(kept, f)) = Len(kept) + 1
            /\ Len(kept) \in Nat
        BY AtEnds
      <4>2. Len(Append(kept, f)) # 0
        BY <4>1
      <4> QED BY <4>1, <4>2
    <3>3. MaxQueueSize # 0 => Len(work_queue[s]) <= MaxQueueSize
      BY <1>1 DEF TypeOK
    <3>4. CASE Overflows(s)
      <4>1. Len(work_queue[s]) = MaxQueueSize /\ MaxQueueSize > 1
        BY <2>1, <3>3, <3>4, LimitAssumption DEF Overflows, Orderly
      <4>2. Len(kept) = Len(work_queue[s]) - 1
        BY <2>1, <3>1, <3>4, <4>1
      <4>3. Len(Append(kept, f)) = MaxQueueSize
        BY <3>2, <4>1, <4>2, LimitAssumption
      <4>4. MaxQueueSize # 0 => Len(Append(kept, f)) <= MaxQueueSize
        BY <4>1, <4>3, LimitAssumption
      <4>5. Len(Append(kept, f)) # 1
        BY <4>1, <4>3, LimitAssumption
      <4> QED BY <3>1, <3>2, <4>4, <4>5
    <3>5. CASE ~Overflows(s)
      <4>1. kept = work_queue[s]
        BY <3>1, <3>5
      <4>2. MaxQueueSize # 0 => Len(kept) < MaxQueueSize
        BY <2>1, <3>5, <4>1, LimitAssumption DEF Overflows
      <4>3. /\ Len(kept) + 1 = 1 => Len(kept) = 0
            /\ MaxQueueSize # 0 => Len(kept) + 1 <= MaxQueueSize
        BY <3>2, <4>2, LimitAssumption
      <4>4. Len(kept) = 0 => kept = <<>>
        OBVIOUS
      <4> QED BY <3>1, <3>2, <4>1, <4>3, <4>4
    <3> QED BY <3>4, <3>5
  <2>3. /\ \A d \in Clients \ {c} : call'[d] = call[d]
        /\ call'[c] = IF QueuesSequence(s, q) THEN Call("queue", s, None) ELSE NoCall
        /\ call' \in [Clients -> [op : Ops, seq : Seqs \cup {None},
                                  worker : Workers \cup {None}]]
        /\ work_queue' \in [Seqs -> Seq(Functions)] /\ work_queue'[s] = q
        /\ \A r \in Seqs \ {s} : work_queue'[r] = work_queue[r]
    BY <1>1, <2>2 DEF TypeOK, Call, NoCall, Ops
  <2>4. TypeOK'
    <3>1. MaxQueueSize # 0 => \A r \in Seqs : Len(work_queue'[r]) <= MaxQueueSize
      BY <1>1, <2>2, <2>3 DEF TypeOK
    <3> QED BY <1>1, <1>2, <2>3, <3>1 DEF TypeOK
  <2>5. QueuesSequence(s, q) => ~Carried(s)
    BY <1>1, <1>4, <2>2 DEF QueuesSequence, Service
  <2>6. \A r \in Seqs : OnePlace(r)' /\ (Carried(r)' => Carried(r) \/ r = s)
    <3> TAKE r \in Seqs
    <3>1. /\ \A d \in Clients :
               CallHas(d, r)' => CallHas(d, r) \/ (d = c /\ r = s /\ ~Carried(s))
          /\ \A i : QueueHas(i, r)' <=> QueueHas(i, r)
          /\ \A w, i : TaskHas(w, i, r)' <=> TaskHas(w, i, r)
          /\ \A w : WorkerHas(w, r)' <=> WorkerHas(w, r)
      BY <1>1, <2>3, <2>5 DEF CallHas, QueueHas, TaskHas, WorkerHas, Call, NoCall
    <3>2. OnePlace(r)
      BY <1>1 DEF InOnePlace
    <3>3. OnePlace(r)'
      BY <3>1, <3>2 DEF OnePlace, Carried
    <3> QED BY <3>1, <3>3 DEF Carried
  <2>7. InOnePlace'
    BY <2>6 DEF InOnePlace
  <2>8. Calls' /\ Busy'
    <3>1. Calls'
      BY <1>1, <2>3 DEF Calls, Call, NoCall
    <3> QED BY <1>1, <3>1 DEF Busy, WorkerHas
  <2>9. Service'
    BY <1>1, <1>4, <2>2, <2>3, <2>6 DEF Service
  <2>10. Freed'
    <3>1. \A r \in Seqs : \A d \in Clients : CallFrees(d, r)' => CallFrees(d, r)
      BY <2>3 DEF CallFrees, Call, NoCall
    <3>2. ~shutdown => FreedKept
      BY <1>1, <3>1, NoNewFreed DEF Freed, Releases
    <3> QED BY <1>1, <3>2 DEF Freed, FreedKept
  <2> QED BY <2>4, <2>7, <2>8, <2>9, <2>10 DEF IInv
<1> QED BY <1>3, <1>4

-----------------------------------------------------------------------------
(* A sequence on its way to a worker.                                      *)

LEMMA QueueSequenceStep ==
  ASSUME Orderly, IInv, NEW c \in Clients, QueueSequence(c)
  PROVE  IInv'
<1>1. /\ TypeOK /\ InOnePlace /\ Calls /\ Busy /\ Service /\ Freed
      /\ UNCHANGED <<work_queue, active, seq_shutdown, has_pool, shutdown,
                     all_sequences, free_sequences, tasks, exit, seq, run, stage,
                     waiting, live, status>>
      /\ call[c].op = "queue"
  BY DEF IInv, QueueSequence, seqVars, downVars
<1>2. PICK s \in Seqs : s = call[c].seq
  BY <1>1 DEF Calls
<1>3. CASE TakeWorker(c, s) /\ UNCHANGED queued_sequences
  <2>1. PICK w \in Workers :
          /\ call' = [call EXCEPT ![c] = Call("start", s, w)]
          /\ pc' = pc \/ (pc[w] = "unborn" /\ pc' = [pc EXCEPT ![w] = "wait"])
          /\ active_workers' = active_workers \cup {w}
          /\ available_workers' \subseteq available_workers
    BY <1>1, <1>3 DEF TakeWorker, TypeOK
  <2>2. /\ \A d \in Clients \ {c} : call'[d] = call[d]
        /\ call'[c] = Call("start", s, w)
        /\ call' \in [Clients -> [op : Ops, seq : Seqs \cup {None},
                                  worker : Workers \cup {None}]]
        /\ pc' \in [Workers -> Pcs]
        /\ \A v \in Workers : pc'[v] = pc[v] \/ (pc[v] = "unborn" /\ pc'[v] = "wait")
    BY <1>1, <2>1 DEF TypeOK, Call, Ops, Pcs
  <2>3. TypeOK'
    BY <1>1, <1>3, <2>1, <2>2 DEF TypeOK
  <2>4. \A v \in Workers : /\ pc'[v] \in Working \cup {"release"} => pc'[v] = pc[v]
                           /\ pc[v] \in Working \cup {"release"} => pc'[v] = pc[v]
    BY <2>2 DEF Working
  <2>5. PlacesKept
    <3>1. \A r \in Seqs : \A d \in Clients : CallHas(d, r)' => CallHas(d, r)
      BY <1>1, <1>2, <2>2 DEF CallHas, Call
    <3>2. \A r \in Seqs : \A v \in Workers : WorkerHas(v, r)' => WorkerHas(v, r)
      BY <1>1, <2>4 DEF WorkerHas
    <3> QED BY <1>1, <1>3, <3>1, <3>2, NoNewPlace
  <2>6. ~shutdown => FreedKept
    <3>1. \A r \in Seqs : \A d \in Clients : CallFrees(d, r)' => CallFrees(d, r)
      BY <2>2 DEF CallFrees, Call
    <3>2. \A r \in Seqs : \A v \in Workers : Releases(v, r)' => Releases(v, r)
      BY <1>1, <2>4 DEF Releases
    <3> QED BY <1>1, <3>1, <3>2, NoNewFreed DEF Freed
  <2>7. Calls'
    BY <1>1, <2>2, <2>4 DEF Calls, Call, Working
  <2>8. Busy'
    BY <1>1, <2>4 DEF Busy, WorkerHas, Working
  <2>9. InOnePlace' /\ Service' /\ Freed'
    BY <1>1, <2>4, <2>5, <2>6, KeepsService DEF Working
  <2> QED BY <2>3, <2>7, <2>8, <2>9 DEF IInv
<1>4. CASE /\ queued_sequences' = Append(queued_sequences, s)
           /\ call' = [call EXCEPT ![c] = NoCall]
           /\ UNCHANGED <<pc, active_workers, available_workers>>
  <2>1. /\ \A d \in Clients \ {c} : call'[d] = call[d]
        /\ call'[c] = NoCall
        /\ call' \in [Clients -> [op : Ops, seq : Seqs \cup {None},
                                  worker : Workers \cup {None}]]
    BY <1>1, <1>4 DEF TypeOK, NoCall, Ops
  <2>2. PICK n \in Nat :
          /\ n = Len(queued_sequences) /\ Len(queued_sequences') = n + 1
          /\ queued_sequences' \in Seq(Seqs) /\ queued_sequences'[n + 1] = s
          /\ \A i \in 1..n : queued_sequences'[i] = queued_sequences[i]
    <3>1. queued_sequences \in Seq(Seqs)
      BY <1>1 DEF TypeOK
    <3> QED BY <1>4, <3>1, AtEnds
  <2>3. TypeOK'
    BY <1>1, <1>4, <2>1, <2>2 DEF TypeOK
  <2>4. PlacesKept
    <3> SUFFICES ASSUME NEW r \in Seqs PROVE OnePlace(r)' /\ (Carried(r)' => Carried(r))
      BY DEF PlacesKept
    <3>1. /\ \A d \in Clients : CallHas(d, r)' => CallHas(d, r) /\ ~(d = c)
          /\ \A i \in Nat : QueueHas(i, r)' => QueueHas(i, r) \/ (r = s /\ i = n + 1)
          /\ \A w, i : TaskHas(w, i, r)' <=> TaskHas(w, i, r)
          /\ \A w : WorkerHas(w, r)' <=> WorkerHas(w, r)
      BY <1>1, <1>4, <2>1, <2>2 DEF CallHas, QueueHas, TaskHas, WorkerHas, NoCall
    <3>2. OnePlace(r) /\ CallHas(c, s)
      BY <1>1, <1>2 DEF InOnePlace, CallHas
    <3>3. OnePlace(r)'
      BY <3>1, <3>2 DEF OnePlace
    <3> QED BY <3>1, <3>2, <3>3 DEF Carried
  <2>5. ~shutdown => FreedKept
    <3>1. \A r \in Seqs : \A d \in Clients : CallFrees(d, r)' => CallFrees(d, r)
      BY <2>1 DEF CallFrees, NoCall
    <3> QED BY <1>1, <1>4, <3>1, NoNewFreed DEF Freed, Releases
  <2>6. Calls' /\ Busy'
    BY <1>1, <1>4, <2>1 DEF Calls, Busy, WorkerHas, NoCall
  <2>7. InOnePlace' /\ Service' /\ Freed'
    BY <1>1, <1>4, <2>4, <2>5, KeepsService
  <2> QED BY <2>3, <2>6, <2>7 DEF IInv
<1> QED BY <1>2, <1>3, <1>4 DEF QueueSequence, Queued, Orderly

LEMMA StartWorkerStep ==
  ASSUME IInv, NEW c \in Clients, StartWorker(c)
  PROVE  IInv'
<1>1. /\ TypeOK /\ InOnePlace /\ Calls /\ Busy /\ Service /\ Freed
      /\ UNCHANGED <<work_queue, active, seq_shutdown, has_pool, shutdown,
                     all_sequences, queued_sequences, free_sequences, active_workers,
                     available_workers, exit, pc, seq, run, stage, waiting, live,
                     status>>
      /\ call[c].op = "start" /\ call' = [call EXCEPT ![c] = NoCall]
  BY DEF IInv, StartWorker, seqVars, poolVars, downVars
<1>2. PICK s \in Seqs, w \in Workers :
        s = call[c].seq /\ w = call[c].worker /\ tasks' = [tasks EXCEPT ![w] = Append(@, s)]
  BY <1>1 DEF Calls, StartWorker
<1>3. /\ \A d \in Clients \ {c} : call'[d] = call[d]
      /\ call'[c] = NoCall
      /\ call' \in [Clients -> [op : Ops, seq : Seqs \cup {None}, worker : Workers \cup {None}]]
  BY <1>1 DEF TypeOK, NoCall, Ops
<1>4. PICK n \in Nat :
        /\ n = Len(tasks[w]) /\ Len(tasks'[w]) = n + 1
        /\ tasks' \in [Workers -> Seq(Seqs)] /\ tasks'[w][n + 1] = s
        /\ \A i \in 1..n : tasks'[w][i] = tasks[w][i]
        /\ \A v \in Workers \ {w} : tasks'[v] = tasks[v]
  <2>1. tasks[w] \in Seq(Seqs) /\ tasks \in [Workers -> Seq(Seqs)]
    BY <1>1 DEF TypeOK
  <2>2. Append(tasks[w], s) \in Seq(Seqs)
    BY <2>1, AtEnds
  <2>3. /\ tasks' \in [Workers -> Seq(Seqs)] /\ tasks'[w] = Append(tasks[w], s)
        /\ \A v \in Workers \ {w} : tasks'[v] = tasks[v]
    BY <1>2, <2>1, <2>2
  <2> QED BY <2>1, <2>3, AtEnds
<1>5. TypeOK'
  BY <1>1, <1>3, <1>4 DEF TypeOK
<1>6. PlacesKept
  <2> SUFFICES ASSUME NEW r \in Seqs PROVE OnePlace(r)' /\ (Carried(r)' => Carried(r))
    BY DEF PlacesKept
  <2>1. /\ \A d \in Clients : CallHas(d, r)' => CallHas(d, r) /\ ~(d = c)
        /\ \A i : QueueHas(i, r)' <=> QueueHas(i, r)
        /\ \A v \in Workers, i \in Nat :
             TaskHas(v, i, r)' => TaskHas(v, i, r) \/ (r = s /\ v = w /\ i = n + 1)
        /\ \A v : WorkerHas(v, r)' <=> WorkerHas(v, r)
    BY <1>1, <1>3, <1>4 DEF CallHas, QueueHas, TaskHas, WorkerHas, NoCall
  <2>2. OnePlace(r) /\ CallHas(c, s)
    BY <1>1, <1>2 DEF InOnePlace, CallHas
  <2>3. OnePlace(r)'
    BY <2>1, <2>2 DEF OnePlace
  <2> QED BY <2>1, <2>2, <2>3 DEF Carried
<1>7. ~shutdown => FreedKept
  <2>1. \A r \in Seqs : \A d \in Clients : CallFrees(d, r)' => CallFrees(d, r)
    BY <1>3 DEF CallFrees, NoCall
  <2> QED BY <1>1, <2>1, NoNewFreed DEF Freed, Releases
<1>8. Calls' /\ Busy'
  BY <1>1, <1>3 DEF Calls, Busy, WorkerHas, NoCall
<1>9. InOnePlace' /\ Service' /\ Freed'
  BY <1>1, <1>6, <1>7, KeepsService
<1> QED BY <1>5, <1>8, <1>9 DEF IInv

-----------------------------------------------------------------------------
(* A worker.                                                               *)

\* What a worker that goes from one place of the code to another leaves alone.
LEMMA WorkerGoes ==
  ASSUME IInv, NEW w \in Workers, NEW to \in Pcs, pc' = [pc EXCEPT ![w] = to]
  PROVE  /\ pc' \in [Workers -> Pcs] /\ pc'[w] = to
         /\ \A v \in Workers \ {w} : pc'[v] = pc[v]
BY DEF IInv, TypeOK

LEMMA GetNextTaskStep ==
  ASSUME IInv, NEW w \in Workers, GetNextTask(w)
  PROVE  IInv'
<1>1. /\ TypeOK /\ InOnePlace /\ Calls /\ Busy /\ Service /\ Freed
      /\ UNCHANGED <<work_queue, active, seq_shutdown, has_pool, shutdown,
                     all_sequences, queued_sequences, free_sequences, active_workers,
                     available_workers, exit, run, call, stage, waiting, live, status>>
      /\ pc[w] = "wait"
  BY DEF IInv, GetNextTask, seqVars, poolVars, downVars
<1>2. CASE pc' = [pc EXCEPT ![w] = "gone"] /\ UNCHANGED <<tasks, seq>>
  <2>1. /\ pc' \in [Workers -> Pcs] /\ pc'[w] = "gone"
        /\ \A v \in Workers \ {w} : pc'[v] = pc[v]
    BY <1>2, WorkerGoes DEF Pcs
  <2>2. TypeOK'
    BY <1>1, <1>2, <2>1 DEF TypeOK
  <2>3. PlacesKept
    <3>1. \A r \in Seqs : \A v \in Workers : WorkerHas(v, r)' => WorkerHas(v, r)
      BY <1>2, <2>1 DEF WorkerHas, Working
    <3> QED BY <1>1, <1>2, <3>1, NoNewPlace DEF CallHas
  <2>4. ~shutdown => FreedKept
    <3>1. \A r \in Seqs : \A v \in Workers : Releases(v, r)' => Releases(v, r)
      BY <1>2, <2>1 DEF Releases
    <3> QED BY <1>1, <3>1, NoNewFreed DEF Freed, CallFrees
  <2>5. Calls' /\ Busy'
    BY <1>1, <1>2, <2>1 DEF Calls, Busy, WorkerHas, Working
  <2>6. InOnePlace' /\ Service' /\ Freed'
    BY <1>1, <1>2, <2>1, <2>3, <2>4, KeepsService
  <2> QED BY <2>2, <2>5, <2>6 DEF IInv
<1>3. CASE /\ tasks[w] # <<>> /\ pc' = [pc EXCEPT ![w] = "next"]
           /\ seq' = [seq EXCEPT ![w] = Head(tasks[w])]
           /\ tasks' = [tasks EXCEPT ![w] = Tail(@)]
  <2>1. /\ pc' \in [Workers -> Pcs] /\ pc'[w] = "next"
        /\ \A v \in Workers \ {w} : pc'[v] = pc[v]
    BY <1>3, WorkerGoes DEF Pcs
  <2>2. tasks[w] \in Seq(Seqs)
    BY <1>1 DEF TypeOK
  <2>3. PICK s \in Seqs : s = Head(tasks[w]) /\ s = tasks[w][1]
    BY <1>3, <2>2, AtEnds
  <2>4. PICK n \in Nat :
          /\ Len(tasks[w]) = n + 1 /\ Len(tasks'[w]) = n
          /\ tasks' \in [Workers -> Seq(Seqs)]
          /\ \A i \in 1..n : tasks'[w][i] = tasks[w][i + 1]
          /\ \A v \in Workers \ {w} : tasks'[v] = tasks[v]
    <3>1. /\ Len(tasks[w]) \in Nat /\ Len(tasks[w]) > 0
          /\ Tail(tasks[w]) \in Seq(Seqs) /\ Len(Tail(tasks[w])) = Len(tasks[w]) - 1
          /\ \A i \in 1..Len(Tail(tasks[w])) : Tail(tasks[w])[i] = tasks[w][i + 1]
      BY <1>3, <2>2, AtEnds
    <3>2. /\ tasks' \in [Workers -> Seq(Seqs)] /\ tasks'[w] = Tail(tasks[w])
          /\ \A v \in Workers \ {w} : tasks'[v] = tasks[v]
      BY <1>1, <1>3, <3>1 DEF TypeOK
    <3>3. PICK n \in Nat : Len(tasks[w]) = n + 1
      <4>1. \A m \in Nat : m > 0 => \E n \in Nat : m = n + 1
        <5> SUFFICES ASSUME NEW m \in Nat, m > 0 PROVE \E n \in Nat : m = n + 1
          OBVIOUS
        <5>1. m - 1 \in Nat /\ m = (m - 1) + 1
          OBVIOUS
        <5> QED BY <5>1
      <4> QED BY <3>1, <4>1
    <3>4. Len(Tail(tasks[w])) = n
      BY <3>1, <3>3
    <3> QED BY <3>1, <3>2, <3>3, <3>4
  <2>5. /\ seq' \in [Workers -> Seqs \cup {None}] /\ seq'[w] = s
        /\ \A v \in Workers \ {w} : seq'[v] = seq[v]
    BY <1>1, <1>3, <2>3 DEF TypeOK
  <2>6. TypeOK'
    BY <1>1, <2>1, <2>4, <2>5 DEF TypeOK
  <2>7. PlacesKept
    <3> SUFFICES ASSUME NEW r \in Seqs PROVE OnePlace(r)' /\ (Carried(r)' => Carried(r))
      BY DEF PlacesKept
    <3>1. /\ \A d : CallHas(d, r)' <=> CallHas(d, r)
          /\ \A i : QueueHas(i, r)' <=> QueueHas(i, r)
          /\ \A v \in Workers : WorkerHas(v, r)' => WorkerHas(v, r) \/ (r = s /\ v = w)
      BY <1>1, <2>1, <2>5 DEF CallHas, QueueHas, WorkerHas
    <3>2. \A v \in Workers, i \in Nat :
            TaskHas(v, i, r)' => IF v = w THEN TaskHas(v, i + 1, r) /\ i + 1 \in Nat
                                               /\ i + 1 # 1
                                 ELSE TaskHas(v, i, r)
      BY <2>4 DEF TaskHas
    <3>3. OnePlace(r) /\ OnePlace(s) /\ TaskHas(w, 1, s) /\ 1 \in Nat
      BY <1>1, <2>3, <2>4 DEF InOnePlace, TaskHas
    <3>4. \A v, u \in Workers, i, j \in Nat :
            TaskHas(v, i, r)' /\ TaskHas(u, j, r)' => v = u /\ i = j
      <4> SUFFICES ASSUME NEW v \in Workers, NEW u \in Workers, NEW i \in Nat, NEW j \in Nat,
                          TaskHas(v, i, r)', TaskHas(u, j, r)'
                   PROVE  v = u /\ i = j
        OBVIOUS
      <4>1. PICK k, l \in Nat : /\ k = (IF v = w THEN i + 1 ELSE i) /\ TaskHas(v, k, r)
                                /\ l = (IF u = w THEN j + 1 ELSE j) /\ TaskHas(u, l, r)
        BY <3>2
      <4>2. v = u /\ k = l
        BY <3>3, <4>1 DEF OnePlace
      <4> QED BY <4>1, <4>2
    <3>5. \A v \in Workers, i \in Nat : TaskHas(v, i, r)' => r # s
      BY <3>2, <3>3 DEF OnePlace
    <3>6. \A v \in Workers, i \in Nat :
            TaskHas(v, i, r)' => \E j \in Nat : TaskHas(v, j, r)
      BY <3>2
    <3>7. OnePlace(r)'
      BY <3>1, <3>3, <3>4, <3>5, <3>6 DEF OnePlace
    <3> QED BY <3>1, <3>3, <3>6, <3>7 DEF Carried
  <2>8. ~shutdown => FreedKept
    <3>1. \A r \in Seqs : \A v \in Workers : Releases(v, r)' => Releases(v, r)
      BY <2>1, <2>5 DEF Releases
    <3> QED BY <1>1, <3>1, NoNewFreed DEF Freed, CallFrees
  <2>9. Calls' /\ Busy'
    <3>1. \A r \in Seqs : \A v \in Workers : WorkerHas(v, r) => WorkerHas(v, r)'
      BY <1>1, <2>1, <2>5 DEF WorkerHas, Working
    <3> QED BY <1>1, <2>1, <2>5, <3>1 DEF Calls, Busy, Working
  <2>10. InOnePlace' /\ Service' /\ Freed'
    BY <1>1, <2>1, <2>5, <2>7, <2>8, KeepsService
  <2> QED BY <2>6, <2>9, <2>10 DEF IInv
<1> QED BY <1>2, <1>3 DEF GetNextTask

LEMMA NextFunctionStep ==
  ASSUME IInv, NEW w \in Workers, NextFunction(w)
  PROVE  IInv'
<1>1. /\ TypeOK /\ InOnePlace /\ Calls /\ Busy /\ Service /\ Freed
      /\ UNCHANGED <<seq_shutdown, has_pool, shutdown, all_sequences, queued_sequences,
                     free_sequences, active_workers, available_workers, tasks, exit,
                     seq, call, stage, waiting, live>>
      /\ pc[w] = "next" /\ pc' = [pc EXCEPT ![w] = "run"]
  BY DEF IInv, NextFunction, poolVars, downVars
<1>2. PICK s \in Seqs : s = seq[w]
  BY <1>1 DEF Calls, Working
<1>3. /\ pc' \in [Workers -> Pcs] /\ pc'[w] = "run"
      /\ \A v \in Workers \ {w} : pc'[v] = pc[v]
  BY <1>1, WorkerGoes DEF Pcs
<1>4. /\ active' = [active EXCEPT ![s] = TRUE]
      /\ work_queue' = [work_queue EXCEPT ![s] = Tail(@)]
      /\ work_queue[s] \in Seq(Functions) /\ work_queue[s] # <<>>
      /\ run' = [run EXCEPT ![w] = Head(work_queue[s])]
      /\ status' = [status EXCEPT ![Head(work_queue[s])] = "running"]
      /\ ~seq_shutdown[s]
  BY <1>1, <1>2 DEF NextFunction, TypeOK
<1>5. /\ Tail(work_queue[s]) \in Seq(Functions) /\ Head(work_queue[s]) \in Functions
      /\ Len(work_queue[s]) \in Nat /\ Len(Tail(work_queue[s])) = Len(work_queue[s]) - 1
  BY <1>4, AtEnds
<1>6. /\ active' \in [Seqs -> BOOLEAN] /\ active'[s]
      /\ \A r \in Seqs \ {s} : active'[r] = active[r] /\ work_queue'[r] = work_queue[r]
      /\ work_queue' \in [Seqs -> Seq(Functions)]
      /\ work_queue'[s] = Tail(work_queue[s])
      /\ run' \in [Workers -> Functions \cup {None}] /\ run'[w] \in Functions
      /\ \A v \in Workers \ {w} : run'[v] = run[v]
      /\ status' \in [Functions -> Statuses]
  BY <1>1, <1>4, <1>5 DEF TypeOK, Statuses
<1>7. TypeOK'
  <2>1. MaxQueueSize # 0 => \A r \in Seqs : Len(work_queue'[r]) <= MaxQueueSize
    <3>1. MaxQueueSize # 0 => Len(work_queue[s]) <= MaxQueueSize
      BY <1>1 DEF TypeOK
    <3>2. MaxQueueSize # 0 => Len(work_queue'[s]) <= MaxQueueSize
      BY <1>5, <1>6, <3>1, LimitAssumption
    <3> QED BY <1>1, <1>6, <3>2 DEF TypeOK
  <2> QED BY <1>1, <1>3, <1>6, <2>1 DEF TypeOK
<1>8. \A r \in Seqs : \A v \in Workers : WorkerHas(v, r)' <=> WorkerHas(v, r)
  BY <1>1, <1>3 DEF WorkerHas, Working
<1>9. PlacesKept
  BY <1>1, <1>8, NoNewPlace DEF CallHas
<1>10. InOnePlace'
  BY <1>9 DEF InOnePlace, PlacesKept
<1>11. Calls' /\ Busy'
  <2>1. Calls'
    BY <1>1, <1>2, <1>3, <1>6 DEF Calls, Working
  <2>2. WorkerHas(w, s)'
    BY <1>1, <1>2, <1>3 DEF WorkerHas, Working
  <2>3. \A r \in Seqs : active'[r] => \E v \in Workers : WorkerHas(v, r)'
    BY <1>1, <1>6, <1>8, <2>2 DEF Busy
  <2>4. \A v \in Workers : pc'[v] \in {"run", "drain"} => active'[seq'[v]]
    <3> SUFFICES ASSUME NEW v \in Workers, pc'[v] \in {"run", "drain"}
                 PROVE  active'[seq[v]]
      BY <1>1
    <3>1. seq[v] \in Seqs /\ (v # w => active[seq[v]])
      BY <1>1, <1>2, <1>3 DEF Calls, Busy, Working
    <3> QED BY <1>2, <1>6, <3>1
  <2> QED BY <2>1, <2>3, <2>4 DEF Busy
<1>12. ~shutdown => s \in all_sequences /\ ~IsFreed(s)
  <2>1. Carried(s)
    BY <1>1, <1>2 DEF Carried, WorkerHas, Working
  <2> QED BY <1>1, <2>1 DEF Service, Freed, TypeOK
<1>13. Service'
  BY <1>1, <1>3, <1>6, <1>9, <1>12 DEF Service, PlacesKept
<1>14. Freed'
  <2>1. \A r \in Seqs : \A v \in Workers : Releases(v, r)' => Releases(v, r)
    BY <1>1, <1>3 DEF Releases
  <2>2. ~shutdown => FreedKept
    BY <1>1, <2>1, NoNewFreed DEF Freed, CallFrees
  <2> QED BY <1>1, <1>6, <1>12, <2>2 DEF Freed, FreedKept
<1> QED BY <1>7, <1>10, <1>11, <1>13, <1>14 DEF IInv

LEMMA FunctionDoneStep ==
  ASSUME IInv, NEW w \in Workers, FunctionDone(w)
  PROVE  IInv'
<1>1. /\ TypeOK /\ InOnePlace /\ Calls /\ Busy /\ Service /\ Freed
      /\ UNCHANGED <<work_queue, active, seq_shutdown, has_pool, shutdown,
                     all_sequences, queued_sequences, free_sequences, active_workers,
                     available_workers, tasks, exit, seq, call, stage, waiting, live>>
      /\ pc[w] = "run" /\ pc' = [pc EXCEPT ![w] = "next"]
      /\ run' = [run EXCEPT ![w] = None]
      /\ status' = [status EXCEPT ![run[w]] = "done"]
  BY DEF IInv, FunctionDone, seqVars, poolVars, downVars
<1>2. /\ pc' \in [Workers -> Pcs] /\ pc'[w] = "next"
      /\ \A v \in Workers \ {w} : pc'[v] = pc[v] /\ run'[v] = run[v]
      /\ run' \in [Workers -> Functions \cup {None}]
      /\ status' \in [Functions -> Statuses]
  BY <1>1, WorkerGoes DEF Pcs, TypeOK, Statuses
<1>3. TypeOK'
  BY <1>1, <1>2 DEF TypeOK
<1>4. \A r \in Seqs : \A v \in Workers : WorkerHas(v, r)' <=> WorkerHas(v, r)
  BY <1>1, <1>2 DEF WorkerHas, Working
<1>5. PlacesKept
  BY <1>1, <1>4, NoNewPlace DEF CallHas
<1>6. ~shutdown => FreedKept
  <2>1. \A r \in Seqs : \A v \in Workers : Releases(v, r)' => Releases(v, r)
    BY <1>1, <1>2 DEF Releases
  <2> QED BY <1>1, <2>1, NoNewFreed DEF Freed, CallFrees
<1>7. Calls' /\ Busy'
  BY <1>1, <1>2, <1>4 DEF Calls, Busy, Working
<1>8. InOnePlace' /\ Service' /\ Freed'
  BY <1>1, <1>2, <1>5, <1>6, KeepsService
<1> QED BY <1>3, <1>7, <1>8 DEF IInv

\* A worker leaves its sequence, which is active no longer.
LEMMA WorkerLeaves ==
  ASSUME IInv, NEW w \in Workers, NEW s \in Seqs, s = seq[w], pc[w] \in Working,
         NEW to \in {"assign", "release"}, pc' = [pc EXCEPT ![w] = to],
         active' = [active EXCEPT ![s] = FALSE],
         to = "release" => shutdown \/ (s \in all_sequences \ live /\ ~IsFreed(s)),
         UNCHANGED <<work_queue, seq_shutdown, has_pool, shutdown, all_sequences,
                     queued_sequences, free_sequences, active_workers,
                     available_workers, tasks, exit, seq, run, call, stage, waiting,
                     live, status>>
  PROVE  IInv'
<1>1. TypeOK /\ InOnePlace /\ Calls /\ Busy /\ Service /\ Freed
  BY DEF IInv
<1>2. /\ pc' \in [Workers -> Pcs] /\ pc'[w] = to
      /\ \A v \in Workers \ {w} : pc'[v] = pc[v]
      /\ active' \in [Seqs -> BOOLEAN] /\ ~active'[s]
      /\ \A r \in Seqs \ {s} : active'[r] = active[r]
  <2>1. to \in Pcs
    BY DEF Pcs
  <2>2. /\ pc' \in [Workers -> Pcs] /\ pc'[w] = to
        /\ \A v \in Workers \ {w} : pc'[v] = pc[v]
    BY <2>1, WorkerGoes
  <2> QED BY <1>1, <2>2 DEF TypeOK
<1>3. TypeOK'
  BY <1>1, <1>2 DEF TypeOK
<1>4. \A r \in Seqs : \A v \in Workers : WorkerHas(v, r)' <=> WorkerHas(v, r) /\ v # w
  BY <1>2 DEF WorkerHas, Working
<1>5. PlacesKept
  BY <1>1, <1>4, NoNewPlace DEF CallHas
<1>6. InOnePlace'
  BY <1>5 DEF InOnePlace, PlacesKept
<1>7. Calls'
  BY <1>1, <1>2 DEF Calls, Working
<1>8. OnePlace(s) /\ WorkerHas(w, s)
  BY <1>1 DEF InOnePlace, WorkerHas
<1>9. ~Carried(s)'
  <2>1. /\ \A c \in Clients : ~CallHas(c, s)'
        /\ \A i \in Nat : ~QueueHas(i, s)'
        /\ \A v \in Workers, i \in Nat : ~TaskHas(v, i, s)'
    BY <1>8 DEF OnePlace, CallHas, QueueHas, TaskHas
  <2>2. \A v \in Workers : ~WorkerHas(v, s)'
    <3>1. \A v \in Workers : WorkerHas(v, s) => v = w
      BY <1>8 DEF OnePlace
    <3> QED BY <1>2, <3>1 DEF WorkerHas, Working
  <2> QED BY <2>1, <2>2 DEF Carried
<1>10. Busy'
  <2>1. \A r \in Seqs : active'[r] => \E v \in Workers : WorkerHas(v, r)'
    <3> SUFFICES ASSUME NEW r \in Seqs, active'[r]
                 PROVE  \E v \in Workers : WorkerHas(v, r)'
      OBVIOUS
    <3>1. r # s /\ active[r]
      BY <1>2
    <3>2. PICK v \in Workers : WorkerHas(v, r)
      BY <1>1, <3>1 DEF Busy
    <3>3. v # w
      BY <3>1, <3>2 DEF WorkerHas
    <3> QED BY <1>4, <3>2, <3>3
  <2>2. \A v \in Workers : pc'[v] \in {"run", "drain"} => active'[seq'[v]]
    <3> SUFFICES ASSUME NEW v \in Workers, pc'[v] \in {"run", "drain"}
                 PROVE  active'[seq[v]]
      OBVIOUS
    <3>1. v # w /\ seq[v] \in Seqs /\ active[seq[v]] /\ WorkerHas(v, seq[v])
      BY <1>1, <1>2 DEF Calls, Busy, Working, WorkerHas
    <3>2. seq[v] # s
      BY <1>8, <3>1 DEF OnePlace
    <3> QED BY <1>2, <3>1, <3>2
  <2> QED BY <2>1, <2>2 DEF Busy
<1>11. Service'
  BY <1>1, <1>2, <1>5, <1>9 DEF Service, PlacesKept
<1>12. Freed'
  <2> SUFFICES ASSUME ~shutdown, NEW r \in Seqs
               PROVE  FreedOnce(r)' /\ (IsFreed(r)' => r \in all_sequences \ live /\ ~active'[r])
    BY DEF Freed
  <2>1. FreedOnce(r) /\ (IsFreed(r) => r \in all_sequences \ live /\ ~active[r])
    BY <1>1 DEF Freed
  <2>2. /\ \A i : FreeHas(i, r)' <=> FreeHas(i, r)
        /\ \A c : CallFrees(c, r)' <=> CallFrees(c, r)
        /\ \A v \in Workers : Releases(v, r)' =>
             Releases(v, r) \/ (r = s /\ v = w /\ to = "release")
    BY <1>2 DEF FreeHas, CallFrees, Releases
  <2>3. FreedOnce(r)'
    BY <2>1, <2>2 DEF FreedOnce, IsFreed
  <2>4. IsFreed(r)' => IsFreed(r) \/ (r = s /\ to = "release")
    BY <2>2 DEF IsFreed
  <2> QED BY <1>2, <2>1, <2>3, <2>4
<1> QED BY <1>3, <1>6, <1>7, <1>10, <1>11, <1>12 DEF IInv

LEMMA NoFunctionStep ==
  ASSUME IInv, NEW w \in Workers, NoFunction(w)
  PROVE  IInv'
<1>1. TypeOK /\ pc[w] = "next" /\ seq[w] \in Seqs
  BY DEF IInv, NoFunction, Calls, Working
<1>2. active' = [active EXCEPT ![seq[w]] = FALSE]
  BY <1>1 DEF NoFunction, GoesInactive, TypeOK
<1> QED BY <1>1, <1>2, WorkerLeaves DEF NoFunction, Working, poolVars, downVars

LEMMA DrainSequenceStep ==
  ASSUME IInv, NEW w \in Workers, DrainSequence(w)
  PROVE  IInv'
<1>1. /\ TypeOK /\ InOnePlace /\ Calls /\ Busy /\ Service /\ Freed
      /\ UNCHANGED <<seq_shutdown, has_pool, shutdown, all_sequences, queued_sequences,
                     free_sequences, active_workers, available_workers, tasks, exit,
                     seq, run, call, stage, waiting, live>>
  BY DEF IInv, DrainSequence, poolVars, downVars
<1>2. PICK s \in Seqs : s = seq[w]
  BY <1>1 DEF DrainSequence, Calls, Working
<1>3. /\ pc[w] \in {"drain", "next"} /\ active[s]
      /\ ~shutdown => s \in all_sequences \ live /\ ~IsFreed(s)
  <2>1. active[s] /\ (pc[w] = "drain" \/ (pc[w] = "next" /\ seq_shutdown[s]))
    BY <1>1, <1>2 DEF DrainSequence, Busy
  <2>2. ~shutdown => s \in all_sequences /\ ~IsFreed(s)
    BY <1>1, <2>1 DEF Service, Freed
  <2>3. ~shutdown => s \notin live
    BY <1>1, <1>2, <2>1 DEF Service
  <2> QED BY <2>1, <2>2, <2>3
<1>4. CASE CancelOne(s) /\ pc' = [pc EXCEPT ![w] = "drain"] /\ active' = active
  <2>1. /\ pc' \in [Workers -> Pcs] /\ pc'[w] = "drain"
        /\ \A v \in Workers \ {w} : pc'[v] = pc[v]
    BY <1>4, WorkerGoes DEF Pcs
  <2>2. TypeOK' /\ (\A r \in Seqs \ {s} : work_queue'[r] = work_queue[r])
    <3>1. /\ work_queue[s] \in Seq(Functions) /\ work_queue[s] # <<>>
          /\ MaxQueueSize # 0 => Len(work_queue[s]) <= MaxQueueSize
          /\ work_queue' = [work_queue EXCEPT ![s] = Tail(@)]
          /\ status' = [status EXCEPT ![Head(work_queue[s])] = "cancelled"]
      BY <1>1, <1>4 DEF CancelOne, TypeOK
    <3>2. /\ Tail(work_queue[s]) \in Seq(Functions) /\ Head(work_queue[s]) \in Functions
          /\ Len(work_queue[s]) \in Nat
          /\ Len(Tail(work_queue[s])) = Len(work_queue[s]) - 1
      BY <3>1, AtEnds
    <3>3. MaxQueueSize # 0 => Len(Tail(work_queue[s])) <= MaxQueueSize
      BY <3>1, <3>2, LimitAssumption
    <3>4. /\ work_queue' \in [Seqs -> Seq(Functions)]
          /\ work_queue'[s] = Tail(work_queue[s])
          /\ \A r \in Seqs \ {s} : work_queue'[r] = work_queue[r]
          /\ status' \in [Functions -> Statuses]
      BY <1>1, <3>1, <3>2 DEF TypeOK, Statuses
    <3>5. MaxQueueSize # 0 => \A r \in Seqs : Len(work_queue'[r]) <= MaxQueueSize
      BY <1>1, <3>3, <3>4 DEF TypeOK
    <3> QED BY <1>1, <1>4, <2>1, <3>4, <3>5 DEF TypeOK
  <2>3. \A r \in Seqs : \A v \in Workers : WorkerHas(v, r)' <=> WorkerHas(v, r)
    BY <1>1, <1>3, <2>1 DEF WorkerHas, Working
  <2>4. PlacesKept
    BY <1>1, <2>3, NoNewPlace DEF CallHas
  <2>5. ~shutdown => FreedKept
    <3>1. \A r \in Seqs : \A v \in Workers : Releases(v, r)' => Releases(v, r)
      BY <1>1, <2>1 DEF Releases
    <3> QED BY <1>1, <3>1, NoNewFreed DEF Freed, CallFrees
  <2>6. Calls' /\ Busy'
    BY <1>1, <1>2, <1>3, <1>4, <2>1, <2>3 DEF Calls, Busy, Working
  <2>7. InOnePlace' /\ Service' /\ Freed'
    <3>1. InOnePlace'
      BY <2>4 DEF InOnePlace, PlacesKept
    <3>2. Service'
      BY <1>1, <1>2, <1>3, <1>4, <2>1, <2>2, <2>4 DEF Service, PlacesKept
    <3>3. Freed'
      BY <1>1, <1>4, <2>5 DEF Freed, FreedKept
    <3> QED BY <3>1, <3>2, <3>3
  <2> QED BY <2>2, <2>6, <2>7 DEF IInv
<1>5. CASE /\ work_queue[s] = <<>> /\ active' = GoesInactive(s)
           /\ pc' = [pc EXCEPT ![w] = IF has_pool[s] THEN "release" ELSE "assign"]
           /\ UNCHANGED <<work_queue, status>>
  <2>1. PICK to \in {"assign", "release"} : pc' = [pc EXCEPT ![w] = to]
    BY <1>5
  <2>2. active' = [active EXCEPT ![s] = FALSE] /\ pc[w] \in Working
    BY <1>3, <1>5 DEF GoesInactive, Working
  <2>3. shutdown \/ (s \in all_sequences \ live /\ ~IsFreed(s))
    BY <1>3
  <2>4. UNCHANGED <<work_queue, seq_shutdown, has_pool, shutdown, all_sequences,
                    queued_sequences, free_sequences, active_workers, available_workers,
                    tasks, exit, seq, run, call, stage, waiting, live, status>>
    BY <1>1, <1>5
  <2> QED BY <1>2, <2>1, <2>2, <2>3, <2>4, WorkerLeaves
<1> QED BY <1>2, <1>4, <1>5 DEF DrainSequence

LEMMA SequenceNoLongerActiveStep ==
  ASSUME IInv, NEW w \in Workers, SequenceNoLongerActive(w)
  PROVE  IInv'
<1>1. /\ TypeOK /\ InOnePlace /\ Calls /\ Busy /\ Service /\ Freed
      /\ UNCHANGED <<work_queue, active, has_pool, seq_shutdown, shutdown,
                     all_sequences, queued_sequences, active_workers, available_workers,
                     tasks, exit, call, seq, run, stage, waiting, live, status>>
      /\ pc[w] = "release" /\ pc' = [pc EXCEPT ![w] = "assign"]
      /\ free_sequences' = IF shutdown THEN free_sequences
                           ELSE Append(free_sequences, seq[w])
  BY DEF IInv, SequenceNoLongerActive, seqVars, downVars
<1>2. PICK s \in Seqs : s = seq[w]
  BY <1>1 DEF Calls
<1>3. /\ pc' \in [Workers -> Pcs] /\ pc'[w] = "assign"
      /\ \A v \in Workers \ {w} : pc'[v] = pc[v]
  BY <1>1, WorkerGoes DEF Pcs
<1>4. /\ free_sequences' \in Seq(Seqs)
      /\ ~shutdown => \E n \in Nat :
           /\ n = Len(free_sequences) /\ Len(free_sequences') = n + 1
           /\ free_sequences'[n + 1] = s
           /\ \A i \in 1..n : free_sequences'[i] = free_sequences[i]
  <2>1. free_sequences \in Seq(Seqs)
    BY <1>1 DEF TypeOK
  <2> QED BY <1>1, <1>2, <2>1, AtEnds
<1>5. TypeOK'
  BY <1>1, <1>3, <1>4 DEF TypeOK
<1>6. PlacesKept
  <2>1. \A r \in Seqs : \A v \in Workers : WorkerHas(v, r)' => WorkerHas(v, r)
    BY <1>1, <1>3 DEF WorkerHas, Working
  <2> QED BY <1>1, <2>1, NoNewPlace DEF CallHas
<1>7. ~shutdown => FreedKept
  <2> SUFFICES ASSUME ~shutdown, NEW r \in Seqs
               PROVE  FreedOnce(r)' /\ (IsFreed(r)' => IsFreed(r))
    BY DEF FreedKept
  <2>1. FreedOnce(r) /\ Releases(w, s)
    BY <1>1, <1>2 DEF Freed, Releases
  <2>2. PICK n \in Nat :
          /\ n = Len(free_sequences) /\ Len(free_sequences') = n + 1
          /\ free_sequences'[n + 1] = s
          /\ \A i \in 1..n : free_sequences'[i] = free_sequences[i]
    BY <1>4
  <2>3. /\ \A i \in Nat : FreeHas(i, r)' => FreeHas(i, r) \/ (r = s /\ i = n + 1)
        /\ \A c \in Clients : CallFrees(c, r)' <=> CallFrees(c, r)
        /\ \A v \in Workers : Releases(v, r)' <=> Releases(v, r) /\ v # w
    BY <1>1, <1>2, <1>3, <2>2 DEF FreeHas, Releases, CallFrees
  <2>4. FreedOnce(r)'
    BY <2>1, <2>3 DEF FreedOnce
  <2>5. IsFreed(r)' => IsFreed(r)
    BY <2>1, <2>3 DEF IsFreed
  <2> QED BY <2>4, <2>5
<1>8. Calls' /\ Busy'
  BY <1>1, <1>3 DEF Calls, Busy, WorkerHas, Working
<1>9. InOnePlace' /\ Service' /\ Freed'
  BY <1>1, <1>3, <1>6, <1>7, KeepsService
<1> QED BY <1>5, <1>8, <1>9 DEF IInv

LEMMA AssignWorkerStep ==
  ASSUME IInv, NEW w \in Workers, AssignWorkerToNextSequence(w)
  PROVE  IInv'
<1>1. /\ TypeOK /\ InOnePlace /\ Calls /\ Busy /\ Service /\ Freed
      /\ UNCHANGED <<work_queue, active, has_pool, seq_shutdown, shutdown,
                     all_sequences, free_sequences, tasks, exit, run, call, stage,
                     waiting, live, status>>
      /\ pc[w] = "assign"
  BY DEF IInv, AssignWorkerToNextSequence, seqVars, downVars
<1>2. CASE /\ seq' = [seq EXCEPT ![w] = None] /\ pc' = [pc EXCEPT ![w] = "wait"]
           /\ active_workers' \subseteq active_workers
           /\ available_workers' \subseteq available_workers \cup {w}
           /\ UNCHANGED queued_sequences
  <2>1. /\ pc' \in [Workers -> Pcs] /\ pc'[w] = "wait"
        /\ \A v \in Workers \ {w} : pc'[v] = pc[v] /\ seq'[v] = seq[v]
        /\ seq' \in [Workers -> Seqs \cup {None}]
    BY <1>1, <1>2, WorkerGoes DEF Pcs, TypeOK
  <2>2. TypeOK'
    BY <1>1, <1>2, <2>1 DEF TypeOK
  <2>3. PlacesKept
    <3>1. \A r \in Seqs : \A v \in Workers : WorkerHas(v, r)' => WorkerHas(v, r)
      BY <2>1 DEF WorkerHas, Working
    <3> QED BY <1>1, <1>2, <3>1, NoNewPlace DEF CallHas
  <2>4. ~shutdown => FreedKept
    <3>1. \A r \in Seqs : \A v \in Workers : Releases(v, r)' => Releases(v, r)
      BY <2>1 DEF Releases
    <3> QED BY <1>1, <3>1, NoNewFreed DEF Freed, CallFrees
  <2>5. Calls' /\ Busy'
    <3>1. \A r \in Seqs : \A v \in Workers : WorkerHas(v, r) => WorkerHas(v, r)'
      BY <1>1, <2>1 DEF WorkerHas, Working
    <3> QED BY <1>1, <2>1, <3>1 DEF Calls, Busy, Working
  <2>6. InOnePlace' /\ Service' /\ Freed'
    BY <1>1, <2>1, <2>3, <2>4, KeepsService
  <2> QED BY <2>2, <2>5, <2>6 DEF IInv
<1>3. CASE /\ queued_sequences # <<>>
           /\ seq' = [seq EXCEPT ![w] = Head(queued_sequences)]
           /\ queued_sequences' = Tail(queued_sequences)
           /\ pc' = [pc EXCEPT ![w] = "next"]
           /\ UNCHANGED <<active_workers, available_workers>>
  <2>1. queued_sequences \in Seq(Seqs)
    BY <1>1 DEF TypeOK
  <2>2. PICK s \in Seqs : s = Head(queued_sequences) /\ s = queued_sequences[1]
    BY <1>3, <2>1, AtEnds
  <2>3. /\ Len(queued_sequences) \in Nat /\ Len(queued_sequences) > 0
        /\ queued_sequences' \in Seq(Seqs)
        /\ Len(queued_sequences') = Len(queued_sequences) - 1
        /\ \A i \in 1..Len(queued_sequences') :
             queued_sequences'[i] = queued_sequences[i + 1]
    BY <1>3, <2>1, AtEnds
  <2>4. /\ pc' \in [Workers -> Pcs] /\ pc'[w] = "next"
        /\ \A v \in Workers \ {w} : pc'[v] = pc[v] /\ seq'[v] = seq[v]
        /\ seq' \in [Workers -> Seqs \cup {None}] /\ seq'[w] = s
    <3>1. /\ pc' \in [Workers -> Pcs] /\ pc'[w] = "next"
          /\ \A v \in Workers \ {w} : pc'[v] = pc[v]
      BY <1>3, WorkerGoes DEF Pcs
    <3>2. seq \in [Workers -> Seqs \cup {None}] /\ seq' = [seq EXCEPT ![w] = s]
      BY <1>1, <1>3, <2>2 DEF TypeOK
    <3> QED BY <3>1, <3>2
  <2>5. TypeOK'
    BY <1>1, <1>3, <2>3, <2>4 DEF TypeOK
  <2>6. PlacesKept
    <3> SUFFICES ASSUME NEW r \in Seqs PROVE OnePlace(r)' /\ (Carried(r)' => Carried(r))
      BY DEF PlacesKept
    <3>1. /\ \A d : CallHas(d, r)' <=> CallHas(d, r)
          /\ \A v, i : TaskHas(v, i, r)' <=> TaskHas(v, i, r)
          /\ \A v \in Workers : WorkerHas(v, r)' => WorkerHas(v, r) \/ (r = s /\ v = w)
      BY <1>1, <2>4 DEF CallHas, TaskHas, WorkerHas
    <3>2. \A i \in Nat :
            QueueHas(i, r)' => QueueHas(i + 1, r) /\ i + 1 \in Nat /\ i + 1 # 1
      <4> SUFFICES ASSUME NEW i \in Nat, QueueHas(i, r)'
                   PROVE  QueueHas(i + 1, r) /\ i + 1 # 1
        OBVIOUS
      <4>1. i \in 1..Len(queued_sequences') /\ queued_sequences'[i] = r
        BY DEF QueueHas
      <4>2. i + 1 \in 1..Len(queued_sequences) /\ i + 1 # 1
        BY <2>3, <4>1
      <4> QED BY <2>3, <4>1, <4>2 DEF QueueHas
    <3>3. OnePlace(r) /\ OnePlace(s) /\ QueueHas(1, s) /\ 1 \in Nat
      BY <1>1, <2>2, <2>3 DEF InOnePlace, QueueHas
    <3>4. \A i, j \in Nat : QueueHas(i, r)' /\ QueueHas(j, r)' => i = j
      <4> SUFFICES ASSUME NEW i \in Nat, NEW j \in Nat, QueueHas(i, r)', QueueHas(j, r)'
                   PROVE  i = j
        OBVIOUS
      <4>1. i + 1 = j + 1
        BY <3>2, <3>3 DEF OnePlace
      <4> QED BY <4>1
    <3>5. \A i \in Nat : QueueHas(i, r)' => r # s
      BY <3>2, <3>3 DEF OnePlace
    <3>6. \A i \in Nat : QueueHas(i, r)' => \E j \in Nat : QueueHas(j, r)
      BY <3>2
    <3>7. OnePlace(r)'
      BY <3>1, <3>3, <3>4, <3>5, <3>6 DEF OnePlace
    <3> QED BY <3>1, <3>3, <3>6, <3>7 DEF Carried
  <2>7. ~shutdown => FreedKept
    <3>1. \A r \in Seqs : \A v \in Workers : Releases(v, r)' => Releases(v, r)
      BY <2>4 DEF Releases
    <3> QED BY <1>1, <3>1, NoNewFreed DEF Freed, CallFrees
  <2>8. Calls' /\ Busy'
    <3>1. \A r \in Seqs : \A v \in Workers : WorkerHas(v, r) => WorkerHas(v, r)'
      BY <1>1, <2>4 DEF WorkerHas, Working
    <3> QED BY <1>1, <2>4, <3>1 DEF Calls, Busy, Working
  <2>9. InOnePlace' /\ Service' /\ Freed'
    BY <1>1, <2>4, <2>6, <2>7, KeepsService
  <2> QED BY <2>5, <2>8, <2>9 DEF IInv
<1> QED BY <1>2, <1>3 DEF AssignWorkerToNextSequence, Erased

-----------------------------------------------------------------------------
(* ShutDown.                                                               *)

\* What the steps of ShutDown leave alone.
LEMMA ShutDownKeeps ==
  ASSUME IInv, shutdown, TypeOK', shutdown',
         UNCHANGED <<active, queued_sequences, tasks, pc, seq, run, call>>
  PROVE  IInv'
<1>1. InOnePlace /\ Calls /\ Busy
  BY DEF IInv
<1>2. InOnePlace'
  BY <1>1, NoNewPlace DEF CallHas, WorkerHas, InOnePlace, PlacesKept
<1>3. Calls' /\ Busy'
  BY <1>1 DEF Calls, Busy, WorkerHas
<1>4. Service' /\ Freed'
  BY DEF Service, Freed
<1> QED BY <1>2, <1>3, <1>4 DEF IInv

LEMMA InitiateShutDownStep ==
  ASSUME IInv, InitiateShutDown
  PROVE  IInv'
<1>1. /\ TypeOK /\ InOnePlace /\ Calls /\ Busy /\ shutdown'
      /\ UNCHANGED <<work_queue, active, has_pool, seq_shutdown, all_sequences,
                     queued_sequences, free_sequences, active_workers,
                     available_workers, tasks, exit, pc, seq, run, call, live, status>>
      /\ stage' = "initiate" /\ waiting' = all_sequences
  BY DEF IInv, InitiateShutDown, seqVars, workerVars
<1>2. TypeOK'
  BY <1>1 DEF TypeOK
<1>3. InOnePlace'
  BY <1>1, NoNewPlace DEF CallHas, WorkerHas, InOnePlace, PlacesKept
<1>4. Calls' /\ Busy'
  BY <1>1 DEF Calls, Busy, WorkerHas
<1>5. Service' /\ Freed'
  BY <1>1 DEF Service, Freed
<1> QED BY <1>2, <1>3, <1>4, <1>5 DEF IInv

LEMMA ShutDownStepStep ==
  ASSUME IInv, ShutDownStep
  PROVE  IInv'
<1>1. TypeOK /\ shutdown
  BY DEF IInv, Calls, ShutDownStep, InitiateSequenceShutDown, BeginWait,
         WaitForShutDown, ShutDownWorker, ShutDownComplete
<1>2. CASE InitiateSequenceShutDown
  <2>1. TypeOK'
    BY <1>1, <1>2 DEF InitiateSequenceShutDown, TypeOK, poolVars, workerVars
  <2> QED BY <1>1, <1>2, <2>1, ShutDownKeeps DEF InitiateSequenceShutDown, poolVars,
                                                 workerVars
<1>3. CASE BeginWait
  <2>1. UNCHANGED <<work_queue, active, shutdown, all_sequences, queued_sequences,
                    free_sequences, active_workers, available_workers, tasks, exit, pc,
                    seq, run, call, live, status>>
    BY <1>3 DEF BeginWait, poolVars, workerVars
  <2>2. CASE stage' = "join" /\ UNCHANGED <<seq_shutdown, has_pool, waiting>>
    <3>1. TypeOK'
      BY <1>1, <2>1, <2>2 DEF TypeOK
    <3> QED BY <1>1, <2>1, <3>1, ShutDownKeeps
  <2>3. CASE \E s \in all_sequences :
               /\ seq_shutdown' = [seq_shutdown EXCEPT ![s] = TRUE]
                                      /\ has_pool' = [has_pool EXCEPT ![s] = FALSE]
                                      /\ waiting' = {s} /\ stage' = "waiting"
    <3>1. TypeOK'
      BY <1>1, <2>1, <2>3 DEF TypeOK
    <3> QED BY <1>1, <2>1, <3>1, ShutDownKeeps
  <2> QED BY <1>3, <2>2, <2>3 DEF BeginWait
<1>4. CASE WaitForShutDown
  <2>1. /\ UNCHANGED <<active, seq_shutdown, has_pool, shutdown, all_sequences,
                       queued_sequences, free_sequences, active_workers,
                       available_workers, tasks, exit, pc, seq, run, call, live>>
        /\ stage' \in {"waiting", "wait"} /\ waiting' \subseteq Seqs
    BY <1>1, <1>4 DEF WaitForShutDown, TypeOK, poolVars, workerVars
  <2>2. TypeOK'
    <3>1. PICK s \in Seqs : CancelOne(s) \/ UNCHANGED <<work_queue, status>>
      BY <1>1, <1>4 DEF WaitForShutDown, TypeOK
    <3>2. CASE CancelOne(s)
      <4>1. /\ work_queue[s] \in Seq(Functions) /\ work_queue[s] # <<>>
            /\ MaxQueueSize # 0 => Len(work_queue[s]) <= MaxQueueSize
            /\ work_queue' = [work_queue EXCEPT ![s] = Tail(@)]
            /\ status' = [status EXCEPT ![Head(work_queue[s])] = "cancelled"]
        BY <1>1, <3>2 DEF CancelOne, TypeOK
      <4>2. /\ Tail(work_queue[s]) \in Seq(Functions)
            /\ Head(work_queue[s]) \in Functions
            /\ Len(work_queue[s]) \in Nat
            /\ Len(Tail(work_queue[s])) = Len(work_queue[s]) - 1
        BY <4>1, AtEnds
      <4>3. MaxQueueSize # 0 => Len(Tail(work_queue[s])) <= MaxQueueSize
        BY <4>1, <4>2, LimitAssumption
      <4>4. /\ work_queue' \in [Seqs -> Seq(Functions)]
            /\ work_queue'[s] = Tail(work_queue[s])
            /\ \A r \in Seqs \ {s} : work_queue'[r] = work_queue[r]
            /\ status' \in [Functions -> Statuses]
        BY <1>1, <4>1, <4>2 DEF TypeOK, Statuses
      <4>5. MaxQueueSize # 0 => \A r \in Seqs : Len(work_queue'[r]) <= MaxQueueSize
        BY <1>1, <4>3, <4>4 DEF TypeOK
      <4> QED BY <1>1, <2>1, <4>4, <4>5 DEF TypeOK
    <3>3. CASE UNCHANGED <<work_queue, status>>
      BY <1>1, <2>1, <3>3 DEF TypeOK
    <3> QED BY <3>1, <3>2, <3>3
  <2> QED BY <1>1, <2>1, <2>2, ShutDownKeeps
<1>5. ASSUME NEW w \in Workers, ShutDownWorker(w) PROVE IInv'
  <2>1. TypeOK'
    BY <1>1, <1>5 DEF ShutDownWorker, TypeOK, seqVars, downVars
  <2> QED BY <1>1, <1>5, <2>1, ShutDownKeeps DEF ShutDownWorker, seqVars
<1>6. CASE ShutDownComplete
  <2>1. TypeOK'
    BY <1>1, <1>6 DEF ShutDownComplete, TypeOK, seqVars, poolVars, workerVars
  <2> QED BY <1>1, <1>6, <2>1, ShutDownKeeps
          DEF ShutDownComplete, seqVars, poolVars, workerVars
<1> QED BY <1>2, <1>3, <1>4, <1>5, <1>6 DEF ShutDownStep

-----------------------------------------------------------------------------
LEMMA Initially == Init => IInv
<1> SUFFICES ASSUME Init PROVE IInv
  OBVIOUS
<1>1. TypeOK
  <2>1. /\ work_queue \in [Seqs -> Seq(Functions)] /\ tasks \in [Workers -> Seq(Seqs)]
        /\ queued_sequences \in Seq(Seqs) /\ free_sequences \in Seq(Seqs)
    BY DEF Init
  <2>2. \A s \in Seqs : Len(work_queue[s]) = 0
    BY DEF Init
  <2>3. MaxQueueSize # 0 => \A s \in Seqs : Len(work_queue[s]) <= MaxQueueSize
    BY <2>2, LimitAssumption
  <2>4. call \in [Clients -> [op : Ops, seq : Seqs \cup {None}, worker : Workers \cup {None}]]
    BY DEF Init, NoCall, Ops
  <2> QED BY <2>1, <2>3, <2>4 DEF Init, TypeOK, Pcs, Statuses
<1>2. \A s \in Seqs : ~Carried(s)
  BY DEF Init, Carried, CallHas, QueueHas, TaskHas, WorkerHas, NoCall, Working
<1>3. InOnePlace
  BY <1>2 DEF InOnePlace, OnePlace, Carried
<1>4. Calls /\ Busy
  BY DEF Init, Calls, Busy, NoCall, Working
<1>5. Service
  BY <1>2 DEF Init, Service
<1>6. Freed
  <2>1. \A s \in Seqs : ~IsFreed(s)
    BY DEF Init, IsFreed, FreeHas, CallFrees, Releases, NoCall
  <2> QED BY <2>1 DEF Freed, FreedOnce, IsFreed
<1> QED BY <1>1, <1>3, <1>4, <1>5, <1>6 DEF IInv

LEMMA Inductive ==
  ASSUME Orderly, IInv, [Next]_vars
  PROVE  IInv'
<1>1. ASSUME NEW c \in Clients, NewSequence(c) \/ ClientStep(c) PROVE IInv'
  <2>1. ~DropSequence(c)
    BY DEF IInv, Calls, DropSequence
  <2> QED BY <1>1, <2>1, NewSequenceStep, PushFreeStep, QueueSequenceStep, StartWorkerStep
          DEF ClientStep
<1>2. ASSUME NEW c \in Clients, NEW s \in Seqs,
             FreeSequence(c, s) \/ CancelPendingFunctions(c, s)
      PROVE  IInv'
  BY <1>2, FreeSequenceStep DEF CancelPendingFunctions, Orderly
<1>3. ASSUME NEW c \in Clients, NEW s \in Seqs, NEW f \in Functions, Add(c, s, f)
      PROVE  IInv'
  BY <1>3, AddStep
<1>4. ASSUME NEW w \in Workers, WorkerStep(w) PROVE IInv'
  BY <1>4, GetNextTaskStep, NextFunctionStep, FunctionDoneStep, NoFunctionStep,
     DrainSequenceStep, SequenceNoLongerActiveStep, AssignWorkerStep DEF WorkerStep
<1>5. CASE InitiateShutDown
  BY <1>5, InitiateShutDownStep
<1>6. CASE ShutDownStep
  BY <1>6, ShutDownStepStep
<1>7. CASE UNCHANGED vars
  BY <1>7 DEF vars, seqVars, poolVars, workerVars, downVars, IInv, TypeOK, InOnePlace,
              OnePlace, Calls, Busy, Service, Freed, FreedOnce, IsFreed, Carried,
              CallHas, QueueHas, TaskHas, WorkerHas, FreeHas, CallFrees, Releases
<1> QED BY <1>1, <1>2, <1>3, <1>4, <1>5, <1>6, <1>7 DEF Next

-----------------------------------------------------------------------------
(* What follows for the pool.                                              *)

\* What Carriers counts is what has a place.
LEMMA CarriersHavePlaces ==
  ASSUME TypeOK, Calls, NEW s \in Seqs
  PROVE  Carriers(s) =
           {<<"call", c>> : c \in {c \in Clients : CallHas(c, s)}}
           \cup {<<"queued", i>> : i \in {i \in 1..Len(queued_sequences) : QueueHas(i, s)}}
           \cup {<<"task", w>> : w \in {w \in Workers : \E i \in Nat : TaskHas(w, i, s)}}
           \cup {<<"worker", w>> : w \in {w \in Workers : WorkerHas(w, s)}}
<1>1. {c \in Clients : call[c].seq = s /\ call[c].op \in {"queue", "start", "drop"}}
        = {c \in Clients : CallHas(c, s)}
  BY DEF Calls, CallHas
<1>2. {i \in DOMAIN queued_sequences : queued_sequences[i] = s}
        = {i \in 1..Len(queued_sequences) : QueueHas(i, s)}
  <2>1. DOMAIN queued_sequences = 1..Len(queued_sequences)
    BY DEF TypeOK
  <2> QED BY <2>1 DEF QueueHas
<1>3. {w \in Workers : s \in Elements(tasks[w])}
        = {w \in Workers : \E i \in Nat : TaskHas(w, i, s)}
  <2> SUFFICES ASSUME NEW w \in Workers
               PROVE  s \in Elements(tasks[w]) <=> \E i \in Nat : TaskHas(w, i, s)
    OBVIOUS
  <2>1. tasks[w] \in Seq(Seqs)
    BY DEF TypeOK
  <2>2. DOMAIN tasks[w] = 1..Len(tasks[w]) /\ 1..Len(tasks[w]) \subseteq Nat
    BY <2>1
  <2> QED BY <2>2 DEF Elements, TaskHas
<1>4. {w \in Workers : seq[w] = s /\ pc[w] \in {"next", "run", "drain"}}
        = {w \in Workers : WorkerHas(w, s)}
  BY DEF WorkerHas, Working
<1> QED BY <1>1, <1>2, <1>3, <1>4 DEF Carriers

LEMMA NoTwoCarriers ==
  ASSUME IInv
  PROVE  OneCarrier
<1> SUFFICES ASSUME NEW s \in Seqs PROVE Cardinality(Carriers(s)) <= 1
  BY DEF OneCarrier
<1>1. OnePlace(s)
  BY DEF IInv, InOnePlace
<1>2. \A x, y \in Carriers(s) : x = y
  <2> DEFINE C == {c \in Clients : CallHas(c, s)}
             Q == {i \in 1..Len(queued_sequences) : QueueHas(i, s)}
             T == {w \in Workers : \E i \in Nat : TaskHas(w, i, s)}
             W == {w \in Workers : WorkerHas(w, s)}
  <2>1. 1..Len(queued_sequences) \subseteq Nat
    BY AtEnds DEF IInv, TypeOK
  <2>2. /\ \A c, d \in C : c = d
        /\ \A i, j \in Q : i = j
        /\ \A v, w \in T : v = w
        /\ \A v, w \in W : v = w
        /\ \/ C = {} /\ Q = {} /\ T = {}
           \/ C = {} /\ Q = {} /\ W = {}
           \/ C = {} /\ T = {} /\ W = {}
           \/ Q = {} /\ T = {} /\ W = {}
    <3>1. /\ \A c, d \in C : c = d
          /\ \A i, j \in Q : i = j
          /\ \A v, w \in T : v = w
          /\ \A v, w \in W : v = w
      BY <1>1, <2>1 DEF OnePlace
    <3>2. /\ C # {} => Q = {} /\ T = {} /\ W = {}
          /\ Q # {} => T = {} /\ W = {}
          /\ T # {} => W = {}
      BY <1>1, <2>1 DEF OnePlace
    <3> QED BY <3>1, <3>2
  <2>3. Carriers(s) = {<<"call", c>> : c \in C} \cup {<<"queued", i>> : i \in Q}
                      \cup {<<"task", w>> : w \in T} \cup {<<"worker", w>> : w \in W}
    BY CarriersHavePlaces DEF IInv
  <2> HIDE DEF C, Q, T, W
  <2> QED BY <2>2, <2>3
<1>3. CASE Carriers(s) = {}
  BY <1>3, FS_EmptySet
<1>4. CASE Carriers(s) # {}
  <2>1. PICK x : Carriers(s) = {x}
    BY <1>2, <1>4
  <2>2. Cardinality({x}) = 1
    BY FS_Singleton
  <2> QED BY <2>1, <2>2
<1> QED BY <1>3, <1>4

\* An owner that is told its sequence is idle can rely on it.
LEMMA IdleIsQuiet ==
  ASSUME IInv
  PROVE  IdleMeansQuiet
BY DEF IInv, Busy, IdleMeansQuiet, AreBusy, Serving

\* A sequence in the queue is in service.
LEMMA QueuedIsNotFree ==
  ASSUME IInv
  PROVE  QueuedNotFree
<1> SUFFICES ASSUME ~shutdown, NEW s \in Elements(queued_sequences),
                    s \in Elements(free_sequences)
             PROVE  FALSE
  BY DEF QueuedNotFree
<1>1. queued_sequences \in Seq(Seqs) /\ free_sequences \in Seq(Seqs)
  BY DEF IInv, TypeOK
<1>2. PICK i \in Nat : QueueHas(i, s) /\ s \in Seqs
  <2>1. /\ DOMAIN queued_sequences = 1..Len(queued_sequences)
        /\ 1..Len(queued_sequences) \subseteq Nat
        /\ \A j \in 1..Len(queued_sequences) : queued_sequences[j] \in Seqs
    BY <1>1
  <2> QED BY <2>1 DEF Elements, QueueHas
<1>3. PICK k \in Nat : FreeHas(k, s)
  <2>1. DOMAIN free_sequences = 1..Len(free_sequences) /\ 1..Len(free_sequences) \subseteq Nat
    BY <1>1
  <2> QED BY <2>1 DEF Elements, FreeHas
<1>4. Carried(s) /\ IsFreed(s)
  BY <1>2, <1>3 DEF Carried, IsFreed
<1> QED BY <1>2, <1>4 DEF IInv, Service, Freed

\* The invariant holds of every run of an orderly pool.
THEOREM Invariance ==
  ASSUME Orderly
  PROVE  SafeSpec => []IInv
<1>1. IInv /\ [Next]_vars => IInv'
  BY Inductive
<1> QED BY <1>1, Initially, PTL DEF SafeSpec

\* As long as clients cancel nothing, no load is shed and no bound is one, however
\* many workers there are: one of them at most is on its way to a sequence or
\* runs its functions, AreBusy tells the truth about a sequence, and a sequence
\* that is queued has not been given back.
THEOREM AlwaysServedByOne ==
  ASSUME Orderly
  PROVE  Spec => []ServedByOne
<1>1. IInv => ServedByOne
  BY NoTwoCarriers, IdleIsQuiet, QueuedIsNotFree DEF ServedByOne, IInv
<1> QED BY <1>1, Invariance, PTL DEF Spec

\* The sentence of queued_worker_pool.h:60 under these conditions: "Functions
\* added to a Sequence will be run sequentially."
THEOREM FunctionsRunSequentially ==
  ASSUME Orderly
  PROVE  Spec => []Sequential
<1>1. IInv => Sequential
  <2> SUFFICES ASSUME IInv, NEW s \in Seqs PROVE Cardinality(Serving(s)) <= 1
    BY DEF Sequential
  <2>1. \A v, w \in Serving(s) : v = w
    BY DEF IInv, InOnePlace, OnePlace, Serving, WorkerHas, Working
  <2>2. CASE Serving(s) = {}
    BY <2>2, FS_EmptySet
  <2>3. CASE Serving(s) # {}
    <3>1. PICK w : Serving(s) = {w}
      BY <2>1, <2>3
    <3> QED BY <3>1, FS_Singleton
  <2> QED BY <2>2, <2>3
<1> QED BY <1>1, Invariance, PTL DEF Spec

-----------------------------------------------------------------------------
(* A sequence implements the executor of SequencerSpec.                    *)

\* A function that waits has been added.
Pended == \A s \in Seqs : \A i \in 1..Len(work_queue[s]) :
            status[work_queue[s][i]] # "new"

\* No step gives a function back to the one that made it.
LEMMA KeepsPended ==
  ASSUME TypeOK, TypeOK', Pended,
         \A g \in Functions : status[g] # "new" => status'[g] # "new",
         NEW s \in Seqs, \A r \in Seqs \ {s} : work_queue'[r] = work_queue[r],
         \A i \in 1..Len(work_queue'[s]) :
           \/ \E j \in 1..Len(work_queue[s]) : work_queue'[s][i] = work_queue[s][j]
           \/ status'[work_queue'[s][i]] # "new"
  PROVE  Pended'
<1> SUFFICES ASSUME NEW r \in Seqs, NEW i \in 1..Len(work_queue'[r])
             PROVE  status'[work_queue'[r][i]] # "new"
  BY DEF Pended
<1>1. \A j \in 1..Len(work_queue[r]) : status'[work_queue[r][j]] # "new"
  <2> TAKE j \in 1..Len(work_queue[r])
  <2>1. work_queue[r] \in Seq(Functions)
    BY DEF TypeOK
  <2>2. work_queue[r][j] \in Functions /\ status[work_queue[r][j]] # "new"
    BY <2>1 DEF Pended
  <2> QED BY <2>2
<1>2. CASE r # s
  BY <1>1, <1>2
<1>3. CASE r = s
  BY <1>1, <1>3
<1> QED BY <1>2, <1>3

LEMMA PendedTail ==
  ASSUME TypeOK, TypeOK', Pended, NEW s \in Seqs, work_queue[s] # <<>>,
         work_queue' = [work_queue EXCEPT ![s] = Tail(@)],
         \A g \in Functions : status[g] # "new" => status'[g] # "new"
  PROVE  Pended'
<1>1. work_queue[s] \in Seq(Functions)
  BY DEF TypeOK
<1>2. /\ work_queue'[s] = Tail(work_queue[s])
      /\ \A r \in Seqs \ {s} : work_queue'[r] = work_queue[r]
  BY DEF TypeOK
<1>3. \A i \in 1..Len(work_queue'[s]) :
        \E j \in 1..Len(work_queue[s]) : work_queue'[s][i] = work_queue[s][j]
  <2> TAKE i \in 1..Len(work_queue'[s])
  <2>1. /\ Len(work_queue[s]) \in Nat
        /\ Len(work_queue'[s]) = Len(work_queue[s]) - 1
    BY <1>1, <1>2, AtEnds
  <2>2. i + 1 \in 1..Len(work_queue[s])
    BY <2>1
  <2>3. \A k \in 1..Len(Tail(work_queue[s])) :
          Tail(work_queue[s])[k] = work_queue[s][k + 1]
    BY <1>1, AtEnds
  <2>4. work_queue'[s][i] = work_queue[s][i + 1]
    BY <1>2, <2>3
  <2> QED BY <2>2, <2>4
<1> QED BY <1>2, <1>3, KeepsPended

LEMMA PendedCancelOne ==
  ASSUME TypeOK, TypeOK', Pended, NEW s \in Seqs, CancelOne(s)
  PROVE  Pended'
<1>1. /\ work_queue[s] # <<>>
      /\ work_queue' = [work_queue EXCEPT ![s] = Tail(@)]
      /\ \A g \in Functions : status[g] # "new" => status'[g] # "new"
  BY DEF TypeOK, CancelOne
<1> QED BY <1>1, PendedTail

LEMMA PendedNext ==
  ASSUME Orderly, IInv, Pended, [Next]_vars
  PROVE  Pended'
<1>1. TypeOK /\ TypeOK'
  BY Inductive DEF IInv
<1>2. CASE UNCHANGED <<work_queue, status>>
  BY <1>2 DEF Pended
<1>3. ASSUME NEW c \in Clients, NEW s \in Seqs, NEW f \in Functions, Add(c, s, f)
      PROVE  Pended'
  <2>1. work_queue[s] \in Seq(Functions)
    BY <1>1 DEF TypeOK
  <2>2. /\ status'[f] # "new"
        /\ \A g \in Functions : status[g] # "new" => status'[g] # "new"
    BY <1>1, <1>3 DEF Add, TypeOK
  <2>3. CASE work_queue' = work_queue
    BY <1>1, <2>2, <2>3, KeepsPended
  <2>4. CASE ~seq_shutdown[s]
    <3> DEFINE kept == IF Overflows(s) THEN Tail(work_queue[s]) ELSE work_queue[s]
    <3>1. Overflows(s) => work_queue[s] # <<>>
      <4>1. Overflows(s) => Len(work_queue[s]) > 0
        BY <2>1, LimitAssumption DEF Overflows
      <4> QED BY <4>1
    <3>2. /\ kept \in Seq(Functions)
          /\ \A i \in 1..Len(kept) :
               \E j \in 1..Len(work_queue[s]) : kept[i] = work_queue[s][j]
      <4>1. CASE Overflows(s)
        <5>1. kept = Tail(work_queue[s]) /\ work_queue[s] # <<>>
          BY <3>1, <4>1
        <5>2. Len(work_queue[s]) \in Nat /\ Len(Tail(work_queue[s])) = Len(work_queue[s]) - 1
          BY <2>1, <5>1, AtEnds
        <5>3. \A i \in 1..Len(Tail(work_queue[s])) :
                /\ i + 1 \in 1..Len(work_queue[s])
                /\ Tail(work_queue[s])[i] = work_queue[s][i + 1]
          BY <2>1, <5>1, <5>2, AtEnds
        <5> QED BY <2>1, <5>1, <5>3, AtEnds
      <4>2. CASE ~Overflows(s)
        BY <2>1, <4>2
      <4> QED BY <4>1, <4>2
    <3>3. /\ work_queue'[s] = Append(kept, f)
          /\ \A r \in Seqs \ {s} : work_queue'[r] = work_queue[r]
      BY <1>1, <1>3, <2>4 DEF Add, TypeOK
    <3> HIDE DEF kept
    <3>4. \A i \in 1..Len(Append(kept, f)) :
            \/ i \in 1..Len(kept) /\ Append(kept, f)[i] = kept[i]
            \/ Append(kept, f)[i] = f
      BY <3>2, AtEnds
    <3> QED BY <1>1, <2>2, <3>2, <3>3, <3>4, KeepsPended
  <2> QED BY <1>3, <2>3, <2>4 DEF Add
<1>4. ASSUME NEW w \in Workers, NextFunction(w) PROVE Pended'
  <2>1. PICK s \in Seqs : s = seq[w]
    BY <1>4 DEF NextFunction, IInv, Calls, Working
  <2>2. /\ work_queue[s] # <<>>
        /\ work_queue' = [work_queue EXCEPT ![s] = Tail(@)]
        /\ \A g \in Functions : status[g] # "new" => status'[g] # "new"
    BY <1>1, <1>4, <2>1 DEF NextFunction, TypeOK
  <2> QED BY <1>1, <2>2, PendedTail
<1>5. ASSUME NEW w \in Workers, FunctionDone(w) PROVE Pended'
  <2>1. /\ work_queue' = work_queue
        /\ \A g \in Functions : status[g] # "new" => status'[g] # "new"
    BY <1>1, <1>5 DEF FunctionDone, seqVars, TypeOK
  <2> SUFFICES ASSUME NEW r \in Seqs, NEW i \in 1..Len(work_queue[r])
               PROVE  status'[work_queue[r][i]] # "new"
    BY <2>1 DEF Pended
  <2>2. work_queue[r] \in Seq(Functions)
    BY <1>1 DEF TypeOK
  <2>3. work_queue[r][i] \in Functions /\ status[work_queue[r][i]] # "new"
    BY <2>2 DEF Pended
  <2> QED BY <2>1, <2>3
<1>6. ASSUME NEW w \in Workers, DrainSequence(w) PROVE Pended'
  <2>1. seq[w] \in Seqs
    BY <1>6 DEF DrainSequence, IInv, Calls, Working
  <2> QED BY <1>1, <1>2, <1>6, <2>1, PendedCancelOne DEF DrainSequence
<1>7. CASE WaitForShutDown
  <2>1. PICK s \in Seqs : CancelOne(s) \/ UNCHANGED <<work_queue, status>>
    BY <1>1, <1>7 DEF WaitForShutDown, TypeOK
  <2> QED BY <1>1, <1>2, <2>1, PendedCancelOne
<1>8. ASSUME NEW c \in Clients, ClientStep(c) \/ NewSequence(c)
      PROVE  UNCHANGED <<work_queue, status>>
  <2>1. ~DropSequence(c)
    BY DEF IInv, Calls, DropSequence
  <2> QED BY <1>8, <2>1 DEF ClientStep, NewSequence, PushFree, QueueSequence,
                            StartWorker, seqVars
<1>9. ASSUME NEW c \in Clients, NEW s \in Seqs,
             FreeSequence(c, s) \/ CancelPendingFunctions(c, s)
      PROVE  UNCHANGED <<work_queue, status>>
  BY <1>9 DEF FreeSequence, CancelPendingFunctions, Orderly
<1>10. ASSUME NEW w \in Workers,
              \/ GetNextTask(w) \/ NoFunction(w) \/ SequenceNoLongerActive(w)
              \/ AssignWorkerToNextSequence(w)
       PROVE  UNCHANGED <<work_queue, status>>
  BY <1>10 DEF GetNextTask, NoFunction, SequenceNoLongerActive,
               AssignWorkerToNextSequence, seqVars
<1>11. CASE InitiateShutDown
  BY <1>2, <1>11 DEF InitiateShutDown, seqVars
<1>12. ASSUME ShutDownStep, ~WaitForShutDown
       PROVE  UNCHANGED <<work_queue, status>>
  BY <1>12 DEF ShutDownStep, InitiateSequenceShutDown, BeginWait, ShutDownWorker,
               ShutDownComplete, seqVars
<1>13. CASE UNCHANGED vars
  BY <1>2, <1>13 DEF vars, seqVars
<1> QED BY <1>2, <1>3, <1>4, <1>5, <1>6, <1>7, <1>8, <1>9, <1>10, <1>11, <1>12, <1>13
        DEF Next, WorkerStep

\* Who runs in a sequence changes with the workers that run in it only.
LEMMA SameRunning ==
  ASSUME NEW s \in Seqs,
         \A w \in Workers :
           pc'[w] = "run" /\ seq'[w] = s <=> pc[w] = "run" /\ seq[w] = s,
         \A w \in Workers : pc[w] = "run" /\ seq[w] = s => run'[w] = run[w]
  PROVE  RunningIn(s)' = RunningIn(s)
<1>1. Serving(s)' = Serving(s)
  BY DEF Serving
<1>2. CASE Serving(s) = {}
  BY <1>1, <1>2 DEF RunningIn
<1>3. CASE Serving(s) # {}
  <2>1. (CHOOSE w \in Serving(s) : TRUE) \in Serving(s)
    BY <1>3
  <2> QED BY <1>1, <1>3, <2>1 DEF RunningIn, Serving
<1> QED BY <1>2, <1>3

\* A worker that runs is the one that its sequence runs in.
LEMMA RunningOne ==
  ASSUME IInv, NEW w \in Workers, pc[w] = "run"
  PROVE  /\ seq[w] \in Seqs /\ run[w] \in Functions
         /\ RunningIn(seq[w]) = run[w]
<1>1. seq[w] \in Seqs /\ run[w] \in Functions
  BY DEF IInv, Calls, Working
<1>2. Serving(seq[w]) = {w}
  BY <1>1 DEF IInv, InOnePlace, OnePlace, Serving, WorkerHas, Working
<1> QED BY <1>1, <1>2 DEF RunningIn

\* A worker that looks for a function is the only one with its sequence.
LEMMA NextAlone ==
  ASSUME IInv, NEW w \in Workers, pc[w] = "next"
  PROVE  /\ seq[w] \in Seqs
         /\ \A v \in Workers : ~(pc[v] = "run" /\ seq[v] = seq[w])
         /\ RunningIn(seq[w]) = None
<1>1. seq[w] \in Seqs
  BY DEF IInv, Calls, Working
<1>2. \A v \in Workers : ~(pc[v] = "run" /\ seq[v] = seq[w])
  BY <1>1 DEF IInv, InOnePlace, OnePlace, WorkerHas, Working
<1> QED BY <1>1, <1>2 DEF RunningIn, Serving

LEMMA QuietStep ==
  ASSUME UNCHANGED <<work_queue, status>>, \A s \in Seqs : RunningIn(s)' = RunningIn(s)
  PROVE  UNCHANGED Sequencer!vars
BY DEF Sequencer!vars

\* CancelTasksOnWorkQueue takes the oldest.
LEMMA CancelOneIsCancelOldest ==
  ASSUME NEW s \in Seqs, CancelOne(s), \A r \in Seqs : RunningIn(r)' = RunningIn(r)
  PROVE  Sequencer!CancelOldest(s)
BY DEF CancelOne, Sequencer!CancelOldest

LEMMA AddIsAdd ==
  ASSUME IInv, Pended, NEW c \in Clients, NEW s \in Seqs, NEW f \in Functions,
         Add(c, s, f)
  PROVE  Sequencer!Add(s, f) \/ Sequencer!Refuse(f)
<1>1. TypeOK /\ UNCHANGED <<pc, seq, run>> /\ status[f] = "new"
  BY DEF IInv, Add, workerVars
<1>2. [r \in Seqs |-> RunningIn(r)]' = [r \in Seqs |-> RunningIn(r)]
  BY <1>1, SameRunning
<1>3. CASE seq_shutdown[s]
  BY <1>1, <1>2, <1>3 DEF Add, Sequencer!Refuse
<1>4. CASE ~seq_shutdown[s] /\ ~Overflows(s)
  <2>1. /\ work_queue' = [work_queue EXCEPT ![s] = Append(@, f)]
        /\ status' = [status EXCEPT ![f] = "pending"]
    BY <1>1, <1>4 DEF Add, TypeOK
  <2> QED BY <1>1, <1>2, <2>1 DEF Sequencer!Add
<1>5. CASE ~seq_shutdown[s] /\ Overflows(s)
  <2>1. work_queue[s] \in Seq(Functions)
    BY <1>1 DEF TypeOK
  <2>2. Len(work_queue[s]) > 0
    BY <1>5, <2>1, LimitAssumption DEF Overflows
  <2>3. work_queue[s] # <<>> /\ Head(work_queue[s]) = work_queue[s][1]
    BY <2>1, <2>2
  <2>4. Head(work_queue[s]) \in Functions /\ Head(work_queue[s]) # f
    BY <1>1, <2>1, <2>2, <2>3 DEF Pended
  <2>5. work_queue' = [work_queue EXCEPT ![s] = Append(Tail(@), f)]
    BY <1>1, <1>5 DEF Add, TypeOK
  <2>6. status' = [status EXCEPT ![f] = "pending", ![Head(work_queue[s])] = "cancelled"]
    BY <1>1, <1>5, <2>4 DEF Add, TypeOK
  <2> QED BY <1>1, <1>2, <2>3, <2>5, <2>6 DEF Sequencer!Add
<1> QED BY <1>3, <1>4, <1>5

LEMMA NextFunctionIsStart ==
  ASSUME IInv, IInv', NEW w \in Workers, NextFunction(w)
  PROVE  Sequencer!Start(seq[w])
<1>1. PICK s \in Seqs : s = seq[w]
  BY NextAlone DEF NextFunction
<1> DEFINE running == [r \in Seqs |-> RunningIn(r)]
<1>2. /\ TypeOK /\ pc[w] = "next" /\ work_queue[s] # <<>>
      /\ work_queue' = [work_queue EXCEPT ![s] = Tail(@)]
      /\ run' = [run EXCEPT ![w] = Head(work_queue[s])]
      /\ status' = [status EXCEPT ![Head(work_queue[s])] = "running"]
      /\ pc' = [pc EXCEPT ![w] = "run"]
      /\ UNCHANGED seq
  BY <1>1 DEF IInv, NextFunction
<1>3. RunningIn(s) = None
  BY <1>1, <1>2, NextAlone
<1>4. RunningIn(s)' = Head(work_queue[s])
  <2>1. pc'[w] = "run" /\ seq'[w] = s /\ run'[w] = Head(work_queue[s])
    BY <1>1, <1>2 DEF TypeOK
  <2>2. (pc[w] = "run" => RunningIn(seq[w]) = run[w])'
    BY RunningOne, PTL
  <2> QED BY <2>1, <2>2
<1>5. \A r \in Seqs \ {s} : RunningIn(r)' = RunningIn(r)
  BY <1>1, <1>2, SameRunning DEF TypeOK
<1>6. running' = [running EXCEPT ![s] = Head(work_queue[s])]
  BY <1>2, <1>4, <1>5
<1>7. running[s] = None
  BY <1>2, <1>3
<1> HIDE DEF running
<1> QED BY <1>1, <1>2, <1>6, <1>7 DEF Sequencer!Start, running

LEMMA FunctionDoneIsFinish ==
  ASSUME IInv, NEW w \in Workers, FunctionDone(w)
  PROVE  Sequencer!Finish(seq[w])
<1>1. PICK s \in Seqs : s = seq[w]
  BY RunningOne DEF FunctionDone
<1> DEFINE running == [r \in Seqs |-> RunningIn(r)]
<1>2. /\ TypeOK /\ pc[w] = "run" 
      /\ status' = [status EXCEPT ![run[w]] = "done"]
      /\ run' = [run EXCEPT ![w] = None]
      /\ pc' = [pc EXCEPT ![w] = "next"]
      /\ UNCHANGED <<work_queue, seq>>
  BY <1>1 DEF IInv, FunctionDone, seqVars
<1>3. RunningIn(s) = run[w] /\ RunningIn(s) # None
  BY <1>1, <1>2, RunningOne, NoneAssumption
<1>4. RunningIn(s)' = None
  <2>1. \A v \in Workers : pc[v] = "run" /\ seq[v] = s => v = w
    BY <1>1, <1>2 DEF IInv, InOnePlace, OnePlace, WorkerHas, Working
  <2>2. \A v \in Workers : ~(pc'[v] = "run" /\ seq'[v] = s)
    BY <1>2, <2>1 DEF TypeOK
  <2> QED BY <2>2 DEF RunningIn, Serving
<1>5. \A r \in Seqs \ {s} : RunningIn(r)' = RunningIn(r)
  BY <1>1, <1>2, SameRunning DEF TypeOK
<1>6. running' = [running EXCEPT ![s] = None]
  BY <1>2, <1>4, <1>5
<1>7. running[s] = run[w] /\ running[s] # None
  BY <1>2, <1>3
<1> HIDE DEF running
<1> QED BY <1>1, <1>2, <1>6, <1>7 DEF Sequencer!Finish, running

LEMMA DrainSequenceMaps ==
  ASSUME IInv, NEW w \in Workers, DrainSequence(w)
  PROVE  Sequencer!CancelOldest(seq[w]) \/ UNCHANGED Sequencer!vars
<1>1. /\ TypeOK /\ seq[w] \in Seqs /\ pc[w] # "run"
      /\ UNCHANGED <<seq, run>>
      /\ pc' = [pc EXCEPT ![w] = pc'[w]] /\ pc'[w] # "run"
  BY DEF DrainSequence, IInv, TypeOK, Calls, Working
<1>2. \A r \in Seqs : RunningIn(r)' = RunningIn(r)
  BY <1>1, SameRunning DEF TypeOK
<1>3. CancelOne(seq[w]) \/ UNCHANGED <<work_queue, status>>
  BY DEF DrainSequence
<1> QED BY <1>1, <1>2, <1>3, QuietStep, CancelOneIsCancelOldest

\* Workers that neither begin nor finish a function.
LEMMA WorkerMoves ==
  ASSUME IInv, NEW w \in Workers,
         \/ GetNextTask(w) \/ NoFunction(w) \/ SequenceNoLongerActive(w)
         \/ AssignWorkerToNextSequence(w)
  PROVE  UNCHANGED Sequencer!vars
<1>1. /\ TypeOK /\ pc[w] # "run" /\ pc'[w] # "run"
      /\ pc' = [pc EXCEPT ![w] = pc'[w]]
      /\ \A v \in Workers \ {w} : seq'[v] = seq[v]
      /\ UNCHANGED <<work_queue, status, run>>
  BY DEF IInv, TypeOK, GetNextTask, NoFunction, SequenceNoLongerActive,
         AssignWorkerToNextSequence, seqVars
<1>2. \A r \in Seqs : RunningIn(r)' = RunningIn(r)
  BY <1>1, SameRunning DEF TypeOK
<1> QED BY <1>1, <1>2, QuietStep

LEMMA StepsMap ==
  ASSUME Orderly, IInv, IInv', Pended, [Next]_vars
  PROVE  [Sequencer!Next]_(Sequencer!vars)
<1>1. ASSUME UNCHANGED <<pc, seq,
                         run>> PROVE \A r \in Seqs : RunningIn(r)' = RunningIn(r)
  BY <1>1, SameRunning
<1>2. CASE UNCHANGED <<work_queue, status, pc, seq, run>>
  BY <1>1, <1>2, QuietStep
<1>3. ASSUME NEW c \in Clients, NewSequence(c) \/ ClientStep(c)
      PROVE  UNCHANGED Sequencer!vars
  <2>1. ~DropSequence(c)
    BY DEF IInv, Calls, DropSequence
  <2>2. CASE NewSequence(c) \/ PushFree(c) \/ StartWorker(c)
    BY <1>1, <2>2, QuietStep DEF NewSequence, PushFree, StartWorker, seqVars, workerVars
  <2>3. CASE QueueSequence(c)
    <3>1. /\ TypeOK /\ UNCHANGED <<work_queue, status, seq, run>>
          /\ \/ pc' = pc
             \/ \E w \in Workers : pc[w] = "unborn" /\ pc' = [pc EXCEPT ![w] = "wait"]
      BY <2>3 DEF IInv, QueueSequence, TakeWorker, seqVars
    <3>2. \A w \in Workers : pc'[w] = "run" <=> pc[w] = "run"
      BY <3>1 DEF TypeOK
    <3>3. \A r \in Seqs : RunningIn(r)' = RunningIn(r)
      BY <3>1, <3>2, SameRunning
    <3> QED BY <3>1, <3>3, QuietStep
  <2> QED BY <1>3, <2>1, <2>2, <2>3 DEF ClientStep
<1>4. ASSUME NEW c \in Clients, NEW s \in Seqs,
             FreeSequence(c, s) \/ CancelPendingFunctions(c, s)
      PROVE  UNCHANGED Sequencer!vars
  BY <1>1, <1>4, QuietStep DEF FreeSequence, CancelPendingFunctions, Orderly, workerVars
<1>5. ASSUME NEW c \in Clients, NEW s \in Seqs, NEW f \in Functions, Add(c, s, f)
      PROVE  Sequencer!Next
  BY <1>5, AddIsAdd DEF Sequencer!Next
<1>6. ASSUME NEW w \in Workers, WorkerStep(w)
      PROVE  [Sequencer!Next]_(Sequencer!vars)
  <2>1. CASE NextFunction(w)
    <3>1. seq[w] \in Seqs
      BY <2>1, NextAlone DEF NextFunction
    <3> QED BY <2>1, <3>1, NextFunctionIsStart DEF Sequencer!Next
  <2>2. CASE FunctionDone(w)
    <3>1. seq[w] \in Seqs
      BY <2>2, RunningOne DEF FunctionDone
    <3> QED BY <2>2, <3>1, FunctionDoneIsFinish DEF Sequencer!Next
  <2>3. CASE DrainSequence(w)
    <3>1. seq[w] \in Seqs
      BY <2>3 DEF DrainSequence, IInv, Calls, Working
    <3> QED BY <2>3, <3>1, DrainSequenceMaps DEF Sequencer!Next
  <2> QED BY <1>6, <2>1, <2>2, <2>3, WorkerMoves DEF WorkerStep
<1>7. CASE InitiateShutDown
  BY <1>1, <1>7, QuietStep DEF InitiateShutDown, seqVars, workerVars
<1>8. CASE ShutDownStep
  <2>1. CASE WaitForShutDown
    <3>1. PICK s \in Seqs : CancelOne(s) \/ UNCHANGED <<work_queue, status>>
      BY <2>1 DEF WaitForShutDown, IInv, TypeOK
    <3>2. \A r \in Seqs : RunningIn(r)' = RunningIn(r)
      BY <1>1, <2>1 DEF WaitForShutDown, workerVars
    <3> QED BY <3>1, <3>2, QuietStep, CancelOneIsCancelOldest DEF Sequencer!Next
  <2>2. CASE ~WaitForShutDown
    <3>1. UNCHANGED <<work_queue, status, pc, seq, run>>
      BY <1>8, <2>2 DEF ShutDownStep, InitiateSequenceShutDown, BeginWait,
                        ShutDownWorker, ShutDownComplete, seqVars, workerVars
    <3> QED BY <1>2, <3>1
  <2> QED BY <2>1, <2>2
<1>9. CASE UNCHANGED vars
  BY <1>2, <1>9 DEF vars, seqVars, workerVars
<1> QED BY <1>3, <1>4, <1>5, <1>6, <1>7, <1>8, <1>9 DEF Next

\* What the comments on Sequence promise of it, for an orderly pool of any size:
\* its functions are run one at a time in the order of Add, each once, and those
\* that a full queue, a freed sequence or ShutDown gives up are cancelled,
\* oldest first.
THEOREM ImplementsSequencer ==
  ASSUME Orderly
  PROVE  SafeSpec => Sequencer!SafeSpec
<1>1. Init => Sequencer!Init /\ Pended
  <2> SUFFICES ASSUME Init PROVE Sequencer!Init /\ Pended
    OBVIOUS
  <2>1. \A s \in Seqs : RunningIn(s) = None
    BY DEF Init, RunningIn, Serving
  <2>2. Pended
    BY DEF Init, Pended
  <2> QED BY <2>1, <2>2 DEF Init, Sequencer!Init
<1>2. IInv /\ Pended /\ [Next]_vars => Pended'
  BY PendedNext
<1>3. IInv /\ IInv' /\ Pended /\ [Next]_vars => [Sequencer!Next]_(Sequencer!vars)
  BY StepsMap
<1> QED BY <1>1, <1>2, <1>3, Invariance, PTL DEF SafeSpec, Sequencer!SafeSpec

-----------------------------------------------------------------------------
(* Any pool is consistent.                                                 *)

\* Somebody is on the way to run what sequence s has pending, or to shed it.
InHand(s) == Carried(s) \/ \E c \in Clients : call[c].op = "drop" /\ call[c].seq = s

\* What a caller or a worker goes on with is there.
Refs ==
  /\ \A c \in Clients :
       /\ call[c].op \in {"queue", "start", "free", "drop"} => call[c].seq \in Seqs
       /\ call[c].op = "start" => call[c].worker \in Workers
  /\ \A w \in Workers : pc[w] \in Working \cup {"release"} => seq[w] \in Seqs
  /\ \A w \in Workers : pc[w] = "run" => run[w] \in Functions
  /\ stage = "up" <=> ~shutdown
  /\ \A w \in Workers : exit[w] => shutdown

\* Who holds a sequence that is active, and one that has work while it is in
\* service.
Held ==
  /\ \A s \in Seqs : active[s] => \E w \in Workers : WorkerHas(w, s)
  /\ \A s \in Seqs : work_queue[s] # <<>> /\ ~seq_shutdown[s] => InHand(s)
  /\ ~shutdown => \A s \in Seqs : seq_shutdown[s] => work_queue[s] = <<>>

\* A worker is unborn, available, or hired for one task that is on its way to
\* it, waits for it, or is at work in it.
Starts(c, w) == call[c].op = "start" /\ call[c].worker = w

Hired ==
  /\ active_workers \cap available_workers = {}
  /\ \A w \in Workers :
       /\ pc[w] = "unborn"
            <=> w \notin active_workers \cup available_workers /\ ~exit[w]
       /\ w \in available_workers => pc[w] \in {"wait", "gone"} /\ tasks[w] = <<>>
       /\ tasks[w] # <<>> => Len(tasks[w]) = 1 /\ pc[w] \in {"wait", "gone"}
  /\ \A c \in Clients, w \in Workers :
       Starts(c, w) => /\ tasks[w] = <<>> /\ pc[w] \in {"wait", "gone"}
                       /\ w \notin available_workers
  /\ \A c, d \in Clients, w \in Workers : Starts(c, w) /\ Starts(d, w) => c = d

\* How far ShutDown is: nobody adds any more, the sequences it has passed are
\* shut down and then empty, and last the workers are gone.
Closing ==
  /\ shutdown => \A c \in Clients : call[c].op \in {"none", "free"}
  /\ stage = "initiate" => \A s \in all_sequences \ waiting : seq_shutdown[s]
  /\ stage \in {"wait", "waiting", "join", "down"} =>
       \A s \in all_sequences : seq_shutdown[s]
  /\ stage = "waiting" => \A s, r \in waiting : s = r
  /\ \A s \in Seqs : ~has_pool[s] =>
       /\ shutdown /\ seq_shutdown[s]
       /\ work_queue[s] = <<>> \/ (stage = "waiting" /\ s \in waiting)
  /\ stage \in {"join", "down"} => \A s \in all_sequences : ~has_pool[s]
  /\ \A s \in Seqs \ all_sequences : work_queue[s] = <<>>
  /\ stage = "down" => /\ active_workers = {} /\ available_workers = {}
                       /\ \A w \in Workers : exit[w] => pc[w] = "gone"

\* A function that waits is in the queue of a sequence, one that runs with a worker.
Waits(f) == \E s \in Seqs : \E i \in 1..Len(work_queue[s]) : work_queue[s][i] = f
Runs(f) == \E w \in Workers : pc[w] = "run" /\ run[w] = f

Answers ==
  \A f \in Functions :
    (status[f] = "pending" => Waits(f)) /\ (status[f] = "running" => Runs(f))

\* A sequence that was given back is in the list of free ones, or on its way
\* there, once, and not in service ...
ListedOnce(s) ==
  /\ \A i, j \in Nat : FreeHas(i, s) /\ FreeHas(j, s) => i = j
  /\ \A c, d \in Clients : CallFrees(c, s) /\ CallFrees(d, s) => c = d
  /\ \A i \in Nat, c \in Clients : ~(FreeHas(i, s) /\ CallFrees(c, s))
Listed(s) == (\E i \in Nat : FreeHas(i, s)) \/ (\E c \in Clients : CallFrees(c, s))

Listings ==
  \A s \in Seqs : ListedOnce(s) /\ (Listed(s) => s \in all_sequences \ live)

\* ... and while the pool is up it has been left by its workers.
Owners ==
  /\ \A s \in Seqs : FreedOnce(s)
  /\ \A s \in Seqs :
       IsFreed(s) => s \in all_sequences \ live /\ seq_shutdown[s] /\ ~active[s]
  /\ \A s \in live : ~seq_shutdown[s]
  /\ \A s \in Seqs \ all_sequences : ~active[s] /\ ~seq_shutdown[s]
  /\ \A w \in Workers : pc[w] # "drain"

Owned == Listings /\ (~shutdown => Owners)

-----------------------------------------------------------------------------
CallTypes == [op : Ops, seq : Seqs \cup {None}, worker : Workers \cup {None}]

LEMMA Lengthened ==
  ASSUME NEW S, NEW q \in Seq(S), NEW e \in S
  PROVE  /\ Append(q, e) \in Seq(S) /\ Append(q, e) # <<>>
         /\ Len(Append(q, e)) = Len(q) + 1
         /\ Head(Append(q, e)) \in S /\ Tail(Append(q, e)) \in Seq(S)
<1>1. /\ Append(q, e) \in Seq(S) /\ Len(Append(q, e)) = Len(q) + 1 /\ Len(q) \in Nat
  BY AtEnds
<1>2. Append(q, e) # <<>>
  BY <1>1
<1> QED BY <1>1, <1>2, AtEnds

LEMMA TypeTail ==
  ASSUME TypeOK, NEW s \in Seqs, work_queue[s] # <<>>,
         work_queue' = [work_queue EXCEPT ![s] = Tail(@)]
  PROVE  /\ work_queue' \in [Seqs -> Seq(Functions)]
         /\ MaxQueueSize # 0 => \A r \in Seqs : Len(work_queue'[r]) <= MaxQueueSize
         /\ Head(work_queue[s]) \in Functions
<1>1. work_queue[s] \in Seq(Functions)
  BY DEF TypeOK
<1>2. /\ Tail(work_queue[s]) \in Seq(Functions) /\ Head(work_queue[s]) \in Functions
      /\ Len(work_queue[s]) \in Nat /\ Len(Tail(work_queue[s])) = Len(work_queue[s]) - 1
  BY <1>1, AtEnds
<1>3. MaxQueueSize # 0 => Len(Tail(work_queue[s])) <= MaxQueueSize
  BY <1>2, LimitAssumption DEF TypeOK
<1>4. /\ work_queue' \in [Seqs -> Seq(Functions)]
      /\ work_queue'[s] = Tail(work_queue[s])
      /\ \A r \in Seqs \ {s} : work_queue'[r] = work_queue[r]
  BY <1>2 DEF TypeOK
<1> QED BY <1>2, <1>3, <1>4 DEF TypeOK

LEMMA TypeCancelOne ==
  ASSUME TypeOK, NEW s \in Seqs, CancelOne(s)
  PROVE  /\ work_queue' \in [Seqs -> Seq(Functions)]
         /\ MaxQueueSize # 0 => \A r \in Seqs : Len(work_queue'[r]) <= MaxQueueSize
         /\ status' \in [Functions -> Statuses]
<1>1. status' \in [Functions -> Statuses]
  BY DEF CancelOne, TypeOK, Statuses
<1> QED BY <1>1, TypeTail DEF CancelOne

LEMMA TypeClients ==
  ASSUME TypeOK, Refs, Owned, NEW c \in Clients,
         \/ NewSequence(c) \/ ClientStep(c)
         \/ \E s \in Seqs : FreeSequence(c, s) \/ CancelPendingFunctions(c, s)
  PROVE  TypeOK'
<1>1. ASSUME NEW s \in Seqs, FreeSequence(c, s) PROVE TypeOK'
  <2>1. call' \in [Clients -> CallTypes]
    BY <1>1 DEF FreeSequence, TypeOK, Call, NoCall, Ops, CallTypes
  <2> QED BY <1>1, <2>1 DEF FreeSequence, TypeOK, poolVars, workerVars, downVars,
                            CallTypes
<1>2. ASSUME NEW s \in Seqs, CancelPendingFunctions(c, s) PROVE TypeOK'
  <2>1. /\ work_queue' = [work_queue EXCEPT ![s] = <<>>]
        /\ status' \in [Functions -> Statuses]
        /\ UNCHANGED <<active, seq_shutdown, has_pool, poolVars, workerVars, call,
                       downVars, live>>
    BY <1>2 DEF CancelPendingFunctions, TypeOK, Statuses
  <2>2. /\ work_queue' \in [Seqs -> Seq(Functions)]
        /\ work_queue'[s] = <<>>
        /\ \A r \in Seqs \ {s} : work_queue'[r] = work_queue[r]
    BY <2>1 DEF TypeOK
  <2>3. MaxQueueSize # 0 => \A r \in Seqs : Len(work_queue'[r]) <= MaxQueueSize
    <3> SUFFICES ASSUME MaxQueueSize # 0, NEW r \in Seqs
                 PROVE  Len(work_queue'[r]) <= MaxQueueSize
      OBVIOUS
    <3>1. CASE r = s
      <4>1. Len(work_queue'[s]) = 0
        BY <2>2
      <4> QED BY <3>1, <4>1, LimitAssumption
    <3>2. CASE r # s
      BY <2>2, <3>2 DEF TypeOK
    <3> QED BY <3>1, <3>2
  <2> QED BY <2>1, <2>2, <2>3 DEF TypeOK, poolVars, workerVars, downVars
<1>3. CASE NewSequence(c)
  <2>1. CASE free_sequences = <<>>
    BY <1>3, <2>1 DEF NewSequence, TypeOK, workerVars, downVars
  <2>2. CASE free_sequences # <<>>
    <3>1. free_sequences \in Seq(Seqs)
      BY DEF TypeOK
    <3>2. /\ free_sequences[Len(free_sequences)] \in Seqs
          /\ SubSeq(free_sequences, 1, Len(free_sequences) - 1) \in Seq(Seqs)
      BY <2>2, <3>1, WithoutLast
    <3>3. /\ free_sequences' \in Seq(Seqs)
          /\ seq_shutdown' \in [Seqs -> BOOLEAN] /\ active' \in [Seqs -> BOOLEAN]
          /\ UNCHANGED all_sequences
      BY <1>3, <2>2, <3>2 DEF NewSequence, TypeOK
    <3>4. live' \subseteq all_sequences
      <4>1. PICK n \in Nat : n = Len(free_sequences) /\ n > 0
        BY <2>2, <3>1, AtEnds
      <4>2. PICK s \in Seqs : s = free_sequences[n]
        BY <3>2, <4>1
      <4>3. Listed(s)
        BY <4>1, <4>2 DEF Listed, FreeHas
      <4> QED BY <1>3, <2>2, <4>1, <4>2, <4>3 DEF NewSequence, Owned, Listings, TypeOK
    <3> QED BY <1>3, <3>3, <3>4 DEF NewSequence, TypeOK, workerVars, downVars
  <2> QED BY <2>1, <2>2
<1>4. CASE PushFree(c)
  <2>1. free_sequences' \in Seq(Seqs)
    BY <1>4, AtEnds DEF PushFree, TypeOK, Refs
  <2>2. call' \in [Clients -> CallTypes]
    BY <1>4 DEF PushFree, TypeOK, NoCall, Ops, CallTypes
  <2> QED BY <1>4, <2>1, <2>2 DEF PushFree, TypeOK, seqVars, workerVars, downVars,
                                  CallTypes
<1>5. CASE QueueSequence(c)
  <2>1. PICK s \in Seqs : s = call[c].seq
    BY <1>5 DEF QueueSequence, Refs
  <2>2. Queued(queued_sequences, s) \in Seq(Seqs) /\ Queued(queued_sequences, s) # <<>>
    <3>1. /\ Append(queued_sequences, s) \in Seq(Seqs)
          /\ Len(Append(queued_sequences, s)) = Len(queued_sequences) + 1
          /\ Len(queued_sequences) \in Nat
      BY AtEnds DEF TypeOK
    <3>2. Len(Append(queued_sequences, s)) # 0
      BY <3>1
    <3> QED BY <3>1, <3>2 DEF Queued
  <2>3. /\ Head(Queued(queued_sequences, s)) \in Seqs
        /\ Tail(Queued(queued_sequences, s)) \in Seq(Seqs)
    BY <2>2, AtEnds
  <2>4. queued_sequences' \in Seq(Seqs)
    BY <1>5, <2>1, <2>2, <2>3 DEF QueueSequence, TypeOK
  <2>5. call' \in [Clients -> CallTypes]
    <3>1. PICK k \in CallTypes : call' = [call EXCEPT ![c] = k]
      <4>1. /\ NoCall \in CallTypes
            /\ Call("drop", Head(Queued(queued_sequences, s)), None) \in CallTypes
            /\ \A w \in Workers : Call("start", s, w) \in CallTypes
        BY <2>3 DEF NoCall, Call, Ops, CallTypes
      <4>2. CASE TakeWorker(c, s)
        <5>1. PICK w \in Workers : call' = [call EXCEPT ![c] = Call("start", s, w)]
          BY <4>2 DEF TakeWorker, TypeOK
        <5> QED BY <4>1, <5>1
      <4>3. CASE \/ call' = [call EXCEPT ![c] = NoCall]
                 \/ call' = [call EXCEPT ![c] =
                               Call("drop", Head(Queued(queued_sequences, s)), None)]
        BY <4>1, <4>3
      <4> QED BY <1>5, <2>1, <4>2, <4>3 DEF QueueSequence
    <3> QED BY <3>1 DEF TypeOK, CallTypes
  <2>6. /\ pc' \in [Workers -> Pcs]
        /\ active_workers' \subseteq Workers /\ available_workers' \subseteq Workers
    BY <1>5, <2>1 DEF QueueSequence, TakeWorker, TypeOK, Pcs
  <2> QED BY <1>5, <2>4, <2>5, <2>6 DEF QueueSequence, TypeOK, seqVars, downVars,
                                        CallTypes
<1>6. CASE DropSequence(c)
  <2>1. PICK s \in Seqs : s = call[c].seq
    BY <1>6 DEF DropSequence, Refs
  <2>2. CASE CancelOne(s) /\ UNCHANGED call
    <3>1. /\ work_queue' \in [Seqs -> Seq(Functions)]
          /\ MaxQueueSize # 0 => \A r \in Seqs : Len(work_queue'[r]) <= MaxQueueSize
          /\ status' \in [Functions -> Statuses]
      BY <2>2, TypeCancelOne
    <3> QED BY <1>6, <2>2, <3>1 DEF DropSequence, TypeOK, poolVars, workerVars, downVars
  <2>3. CASE call' = [call EXCEPT ![c] = NoCall] /\ UNCHANGED <<work_queue, status>>
    <3>1. call' \in [Clients -> CallTypes]
      BY <2>3 DEF TypeOK, NoCall, Ops, CallTypes
    <3> QED BY <1>6, <2>3, <3>1
            DEF DropSequence, TypeOK, poolVars, workerVars, downVars, CallTypes
  <2> QED BY <1>6, <2>1, <2>2, <2>3 DEF DropSequence
<1>7. CASE StartWorker(c)
  <2>1. /\ call[c].worker \in Workers /\ call[c].seq \in Seqs
        /\ tasks' = [tasks EXCEPT ![call[c].worker] = Append(@, call[c].seq)]
    BY <1>7 DEF StartWorker, Refs
  <2>2. Append(tasks[call[c].worker], call[c].seq) \in Seq(Seqs)
    BY <2>1, AtEnds DEF TypeOK
  <2>3. tasks' \in [Workers -> Seq(Seqs)]
    BY <2>1, <2>2 DEF TypeOK
  <2>4. call' \in [Clients -> CallTypes]
    BY <1>7 DEF StartWorker, TypeOK, NoCall, Ops, CallTypes
  <2> QED BY <1>7, <2>3, <2>4 DEF StartWorker, TypeOK, seqVars, poolVars, downVars,
                                  CallTypes
<1> QED BY <1>1, <1>2, <1>3, <1>4, <1>5, <1>6, <1>7 DEF ClientStep

LEMMA TypeAdd ==
  ASSUME TypeOK, NEW c \in Clients, NEW s \in Seqs, NEW f \in Functions, Add(c, s, f)
  PROVE  TypeOK'
<1>1. CASE seq_shutdown[s]
  BY <1>1 DEF Add, TypeOK, Statuses, poolVars, workerVars, downVars
<1>2. CASE ~seq_shutdown[s]
  <2> DEFINE kept == IF Overflows(s) THEN Tail(work_queue[s]) ELSE work_queue[s]
             q == Append(kept, f)
  <2>1. work_queue[s] \in Seq(Functions)
    BY DEF TypeOK
  <2>2. /\ kept \in Seq(Functions) /\ Len(kept) \in Nat
        /\ MaxQueueSize # 0 => Len(kept) < MaxQueueSize
    <3>1. CASE Overflows(s)
      <4>1. Len(work_queue[s]) = MaxQueueSize /\ MaxQueueSize > 0
        BY <2>1, <3>1, LimitAssumption DEF Overflows, TypeOK
      <4>2. work_queue[s] # <<>>
        BY <2>1, <4>1
      <4>3. /\ Tail(work_queue[s]) \in Seq(Functions)
            /\ Len(Tail(work_queue[s])) = MaxQueueSize - 1
        BY <2>1, <4>1, <4>2, AtEnds
      <4> QED BY <3>1, <4>1, <4>3, LimitAssumption
    <3>2. CASE ~Overflows(s)
      BY <2>1, <3>2, LimitAssumption DEF Overflows
    <3> QED BY <3>1, <3>2
  <2>3. /\ work_queue' = [work_queue EXCEPT ![s] = q]
        /\ call' = [call EXCEPT ![c] = IF QueuesSequence(s, q)
                                       THEN Call("queue", s, None) ELSE NoCall]
    BY <1>2 DEF Add
  <2>4. status' \in [Functions -> Statuses]
    BY <1>2 DEF Add, TypeOK, Statuses
  <2> HIDE DEF kept
  <2>5. /\ q \in Seq(Functions)
        /\ MaxQueueSize # 0 => Len(q) <= MaxQueueSize
    BY <2>2, AtEnds, LimitAssumption
  <2> HIDE DEF q
  <2>6. call' \in [Clients -> CallTypes]
    BY <2>3 DEF TypeOK, NoCall, Call, Ops, CallTypes
  <2>7. /\ work_queue' \in [Seqs -> Seq(Functions)]
        /\ MaxQueueSize # 0 => \A r \in Seqs : Len(work_queue'[r]) <= MaxQueueSize
    BY <2>3, <2>5 DEF TypeOK
  <2> QED BY <2>4, <2>6, <2>7 DEF Add, TypeOK, poolVars, workerVars, downVars, CallTypes
<1> QED BY <1>1, <1>2

LEMMA TypeWorkers ==
  ASSUME TypeOK, Refs, NEW w \in Workers, WorkerStep(w)
  PROVE  TypeOK'
<1>1. CASE GetNextTask(w)
  <2>1. CASE exit[w] /\ pc' = [pc EXCEPT ![w] = "gone"] /\ UNCHANGED <<tasks, seq>>
    BY <1>1, <2>1 DEF GetNextTask, TypeOK, Pcs, seqVars, poolVars, downVars
  <2>2. CASE /\ tasks[w] # <<>>
             /\ pc' = [pc EXCEPT ![w] = "next"]
             /\ seq' = [seq EXCEPT ![w] = Head(tasks[w])]
             /\ tasks' = [tasks EXCEPT ![w] = Tail(@)]
    <3>1. Head(tasks[w]) \in Seqs /\ Tail(tasks[w]) \in Seq(Seqs)
      BY <2>2, AtEnds DEF TypeOK
    <3>2. tasks' \in [Workers -> Seq(Seqs)] /\ seq' \in [Workers -> Seqs \cup {None}]
      BY <2>2, <3>1 DEF TypeOK
    <3> QED BY <1>1, <2>2, <3>2 DEF GetNextTask, TypeOK, Pcs, seqVars, poolVars,
                                    downVars
  <2> QED BY <1>1, <2>1, <2>2 DEF GetNextTask
<1>2. CASE NextFunction(w)
  <2>1. PICK s \in Seqs : s = seq[w]
    BY <1>2 DEF NextFunction, Refs, Working
  <2>2. /\ work_queue' \in [Seqs -> Seq(Functions)]
        /\ MaxQueueSize # 0 => \A r \in Seqs : Len(work_queue'[r]) <= MaxQueueSize
        /\ Head(work_queue[s]) \in Functions
    BY <1>2, <2>1, TypeTail DEF NextFunction
  <2>3. /\ active' \in [Seqs -> BOOLEAN] /\ pc' \in [Workers -> Pcs]
        /\ run' \in [Workers -> Functions \cup {None}]
        /\ status' \in [Functions -> Statuses]
    BY <1>2, <2>1, <2>2 DEF NextFunction, TypeOK, Pcs, Statuses
  <2> QED BY <1>2, <2>2, <2>3 DEF NextFunction, TypeOK, poolVars, downVars
<1>3. CASE FunctionDone(w)
  BY <1>3 DEF FunctionDone, TypeOK, Refs, Pcs, Statuses, seqVars, poolVars, downVars
<1>4. CASE NoFunction(w)
  BY <1>4 DEF NoFunction, GoesInactive, TypeOK, Refs, Pcs, Working, poolVars, downVars
<1>5. CASE DrainSequence(w)
  <2>1. PICK s \in Seqs : s = seq[w]
    BY <1>5 DEF DrainSequence, Refs, Working
  <2>2. /\ pc' \in [Workers -> Pcs] /\ active' \in [Seqs -> BOOLEAN]
    BY <1>5 DEF DrainSequence, GoesInactive, TypeOK, Pcs
  <2>3. /\ work_queue' \in [Seqs -> Seq(Functions)]
        /\ MaxQueueSize # 0 => \A r \in Seqs : Len(work_queue'[r]) <= MaxQueueSize
        /\ status' \in [Functions -> Statuses]
    <3>1. CASE CancelOne(s)
      BY <3>1, TypeCancelOne
    <3>2. CASE UNCHANGED <<work_queue, status>>
      BY <3>2 DEF TypeOK
    <3> QED BY <1>5, <2>1, <3>1, <3>2 DEF DrainSequence
  <2> QED BY <1>5, <2>2, <2>3 DEF DrainSequence, TypeOK, poolVars, downVars
<1>6. CASE SequenceNoLongerActive(w)
  <2>1. free_sequences' \in Seq(Seqs)
    BY <1>6, AtEnds DEF SequenceNoLongerActive, TypeOK, Refs
  <2> QED BY <1>6, <2>1 DEF SequenceNoLongerActive, TypeOK, Pcs, seqVars, downVars
<1>7. CASE AssignWorkerToNextSequence(w)
  <2>1. CASE /\ queued_sequences # <<>>
             /\ seq' = [seq EXCEPT ![w] = Head(queued_sequences)]
             /\ queued_sequences' = Tail(queued_sequences)
             /\ pc' = [pc EXCEPT ![w] = "next"]
             /\ UNCHANGED <<active_workers, available_workers>>
    <3>1. Head(queued_sequences) \in Seqs /\ queued_sequences' \in Seq(Seqs)
      BY <2>1, AtEnds DEF TypeOK
    <3> QED BY <1>7, <2>1, <3>1 DEF AssignWorkerToNextSequence, TypeOK, Pcs, seqVars,
                                    downVars
  <2>2. CASE /\ seq' = [seq EXCEPT ![w] = None] /\ pc' = [pc EXCEPT ![w] = "wait"]
             /\ UNCHANGED queued_sequences
    <3>1. active_workers' \subseteq Workers /\ available_workers' \subseteq Workers
      BY <1>7 DEF AssignWorkerToNextSequence, Erased, TypeOK
    <3> QED BY <1>7, <2>2, <3>1 DEF AssignWorkerToNextSequence, TypeOK, Pcs, seqVars,
                                    downVars
  <2> QED BY <1>7, <2>1, <2>2 DEF AssignWorkerToNextSequence
<1> QED BY <1>1, <1>2, <1>3, <1>4, <1>5, <1>6, <1>7 DEF WorkerStep

LEMMA TypeShutDown ==
  ASSUME TypeOK, InitiateShutDown \/ ShutDownStep
  PROVE  TypeOK'
<1>1. CASE InitiateShutDown
  BY <1>1 DEF InitiateShutDown, TypeOK, seqVars, workerVars
<1>2. CASE InitiateSequenceShutDown
  BY <1>2 DEF InitiateSequenceShutDown, TypeOK, poolVars, workerVars
<1>3. CASE BeginWait
  <2>1. CASE stage' = "join" /\ UNCHANGED <<seq_shutdown, has_pool, waiting>>
    BY <1>3, <2>1 DEF BeginWait, TypeOK, poolVars, workerVars
  <2>2. CASE \E s \in all_sequences :
               /\ seq_shutdown' = [seq_shutdown EXCEPT ![s] = TRUE]
                                      /\ has_pool' = [has_pool EXCEPT ![s] = FALSE]
                                      /\ waiting' = {s} /\ stage' = "waiting"
    BY <1>3, <2>2 DEF BeginWait, TypeOK, poolVars, workerVars
  <2> QED BY <1>3, <2>1, <2>2 DEF BeginWait
<1>4. CASE WaitForShutDown
  <2>1. /\ stage' \in {"waiting", "wait"} /\ waiting' \subseteq Seqs
        /\ \E s \in Seqs : CancelOne(s) \/ UNCHANGED <<work_queue, status>>
    BY <1>4 DEF WaitForShutDown, TypeOK
  <2>2. /\ work_queue' \in [Seqs -> Seq(Functions)]
        /\ MaxQueueSize # 0 => \A r \in Seqs : Len(work_queue'[r]) <= MaxQueueSize
        /\ status' \in [Functions -> Statuses]
    BY <2>1, TypeCancelOne DEF TypeOK
  <2> QED BY <1>4, <2>1, <2>2 DEF WaitForShutDown, TypeOK, poolVars, workerVars
<1>5. ASSUME NEW w \in Workers, ShutDownWorker(w) PROVE TypeOK'
  BY <1>5 DEF ShutDownWorker, TypeOK, seqVars, downVars
<1>6. CASE ShutDownComplete
  BY <1>6 DEF ShutDownComplete, TypeOK, seqVars, poolVars, workerVars
<1> QED BY <1>1, <1>2, <1>3, <1>4, <1>5, <1>6 DEF ShutDownStep

LEMMA TypeKept ==
  ASSUME TypeOK, Refs, Owned, Next
  PROVE  TypeOK'
BY TypeClients, TypeAdd, TypeWorkers, TypeShutDown DEF Next

CInv == TypeOK /\ Refs /\ Held /\ Hired /\ Closing /\ Answers /\ Owned

-----------------------------------------------------------------------------
\* One caller goes on to what is left of its call.
LEMMA CallRefs ==
  ASSUME TypeOK, Refs, NEW c \in Clients, NEW k,
         call' = [call EXCEPT ![c] = k],
         k.op \in {"queue", "start", "free", "drop"} => k.seq \in Seqs,
         k.op = "start" => k.worker \in Workers
  PROVE  \A d \in Clients :
           /\ call'[d].op \in {"queue", "start", "free", "drop"}
                => call'[d].seq \in Seqs
           /\ call'[d].op = "start" => call'[d].worker \in Workers
<1>1. call'[c] = k /\ \A d \in Clients \ {c} : call'[d] = call[d]
  BY DEF TypeOK
<1> QED BY <1>1 DEF Refs

LEMMA RefsKept ==
  ASSUME CInv, TypeOK', Next
  PROVE  Refs'
<1>1. TypeOK /\ Refs
  BY DEF CInv
<1>2. ASSUME NEW c \in Clients, NewSequence(c) PROVE Refs'
  BY <1>1, <1>2 DEF NewSequence, Refs, workerVars, downVars
<1>3. ASSUME NEW c \in Clients, NEW s \in Seqs, FreeSequence(c, s) PROVE Refs'
  BY <1>1, <1>3 DEF FreeSequence, Refs, Call, NoCall, TypeOK, poolVars, workerVars,
                    downVars
<1>4. ASSUME NEW c \in Clients, NEW s \in Seqs, CancelPendingFunctions(c, s) PROVE Refs'
  BY <1>1, <1>4 DEF CancelPendingFunctions, Refs, poolVars, workerVars, downVars
<1>5. ASSUME NEW c \in Clients, NEW s \in Seqs, NEW f \in Functions, Add(c, s, f)
      PROVE  Refs'
  <2>1. \/ call' = call \/ call' = [call EXCEPT ![c] = NoCall]
        \/ call' = [call EXCEPT ![c] = Call("queue", s, None)]
    BY <1>5 DEF Add
  <2>2. \A d \in Clients :
          /\ call'[d].op \in {"queue", "start", "free", "drop"} => call'[d].seq \in Seqs
          /\ call'[d].op = "start" => call'[d].worker \in Workers
    <3>1. CASE call' = call
      BY <1>1, <3>1 DEF Refs
    <3>2. CASE call' = [call EXCEPT ![c] = NoCall]
      BY <1>1, <3>2, CallRefs DEF NoCall
    <3>3. CASE call' = [call EXCEPT ![c] = Call("queue", s, None)]
      BY <1>1, <3>3, CallRefs DEF Call
    <3> QED BY <2>1, <3>1, <3>2, <3>3
  <2>3. UNCHANGED <<shutdown, exit, pc, seq, run, stage>>
    BY <1>5 DEF Add, poolVars, workerVars, downVars
  <2> QED BY <1>1, <2>2, <2>3 DEF Refs
<1>6. ASSUME NEW c \in Clients, ClientStep(c) PROVE Refs'
  <2>1. CASE PushFree(c) \/ StartWorker(c)
    <3>1. /\ call' = [call EXCEPT ![c] = NoCall]
          /\ UNCHANGED <<shutdown, exit, pc, seq, run, stage>>
      BY <2>1 DEF PushFree, StartWorker, poolVars, workerVars, downVars
    <3>2. \A d \in Clients :
            /\ call'[d].op \in {"queue", "start", "free", "drop"}
                 => call'[d].seq \in Seqs
            /\ call'[d].op = "start" => call'[d].worker \in Workers
      BY <1>1, <3>1, CallRefs DEF NoCall
    <3> QED BY <1>1, <3>1, <3>2 DEF Refs
  <2>2. CASE QueueSequence(c)
    <3>1. PICK s \in Seqs : s = call[c].seq
      BY <1>1, <2>2 DEF QueueSequence, Refs
    <3>2. Head(Queued(queued_sequences, s)) \in Seqs
      BY <1>1, Lengthened DEF TypeOK, Queued
    <3>3. /\ \/ pc' = pc
             \/ \E w \in Workers : pc' = [pc EXCEPT ![w] = "wait"]
          /\ \/ call' = [call EXCEPT ![c] = NoCall]
             \/ call' = [call EXCEPT ![c] = Call("drop", Head(Queued(queued_sequences, s)), None)]
             \/ \E w \in Workers : call' = [call EXCEPT ![c] = Call("start", s, w)]
      BY <1>1, <2>2, <3>1 DEF QueueSequence, TakeWorker, TypeOK
    <3>4. \A d \in Clients :
            /\ call'[d].op \in {"queue", "start", "free", "drop"}
                 => call'[d].seq \in Seqs
            /\ call'[d].op = "start" => call'[d].worker \in Workers
      <4>1. CASE call' = [call EXCEPT ![c] = NoCall]
        BY <1>1, <4>1, CallRefs DEF NoCall
      <4>2. CASE call' = [call EXCEPT ![c] = Call("drop", Head(Queued(queued_sequences, s)), None)]
        BY <1>1, <3>2, <4>2, CallRefs DEF Call
      <4>3. ASSUME NEW w \in Workers, call' = [call EXCEPT ![c] = Call("start", s, w)]
            PROVE  \A d \in Clients :
                     /\ call'[d].op \in {"queue", "start", "free", "drop"}
                          => call'[d].seq \in Seqs
                     /\ call'[d].op = "start" => call'[d].worker \in Workers
        BY <1>1, <4>3, CallRefs DEF Call
      <4> QED BY <3>3, <4>1, <4>2, <4>3
    <3>5. /\ \A w \in Workers : pc'[w] \in Working \cup {"release"} => seq[w] \in Seqs
          /\ \A w \in Workers : pc'[w] = "run" => run[w] \in Functions
      BY <1>1, <3>3 DEF Refs, Working, TypeOK
    <3> QED BY <1>1, <2>2, <3>4, <3>5 DEF QueueSequence, Refs, downVars
  <2>3. CASE DropSequence(c)
    BY <1>1, <2>3 DEF DropSequence, Refs, NoCall, TypeOK, poolVars, workerVars, downVars
  <2> QED BY <1>6, <2>1, <2>2, <2>3 DEF ClientStep
<1>7. ASSUME NEW w \in Workers, WorkerStep(w) PROVE Refs'
  <2>1. CASE GetNextTask(w)
    <3>1. tasks[w] # <<>> => Head(tasks[w]) \in Seqs
      BY <1>1, AtEnds DEF TypeOK
    <3> QED BY <1>1, <2>1, <3>1 DEF GetNextTask, Refs, Working, TypeOK, downVars,
                                    poolVars
  <2>2. CASE NextFunction(w)
    <3>1. run'[w] \in Functions
      BY <1>1, <2>2, TypeTail DEF NextFunction, Refs, Working, TypeOK
    <3> QED BY <1>1, <2>2, <3>1 DEF NextFunction, Refs, Working, TypeOK, downVars,
                                    poolVars
  <2>3. CASE FunctionDone(w) \/ NoFunction(w) \/ DrainSequence(w) \/ SequenceNoLongerActive(w)
    <3>1. /\ UNCHANGED <<seq, call, stage, shutdown, exit>>
          /\ \A v \in Workers \ {w} : pc'[v] = pc[v] /\ run'[v] = run[v]
          /\ pc'[w] # "run"
          /\ pc'[w] \in Working \cup {"release"} => pc[w] \in Working
      BY <1>1, <2>3 DEF FunctionDone, NoFunction, DrainSequence, SequenceNoLongerActive,
                        Working, TypeOK, poolVars, downVars
    <3> QED BY <1>1, <3>1 DEF Refs
  <2>4. CASE AssignWorkerToNextSequence(w)
    <3>1. queued_sequences # <<>> => Head(queued_sequences) \in Seqs
      BY <1>1, AtEnds DEF TypeOK
    <3> QED BY <1>1, <2>4, <3>1 DEF AssignWorkerToNextSequence, Refs, Working, TypeOK,
                                    downVars
  <2> QED BY <1>7, <2>1, <2>2, <2>3, <2>4 DEF WorkerStep
<1>8. CASE InitiateShutDown
  BY <1>1, <1>8 DEF InitiateShutDown, Refs, workerVars
<1>9. CASE ShutDownStep
  <2>1. /\ UNCHANGED <<call, pc, seq, run, shutdown>>
        /\ stage # "up" /\ stage' # "up"
    <3>1. CASE InitiateSequenceShutDown
      BY <3>1 DEF InitiateSequenceShutDown, poolVars, workerVars
    <3>2. CASE BeginWait
      BY <3>2 DEF BeginWait, poolVars, workerVars
    <3>3. CASE WaitForShutDown
      BY <3>3 DEF WaitForShutDown, poolVars, workerVars
    <3>4. CASE \E w \in Workers : ShutDownWorker(w)
      BY <3>4 DEF ShutDownWorker, downVars
    <3>5. CASE ShutDownComplete
      BY <3>5 DEF ShutDownComplete, poolVars, workerVars
    <3> QED BY <1>9, <3>1, <3>2, <3>3, <3>4, <3>5 DEF ShutDownStep
  <2> QED BY <1>1, <2>1 DEF Refs
<1> QED BY <1>2, <1>3, <1>4, <1>5, <1>6, <1>7, <1>8, <1>9 DEF Next

-----------------------------------------------------------------------------
\* Whoever had a sequence in hand still has it.
LEMMA StillInHand ==
  ASSUME UNCHANGED <<queued_sequences, tasks>>, NEW s \in Seqs,
         \A c \in Clients :
           call[c].seq = s /\ call[c].op \in {"queue", "start", "drop"} =>
                              call'[c].seq = s /\ call'[c].op \in {"queue", "start", "drop"},
         \A w \in Workers : WorkerHas(w, s) => WorkerHas(w, s)',
         InHand(s)
  PROVE  InHand(s)'
<1>1. /\ \A i : QueueHas(i, s)' <=> QueueHas(i, s)
      /\ \A w, i : TaskHas(w, i, s)' <=> TaskHas(w, i, s)
  BY DEF QueueHas, TaskHas
<1>2. ASSUME NEW c \in Clients, CallHas(c, s) \/ (call[c].op = "drop" /\ call[c].seq = s)
      PROVE  InHand(s)'
  BY <1>2 DEF CallHas, InHand, Carried
<1> QED BY <1>1, <1>2 DEF InHand, Carried

LEMMA HeldByClients ==
  ASSUME CInv, NEW c \in Clients,
         \/ NewSequence(c)
         \/ \E s \in Seqs : FreeSequence(c, s) \/ CancelPendingFunctions(c, s)
         \/ \E s \in Seqs, f \in Functions : Add(c, s, f)
  PROVE  Held'
<1>1. TypeOK /\ Held
  BY DEF CInv
<1>2. UNCHANGED <<queued_sequences, tasks, pc, seq, shutdown>> /\ call[c] = NoCall
  BY DEF NewSequence, FreeSequence, CancelPendingFunctions, Add, poolVars, workerVars
<1>3. \A d \in Clients \ {c} : call'[d] = call[d]
  BY <1>1 DEF NewSequence, FreeSequence, CancelPendingFunctions, Add, TypeOK
<1>4. \A s \in Seqs : InHand(s) => InHand(s)'
  BY <1>2, <1>3, StillInHand DEF NoCall, WorkerHas
<1>5. \A s \in Seqs, w \in Workers : WorkerHas(w, s)' <=> WorkerHas(w, s)
  BY <1>2 DEF WorkerHas
<1>6. CASE NewSequence(c)
  <2>1. /\ UNCHANGED work_queue
        /\ \A s \in Seqs : active'[s] => active[s]
        /\ \A s \in Seqs : seq_shutdown'[s] => seq_shutdown[s]
    BY <1>1, <1>6 DEF NewSequence, TypeOK
  <2> QED BY <1>1, <1>2, <1>4, <1>5, <1>6, <2>1 DEF Held, NewSequence
<1>7. ASSUME NEW s \in Seqs, FreeSequence(c, s) PROVE Held'
  BY <1>1, <1>2, <1>4, <1>5, <1>7 DEF Held, FreeSequence, TypeOK
<1>8. ASSUME NEW s \in Seqs, CancelPendingFunctions(c, s) PROVE Held'
  BY <1>1, <1>2, <1>4, <1>5, <1>8 DEF Held, CancelPendingFunctions, TypeOK
<1>9. ASSUME NEW s \in Seqs, NEW f \in Functions, Add(c, s, f) PROVE Held'
  <2>1. UNCHANGED <<active, seq_shutdown>>
    BY <1>9 DEF Add
  <2>2. CASE seq_shutdown[s]
    BY <1>1, <1>2, <1>4, <1>5, <1>9, <2>1, <2>2 DEF Held, Add
  <2>3. CASE ~seq_shutdown[s]
    <3> DEFINE kept == IF Overflows(s) THEN Tail(work_queue[s]) ELSE work_queue[s]
               q == Append(kept, f)
    <3>1. \A r \in Seqs \ {s} : work_queue'[r] = work_queue[r]
      BY <1>1, <1>9, <2>3 DEF Add, TypeOK
    <3>2. InHand(s)'
      <4>1. CASE QueuesSequence(s, q)
        <5>1. call'[c] = Call("queue", s, None)
          BY <1>1, <1>9, <2>3, <4>1 DEF Add, TypeOK
        <5> QED BY <5>1 DEF Call, InHand, Carried, CallHas
      <4>2. CASE active[s]
        BY <1>1, <1>4, <4>2 DEF Held, InHand, Carried
      <4>3. CASE Len(q) # 1
        <5>1. work_queue[s] # <<>>
          <6> SUFFICES ASSUME work_queue[s] = <<>> PROVE FALSE
            OBVIOUS
          <6>1. ~Overflows(s)
            BY LimitAssumption DEF Overflows
          <6>2. q = Append(<<>>, f)
            BY <6>1
          <6> QED BY <4>3, <6>2
        <5> QED BY <1>1, <1>4, <2>3, <5>1 DEF Held
      <4> QED BY <4>1, <4>2, <4>3 DEF QueuesSequence
    <3> HIDE DEF q, kept
    <3> QED BY <1>1, <1>2, <1>4, <1>5, <2>1, <2>3, <3>1, <3>2 DEF Held
  <2> QED BY <2>2, <2>3
<1> QED BY <1>6, <1>7, <1>8, <1>9

LEMMA HeldByCalls ==
  ASSUME CInv, TypeOK', NEW c \in Clients, ClientStep(c)
  PROVE  Held'
<1>1. TypeOK /\ Held /\ Refs
  BY DEF CInv
<1>2. UNCHANGED <<active, seq_shutdown, shutdown, seq>>
  BY DEF ClientStep, PushFree, QueueSequence, DropSequence, StartWorker, seqVars,
         poolVars, workerVars
<1>3. \A d \in Clients \ {c} : call'[d] = call[d]
  BY <1>1 DEF ClientStep, PushFree, QueueSequence, DropSequence, StartWorker,
              TakeWorker, TypeOK
<1>4. \A s \in Seqs, w \in Workers : WorkerHas(w, s) => WorkerHas(w, s)'
  BY <1>1, <1>2 DEF ClientStep, PushFree, QueueSequence, DropSequence, StartWorker,
                    TakeWorker, TypeOK, seqVars, poolVars, workerVars, WorkerHas,
                    Working
<1>5. ASSUME UNCHANGED work_queue, \A s \in Seqs : InHand(s) => InHand(s)' PROVE Held'
  BY <1>1, <1>2, <1>4, <1>5 DEF Held
<1>6. CASE PushFree(c)
  <2>1. UNCHANGED <<queued_sequences, tasks, work_queue>>
    BY <1>6 DEF PushFree, seqVars, workerVars
  <2>2. \A s \in Seqs : InHand(s) => InHand(s)'
    BY <1>3, <1>4, <1>6, <2>1, StillInHand DEF PushFree
  <2> QED BY <1>5, <2>1, <2>2
<1>7. CASE QueueSequence(c)
  <2>1. PICK s \in Seqs : s = call[c].seq
    BY <1>1, <1>7 DEF QueueSequence, Refs
  <2>2. UNCHANGED <<work_queue, tasks>> /\ call[c].op = "queue"
    BY <1>7 DEF QueueSequence, seqVars
  <2>3. CASE TakeWorker(c, s) /\ UNCHANGED queued_sequences
    <3>1. call'[c].op = "start" /\ call'[c].seq = s
      BY <1>1, <2>3 DEF TakeWorker, Call, TypeOK
    <3>2. \A r \in Seqs : InHand(r) => InHand(r)'
      BY <1>3, <1>4, <2>1, <2>2, <2>3, <3>1, StillInHand
    <3> QED BY <1>5, <2>2, <3>2
  <2>4. CASE NoWorker
    <3> DEFINE n == Len(queued_sequences)
               q == Queued(queued_sequences, s)
    <3>1. /\ n \in Nat /\ q \in Seq(Seqs) /\ Len(q) = n + 1 /\ q # <<>> /\ q[n + 1] = s
          /\ \A i \in 1..n : q[i] = queued_sequences[i]
      <4>1. queued_sequences \in Seq(Seqs) /\ q = Append(queued_sequences, s)
        BY <1>1 DEF TypeOK, Queued
      <4>2. /\ n \in Nat /\ q \in Seq(Seqs) /\ Len(q) = n + 1 /\ q[n + 1] = s
            /\ \A i \in 1..n : q[i] = queued_sequences[i]
        BY <4>1, AtEnds
      <4>3. q # <<>>
        BY <4>1, Lengthened
      <4> QED BY <4>2, <4>3
    <3> HIDE DEF n
    <3>2. \A r \in Seqs, i \in Nat :
            QueueHas(i, r) => i \in 1..Len(q) /\ q[i] = r
      BY <3>1 DEF QueueHas, n
    <3>3. ASSUME NEW r \in Seqs, InHand(r)
          PROVE  InHand(r)' \/ \E i \in 1..Len(q) : q[i] = r
      <4>1. CASE \E i \in Nat : QueueHas(i, r)
        BY <3>2, <4>1
      <4>2. CASE \E d \in Clients :
                   CallHas(d, r) \/ (call[d].op = "drop" /\ call[d].seq = r)
        <5>1. CASE r = s
          <6>1. n + 1 \in 1..Len(q) /\ q[n + 1] = r
            BY <3>1, <5>1
          <6> QED BY <6>1
        <5>2. CASE r # s
          BY <1>3, <2>1, <4>2, <5>2 DEF CallHas, InHand, Carried
        <5> QED BY <5>1, <5>2
      <4>3. CASE \E w \in Workers : WorkerHas(w, r)
        BY <1>4, <4>3 DEF InHand, Carried
      <4>4. CASE \E w \in Workers, i \in Nat : TaskHas(w, i, r)
        BY <2>2, <4>4 DEF InHand, Carried, TaskHas
      <4> QED BY <3>3, <4>1, <4>2, <4>3, <4>4 DEF InHand, Carried
    <3>4. ASSUME NEW r \in Seqs, NEW i \in 1..Len(q), q[i] = r PROVE InHand(r)'
      <4>1. CASE queued_sequences' = q
        <5>1. QueueHas(i, r)' /\ i \in Nat
          BY <3>1, <3>4, <4>1 DEF QueueHas
        <5> QED BY <5>1 DEF InHand, Carried
      <4>2. CASE /\ queued_sequences' = Tail(q)
                 /\ call' = [call EXCEPT ![c] = Call("drop", Head(q), None)]
        <5>1. CASE i = 1
          <6>1. Head(q) = q[1]
            BY <3>1, AtEnds
          <6>2. call'[c].op = "drop" /\ call'[c].seq = r
            BY <1>1, <3>4, <4>2, <5>1, <6>1 DEF TypeOK, Call
          <6> QED BY <6>2 DEF InHand
        <5>2. CASE i # 1
          <6>1. Len(Tail(q)) = Len(q) - 1 /\ \A j \in 1..Len(Tail(q)) : Tail(q)[j] = q[j + 1]
            BY <3>1, AtEnds
          <6>2. i - 1 \in 1..Len(Tail(q)) /\ i - 1 \in Nat /\ (i - 1) + 1 = i
            BY <3>1, <5>2, <6>1
          <6>3. QueueHas(i - 1, r)'
            BY <3>4, <4>2, <6>1, <6>2 DEF QueueHas
          <6> QED BY <6>2, <6>3 DEF InHand, Carried
        <5> QED BY <5>1, <5>2
      <4> QED BY <1>7, <2>1, <2>4, <4>1, <4>2 DEF QueueSequence
    <3> HIDE DEF q
    <3>5. \A r \in Seqs : InHand(r) => InHand(r)'
      BY <3>3, <3>4
    <3> QED BY <1>5, <2>2, <3>5
  <2> QED BY <1>7, <2>1, <2>3, <2>4 DEF QueueSequence
<1>8. CASE DropSequence(c)
  <2>1. PICK s \in Seqs : s = call[c].seq /\ call[c].op = "drop"
    BY <1>1, <1>8 DEF DropSequence, Refs
  <2>2. UNCHANGED <<queued_sequences, tasks, pc>>
    BY <1>8 DEF DropSequence, poolVars, workerVars
  <2>3. CASE CancelOne(s) /\ UNCHANGED call
    <3>1. \A r \in Seqs : InHand(r) => InHand(r)'
      BY <1>4, <2>2, <2>3, StillInHand
    <3>2. \A r \in Seqs : work_queue'[r] # <<>> => work_queue[r] # <<>>
      BY <1>1, <2>3 DEF CancelOne, TypeOK
    <3> QED BY <1>1, <1>2, <1>4, <3>1, <3>2 DEF Held
  <2>4. CASE work_queue[s] = <<>> /\ UNCHANGED work_queue
    <3>1. \A r \in Seqs \ {s} : InHand(r) => InHand(r)'
      BY <1>3, <1>4, <2>1, <2>2, StillInHand
    <3> QED BY <1>1, <1>2, <1>4, <2>4, <3>1 DEF Held
  <2> QED BY <1>8, <2>1, <2>3, <2>4 DEF DropSequence
<1>9. CASE StartWorker(c)
  <2>1. PICK s \in Seqs, w \in Workers :
          /\ s = call[c].seq /\ w = call[c].worker
          /\ tasks' = [tasks EXCEPT ![w] = Append(@, s)]
    BY <1>1, <1>9 DEF StartWorker, Refs
  <2>2. UNCHANGED <<work_queue, queued_sequences>>
    BY <1>9 DEF StartWorker, seqVars, poolVars
  <2>3. tasks[w] \in Seq(Seqs) /\ tasks'[w] = Append(tasks[w], s)
    BY <1>1, <2>1 DEF TypeOK
  <2>4. PICK n \in Nat :
          /\ n = Len(tasks[w]) /\ Len(tasks'[w]) = n + 1 /\ tasks'[w][n + 1] = s
          /\ \A i \in 1..n : tasks'[w][i] = tasks[w][i]
    BY <2>3, AtEnds
  <2>5. InHand(s)'
    <3>1. n + 1 \in Nat /\ TaskHas(w, n + 1, s)'
      BY <2>4 DEF TaskHas
    <3> QED BY <3>1 DEF InHand, Carried
  <2>6. ASSUME NEW r \in Seqs, InHand(r) PROVE InHand(r)'
    <3>1. \A v \in Workers, i \in Nat : TaskHas(v, i, r) => TaskHas(v, i, r)'
      <4> SUFFICES ASSUME NEW v \in Workers, NEW i \in Nat, TaskHas(v, i, r)
                   PROVE  TaskHas(v, i, r)'
        OBVIOUS
      <4>1. CASE v = w
        BY <2>4, <4>1 DEF TaskHas
      <4>2. CASE v # w
        BY <1>1, <2>1, <4>2 DEF TaskHas, TypeOK
      <4> QED BY <4>1, <4>2
    <3>2. \A i \in Nat : QueueHas(i, r) => QueueHas(i, r)'
      BY <2>2 DEF QueueHas
    <3>3. \A d \in Clients : CallHas(d, r) \/ (call[d].op = "drop" /\ call[d].seq = r)
            => r = s \/ CallHas(d, r)' \/ (call'[d].op = "drop" /\ call'[d].seq = r)
      BY <1>3, <2>1 DEF CallHas
    <3> QED BY <1>4, <2>5, <2>6, <3>1, <3>2, <3>3 DEF InHand, Carried
  <2> QED BY <1>5, <2>2, <2>6
<1> QED BY <1>6, <1>7, <1>8, <1>9 DEF ClientStep

LEMMA HeldByWorkers ==
  ASSUME CInv, TypeOK', NEW w \in Workers, WorkerStep(w)
  PROVE  Held'
<1>1. TypeOK /\ Held /\ Refs
  BY DEF CInv
<1>2. UNCHANGED <<seq_shutdown, shutdown, call>>
  BY DEF WorkerStep, GetNextTask, NextFunction, FunctionDone, NoFunction, DrainSequence,
         SequenceNoLongerActive, AssignWorkerToNextSequence, seqVars, poolVars
<1>3. \A v \in Workers \ {w} :
        pc'[v] = pc[v] /\ seq'[v] = seq[v] /\ tasks'[v] = tasks[v]
  BY <1>1 DEF WorkerStep, GetNextTask, NextFunction, FunctionDone, NoFunction,
              DrainSequence, SequenceNoLongerActive, AssignWorkerToNextSequence, TypeOK
<1>4. \A r \in Seqs, v \in Workers \ {w} : WorkerHas(v, r)' <=> WorkerHas(v, r)
  BY <1>3 DEF WorkerHas
<1>5. CASE GetNextTask(w)
  <2>1. UNCHANGED <<work_queue, active, queued_sequences>> /\ pc[w] = "wait"
    BY <1>5 DEF GetNextTask, seqVars, poolVars
  <2>2. \A r \in Seqs, v \in Workers : WorkerHas(v, r) => WorkerHas(v, r)'
    BY <1>4, <2>1 DEF WorkerHas, Working
  <2>3. ASSUME NEW r \in Seqs, InHand(r) PROVE InHand(r)'
    <3>1. CASE \E i \in Nat : TaskHas(w, i, r)
      <4>1. CASE UNCHANGED tasks
        BY <3>1, <4>1 DEF InHand, Carried, TaskHas
      <4>2. CASE /\ tasks[w] # <<>>
                 /\ pc' = [pc EXCEPT ![w] = "next"]
                 /\ seq' = [seq EXCEPT ![w] = Head(tasks[w])]
                 /\ tasks' = [tasks EXCEPT ![w] = Tail(@)]
        <5>1. PICK i \in Nat : TaskHas(w, i, r)
          BY <3>1
        <5>2. tasks[w] \in Seq(Seqs) /\ tasks'[w] = Tail(tasks[w])
          BY <1>1, <4>2 DEF TypeOK
        <5>3. CASE i = 1
          <6>1. Head(tasks[w]) = r
            BY <4>2, <5>1, <5>2, <5>3, AtEnds DEF TaskHas
          <6>2. WorkerHas(w, r)'
            BY <1>1, <4>2, <6>1 DEF WorkerHas, Working, TypeOK
          <6> QED BY <6>2 DEF InHand, Carried
        <5>4. CASE i # 1
          <6>1. /\ Len(tasks[w]) \in Nat /\ Len(tasks'[w]) = Len(tasks[w]) - 1
                /\ \A j \in 1..Len(tasks'[w]) : tasks'[w][j] = tasks[w][j + 1]
            <7>1. /\ Len(tasks[w]) \in Nat /\ Len(Tail(tasks[w])) = Len(tasks[w]) - 1
                  /\ \A j \in 1..Len(Tail(tasks[w])) :
                       Tail(tasks[w])[j] = tasks[w][j + 1]
              BY <4>2, <5>2, AtEnds
            <7> QED BY <5>2, <7>1
          <6>2. PICK j \in Nat : i = j + 1 /\ j # 0
            <7>1. i >= 1
              BY <5>1, <6>1 DEF TaskHas
            <7>2. i - 1 \in Nat /\ i = (i - 1) + 1 /\ i - 1 # 0
              BY <5>4, <7>1
            <7> QED BY <7>2
          <6>3. TaskHas(w, j, r)'
            BY <5>1, <6>1, <6>2 DEF TaskHas
          <6> QED BY <6>3 DEF InHand, Carried
        <5> QED BY <5>3, <5>4
      <4> QED BY <1>5, <4>1, <4>2 DEF GetNextTask
    <3>2. CASE ~\E i \in Nat : TaskHas(w, i, r)
      <4>1. \A v \in Workers, i \in Nat : TaskHas(v, i, r) => TaskHas(v, i, r)'
        BY <1>3, <3>2 DEF TaskHas
      <4> QED BY <1>2, <2>1, <2>2, <2>3, <4>1 DEF InHand, Carried, CallHas, QueueHas
    <3> QED BY <3>1, <3>2
  <2> QED BY <1>1, <1>2, <2>1, <2>2, <2>3 DEF Held
<1>6. CASE NextFunction(w) \/ FunctionDone(w)
  <2>1. PICK s \in Seqs : s = seq[w]
    BY <1>1, <1>6 DEF NextFunction, FunctionDone, Refs, Working
  <2>2. UNCHANGED <<queued_sequences, tasks>>
    BY <1>6 DEF NextFunction, FunctionDone, poolVars
  <2>3. /\ WorkerHas(w, s) /\ WorkerHas(w, s)'
        /\ seq' = seq
    BY <1>1, <1>6, <2>1 DEF NextFunction, FunctionDone, TypeOK, WorkerHas, Working
  <2>4. \A r \in Seqs, v \in Workers : WorkerHas(v, r) => WorkerHas(v, r)'
    BY <1>4, <2>1, <2>3 DEF WorkerHas
  <2>5. \A r \in Seqs : InHand(r) => InHand(r)'
    BY <1>2, <2>2, <2>4, StillInHand
  <2>6. /\ \A r \in Seqs : active'[r] => active[r] \/ r = s
        /\ \A r \in Seqs \ {s} : work_queue'[r] = work_queue[r]
        /\ work_queue'[s] # <<>> => work_queue[s] # <<>>
    BY <1>1, <1>6, <2>1 DEF NextFunction, FunctionDone, seqVars, TypeOK
  <2> QED BY <1>1, <1>2, <2>3, <2>4, <2>5, <2>6 DEF Held
<1>7. CASE NoFunction(w) \/ DrainSequence(w)
  <2>1. PICK s \in Seqs : s = seq[w]
    BY <1>1, <1>7 DEF NoFunction, DrainSequence, Refs, Working
  <2>2. UNCHANGED <<queued_sequences, tasks, seq>> /\ pc[w] \in Working
    BY <1>7 DEF NoFunction, DrainSequence, poolVars, Working
  <2>3. \A r \in Seqs \ {s}, v \in Workers : WorkerHas(v, r) => WorkerHas(v, r)'
    BY <1>4, <2>1 DEF WorkerHas
  <2>4. \A r \in Seqs \ {s} : InHand(r) => InHand(r)'
    BY <1>2, <2>2, <2>3, StillInHand
  <2>5. /\ \A r \in Seqs \ {s} :
             work_queue'[r] = work_queue[r] /\ active'[r] = active[r]
        /\ work_queue'[s] # <<>> => work_queue[s] # <<>>
    <3>1. CASE NoFunction(w)
      BY <1>1, <2>1, <3>1 DEF NoFunction, GoesInactive, TypeOK
    <3>2. CASE DrainSequence(w)
      BY <1>1, <2>1, <3>2 DEF DrainSequence, GoesInactive, CancelOne, TypeOK
    <3> QED BY <1>7, <3>1, <3>2
  <2>6. CASE pc'[w] = "drain"
    <3>1. WorkerHas(w, s)'
      BY <2>1, <2>2, <2>6 DEF WorkerHas, Working
    <3>2. \A v \in Workers : WorkerHas(v, s) => WorkerHas(v, s)'
      BY <1>4, <3>1
    <3>3. \A r \in Seqs : InHand(r) => InHand(r)'
      BY <1>2, <2>2, <2>3, <2>4, <3>2, StillInHand
    <3> QED BY <1>1, <1>2, <2>3, <2>5, <3>1, <3>3 DEF Held
  <2>7. CASE pc'[w] # "drain"
    <3>1. ~active'[s] /\ (work_queue'[s] = <<>> \/ seq_shutdown[s])
      <4>1. CASE NoFunction(w)
        BY <1>1, <2>1, <4>1 DEF NoFunction, GoesInactive, TypeOK
      <4>2. CASE DrainSequence(w)
        BY <1>1, <2>1, <2>7, <4>2 DEF DrainSequence, GoesInactive, TypeOK
      <4> QED BY <1>7, <4>1, <4>2
    <3> QED BY <1>1, <1>2, <2>3, <2>4, <2>5, <3>1 DEF Held
  <2> QED BY <2>6, <2>7
<1>8. CASE SequenceNoLongerActive(w)
  <2>1. UNCHANGED <<work_queue, active, queued_sequences, tasks,
                    seq>> /\ pc[w] = "release"
    BY <1>8 DEF SequenceNoLongerActive, seqVars
  <2>2. \A r \in Seqs, v \in Workers : WorkerHas(v, r) => WorkerHas(v, r)'
    BY <1>4, <2>1 DEF WorkerHas, Working
  <2>3. \A r \in Seqs : InHand(r) => InHand(r)'
    BY <1>2, <2>1, <2>2, StillInHand
  <2> QED BY <1>1, <1>2, <2>1, <2>2, <2>3 DEF Held
<1>9. CASE AssignWorkerToNextSequence(w)
  <2>1. UNCHANGED <<work_queue, active, tasks>> /\ pc[w] = "assign"
    BY <1>9 DEF AssignWorkerToNextSequence, seqVars
  <2>2. \A r \in Seqs, v \in Workers : WorkerHas(v, r) => WorkerHas(v, r)'
    BY <1>4, <2>1 DEF WorkerHas, Working
  <2>3. ASSUME NEW r \in Seqs, InHand(r) PROVE InHand(r)'
    <3>1. CASE UNCHANGED queued_sequences
      BY <1>2, <2>1, <2>2, <2>3, <3>1, StillInHand
    <3>2. CASE /\ queued_sequences # <<>>
               /\ seq' = [seq EXCEPT ![w] = Head(queued_sequences)]
               /\ queued_sequences' = Tail(queued_sequences)
               /\ pc' = [pc EXCEPT ![w] = "next"]
      <4>1. queued_sequences \in Seq(Seqs)
        BY <1>1 DEF TypeOK
      <4>2. \A i \in Nat : QueueHas(i, r) => InHand(r)'
        <5> SUFFICES ASSUME NEW i \in Nat, QueueHas(i, r) PROVE InHand(r)'
          OBVIOUS
        <5>1. CASE i = 1
          <6>1. Head(queued_sequences) = r
            BY <3>2, <4>1, <5>1, AtEnds DEF QueueHas
          <6>2. WorkerHas(w, r)'
            BY <1>1, <3>2, <6>1 DEF WorkerHas, Working, TypeOK
          <6> QED BY <6>2 DEF InHand, Carried
        <5>2. CASE i # 1
          <6>1. /\ Len(queued_sequences) \in Nat
                /\ Len(queued_sequences') = Len(queued_sequences) - 1
                /\ \A j \in 1..Len(queued_sequences') :
                     queued_sequences'[j] = queued_sequences[j + 1]
            BY <3>2, <4>1, AtEnds
          <6>2. PICK j \in Nat : i = j + 1 /\ j # 0
            BY <5>2 DEF QueueHas
          <6>3. QueueHas(j, r)'
            BY <6>1, <6>2 DEF QueueHas
          <6> QED BY <6>3 DEF InHand, Carried
        <5> QED BY <5>1, <5>2
      <4> QED BY <1>2, <2>1, <2>2, <2>3, <4>2 DEF InHand, Carried, CallHas, TaskHas
    <3> QED BY <1>9, <3>1, <3>2 DEF AssignWorkerToNextSequence
  <2> QED BY <1>1, <1>2, <2>1, <2>2, <2>3 DEF Held
<1> QED BY <1>5, <1>6, <1>7, <1>8, <1>9 DEF WorkerStep

LEMMA HeldByShutDown ==
  ASSUME CInv, InitiateShutDown \/ ShutDownStep
  PROVE  Held'
<1>1. TypeOK /\ Held /\ Refs
  BY DEF CInv
<1>2. /\ UNCHANGED <<active, queued_sequences, tasks, pc, seq, call>> /\ shutdown'
      /\ \A s \in Seqs : seq_shutdown[s] => seq_shutdown'[s]
      /\ \A s \in Seqs : work_queue'[s] # <<>> => work_queue[s] # <<>>
  <2>1. CASE InitiateShutDown
    BY <2>1 DEF InitiateShutDown, seqVars, workerVars
  <2>2. CASE InitiateSequenceShutDown
    BY <1>1, <2>2 DEF InitiateSequenceShutDown, Refs, TypeOK, poolVars, workerVars
  <2>3. CASE BeginWait
    BY <1>1, <2>3 DEF BeginWait, Refs, TypeOK, poolVars, workerVars
  <2>4. CASE WaitForShutDown
    BY <1>1, <2>4 DEF WaitForShutDown, CancelOne, Refs, TypeOK, poolVars, workerVars
  <2>5. CASE \E w \in Workers : ShutDownWorker(w)
    BY <1>1, <2>5 DEF ShutDownWorker, Refs, seqVars
  <2>6. CASE ShutDownComplete
    BY <1>1, <2>6 DEF ShutDownComplete, Refs, seqVars, poolVars, workerVars
  <2> QED BY <2>1, <2>2, <2>3, <2>4, <2>5, <2>6 DEF ShutDownStep
<1>3. \A r \in Seqs, v \in Workers : WorkerHas(v, r) <=> WorkerHas(v, r)'
  BY <1>2 DEF WorkerHas
<1>4. \A r \in Seqs : InHand(r) => InHand(r)'
  BY <1>2, <1>3, StillInHand
<1> QED BY <1>1, <1>2, <1>3, <1>4 DEF Held

LEMMA HeldKept ==
  ASSUME CInv, TypeOK', Next
  PROVE  Held'
BY HeldByClients, HeldByCalls, HeldByWorkers, HeldByShutDown DEF Next

-----------------------------------------------------------------------------
\* A worker with a sequence goes on with it.
LEMMA HiredQuiet ==
  ASSUME Hired, UNCHANGED <<active_workers, available_workers, exit, tasks>>,
         \A w \in Workers :
           pc'[w] = pc[w] \/ {pc[w], pc'[w]} \cap {"unborn", "wait", "gone"} = {},
         \A c \in Clients, w \in Workers : Starts(c, w)' => Starts(c, w)
  PROVE  Hired'
<1>1. \A w \in Workers : pc[w] \in {"unborn", "wait", "gone"} => pc'[w] = pc[w]
  OBVIOUS
<1>2. \A w \in Workers : pc'[w] = "unborn" => pc[w] = "unborn"
  OBVIOUS
<1> QED BY <1>1, <1>2 DEF Hired

LEMMA HiredByClients ==
  ASSUME CInv, NEW c \in Clients,
         \/ NewSequence(c) \/ ClientStep(c)
         \/ \E s \in Seqs : FreeSequence(c, s) \/ CancelPendingFunctions(c, s)
         \/ \E s \in Seqs, f \in Functions : Add(c, s, f)
  PROVE  Hired'
<1>1. TypeOK /\ Hired /\ Refs
  BY DEF CInv
<1>2. \A d \in Clients \ {c} : call'[d] = call[d]
  BY <1>1 DEF NewSequence, FreeSequence, CancelPendingFunctions, Add, ClientStep,
              PushFree, QueueSequence, DropSequence, StartWorker, TakeWorker, TypeOK
<1>3. ASSUME UNCHANGED <<active_workers, available_workers, exit, tasks, pc>>,
             call'[c] = call[c] \/ call'[c].op # "start"
      PROVE  Hired'
  BY <1>1, <1>2, <1>3, HiredQuiet DEF Starts
<1>4. CASE NewSequence(c)
  BY <1>3, <1>4 DEF NewSequence, workerVars
<1>5. ASSUME NEW s \in Seqs, FreeSequence(c, s) PROVE Hired'
  <2>1. call'[c].op # "start"
    BY <1>1, <1>5 DEF FreeSequence, Call, NoCall, TypeOK
  <2> QED BY <1>3, <1>5, <2>1 DEF FreeSequence, poolVars, workerVars
<1>6. ASSUME NEW s \in Seqs, CancelPendingFunctions(c, s) PROVE Hired'
  BY <1>3, <1>6 DEF CancelPendingFunctions, poolVars, workerVars
<1>7. ASSUME NEW s \in Seqs, NEW f \in Functions, Add(c, s, f) PROVE Hired'
  <2>1. call' = call \/ call'[c] \in {NoCall, Call("queue", s, None)}
    BY <1>1, <1>7 DEF Add, TypeOK
  <2>2. call'[c] = call[c] \/ call'[c].op # "start"
    BY <2>1 DEF Call, NoCall
  <2>3. UNCHANGED <<active_workers, available_workers, exit, tasks, pc>>
    BY <1>7 DEF Add, poolVars, workerVars
  <2> QED BY <1>3, <2>2, <2>3
<1>8. CASE PushFree(c)
  <2>1. call'[c].op # "start"
    BY <1>1, <1>8 DEF PushFree, NoCall, TypeOK
  <2> QED BY <1>3, <1>8, <2>1 DEF PushFree, workerVars
<1>9. CASE DropSequence(c)
  <2>1. call'[c] = call[c] \/ call'[c].op # "start"
    BY <1>1, <1>9 DEF DropSequence, NoCall, TypeOK
  <2> QED BY <1>3, <1>9, <2>1 DEF DropSequence, poolVars, workerVars
<1>10. CASE QueueSequence(c)
  <2>1. PICK s \in Seqs : s = call[c].seq
    BY <1>1, <1>10 DEF QueueSequence, Refs
  <2>2. UNCHANGED <<tasks, exit>>
    BY <1>10 DEF QueueSequence
  <2>3. ASSUME NEW w \in available_workers,
               available_workers' = available_workers \ {w},
               active_workers' = active_workers \cup {w},
               call' = [call EXCEPT ![c] = Call("start", s, w)],
               UNCHANGED pc
        PROVE  Hired'
    <3>1. w \in Workers /\ call'[c] = Call("start", s, w)
      BY <1>1, <2>3 DEF TypeOK
    <3>2. \A d \in Clients, v \in Workers :
            Starts(d, v)' => Starts(d, v) \/ (d = c /\ v = w)
      BY <1>2, <3>1 DEF Starts, Call
    <3>3. \A d \in Clients : ~Starts(d, w)
      BY <1>1, <3>1 DEF Hired
    <3>4. /\ active_workers' \cap available_workers' = {}
          /\ \A v \in Workers :
               /\ pc'[v] = "unborn"
                    <=> v \notin active_workers' \cup available_workers' /\ ~exit'[v]
               /\ v \in available_workers'
                    => pc'[v] \in {"wait", "gone"} /\ tasks'[v] = <<>>
               /\ tasks'[v] # <<>> => Len(tasks'[v]) = 1 /\ pc'[v] \in {"wait", "gone"}
      BY <1>1, <2>2, <2>3, <3>1 DEF Hired
    <3>5. \A d \in Clients, v \in Workers :
            Starts(d, v)' => /\ tasks'[v] = <<>> /\ pc'[v] \in {"wait", "gone"}
                             /\ v \notin available_workers'
      BY <1>1, <2>2, <2>3, <3>1, <3>2 DEF Hired
    <3>6. \A d, e \in Clients, v \in Workers : Starts(d, v)' /\ Starts(e, v)' => d = e
      BY <1>1, <3>2, <3>3 DEF Hired
    <3> QED BY <3>4, <3>5, <3>6 DEF Hired
  <2>4. ASSUME NEW w \in Workers, pc[w] = "unborn",
               pc' = [pc EXCEPT ![w] = "wait"],
               active_workers' = active_workers \cup {w},
               call' = [call EXCEPT ![c] = Call("start", s, w)],
               UNCHANGED available_workers
        PROVE  Hired'
    <3>1. /\ call'[c] = Call("start", s, w) /\ pc'[w] = "wait"
          /\ \A v \in Workers \ {w} : pc'[v] = pc[v]
      BY <1>1, <2>4 DEF TypeOK
    <3>2. \A d \in Clients, v \in Workers :
            Starts(d, v)' => Starts(d, v) \/ (d = c /\ v = w)
      BY <1>2, <3>1 DEF Starts, Call
    <3>3. /\ \A d \in Clients : ~Starts(d, w)
          /\ w \notin active_workers \cup available_workers /\ tasks[w] = <<>>
      BY <1>1, <2>4 DEF Hired
    <3>4. /\ active_workers' \cap available_workers' = {}
          /\ \A v \in Workers :
               /\ pc'[v] = "unborn"
                    <=> v \notin active_workers' \cup available_workers' /\ ~exit'[v]
               /\ v \in available_workers'
                    => pc'[v] \in {"wait", "gone"} /\ tasks'[v] = <<>>
               /\ tasks'[v] # <<>> => Len(tasks'[v]) = 1 /\ pc'[v] \in {"wait", "gone"}
      BY <1>1, <2>2, <2>4, <3>1, <3>3 DEF Hired
    <3>5. \A d \in Clients, v \in Workers :
            Starts(d, v)' => /\ tasks'[v] = <<>> /\ pc'[v] \in {"wait", "gone"}
                             /\ v \notin available_workers'
      BY <1>1, <2>2, <2>4, <3>1, <3>2, <3>3 DEF Hired
    <3>6. \A d, e \in Clients, v \in Workers : Starts(d, v)' /\ Starts(e, v)' => d = e
      BY <1>1, <3>2, <3>3 DEF Hired
    <3> QED BY <3>4, <3>5, <3>6 DEF Hired
  <2>5. CASE UNCHANGED <<pc, active_workers,
                         available_workers>> /\ call'[c].op # "start"
    BY <1>3, <2>2, <2>5
  <2>6. CASE TakeWorker(c, s)
    BY <1>1, <2>3, <2>4, <2>6 DEF TakeWorker, TypeOK
  <2>7. CASE ~TakeWorker(c, s)
    <3>1. /\ UNCHANGED <<pc, active_workers, available_workers>>
          /\ \/ call'[c] = NoCall
             \/ call'[c] = Call("drop", Head(Queued(queued_sequences, s)), None)
      BY <1>1, <1>10, <2>1, <2>7 DEF QueueSequence, TypeOK
    <3>2. call'[c].op # "start"
      BY <3>1 DEF NoCall, Call
    <3> QED BY <2>5, <3>1, <3>2
  <2> QED BY <2>6, <2>7
<1>11. CASE StartWorker(c)
  <2>1. PICK s \in Seqs, w \in Workers :
          /\ s = call[c].seq /\ w = call[c].worker
          /\ tasks' = [tasks EXCEPT ![w] = Append(@, s)]
    BY <1>1, <1>11 DEF StartWorker, Refs
  <2>2. /\ UNCHANGED <<active_workers, available_workers, exit, pc>>
        /\ Starts(c, w) /\ call'[c].op # "start"
    BY <1>1, <1>11, <2>1 DEF StartWorker, poolVars, Starts, NoCall, TypeOK
  <2>3. tasks[w] = <<>> /\ pc[w] \in {"wait", "gone"} /\ w \notin available_workers
    BY <1>1, <2>2 DEF Hired
  <2>4. /\ Len(tasks'[w]) = 1
        /\ \A v \in Workers \ {w} : tasks'[v] = tasks[v]
    BY <1>1, <2>1, <2>3 DEF TypeOK
  <2>5. \A d \in Clients, v \in Workers : Starts(d, v)' => Starts(d, v) /\ v # w
    BY <1>1, <1>2, <2>2 DEF Starts, Hired
  <2>6. \A v \in Workers :
          /\ pc'[v] = "unborn"
               <=> v \notin active_workers' \cup available_workers' /\ ~exit'[v]
          /\ v \in available_workers' => pc'[v] \in {"wait", "gone"} /\ tasks'[v] = <<>>
          /\ tasks'[v] # <<>> => Len(tasks'[v]) = 1 /\ pc'[v] \in {"wait", "gone"}
    BY <1>1, <2>2, <2>3, <2>4 DEF Hired
  <2> QED BY <1>1, <2>2, <2>4, <2>5, <2>6 DEF Hired
<1> QED BY <1>4, <1>5, <1>6, <1>7, <1>8, <1>9, <1>10, <1>11 DEF ClientStep

LEMMA HiredByWorkers ==
  ASSUME CInv, NEW w \in Workers, WorkerStep(w)
  PROVE  Hired'
<1>1. TypeOK /\ Hired /\ Refs
  BY DEF CInv
<1>2. UNCHANGED <<exit, call>>
  BY DEF WorkerStep, GetNextTask, NextFunction, FunctionDone, NoFunction, DrainSequence,
         SequenceNoLongerActive, AssignWorkerToNextSequence
<1>3. \A v \in Workers \ {w} : pc'[v] = pc[v] /\ tasks'[v] = tasks[v]
  BY <1>1 DEF WorkerStep, GetNextTask, NextFunction, FunctionDone, NoFunction,
              DrainSequence, SequenceNoLongerActive, AssignWorkerToNextSequence, TypeOK
<1>4. \A c \in Clients, v \in Workers : Starts(c, v)' <=> Starts(c, v)
  BY <1>2 DEF Starts
<1>5. CASE GetNextTask(w)
  <2>1. UNCHANGED <<active_workers, available_workers>> /\ pc[w] = "wait"
    BY <1>5 DEF GetNextTask, poolVars
  <2>2. CASE pc'[w] = "gone" /\ UNCHANGED tasks
    BY <1>1, <1>2, <1>3, <1>4, <2>1, <2>2 DEF Hired
  <2>3. CASE tasks[w] # <<>> /\ pc'[w] = "next" /\ tasks' = [tasks EXCEPT ![w] = Tail(@)]
    <3>1. Len(tasks[w]) = 1 /\ w \notin available_workers /\ \A c \in Clients : ~Starts(c, w)
      BY <1>1, <2>3 DEF Hired
    <3>2. tasks'[w] = <<>>
      <4>1. tasks[w] \in Seq(Seqs) /\ tasks'[w] = Tail(tasks[w])
        BY <1>1, <2>3 DEF TypeOK
      <4>2. Tail(tasks[w]) \in Seq(Seqs) /\ Len(Tail(tasks[w])) = 0
        BY <2>3, <3>1, <4>1, AtEnds
      <4>3. Tail(tasks[w]) = <<>>
        BY <4>2, EmptySeq
      <4> QED BY <4>1, <4>3
    <3> QED BY <1>1, <1>2, <1>3, <1>4, <2>1, <2>3, <3>1, <3>2 DEF Hired
  <2> QED BY <1>1, <1>5, <2>2, <2>3 DEF GetNextTask, TypeOK
<1>6. CASE NextFunction(w) \/ FunctionDone(w) \/ NoFunction(w) \/ DrainSequence(w)
           \/ SequenceNoLongerActive(w)
  <2>1. /\ UNCHANGED <<active_workers, available_workers, tasks>>
        /\ {pc[w], pc'[w]} \cap {"unborn", "wait", "gone"} = {}
    BY <1>1, <1>6 DEF NextFunction, FunctionDone, NoFunction, DrainSequence,
                      SequenceNoLongerActive, TypeOK, poolVars
  <2> QED BY <1>1, <1>2, <1>3, <1>4, <2>1, HiredQuiet
<1>7. CASE AssignWorkerToNextSequence(w)
  <2>1. /\ pc[w] = "assign" /\ UNCHANGED tasks
        /\ w \notin available_workers /\ tasks[w] = <<>>
        /\ \A c \in Clients : ~Starts(c, w)
    BY <1>1, <1>7 DEF AssignWorkerToNextSequence, Hired
  <2>2. CASE pc'[w] = "next" /\ UNCHANGED <<active_workers, available_workers>>
    <3>1. {pc[w], pc'[w]} \cap {"unborn", "wait", "gone"} = {}
      BY <2>1, <2>2
    <3> QED BY <1>1, <1>2, <1>3, <1>4, <2>1, <2>2, <3>1, HiredQuiet
  <2>3. CASE pc'[w] = "wait" /\ UNCHANGED <<active_workers, available_workers>>
    BY <1>1, <1>2, <1>3, <1>4, <2>1, <2>3 DEF Hired
  <2>4. CASE /\ pc'[w] = "wait"
             /\ active_workers' = active_workers \ {w}
             /\ available_workers' = available_workers \cup {w}
    BY <1>1, <1>2, <1>3, <1>4, <2>1, <2>4 DEF Hired
  <2> QED BY <1>1, <1>7, <2>2, <2>3, <2>4 DEF AssignWorkerToNextSequence, Erased, TypeOK
<1> QED BY <1>5, <1>6, <1>7 DEF WorkerStep

LEMMA HiredByShutDown ==
  ASSUME CInv, InitiateShutDown \/ ShutDownStep
  PROVE  Hired'
<1>1. TypeOK /\ Hired
  BY DEF CInv
<1>2. UNCHANGED <<pc, call, tasks>>
  BY DEF InitiateShutDown, ShutDownStep, InitiateSequenceShutDown, BeginWait,
         WaitForShutDown, ShutDownWorker, ShutDownComplete, workerVars
<1>3. CASE UNCHANGED <<active_workers, available_workers, exit>>
  BY <1>1, <1>2, <1>3, HiredQuiet DEF Starts
<1>4. ASSUME NEW w \in Workers, ShutDownWorker(w) PROVE Hired'
  <2>1. /\ w \in active_workers \cup available_workers
        /\ exit' = [exit EXCEPT ![w] = TRUE]
        /\ active_workers' = active_workers \ {w}
        /\ available_workers' = available_workers \ {w}
    BY <1>4 DEF ShutDownWorker
  <2>2. \A c \in Clients, v \in Workers : Starts(c, v)' <=> Starts(c, v)
    BY <1>2 DEF Starts
  <2>3. exit'[w] /\ \A v \in Workers \ {w} : exit'[v] = exit[v]
    BY <1>1, <2>1 DEF TypeOK
  <2> QED BY <1>1, <1>2, <2>1, <2>2, <2>3 DEF Hired
<1>5. CASE ~\E w \in Workers : ShutDownWorker(w)
  <2>1. UNCHANGED <<active_workers, available_workers, exit>>
    BY <1>5 DEF InitiateShutDown, ShutDownStep, InitiateSequenceShutDown, BeginWait,
                WaitForShutDown, ShutDownComplete, poolVars, workerVars
  <2> QED BY <1>3, <2>1
<1> QED BY <1>4, <1>5

LEMMA HiredKept ==
  ASSUME CInv, Next
  PROVE  Hired'
BY HiredByClients, HiredByWorkers, HiredByShutDown DEF Next

-----------------------------------------------------------------------------
\* A step that adds no work, keeps what is shut down so and calls no worker.
LEMMA ClosingQuiet ==
  ASSUME TypeOK, Closing,
         UNCHANGED <<shutdown, all_sequences, has_pool, stage, waiting, exit>>,
         shutdown => UNCHANGED <<active_workers, available_workers>>,
         shutdown
           => \A c \in Clients : call'[c].op = call[c].op \/ call'[c].op \in {"none", "free"},
         shutdown => \A s \in Seqs : seq_shutdown[s] => seq_shutdown'[s],
         \A s \in Seqs : work_queue'[s] # <<>> =>
           work_queue[s] # <<>> \/ (s \in all_sequences /\ ~seq_shutdown[s]),
         \A w \in Workers : pc[w] = "gone" => pc'[w] = "gone",
         shutdown <=> stage # "up"
  PROVE  Closing'
<1>1. \A s \in Seqs : ~has_pool[s] /\ work_queue[s] = <<>> => work_queue'[s] = <<>>
  BY DEF Closing
<1>2. \A s \in Seqs \ all_sequences : work_queue'[s] = <<>>
  BY DEF Closing
<1>3. CASE ~shutdown
  <2>1. stage' = "up" /\ ~shutdown' /\ \A s \in Seqs : has_pool'[s]
    BY <1>3 DEF Closing
  <2> QED BY <1>2, <2>1 DEF Closing
<1>4. CASE shutdown
  <2>1. \A c \in Clients : call'[c].op \in {"none", "free"}
    BY <1>4 DEF Closing
  <2>2. /\ stage' = "initiate" => \A s \in all_sequences' \ waiting' : seq_shutdown'[s]
        /\ stage' \in {"wait", "waiting", "join", "down"} =>
             \A s \in all_sequences' : seq_shutdown'[s]
        /\ stage' = "waiting" => \A s, r \in waiting' : s = r
        /\ stage' \in {"join", "down"} => \A s \in all_sequences' : ~has_pool'[s]
    BY <1>4 DEF Closing, TypeOK
  <2>3. \A s \in Seqs : ~has_pool'[s] =>
          /\ shutdown' /\ seq_shutdown'[s]
          /\ work_queue'[s] = <<>> \/ (stage' = "waiting" /\ s \in waiting')
    BY <1>1, <1>4 DEF Closing
  <2>4. stage' = "down" => /\ active_workers' = {} /\ available_workers' = {}
                          /\ \A w \in Workers : exit'[w] => pc'[w] = "gone"
    BY <1>4 DEF Closing
  <2> QED BY <1>2, <2>1, <2>2, <2>3, <2>4 DEF Closing
<1> QED BY <1>3, <1>4

LEMMA ClosingByClients ==
  ASSUME CInv, TypeOK', ~AddsDuringShutDown, NEW c \in Clients,
         \/ NewSequence(c) \/ ClientStep(c)
         \/ \E s \in Seqs : FreeSequence(c, s) \/ CancelPendingFunctions(c, s)
         \/ \E s \in Seqs, f \in Functions : Add(c, s, f)
  PROVE  Closing'
<1>1. TypeOK /\ Closing /\ Refs
  BY DEF CInv
<1>2. \A d \in Clients \ {c} : call'[d] = call[d]
  BY <1>1 DEF NewSequence, FreeSequence, CancelPendingFunctions, Add, ClientStep,
              PushFree, QueueSequence, DropSequence, StartWorker, TakeWorker, TypeOK
<1>3. CASE NewSequence(c)
  <2>1. /\ ~shutdown /\ UNCHANGED <<work_queue, has_pool, shutdown, stage, waiting,
                                    call>>
        /\ all_sequences \subseteq all_sequences'
    BY <1>3 DEF NewSequence, downVars
  <2>2. stage = "up" /\ \A s \in Seqs : has_pool[s]
    BY <1>1, <2>1 DEF Refs, Closing
  <2> QED BY <1>1, <2>1, <2>2 DEF Closing
<1>4. ASSUME NEW s \in Seqs, FreeSequence(c, s) PROVE Closing'
  <2>1. call'[c].op \in {"none", "free"}
    BY <1>1, <1>4 DEF FreeSequence, Call, NoCall, TypeOK
  <2>2. \A r \in Seqs : seq_shutdown[r] => seq_shutdown'[r]
    BY <1>1, <1>4 DEF FreeSequence, TypeOK
  <2>3. UNCHANGED <<shutdown, all_sequences, has_pool, stage, waiting, exit,
                    active_workers, available_workers, pc, work_queue>>
    BY <1>4 DEF FreeSequence, poolVars, workerVars, downVars
  <2> QED BY <1>1, <1>2, <2>1, <2>2, <2>3, ClosingQuiet DEF Refs
<1>5. ASSUME NEW s \in Seqs, CancelPendingFunctions(c, s) PROVE Closing'
  <2>1. UNCHANGED <<shutdown, all_sequences, has_pool, stage, waiting, exit,
                    active_workers, available_workers, pc, seq_shutdown, call>>
    BY <1>5 DEF CancelPendingFunctions, poolVars, workerVars, downVars
  <2>2. \A r \in Seqs : work_queue'[r] # <<>> => work_queue[r] # <<>>
    BY <1>1, <1>5 DEF CancelPendingFunctions, TypeOK
  <2> QED BY <1>1, <2>1, <2>2, ClosingQuiet DEF Refs
<1>6. ASSUME NEW s \in Seqs, NEW f \in Functions, Add(c, s, f) PROVE Closing'
  <2>1. UNCHANGED <<shutdown, all_sequences, has_pool, stage, waiting, exit,
                    active_workers, available_workers, pc, seq_shutdown>>
    BY <1>6 DEF Add, poolVars, workerVars, downVars
  <2>2. /\ s \in live /\ (~shutdown \/ seq_shutdown[s])
        /\ seq_shutdown[s] => UNCHANGED <<work_queue, call>>
        /\ ~seq_shutdown[s] => \A r \in Seqs \ {s} : work_queue'[r] = work_queue[r]
    BY <1>1, <1>6 DEF Add, MayAdd, TypeOK
  <2>3. \A r \in Seqs : work_queue'[r] # <<>> =>
          work_queue[r] # <<>> \/ (r \in all_sequences /\ ~seq_shutdown[r])
    BY <1>1, <2>2 DEF TypeOK
  <2>4. shutdown => UNCHANGED call
    BY <2>2
  <2> QED BY <1>1, <2>1, <2>3, <2>4, ClosingQuiet DEF Refs
<1>7. CASE PushFree(c)
  <2>1. UNCHANGED <<shutdown, all_sequences, has_pool, stage, waiting, exit,
                    active_workers, available_workers, pc, seq_shutdown, work_queue>>
    BY <1>7 DEF PushFree, seqVars, workerVars, downVars
  <2>2. call'[c].op = "none"
    BY <1>1, <1>7 DEF PushFree, NoCall, TypeOK
  <2> QED BY <1>1, <1>2, <2>1, <2>2, ClosingQuiet DEF Refs
<1>8. CASE QueueSequence(c)
  <2>1. UNCHANGED <<shutdown, all_sequences, has_pool, stage, waiting, exit,
                    seq_shutdown, work_queue>>
    BY <1>8 DEF QueueSequence, seqVars, downVars
  <2>2. ~shutdown
    BY <1>1, <1>8 DEF QueueSequence, Closing
  <2>3. \A w \in Workers : pc[w] = "gone" => pc'[w] = "gone"
    BY <1>1, <1>8 DEF QueueSequence, TakeWorker, TypeOK
  <2> QED BY <1>1, <2>1, <2>2, <2>3, ClosingQuiet DEF Refs
<1>9. CASE DropSequence(c)
  <2>1. UNCHANGED <<shutdown, all_sequences, has_pool, stage, waiting, exit,
                    active_workers, available_workers, pc, seq_shutdown>>
    BY <1>9 DEF DropSequence, poolVars, workerVars, downVars
  <2>2. ~shutdown
    BY <1>1, <1>9 DEF DropSequence, Closing
  <2>3. \A r \in Seqs : work_queue'[r] # <<>> => work_queue[r] # <<>>
    BY <1>1, <1>9 DEF DropSequence, CancelOne, Refs, TypeOK
  <2> QED BY <1>1, <2>1, <2>2, <2>3, ClosingQuiet DEF Refs
<1>10. CASE StartWorker(c)
  <2>1. UNCHANGED <<shutdown, all_sequences, has_pool, stage, waiting, exit,
                    active_workers, available_workers, pc, seq_shutdown, work_queue>>
    BY <1>10 DEF StartWorker, seqVars, poolVars, downVars
  <2>2. ~shutdown
    BY <1>1, <1>10 DEF StartWorker, Closing
  <2> QED BY <1>1, <2>1, <2>2, ClosingQuiet DEF Refs
<1> QED BY <1>3, <1>4, <1>5, <1>6, <1>7, <1>8, <1>9, <1>10 DEF ClientStep

LEMMA ClosingByWorkers ==
  ASSUME CInv, NEW w \in Workers, WorkerStep(w)
  PROVE  Closing'
<1>1. TypeOK /\ Closing /\ Refs
  BY DEF CInv
<1>2. /\ UNCHANGED <<shutdown, all_sequences, has_pool, stage, waiting, exit, call,
                     seq_shutdown>>
      /\ pc[w] # "gone"
  BY DEF WorkerStep, GetNextTask, NextFunction, FunctionDone, NoFunction, DrainSequence,
         SequenceNoLongerActive, AssignWorkerToNextSequence, seqVars, poolVars, downVars
<1>3. \A v \in Workers : pc[v] = "gone" => pc'[v] = "gone"
  BY <1>1, <1>2 DEF WorkerStep, GetNextTask, NextFunction, FunctionDone, NoFunction,
                    DrainSequence, SequenceNoLongerActive, AssignWorkerToNextSequence,
                    TypeOK
<1>4. shutdown => UNCHANGED <<active_workers, available_workers>>
  BY DEF WorkerStep, GetNextTask, NextFunction, FunctionDone, NoFunction, DrainSequence,
         SequenceNoLongerActive, AssignWorkerToNextSequence, poolVars
<1>5. \A r \in Seqs : work_queue'[r] # <<>> => work_queue[r] # <<>>
  <2>1. CASE NextFunction(w) \/ DrainSequence(w)
    BY <1>1, <2>1 DEF NextFunction, DrainSequence, CancelOne, Refs, Working, TypeOK
  <2>2. CASE UNCHANGED work_queue
    BY <2>2
  <2> QED BY <2>1, <2>2 DEF WorkerStep, GetNextTask, FunctionDone, NoFunction,
             SequenceNoLongerActive, AssignWorkerToNextSequence, seqVars
<1> QED BY <1>1, <1>2, <1>3, <1>4, <1>5, ClosingQuiet DEF Refs

LEMMA ClosingByShutDown ==
  ASSUME CInv, TypeOK', ~AddsDuringShutDown, InitiateShutDown \/ ShutDownStep
  PROVE  Closing'
<1>1. TypeOK /\ Closing /\ Refs
  BY DEF CInv
<1>2. CASE InitiateShutDown
  <2>1. /\ UNCHANGED <<work_queue, has_pool, seq_shutdown, all_sequences, call>>
        /\ ~shutdown /\ stage' = "initiate" /\ shutdown' /\ waiting' = all_sequences
        /\ \A c \in Clients : call[c] = NoCall
    BY <1>1, <1>2 DEF InitiateShutDown, Refs, seqVars
  <2>2. \A s \in Seqs : has_pool[s]
    BY <1>1, <2>1 DEF Closing
  <2> QED BY <1>1, <2>1, <2>2 DEF Closing, NoCall
<1>3. CASE InitiateSequenceShutDown
  <2>1. /\ UNCHANGED <<work_queue, has_pool, all_sequences, call, shutdown>>
        /\ stage = "initiate" /\ stage' \in {"initiate", "wait"}
    BY <1>3 DEF InitiateSequenceShutDown, poolVars
  <2>2. \A s \in Seqs : seq_shutdown[s] => seq_shutdown'[s]
    BY <1>1, <1>3 DEF InitiateSequenceShutDown, TypeOK
  <2>3. /\ stage' = "initiate" => \A s \in all_sequences \ waiting' : seq_shutdown'[s]
        /\ stage' = "wait" => \A s \in all_sequences : seq_shutdown'[s]
    BY <1>1, <1>3, <2>1 DEF InitiateSequenceShutDown, TypeOK, Closing
  <2> QED BY <1>1, <2>1, <2>2, <2>3 DEF Closing, TypeOK
<1>4. CASE BeginWait
  <2>1. /\ UNCHANGED <<work_queue, all_sequences, call, shutdown>>
        /\ stage = "wait"
    BY <1>4 DEF BeginWait, poolVars
  <2>2. shutdown
    BY <1>1, <2>1 DEF Refs
  <2>3. CASE /\ stage' = "join" /\ UNCHANGED <<seq_shutdown, has_pool, waiting>>
             /\ {s \in all_sequences : has_pool[s]} = {}
    BY <1>1, <2>1, <2>3 DEF Closing
  <2>4. ASSUME NEW s \in all_sequences, 
               seq_shutdown' = [seq_shutdown EXCEPT ![s] = TRUE],
               has_pool' = [has_pool EXCEPT ![s] = FALSE],
               waiting' = {s}, stage' = "waiting"
        PROVE  Closing'
    <3>1. s \in Seqs /\ ~has_pool'[s] /\ seq_shutdown'[s]
      BY <1>1, <2>4 DEF TypeOK
    <3>2. \A r \in Seqs \ {s} :
            has_pool'[r] = has_pool[r] /\ seq_shutdown'[r] = seq_shutdown[r]
      BY <1>1, <2>4 DEF TypeOK
    <3> QED BY <1>1, <2>1, <2>2, <2>4, <3>1, <3>2 DEF Closing
  <2> QED BY <1>4, <2>3, <2>4 DEF BeginWait
<1>5. CASE WaitForShutDown
  <2>1. /\ UNCHANGED <<has_pool, seq_shutdown, all_sequences, call, shutdown>>
        /\ stage = "waiting"
    BY <1>5 DEF WaitForShutDown, poolVars
  <2>2. PICK s \in waiting :
          \/ CancelOne(s) /\ UNCHANGED <<stage, waiting>>
          \/ /\ work_queue[s] = <<>> /\ stage' = "wait" /\ waiting' = {}
             /\ UNCHANGED work_queue
    BY <1>5 DEF WaitForShutDown, LeftToCancel
  <2>3. \A r \in waiting : r = s
    BY <1>1, <2>1 DEF Closing
  <2>4. CASE CancelOne(s) /\ UNCHANGED <<stage, waiting>>
    <3>1. \A r \in Seqs : work_queue'[r] # <<>> => work_queue[r] # <<>>
      BY <1>1, <2>4 DEF CancelOne, TypeOK
    <3> QED BY <1>1, <2>1, <2>4, <3>1 DEF Closing
  <2>5. CASE /\ work_queue[s] = <<>> /\ stage' = "wait" /\ waiting' = {}
             /\ UNCHANGED work_queue
    BY <1>1, <2>1, <2>3, <2>5 DEF Closing
  <2> QED BY <2>2, <2>4, <2>5
<1>6. ASSUME NEW w \in Workers, ShutDownWorker(w) PROVE Closing'
  <2>1. /\ UNCHANGED <<work_queue, has_pool, seq_shutdown, all_sequences, call,
                       shutdown, stage, waiting>>
        /\ stage = "join"
    BY <1>6 DEF ShutDownWorker, seqVars, downVars
  <2> QED BY <1>1, <2>1 DEF Closing
<1>7. CASE ShutDownComplete
  <2>1. /\ UNCHANGED <<work_queue, has_pool, seq_shutdown, all_sequences, call,
                       shutdown, waiting, active_workers, available_workers, exit, pc>>
        /\ stage = "join" /\ stage' = "down"
        /\ active_workers = {} /\ available_workers = {}
        /\ \A v \in Workers : exit[v] => pc[v] = "gone"
    BY <1>7 DEF ShutDownComplete, seqVars, poolVars, workerVars
  <2> QED BY <1>1, <2>1 DEF Closing
<1> QED BY <1>2, <1>3, <1>4, <1>5, <1>6, <1>7 DEF ShutDownStep

LEMMA ClosingKept ==
  ASSUME CInv, TypeOK', ~AddsDuringShutDown, Next
  PROVE  Closing'
BY ClosingByClients, ClosingByWorkers, ClosingByShutDown DEF Next

-----------------------------------------------------------------------------
\* The head of a queue leaves it.
LEMMA WaitsTail ==
  ASSUME TypeOK, NEW s \in Seqs, work_queue[s] # <<>>,
         work_queue' = [work_queue EXCEPT ![s] = Tail(@)]
  PROVE  \A f : Waits(f) => Waits(f)' \/ f = Head(work_queue[s])
<1>1. work_queue[s] \in Seq(Functions)
  BY DEF TypeOK
<1>2. /\ Len(work_queue[s]) \in Nat /\ Head(work_queue[s]) = work_queue[s][1]
      /\ Len(Tail(work_queue[s])) = Len(work_queue[s]) - 1
      /\ \A i \in 1..Len(Tail(work_queue[s])) :
           Tail(work_queue[s])[i] = work_queue[s][i + 1]
  BY <1>1, AtEnds
<1>3. /\ work_queue'[s] = Tail(work_queue[s])
      /\ \A r \in Seqs \ {s} : work_queue'[r] = work_queue[r]
  BY DEF TypeOK
<1> SUFFICES ASSUME NEW f, NEW r \in Seqs, NEW i \in 1..Len(work_queue[r]), work_queue[r][i] = f,
                    f # Head(work_queue[s])
             PROVE  Waits(f)'
  BY DEF Waits
<1>4. CASE r # s
  BY <1>3, <1>4 DEF Waits
<1>5. CASE r = s
  <2>1. i - 1 \in 1..Len(Tail(work_queue[s])) /\ (i - 1) + 1 = i
    BY <1>2, <1>5
  <2>2. work_queue'[s][i - 1] = f
    BY <1>2, <1>3, <1>5, <2>1
  <2> QED BY <1>3, <2>1, <2>2 DEF Waits
<1> QED BY <1>4, <1>5

LEMMA AnswersCancelOne ==
  ASSUME TypeOK, Answers, NEW s \in Seqs, CancelOne(s),
         \A w \in Workers : pc[w] = "run" => pc'[w] = "run" /\ run'[w] = run[w]
  PROVE  Answers'
<1>1. /\ work_queue[s] # <<>> /\ work_queue' = [work_queue EXCEPT ![s] = Tail(@)]
      /\ \A f \in Functions :
           status'[f] = IF f = Head(work_queue[s]) THEN "cancelled" ELSE status[f]
  BY DEF CancelOne, TypeOK
<1>2. \A f : Runs(f) => Runs(f)'
  BY DEF Runs
<1>3. \A f : Waits(f) => Waits(f)' \/ f = Head(work_queue[s])
  BY <1>1, WaitsTail
<1> QED BY <1>1, <1>2, <1>3 DEF Answers

LEMMA AnswersQuiet ==
  ASSUME Answers, UNCHANGED <<work_queue, status>>,
         \A w \in Workers : pc[w] = "run" => pc'[w] = "run" /\ run'[w] = run[w]
  PROVE  Answers'
BY DEF Answers, Waits, Runs

LEMMA AnswersAdd ==
  ASSUME TypeOK, Answers, NEW c \in Clients, NEW s \in Seqs, NEW f \in Functions,
         Add(c, s, f)
  PROVE  Answers'
<1>1. UNCHANGED <<pc, run>>
  BY DEF Add, workerVars
<1>2. CASE seq_shutdown[s]
  <2>1. work_queue' = work_queue /\ status' = [status EXCEPT ![f] = "cancelled"]
    BY <1>2 DEF Add
  <2>2. \A g \in Functions :
          status'[g] \in {"pending", "running"} => status[g] = status'[g]
    BY <2>1 DEF TypeOK
  <2> QED BY <1>1, <2>1, <2>2 DEF Answers, Waits, Runs
<1>3. CASE ~seq_shutdown[s]
  <2> DEFINE kept == IF Overflows(s) THEN Tail(work_queue[s]) ELSE work_queue[s]
  <2>1. work_queue[s] \in Seq(Functions)
    BY DEF TypeOK
  <2>2. Overflows(s) => work_queue[s] # <<>>
    BY <2>1, LimitAssumption DEF Overflows
  <2>3. /\ kept \in Seq(Functions) /\ Len(kept) \in Nat
        /\ \A i \in 1..Len(work_queue[s]) :
             \/ \E j \in 1..Len(kept) : kept[j] = work_queue[s][i]
             \/ Overflows(s) /\ work_queue[s][i] = Head(work_queue[s])
    <3>1. CASE ~Overflows(s)
      BY <2>1, <3>1
    <3>2. CASE Overflows(s)
      <4>1. /\ Tail(work_queue[s]) \in Seq(Functions)
            /\ Len(Tail(work_queue[s])) \in Nat
            /\ Len(work_queue[s]) \in Nat /\ Head(work_queue[s]) = work_queue[s][1]
            /\ Len(Tail(work_queue[s])) = Len(work_queue[s]) - 1
            /\ \A i \in 1..Len(Tail(work_queue[s])) :
                 Tail(work_queue[s])[i] = work_queue[s][i + 1]
        BY <2>1, <2>2, <3>2, AtEnds
      <4>2. ASSUME NEW i \in 1..Len(work_queue[s]), i # 1
            PROVE  \E j \in 1..Len(Tail(work_queue[s])) : Tail(work_queue[s])[j] = work_queue[s][i]
        <5>1. i - 1 \in 1..Len(Tail(work_queue[s])) /\ (i - 1) + 1 = i
          BY <4>1, <4>2
        <5> QED BY <4>1, <5>1
      <4> QED BY <3>2, <4>1, <4>2
    <3> QED BY <3>1, <3>2
  <2>4. /\ work_queue'[s] = Append(kept, f)
        /\ \A r \in Seqs \ {s} : work_queue'[r] = work_queue[r]
        /\ \A g \in Functions :
             status'[g] = IF g = f THEN "pending"
                          ELSE IF Overflows(s) /\ g = Head(work_queue[s])
                               THEN "cancelled" ELSE status[g]
    BY <1>3 DEF Add, TypeOK
  <2> HIDE DEF kept
  <2>5. /\ Len(Append(kept, f)) = Len(kept) + 1 /\ Append(kept, f)[Len(kept) + 1] = f
        /\ \A i \in 1..Len(kept) : Append(kept, f)[i] = kept[i]
    BY <2>3, AtEnds
  <2>6. Waits(f)'
    <3>1. Len(kept) + 1 \in 1..Len(work_queue'[s])
      BY <2>3, <2>4, <2>5
    <3> QED BY <2>4, <2>5, <3>1 DEF Waits
  <2>7. \A g \in Functions :
          Waits(g) => Waits(g)' \/ (Overflows(s) /\ g = Head(work_queue[s]))
    <3> SUFFICES ASSUME NEW g \in Functions,
                        NEW r \in Seqs, NEW i \in 1..Len(work_queue[r]), work_queue[r][i] = g,
                        ~(Overflows(s) /\ g = Head(work_queue[s]))
                 PROVE  Waits(g)'
      BY DEF Waits
    <3>1. CASE r # s
      BY <2>4, <3>1 DEF Waits
    <3>2. CASE r = s
      <4>1. PICK j \in 1..Len(kept) : kept[j] = g
        BY <2>3, <3>2
      <4>2. j \in 1..Len(work_queue'[s]) /\ work_queue'[s][j] = g
        BY <2>3, <2>4, <2>5, <4>1
      <4> QED BY <4>2 DEF Waits
    <3> QED BY <3>1, <3>2
  <2>8. \A g : Runs(g) => Runs(g)'
    BY <1>1 DEF Runs
  <2> QED BY <2>4, <2>6, <2>7, <2>8 DEF Answers
<1> QED BY <1>2, <1>3

LEMMA AnswersKept ==
  ASSUME CInv, Next
  PROVE  Answers'
<1>1. TypeOK /\ Answers /\ Refs
  BY DEF CInv
<1>2. ASSUME NEW c \in Clients, NewSequence(c) \/ ClientStep(c) PROVE Answers'
  <2>1. CASE NewSequence(c) \/ PushFree(c) \/ StartWorker(c)
    BY <1>1, <2>1, AnswersQuiet DEF NewSequence, PushFree, StartWorker, seqVars,
                                    workerVars
  <2>2. CASE QueueSequence(c)
    <3>1. \A w \in Workers : pc[w] = "run" => pc'[w] = "run"
      BY <1>1, <2>2 DEF QueueSequence, TakeWorker, TypeOK
    <3> QED BY <1>1, <2>2, <3>1, AnswersQuiet DEF QueueSequence, seqVars
  <2>3. CASE DropSequence(c)
    BY <1>1, <2>3, AnswersQuiet, AnswersCancelOne DEF DropSequence, Refs, workerVars
  <2> QED BY <1>2, <2>1, <2>2, <2>3 DEF ClientStep
<1>3. ASSUME NEW c \in Clients, NEW s \in Seqs, FreeSequence(c, s) PROVE Answers'
  BY <1>1, <1>3, AnswersQuiet DEF FreeSequence, workerVars
<1>4. ASSUME NEW c \in Clients, NEW s \in Seqs, CancelPendingFunctions(c, s)
      PROVE  Answers'
  <2>1. /\ UNCHANGED <<pc, run>>
        /\ \A f \in Functions :
             status'[f] = IF f \in Elements(work_queue[s]) THEN "cancelled" ELSE status[f]
        /\ \A r \in Seqs \ {s} : work_queue'[r] = work_queue[r]
    BY <1>1, <1>4 DEF CancelPendingFunctions, workerVars, TypeOK
  <2>2. \A f \in Functions : Waits(f) => Waits(f)' \/ f \in Elements(work_queue[s])
    <3>1. DOMAIN work_queue[s] = 1..Len(work_queue[s])
      BY <1>1 DEF TypeOK
    <3> SUFFICES ASSUME NEW f \in Functions,
                        NEW r \in Seqs, NEW i \in 1..Len(work_queue[r]), work_queue[r][i] = f,
                        f \notin Elements(work_queue[s])
                 PROVE  Waits(f)'
      BY DEF Waits
    <3>2. r # s
      BY <3>1 DEF Elements
    <3> QED BY <2>1, <3>2 DEF Waits
  <2>3. \A f : Runs(f) => Runs(f)'
    BY <2>1 DEF Runs
  <2> QED BY <1>1, <2>1, <2>2, <2>3 DEF Answers
<1>5. ASSUME NEW w \in Workers, WorkerStep(w) PROVE Answers'
  <2>1. \A v \in Workers \ {w} : pc'[v] = pc[v] /\ run'[v] = run[v]
    BY <1>1, <1>5 DEF WorkerStep, GetNextTask, NextFunction, FunctionDone, NoFunction,
                      DrainSequence, SequenceNoLongerActive, AssignWorkerToNextSequence,
                      TypeOK
  <2>2. CASE GetNextTask(w) \/ NoFunction(w) \/ SequenceNoLongerActive(w)
             \/ AssignWorkerToNextSequence(w)
    <3>1. UNCHANGED <<work_queue, status>> /\ pc[w] # "run"
      BY <2>2 DEF GetNextTask, NoFunction, SequenceNoLongerActive,
                  AssignWorkerToNextSequence, seqVars
    <3> QED BY <1>1, <2>1, <3>1, AnswersQuiet
  <2>3. CASE NextFunction(w)
    <3>1. PICK s \in Seqs : s = seq[w]
      BY <1>1, <2>3 DEF NextFunction, Refs, Working
    <3>2. /\ work_queue[s] # <<>> /\ work_queue' = [work_queue EXCEPT ![s] = Tail(@)]
          /\ pc'[w] = "run" /\ run'[w] = Head(work_queue[s]) /\ pc[w] # "run"
          /\ \A f \in Functions :
               status'[f] = IF f = Head(work_queue[s]) THEN "running" ELSE status[f]
      BY <1>1, <2>3, <3>1 DEF NextFunction, TypeOK
    <3>3. \A f : Runs(f) => Runs(f)'
      BY <2>1, <3>2 DEF Runs
    <3>4. ASSUME NEW h, h = Head(work_queue[s]) PROVE Runs(h)'
      BY <3>2, <3>4 DEF Runs
    <3>5. \A f : Waits(f) => Waits(f)' \/ f = Head(work_queue[s])
      BY <1>1, <3>2, WaitsTail
    <3> QED BY <1>1, <3>2, <3>3, <3>4, <3>5 DEF Answers
  <2>4. CASE FunctionDone(w)
    <3>1. /\ UNCHANGED work_queue /\ pc[w] = "run"
          /\ \A f \in Functions : status'[f] = IF f = run[w] THEN "done" ELSE status[f]
      BY <1>1, <2>4 DEF FunctionDone, seqVars, TypeOK
    <3>2. \A f : Waits(f) => Waits(f)'
      BY <3>1 DEF Waits
    <3>3. \A f : Runs(f) => Runs(f)' \/ f = run[w]
      BY <2>1 DEF Runs
    <3> QED BY <1>1, <3>1, <3>2, <3>3 DEF Answers
  <2>5. CASE DrainSequence(w)
    <3>1. seq[w] \in Seqs /\ UNCHANGED run /\ pc[w] # "run"
      BY <1>1, <2>5 DEF DrainSequence, Refs, Working
    <3>2. CASE CancelOne(seq[w])
      BY <1>1, <2>1, <3>1, <3>2, AnswersCancelOne
    <3>3. CASE UNCHANGED <<work_queue, status>>
      BY <1>1, <2>1, <3>1, <3>3, AnswersQuiet
    <3> QED BY <2>5, <3>2, <3>3 DEF DrainSequence
  <2> QED BY <1>5, <2>2, <2>3, <2>4, <2>5 DEF WorkerStep
<1>6. CASE InitiateShutDown
  BY <1>1, <1>6, AnswersQuiet DEF InitiateShutDown, seqVars, workerVars
<1>7. CASE ShutDownStep
  <2>1. UNCHANGED <<pc, run>>
    BY <1>7 DEF ShutDownStep, InitiateSequenceShutDown, BeginWait, WaitForShutDown,
                ShutDownWorker, ShutDownComplete, workerVars
  <2>2. CASE WaitForShutDown
    <3>1. PICK s \in Seqs : CancelOne(s) \/ UNCHANGED <<work_queue, status>>
      BY <1>1, <2>2 DEF WaitForShutDown, TypeOK
    <3> QED BY <1>1, <2>1, <3>1, AnswersQuiet, AnswersCancelOne
  <2>3. CASE ~WaitForShutDown
    <3>1. UNCHANGED <<work_queue, status>>
      BY <1>7, <2>3 DEF ShutDownStep, InitiateSequenceShutDown, BeginWait,
                        ShutDownWorker, ShutDownComplete, seqVars
    <3> QED BY <1>1, <2>1, <3>1, AnswersQuiet
  <2> QED BY <2>2, <2>3
<1>8. ASSUME NEW c \in Clients, NEW s \in Seqs, NEW f \in Functions, Add(c, s, f)
      PROVE  Answers'
  BY <1>1, <1>8, AnswersAdd
<1> QED BY <1>2, <1>3, <1>4, <1>5, <1>6, <1>7, <1>8 DEF Next

-----------------------------------------------------------------------------
LEMMA ListingsQuiet ==
  ASSUME Listings, UNCHANGED <<free_sequences, all_sequences>>, live' \subseteq live,
         \A c \in Clients, s \in Seqs : CallFrees(c, s)' => CallFrees(c, s)
  PROVE  Listings'
<1>1. \A i, s : FreeHas(i, s)' <=> FreeHas(i, s)
  BY DEF FreeHas
<1> QED BY <1>1 DEF Listings, Listed, ListedOnce

LEMMA OwnersQuiet ==
  ASSUME Owners, live \subseteq all_sequences,
         UNCHANGED <<free_sequences, all_sequences, live, seq_shutdown>>,
         \A c \in Clients, s \in Seqs : CallFrees(c, s)' => CallFrees(c, s),
         \A w \in Workers, s \in Seqs : Releases(w, s)' => Releases(w, s),
         \A s \in Seqs :
           active'[s] => active[s] \/ (s \in all_sequences /\ ~seq_shutdown[s]),
         \A w \in Workers : pc'[w] = "drain" => pc[w] = "drain"
  PROVE  Owners'
<1>1. \A i, s : FreeHas(i, s)' <=> FreeHas(i, s)
  BY DEF FreeHas
<1>2. \A s \in Seqs : FreedOnce(s)' /\ (IsFreed(s)' => IsFreed(s))
  BY <1>1 DEF Owners, FreedOnce, IsFreed
<1> QED BY <1>2 DEF Owners

\* A sequence that is listed comes to the list once while its pool is up.
LEMMA FreedIsListed ==
  ASSUME \A s \in Seqs : FreedOnce(s) /\ (IsFreed(s) => s \in all_sequences \ live)
  PROVE  Listings
BY DEF Listings, Listed, ListedOnce, FreedOnce, IsFreed

LEMMA OwnedNewSequence ==
  ASSUME CInv, NEW c \in Clients, NewSequence(c)
  PROVE  Owned'
<1>1. /\ TypeOK /\ Closing /\ Owners /\ Listings /\ ~shutdown
      /\ UNCHANGED <<pc, seq, call, shutdown>>
  BY DEF CInv, Owned, NewSequence, workerVars
<1>2. PICK s \in Seqs :
        /\ live' = live \cup {s} /\ s \in all_sequences'
        /\ all_sequences \subseteq all_sequences'
        /\ all_sequences' \subseteq all_sequences \cup {s}
        /\ active' = active /\ ~active[s]
        /\ seq_shutdown' = [seq_shutdown EXCEPT ![s] = FALSE]
        /\ \A i : \A r \in Seqs : FreeHas(i, r)' => FreeHas(i, r)
        /\ ~IsFreed(s)'
  <2>1. CASE free_sequences = <<>>
    <3>1. PICK s \in Seqs \ all_sequences :
            /\ all_sequences' = all_sequences \cup {s} /\ live' = live \cup {s}
            /\ UNCHANGED <<free_sequences, seq_shutdown, active>>
      BY <1>1, <2>1 DEF NewSequence
    <3>2. ~active[s] /\ ~seq_shutdown[s] /\ ~IsFreed(s)
      BY <1>1 DEF Owners
    <3>3. seq_shutdown' = [seq_shutdown EXCEPT ![s] = FALSE]
      BY <1>1, <3>1, <3>2 DEF TypeOK
    <3>4. /\ \A i : \A r \in Seqs : FreeHas(i, r)' <=> FreeHas(i, r)
          /\ IsFreed(s)' <=> IsFreed(s)
      BY <1>1, <3>1 DEF FreeHas, IsFreed, CallFrees, Releases
    <3> QED BY <3>1, <3>2, <3>3, <3>4
  <2>2. CASE free_sequences # <<>>
    <3>1. free_sequences \in Seq(Seqs)
      BY <1>1 DEF TypeOK
    <3>2. PICK n \in Nat : n = Len(free_sequences) /\ n > 0
      BY <2>2, <3>1, AtEnds
    <3>3. PICK s \in Seqs : s = free_sequences[n]
      BY <2>2, <3>1, <3>2, WithoutLast
    <3>4. /\ free_sequences' = SubSeq(free_sequences, 1, n - 1)
          /\ seq_shutdown' = [seq_shutdown EXCEPT ![s] = FALSE]
          /\ active' = [active EXCEPT ![s] = FALSE]
          /\ live' = live \cup {s} /\ all_sequences' = all_sequences
      BY <2>2, <3>2, <3>3 DEF NewSequence
    <3>5. /\ Len(free_sequences') = n - 1
          /\ \A i \in 1..(n - 1) : free_sequences'[i] = free_sequences[i]
      BY <2>2, <3>1, <3>2, <3>4, WithoutLast
    <3>6. \A i : \A r \in Seqs : FreeHas(i, r)' => FreeHas(i, r) /\ i # n
      BY <3>2, <3>5 DEF FreeHas
    <3>7. FreeHas(n, s) /\ FreedOnce(s) /\ s \in all_sequences /\ ~active[s]
      BY <1>1, <3>2, <3>3 DEF FreeHas, IsFreed, Owners
    <3>8. active' = active
      BY <1>1, <3>4, <3>7 DEF TypeOK
    <3>9. ~IsFreed(s)'
      BY <1>1, <3>2, <3>6, <3>7 DEF IsFreed, FreedOnce, CallFrees, Releases
    <3> QED BY <3>4, <3>6, <3>7, <3>8, <3>9
  <2> QED BY <2>1, <2>2
<1>3. \A r \in Seqs : FreedOnce(r)' /\ (IsFreed(r)' => IsFreed(r) /\ r # s)
  BY <1>1, <1>2 DEF Owners, FreedOnce, IsFreed, CallFrees, Releases
<1>4. Owners'
  BY <1>1, <1>2, <1>3 DEF Owners, TypeOK
<1>5. Listings'
  BY <1>1, <1>4, FreedIsListed DEF Owners, Listings, Listed, ListedOnce, FreedOnce,
                                   IsFreed
<1> QED BY <1>4, <1>5 DEF Owned

LEMMA OwnedFreeSequence ==
  ASSUME CInv, NEW c \in Clients, NEW s \in Seqs, FreeSequence(c, s)
  PROVE  Owned'
<1>1. /\ TypeOK /\ Owned /\ s \in live /\ live' = live \ {s} /\ call[c] = NoCall
      /\ call' = [call EXCEPT ![c] = IF Recyclable(s) THEN Call("free", s, None) ELSE NoCall]
      /\ seq_shutdown' = [seq_shutdown EXCEPT ![s] = TRUE]
      /\ UNCHANGED <<free_sequences, all_sequences, active, pc, seq, shutdown>>
  BY DEF CInv, FreeSequence, poolVars, workerVars
<1>2. /\ \A i, r : FreeHas(i, r)' <=> FreeHas(i, r)
      /\ \A w, r : Releases(w, r)' <=> Releases(w, r)
      /\ \A d \in Clients, r \in Seqs :
           CallFrees(d, r)' => CallFrees(d, r) \/ (d = c /\ r = s /\ ~active[s])
  BY <1>1 DEF FreeHas, Releases, CallFrees, Recyclable, Call, NoCall, TypeOK
<1>3. ~Listed(s)
  BY <1>1 DEF Owned, Listings
<1>4. Listings'
  <2> SUFFICES ASSUME NEW r \in Seqs
               PROVE  ListedOnce(r)' /\ (Listed(r)' => r \in all_sequences \ live')
    BY <1>1 DEF Listings
  <2>1. ListedOnce(r) /\ (Listed(r) => r \in all_sequences \ live)
    BY <1>1 DEF Owned, Listings
  <2>2. Listed(r)' => Listed(r) \/ r = s
    BY <1>2 DEF Listed
  <2>3. ListedOnce(r)'
    BY <1>2, <1>3, <2>1 DEF ListedOnce, Listed
  <2> QED BY <1>1, <2>1, <2>2, <2>3 DEF TypeOK
<1>5. ASSUME ~shutdown PROVE Owners'
  <2>1. Owners
    BY <1>1, <1>5 DEF Owned
  <2>2. ~IsFreed(s) /\ s \in all_sequences
    BY <1>1, <2>1 DEF Owners, TypeOK
  <2>3. \A r \in Seqs : FreedOnce(r)'
    BY <1>2, <2>1, <2>2 DEF Owners, FreedOnce, IsFreed
  <2>4. \A r \in Seqs : IsFreed(r)' => IsFreed(r) \/ (r = s /\ ~active[s])
    BY <1>2 DEF IsFreed
  <2> QED BY <1>1, <2>1, <2>2, <2>3, <2>4 DEF Owners, TypeOK
<1> QED BY <1>1, <1>4, <1>5 DEF Owned

\* A sequence comes to the free list from the caller of FreeSequence ...
LEMMA OwnedPushFree ==
  ASSUME CInv, NEW c \in Clients, PushFree(c)
  PROVE  Owned'
<1>1. /\ TypeOK /\ Owned /\ Refs /\ call[c].op = "free"
      /\ UNCHANGED <<live, all_sequences, active, seq_shutdown, pc, seq, shutdown>>
  BY DEF CInv, PushFree, seqVars, workerVars
<1>2. PICK s \in Seqs : s = call[c].seq
  BY <1>1 DEF Refs
<1>3. /\ \A d \in Clients \ {c} : call'[d] = call[d]
      /\ call'[c] = NoCall
  BY <1>1 DEF PushFree, TypeOK
<1>4. PICK n \in Nat :
        /\ n = Len(free_sequences) /\ Len(free_sequences') = n + 1
        /\ free_sequences'[n + 1] = s
        /\ \A i \in 1..n : free_sequences'[i] = free_sequences[i]
  <2>1. free_sequences \in Seq(Seqs) /\ free_sequences' = Append(free_sequences, s)
    BY <1>1, <1>2 DEF PushFree, TypeOK
  <2> QED BY <2>1, AtEnds
<1>5. /\ \A i \in Nat, r \in Seqs :
           FreeHas(i, r)' => FreeHas(i, r) \/ (r = s /\ i = n + 1)
      /\ \A w, r : Releases(w, r)' <=> Releases(w, r)
      /\ \A d \in Clients, r \in Seqs : CallFrees(d, r)' <=> CallFrees(d, r) /\ d # c
      /\ CallFrees(c, s)
  BY <1>1, <1>2, <1>3, <1>4 DEF FreeHas, Releases, CallFrees, NoCall
<1>6. Listings'
  <2> SUFFICES ASSUME NEW r \in Seqs
               PROVE  ListedOnce(r)' /\ (Listed(r)' => r \in all_sequences \ live)
    BY <1>1 DEF Listings
  <2>1. ListedOnce(r) /\ (Listed(r) => r \in all_sequences \ live)
    BY <1>1 DEF Owned, Listings
  <2>2. ListedOnce(r)'
    BY <1>5, <2>1 DEF ListedOnce
  <2>3. Listed(r)' => Listed(r)
    BY <1>5 DEF Listed
  <2> QED BY <2>1, <2>2, <2>3
<1>7. ASSUME ~shutdown PROVE Owners'
  <2>1. Owners
    BY <1>1, <1>7 DEF Owned
  <2>2. ASSUME NEW r \in Seqs PROVE FreedOnce(r)' /\ (IsFreed(r)' => IsFreed(r))
    <3>1. FreedOnce(r)
      BY <2>1 DEF Owners
    <3>2. FreedOnce(r)'
      BY <1>5, <3>1 DEF FreedOnce
    <3>3. IsFreed(r)' => IsFreed(r)
      BY <1>5 DEF IsFreed
    <3> QED BY <3>2, <3>3
  <2> QED BY <1>1, <2>1, <2>2 DEF Owners
<1> QED BY <1>1, <1>6, <1>7 DEF Owned

\* ... or from the last worker that was active in it.
LEMMA OwnedNoLongerActive ==
  ASSUME CInv, NEW w \in Workers, SequenceNoLongerActive(w)
  PROVE  Owned'
<1>1. /\ TypeOK /\ Owned /\ Refs /\ pc[w] = "release"
      /\ pc' = [pc EXCEPT ![w] = "assign"]
      /\ UNCHANGED <<live, all_sequences, active, seq_shutdown, seq, call, shutdown>>
  BY DEF CInv, SequenceNoLongerActive, seqVars
<1>2. CASE shutdown
  <2>1. UNCHANGED free_sequences
    BY <1>2 DEF SequenceNoLongerActive
  <2> QED BY <1>1, <1>2, <2>1, ListingsQuiet DEF Owned, CallFrees
<1>3. CASE ~shutdown
  <2>1. PICK s \in Seqs : s = seq[w]
    BY <1>1 DEF Refs
  <2>2. PICK n \in Nat :
          /\ n = Len(free_sequences) /\ Len(free_sequences') = n + 1
          /\ free_sequences'[n + 1] = s
          /\ \A i \in 1..n : free_sequences'[i] = free_sequences[i]
    <3>1. free_sequences \in Seq(Seqs) /\ free_sequences' = Append(free_sequences, s)
      BY <1>1, <1>3, <2>1 DEF SequenceNoLongerActive, TypeOK
    <3> QED BY <3>1, AtEnds
  <2>3. /\ \A i \in Nat, r \in Seqs :
             FreeHas(i, r)' => FreeHas(i, r) \/ (r = s /\ i = n + 1)
        /\ \A v \in Workers, r \in Seqs : Releases(v, r)' <=> Releases(v, r) /\ v # w
        /\ \A d, r : CallFrees(d, r)' <=> CallFrees(d, r)
        /\ Releases(w, s)
    <3>1. \A i \in Nat, r \in Seqs :
            FreeHas(i, r)' => FreeHas(i, r) \/ (r = s /\ i = n + 1)
      BY <2>2 DEF FreeHas
    <3>2. \A v \in Workers, r \in Seqs : Releases(v, r)' <=> Releases(v, r) /\ v # w
      BY <1>1 DEF Releases, TypeOK
    <3>3. \A d, r : CallFrees(d, r)' <=> CallFrees(d, r)
      BY <1>1 DEF CallFrees
    <3> QED BY <1>1, <2>1, <3>1, <3>2, <3>3 DEF Releases
  <2>4. Owners
    BY <1>1, <1>3 DEF Owned
  <2>5. ASSUME NEW r \in Seqs PROVE FreedOnce(r)' /\ (IsFreed(r)' => IsFreed(r))
    <3>1. FreedOnce(r)
      BY <2>4 DEF Owners
    <3>2. FreedOnce(r)'
      BY <2>3, <3>1 DEF FreedOnce
    <3>3. IsFreed(r)' => IsFreed(r)
      BY <2>3 DEF IsFreed
    <3> QED BY <3>2, <3>3
  <2>6. Owners'
    BY <1>1, <2>4, <2>5 DEF Owners, TypeOK
  <2>7. Listings'
    BY <2>6 DEF Owners, Listings, Listed, ListedOnce, FreedOnce, IsFreed
  <2> QED BY <2>6, <2>7 DEF Owned
<1> QED BY <1>2, <1>3

LEMMA OwnedDrain ==
  ASSUME CInv, NEW w \in Workers, DrainSequence(w)
  PROVE  Owned'
<1>1. /\ TypeOK /\ Owned /\ Refs /\ Held
      /\ UNCHANGED <<live, all_sequences, free_sequences, seq_shutdown, seq, call,
                     shutdown>>
  BY DEF CInv, DrainSequence, poolVars
<1>2. Listings'
  BY <1>1, ListingsQuiet DEF Owned, CallFrees
<1>3. ASSUME ~shutdown PROVE Owners'
  <2>1. Owners
    BY <1>1, <1>3 DEF Owned
  <2>2. PICK s \in Seqs : s = seq[w]
    BY <1>1 DEF DrainSequence, Refs, Working
  <2>3. pc[w] = "next" /\ seq_shutdown[s] /\ active[s] /\ work_queue[s] = <<>>
    BY <1>1, <1>3, <2>1, <2>2 DEF DrainSequence, Owners, Held
  <2>4. /\ active' = [active EXCEPT ![s] = FALSE]
        /\ \E p \in {"release", "assign"} : pc' = [pc EXCEPT ![w] = p]
    BY <2>2, <2>3 DEF DrainSequence, CancelOne, GoesInactive
  <2>5. ~IsFreed(s) /\ s \in all_sequences \ live
    BY <2>1, <2>3 DEF Owners
  <2>6. /\ \A i, r : FreeHas(i, r)' <=> FreeHas(i, r)
        /\ \A d, r : CallFrees(d, r)' <=> CallFrees(d, r)
        /\ \A v \in Workers, r \in Seqs :
             Releases(v, r)' => Releases(v, r) \/ (v = w /\ r = s)
    BY <1>1, <2>2, <2>4 DEF FreeHas, CallFrees, Releases, TypeOK
  <2>7. \A r \in Seqs : FreedOnce(r)' /\ (IsFreed(r)' => IsFreed(r) \/ r = s)
    BY <2>1, <2>5, <2>6 DEF Owners, FreedOnce, IsFreed
  <2> QED BY <1>1, <2>1, <2>3, <2>4, <2>5, <2>7 DEF Owners, TypeOK
<1> QED BY <1>1, <1>2, <1>3 DEF Owned

LEMMA OwnedKept ==
  ASSUME CInv, Next
  PROVE  Owned'
<1>1. /\ TypeOK /\ Owned /\ Refs /\ Closing /\ live \subseteq all_sequences
  BY DEF CInv, TypeOK
<1>2. ASSUME UNCHANGED <<free_sequences, all_sequences, live, seq_shutdown, shutdown>>,
             \A c \in Clients, s \in Seqs : CallFrees(c, s)' => CallFrees(c, s),
             \A v \in Workers, s \in Seqs : Releases(v, s)' => Releases(v, s),
             \A s \in Seqs :
               active'[s] => active[s] \/ (s \in all_sequences /\ ~seq_shutdown[s]),
             \A v \in Workers : pc'[v] = "drain" => pc[v] = "drain"
      PROVE  Owned'
  BY <1>1, <1>2, ListingsQuiet, OwnersQuiet DEF Owned
<1>3. ASSUME NEW c \in Clients, ClientStep(c) PROVE Owned'
  <2>1. \A d \in Clients \ {c} : call'[d] = call[d]
    BY <1>1, <1>3 DEF ClientStep, PushFree, QueueSequence, DropSequence, StartWorker,
                      TakeWorker, TypeOK
  <2>2. CASE DropSequence(c) \/ StartWorker(c)
    <3>1. call'[c] = call[c] \/ call'[c] = NoCall
      BY <1>1, <2>2 DEF DropSequence, StartWorker, TypeOK
    <3>2. \A d \in Clients, s \in Seqs : CallFrees(d, s)' => CallFrees(d, s)
      BY <2>1, <3>1 DEF CallFrees, NoCall
    <3>3. UNCHANGED <<free_sequences, all_sequences, live, seq_shutdown, shutdown,
                      active, pc, seq>>
      BY <2>2 DEF DropSequence, StartWorker, seqVars, poolVars, workerVars
    <3> QED BY <1>2, <3>2, <3>3 DEF Releases
  <2>3. CASE QueueSequence(c)
    <3>1. PICK s \in Seqs : s = call[c].seq
      BY <1>1, <2>3 DEF QueueSequence, Refs
    <3>2. /\ call'[c].op # "free"
          /\ \A w \in Workers : pc'[w] = pc[w] \/ pc'[w] = "wait"
      <4>1. CASE TakeWorker(c, s)
        BY <1>1, <4>1 DEF TakeWorker, Call, TypeOK
      <4>2. CASE /\ UNCHANGED pc
                 /\ \/ call'[c] = NoCall
                    \/ call'[c] = Call("drop", Head(Queued(queued_sequences, s)), None)
        BY <4>2 DEF NoCall, Call
      <4> QED BY <1>1, <2>3, <3>1, <4>1, <4>2 DEF QueueSequence, TypeOK
    <3>3. \A d \in Clients, r \in Seqs : CallFrees(d, r)' => CallFrees(d, r)
      BY <2>1, <3>2 DEF CallFrees
    <3>4. UNCHANGED <<free_sequences, all_sequences, live, seq_shutdown, shutdown,
                      active, seq>>
      BY <2>3 DEF QueueSequence, seqVars
    <3> QED BY <1>2, <3>2, <3>3, <3>4 DEF Releases
  <2> QED BY <1>3, <2>2, <2>3, OwnedPushFree DEF ClientStep
<1>4. ASSUME NEW c \in Clients, NEW s \in Seqs, CancelPendingFunctions(c, s)
      PROVE  Owned'
  BY <1>2, <1>4 DEF CancelPendingFunctions, poolVars, workerVars, CallFrees, Releases
<1>5. ASSUME NEW c \in Clients, NEW s \in Seqs, NEW f \in Functions, Add(c, s, f)
      PROVE  Owned'
  <2>1. /\ \A d \in Clients \ {c} : call'[d] = call[d]
        /\ call' = call \/ call'[c] \in {NoCall, Call("queue", s, None)}
    BY <1>1, <1>5 DEF Add, TypeOK
  <2>2. \A d \in Clients, r \in Seqs : CallFrees(d, r)' => CallFrees(d, r)
    BY <2>1 DEF CallFrees, NoCall, Call
  <2>3. UNCHANGED <<free_sequences, all_sequences, live, seq_shutdown, shutdown, active,
                    pc, seq>>
    BY <1>5 DEF Add, poolVars, workerVars
  <2> QED BY <1>2, <2>2, <2>3 DEF Releases
<1>6. ASSUME NEW w \in Workers, WorkerStep(w) PROVE Owned'
  <2>1. CASE GetNextTask(w) \/ AssignWorkerToNextSequence(w) \/ FunctionDone(w)
    <3>1. /\ UNCHANGED <<free_sequences, all_sequences, live, seq_shutdown, shutdown,
                         active, call>>
          /\ pc'[w] \notin {"drain", "release"}
          /\ \A v \in Workers \ {w} : pc'[v] = pc[v] /\ seq'[v] = seq[v]
      BY <1>1, <2>1 DEF GetNextTask, AssignWorkerToNextSequence, FunctionDone, seqVars,
                        poolVars, TypeOK
    <3> QED BY <1>2, <3>1 DEF CallFrees, Releases
  <2>2. CASE NextFunction(w) \/ NoFunction(w)
    <3>1. /\ UNCHANGED <<free_sequences, all_sequences, live, seq_shutdown, shutdown,
                         call, seq>>
          /\ pc'[w] \notin {"drain", "release"}
          /\ \A v \in Workers \ {w} : pc'[v] = pc[v]
      BY <1>1, <2>2 DEF NextFunction, NoFunction, poolVars, TypeOK
    <3>2. PICK s \in Seqs : s = seq[w]
      BY <1>1, <2>2 DEF NextFunction, NoFunction, Refs, Working
    <3>3. \A r \in Seqs :
            active'[r] => active[r] \/ (r \in all_sequences /\ ~seq_shutdown[r])
      <4>1. CASE NextFunction(w)
        <5>1. /\ ~seq_shutdown[s] /\ work_queue[s] # <<>>
              /\ active' = [active EXCEPT ![s] = TRUE]
          BY <3>2, <4>1 DEF NextFunction
        <5>2. s \in all_sequences
          BY <1>1, <5>1 DEF Closing
        <5> QED BY <1>1, <5>1, <5>2 DEF TypeOK
      <4>2. CASE NoFunction(w)
        <5>1. active' = active \/ active' = [active EXCEPT ![s] = FALSE]
          BY <3>2, <4>2 DEF NoFunction, GoesInactive
        <5> QED BY <1>1, <5>1 DEF TypeOK
      <4> QED BY <2>2, <4>1, <4>2
    <3> QED BY <1>2, <3>1, <3>3 DEF CallFrees, Releases
  <2> QED BY <1>6, <2>1, <2>2, OwnedDrain, OwnedNoLongerActive DEF WorkerStep
<1>7. CASE InitiateShutDown \/ ShutDownStep
  <2>1. /\ UNCHANGED <<free_sequences, all_sequences, live, call>>
        /\ shutdown'
    <3>1. CASE InitiateShutDown
      BY <3>1 DEF InitiateShutDown
    <3>2. CASE ShutDownStep
      BY <1>1, <3>2 DEF ShutDownStep, InitiateSequenceShutDown, BeginWait,
                        WaitForShutDown, ShutDownWorker, ShutDownComplete, Refs,
                        poolVars
    <3> QED BY <1>7, <3>1, <3>2
  <2> QED BY <1>1, <2>1, ListingsQuiet DEF Owned, CallFrees
<1> QED BY <1>3, <1>4, <1>5, <1>6, <1>7, OwnedNewSequence, OwnedFreeSequence DEF Next

-----------------------------------------------------------------------------
LEMMA CInitially == Init => CInv
<1> SUFFICES ASSUME Init PROVE CInv
  OBVIOUS
<1>1. TypeOK
  <2>1. \A s \in Seqs : Len(work_queue[s]) = 0
    BY DEF Init
  <2>2. MaxQueueSize # 0 => \A s \in Seqs : Len(work_queue[s]) <= MaxQueueSize
    BY <2>1, LimitAssumption
  <2>3. /\ work_queue \in [Seqs -> Seq(Functions)] /\ tasks \in [Workers -> Seq(Seqs)]
        /\ queued_sequences \in Seq(Seqs) /\ free_sequences \in Seq(Seqs)
    BY DEF Init
  <2>4. call \in [Clients -> CallTypes] /\ pc \in [Workers -> Pcs]
    BY DEF Init, NoCall, Ops, Pcs, CallTypes
  <2>5. /\ status \in [Functions -> Statuses] /\ seq \in [Workers -> Seqs \cup {None}]
        /\ run \in [Workers -> Functions \cup {None}] /\ exit \in [Workers -> BOOLEAN]
    BY DEF Init, Statuses
  <2>6. /\ active \in [Seqs -> BOOLEAN] /\ seq_shutdown \in [Seqs -> BOOLEAN]
        /\ has_pool \in [Seqs -> BOOLEAN]
    BY DEF Init
  <2> QED BY <2>2, <2>3, <2>4, <2>5, <2>6 DEF Init, TypeOK, CallTypes
<1>2. Refs /\ Held /\ Closing
  BY DEF Init, Refs, NoCall, Working, Held, Closing
<1>3. Hired
  BY DEF Init, Hired, Starts, NoCall
<1>4. Answers
  BY DEF Init, Answers
<1>5. /\ \A i, s : ~FreeHas(i, s)
      /\ \A s : \A c \in Clients : ~CallFrees(c, s)
      /\ \A s : \A w \in Workers : ~Releases(w, s)
  BY DEF Init, FreeHas, CallFrees, Releases, NoCall
<1>6. Owners
  BY <1>5 DEF Init, Owners, FreedOnce, IsFreed
<1>7. Listings
  BY <1>6, FreedIsListed DEF Owners
<1> QED BY <1>1, <1>2, <1>3, <1>4, <1>6, <1>7 DEF CInv, Owned

LEMMA CInductive ==
  ASSUME ~AddsDuringShutDown, CInv, [Next]_vars
  PROVE  CInv'
<1>1. CASE Next
  <2>1. TypeOK'
    BY <1>1, TypeKept DEF CInv
  <2>2. Refs' /\ Held'
    BY <1>1, <2>1, RefsKept, HeldKept
  <2>3. Hired' /\ Closing'
    BY <1>1, <2>1, HiredKept, ClosingKept
  <2>4. Answers' /\ Owned'
    BY <1>1, AnswersKept, OwnedKept
  <2> QED BY <2>1, <2>2, <2>3, <2>4 DEF CInv
<1>2. CASE UNCHANGED vars
  <2> USE <1>2 DEF vars, seqVars, poolVars, workerVars, downVars
  <2>1. TypeOK'
    BY DEF CInv, TypeOK
  <2>2. Refs' /\ Closing'
    BY DEF CInv, Refs, Closing
  <2>3. Held'
    BY DEF CInv, Held, InHand, Carried, CallHas, QueueHas, TaskHas, WorkerHas
  <2>4. Hired'
    BY DEF CInv, Hired, Starts
  <2>5. Answers'
    BY DEF CInv, Answers, Waits, Runs
  <2>6. Listings' /\ (~shutdown' => Owners')
    <3>1. CInv => Listings /\ (~shutdown => Owners)
      BY DEF CInv, Owned
    <3>2. Listings'
      BY <3>1 DEF CInv, Listings, Listed, ListedOnce, FreeHas, CallFrees
    <3>3. ~shutdown => Owners'
      BY <3>1 DEF Owners, FreedOnce, IsFreed, FreeHas, CallFrees, Releases
    <3> QED BY <3>2, <3>3
  <2> QED BY <2>1, <2>2, <2>3, <2>4, <2>5, <2>6 DEF CInv, Owned
<1> QED BY <1>1, <1>2

LEMMA CarriesWork ==
  ASSUME CInv
  PROVE  WorkIsCarried
<1> SUFFICES ASSUME NEW s \in live, work_queue[s] # <<>>, ~seq_shutdown[s]
             PROVE  Carriers(s) # {}
  BY DEF WorkIsCarried
<1>1. InHand(s)
  BY DEF CInv, TypeOK, Held
<1>2. CASE \E c \in Clients :
             call[c].seq = s /\ call[c].op \in {"queue", "start", "drop"}
  BY <1>2 DEF Carriers
<1>3. CASE \E i \in Nat : QueueHas(i, s)
  <2>1. PICK i : i \in 1..Len(queued_sequences) /\ queued_sequences[i] = s
    BY <1>3 DEF QueueHas
  <2>2. i \in DOMAIN queued_sequences
    BY <2>1 DEF CInv, TypeOK
  <2> QED BY <2>1, <2>2 DEF Carriers
<1>4. CASE \E w \in Workers, i \in Nat : TaskHas(w, i, s)
  <2>1. PICK w \in Workers, i \in Nat : i \in 1..Len(tasks[w]) /\ tasks[w][i] = s
    BY <1>4 DEF TaskHas
  <2>2. i \in DOMAIN tasks[w]
    BY <2>1 DEF CInv, TypeOK
  <2>3. s \in Elements(tasks[w])
    BY <2>1, <2>2 DEF Elements
  <2> QED BY <2>3 DEF Carriers
<1>5. CASE \E w \in Workers : WorkerHas(w, s)
  BY <1>5 DEF WorkerHas, Working, Carriers
<1> QED BY <1>1, <1>2, <1>3, <1>4, <1>5 DEF InHand, Carried, CallHas

LEMMA WorkersAreConsistent ==
  ASSUME CInv
  PROVE  WorkersConsistent
<1>1. active_workers \cup available_workers \in SUBSET Workers
  BY DEF CInv, TypeOK
<1>2. Cardinality(active_workers \cup available_workers) <= Cardinality(Workers)
  BY <1>1, WorkersAssumption, FS_Subset
<1>3. available_workers \subseteq Workers
  BY DEF CInv, TypeOK
<1> QED BY <1>2, <1>3 DEF CInv, Hired, WorkersConsistent

\* A sequence is listed at one index, so the list is as long as it has elements.
LEMMA FreeIsOnce ==
  ASSUME CInv
  PROVE  FreeOnce
<1>1. /\ free_sequences \in Seq(Seqs) /\ live \subseteq Seqs
      /\ Listings
  BY DEF CInv, TypeOK, Owned
<1>2. PICK n \in Nat : n = Len(free_sequences)
  BY <1>1, AtEnds
<1>3. DOMAIN free_sequences = 1..n /\ \A i \in 1..n : free_sequences[i] \in Seqs
  BY <1>1, <1>2
<1>4. \A i \in 1..n : FreeHas(i, free_sequences[i])
  BY <1>2 DEF FreeHas
<1>5. \A i \in 1..n : free_sequences[i] \notin live
  BY <1>1, <1>3, <1>4 DEF Listings, Listed
<1>6. \A i, j \in 1..n : free_sequences[i] = free_sequences[j] => i = j
  BY <1>1, <1>3, <1>4 DEF Listings, ListedOnce
<1>7. Cardinality(Elements(free_sequences)) = n
  <2> DEFINE f == [i \in 1..n |-> free_sequences[i]]
  <2>1. f \in Bijection(1..n, Elements(free_sequences))
    BY <1>3, <1>6 DEF Bijection, Injection, Surjection, IsInjective, Elements
  <2>2. IsFiniteSet(1..n) /\ Cardinality(1..n) = n
    BY FS_Interval
  <2> QED BY <2>1, <2>2, FS_Bijection DEF ExistsBijection
<1> QED BY <1>2, <1>3, <1>5, <1>7 DEF FreeOnce, Elements

LEMMA LeavesNothing ==
  ASSUME CInv
  PROVE  NothingLeft
<1> SUFFICES ASSUME stage = "down"
             PROVE  /\ \A w \in Workers : pc[w] \in {"unborn", "gone"}
                    /\ \A f \in Functions : status[f] \notin {"pending", "running"}
  BY DEF NothingLeft
<1>1. TypeOK /\ Closing /\ Hired /\ Answers
  BY DEF CInv
<1>2. \A w \in Workers : pc[w] \in {"unborn", "gone"}
  BY <1>1 DEF Closing, Hired
<1>3. \A s \in Seqs : work_queue[s] = <<>>
  BY <1>1 DEF Closing
<1>4. ASSUME NEW f \in Functions PROVE ~Waits(f) /\ ~Runs(f)
  <2>1. \A s \in Seqs : Len(work_queue[s]) = 0
    BY <1>3
  <2> QED BY <1>2, <2>1 DEF Waits, Runs
<1> QED BY <1>1, <1>2, <1>4 DEF Answers

\* However many workers the pool has, and whatever its clients cancel and it
\* sheds: work is not stranded, workers and free sequences are accounted for,
\* and ShutDown leaves nothing behind, if clients have stopped adding when it
\* starts.
THEOREM AlwaysPoolConsistent ==
  ASSUME ~AddsDuringShutDown
  PROVE  Spec => []PoolConsistent
<1>1. CInv /\ [Next]_vars => CInv'
  BY CInductive
<1>2. CInv => PoolConsistent
  BY CarriesWork, WorkersAreConsistent, FreeIsOnce, LeavesNothing
  DEF PoolConsistent, CInv
<1> QED BY <1>1, <1>2, CInitially, PTL DEF Spec, SafeSpec
=============================================================================
