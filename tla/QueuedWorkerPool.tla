-------------------------- MODULE QueuedWorkerPool --------------------------
(***************************************************************************)
(* QueuedWorkerPool, its Sequences and its workers                         *)
(* (pagespeed/kernel/thread/queued_worker_pool.cc, queued_worker.cc and    *)
(* worker.cc).  Every region of the code under sequence_mutex_ or mutex_   *)
(* is one action; Sequence::Add is two or three of them, because it unlocks*)
(* the sequence before it calls pool_->QueueSequence, and QueueSequence    *)
(* unlocks the pool before it hands the worker its task or cancels the     *)
(* sequence it drops.                                                      *)
(*                                                                         *)
(* Clients are the threads that call the pool: any of them may call Add,   *)
(* NewSequence, FreeSequence, CancelPendingFunctions, and so may the       *)
(* functions that workers run.  A cancelled function's Cancel touches only *)
(* that function, so it is one step with the region that removes it.       *)
(*                                                                         *)
(* Abstracted: the waveform statistics; the condition variables (a waiting *)
(* thread's action is guarded by what it waits for); which of the          *)
(* available workers is taken.                                             *)
(***************************************************************************)
EXTENDS Integers, FiniteSets, Sequences

CONSTANTS Seqs, Functions, Workers, Clients, None,
          MaxQueueSize,         \* max_queue_size_, 0 for kUnboundedQueue
          LoadShedding,         \* load_shedding_threshold_, 0 for kNoLoadShedding
          CancelsPending,       \* do clients call CancelPendingFunctions?
          AddsDuringShutDown    \* do clients call Add while ShutDown starts?

ASSUME LimitAssumption == MaxQueueSize \in Nat /\ LoadShedding \in Nat
ASSUME SwitchAssumption ==
  {CancelsPending, AddsDuringShutDown} \subseteq BOOLEAN
\* max_workers_ is a number.
ASSUME WorkersAssumption == IsFiniteSet(Workers)
\* No function is the null pointer.
ASSUME NoneAssumption == None \notin Functions

VARIABLES
  work_queue, active, seq_shutdown, has_pool,       \* Sequence
  shutdown, all_sequences, queued_sequences, free_sequences,
  active_workers, available_workers,                \* QueuedWorkerPool
  tasks, exit,                 \* WorkThread: the Run closures queued, exit_
  pc, seq,                     \* a worker: where it is, with which sequence
  call,                        \* what a client still has to do of its call
  stage, waiting,              \* the thread in ShutDown: where, for whom
  live,                        \* sequences handed out and not yet freed
  status, run                  \* of each function; the function a worker runs

seqVars == <<work_queue, active, seq_shutdown, has_pool>>
poolVars == <<shutdown, all_sequences, queued_sequences, free_sequences,
              active_workers, available_workers>>
workerVars == <<tasks, exit, pc, seq, run>>
downVars == <<stage, waiting>>
vars == <<seqVars, poolVars, workerVars, call, downVars, live, status>>

NoCall == [op |-> "none", seq |-> None, worker |-> None]
Call(op, s, w) == [op |-> op, seq |-> s, worker |-> w]

Init ==
  /\ work_queue = [s \in Seqs |-> <<>>]
  /\ active = [s \in Seqs |-> FALSE]
  /\ seq_shutdown = [s \in Seqs |-> FALSE]
  /\ has_pool = [s \in Seqs |-> TRUE]
  /\ shutdown = FALSE
  /\ all_sequences = {}
  /\ queued_sequences = <<>>
  /\ free_sequences = <<>>
  /\ active_workers = {}
  /\ available_workers = {}
  /\ tasks = [w \in Workers |-> <<>>]
  /\ exit = [w \in Workers |-> FALSE]
  /\ pc = [w \in Workers |-> "unborn"]
  /\ seq = [w \in Workers |-> None]
  /\ run = [w \in Workers |-> None]
  /\ call = [c \in Clients |-> NoCall]
  /\ stage = "up"
  /\ waiting = {}
  /\ live = {}
  /\ status = [f \in Functions |-> "new"]

Elements(q) == {q[i] : i \in DOMAIN q}

-----------------------------------------------------------------------------
(* Clients.                                                                *)

\* NewSequence, with the Reset of a recycled sequence.
NewSequence(c) ==
  /\ call[c] = NoCall
  /\ ~shutdown
  /\ IF free_sequences = <<>>
     THEN \E s \in Seqs \ all_sequences :
            /\ all_sequences' = all_sequences \cup {s}
            /\ live' = live \cup {s}
            /\ UNCHANGED <<free_sequences, seq_shutdown, active>>
     ELSE LET s == free_sequences[Len(free_sequences)]
          IN  /\ free_sequences' = SubSeq(free_sequences, 1, Len(free_sequences) - 1)
              /\ seq_shutdown' = [seq_shutdown EXCEPT ![s] = FALSE]
              /\ active' = [active EXCEPT ![s] = FALSE]
              /\ live' = live \cup {s}
              /\ UNCHANGED all_sequences
  /\ UNCHANGED <<work_queue, has_pool, shutdown, queued_sequences,
                 active_workers, available_workers, workerVars, call, downVars,
                 status>>

\* Mutant of Recyclable: it forgets the worker active in the sequence.
RecyclableAnyway(s) == TRUE

\* What Sequence::InitiateShutDown returns.
Recyclable(s) == ~active[s]

\* The first region of FreeSequence: InitiateShutDown of the sequence.
\* (Callers free a sequence when nothing of theirs is left in it.)
FreeSequence(c, s) ==
  /\ call[c] = NoCall
  /\ s \in live
  /\ work_queue[s] = <<>>
  /\ \A d \in Clients : call[d].seq # s
  /\ live' = live \ {s}
  /\ seq_shutdown' = [seq_shutdown EXCEPT ![s] = TRUE]
  /\ call' = [call EXCEPT ![c] = IF Recyclable(s) THEN Call("free", s, None)
                                 ELSE NoCall]
  /\ UNCHANGED <<work_queue, active, has_pool, poolVars, workerVars, downVars,
                 status>>

\* ... and the second.
PushFree(c) ==
  /\ call[c].op = "free"
  /\ free_sequences' = Append(free_sequences, call[c].seq)
  /\ call' = [call EXCEPT ![c] = NoCall]
  /\ UNCHANGED <<seqVars, shutdown, all_sequences, queued_sequences,
                 active_workers, available_workers, workerVars, downVars, live,
                 status>>

-----------------------------------------------------------------------------
(* Sequence::Add.                                                          *)

Overflows(s) == MaxQueueSize # 0 /\ Len(work_queue[s]) >= MaxQueueSize

\* Mutant of QueuesSequence: active_ is not looked at.
QueuesWhenBusy(s, q) == Len(q) = 1

\* Does the Add that leaves queue q have to queue the sequence?
QueuesSequence(s, q) == ~active[s] /\ Len(q) = 1

MayAdd(s) ==
  /\ s \in live
  /\ AddsDuringShutDown \/ ~shutdown \/ seq_shutdown[s]

Add(c, s, f) ==
  /\ call[c] = NoCall
  /\ MayAdd(s)
  /\ status[f] = "new"
  /\ IF seq_shutdown[s]
     THEN /\ status' = [status EXCEPT ![f] = "cancelled"]
          /\ UNCHANGED <<work_queue, call>>
     ELSE /\ LET kept == IF Overflows(s) THEN Tail(work_queue[s]) ELSE work_queue[s]
                 q == Append(kept, f)
             IN  /\ work_queue' = [work_queue EXCEPT ![s] = q]
                 /\ call' = [call EXCEPT ![c] = IF QueuesSequence(s, q)
                                                THEN Call("queue", s, None)
                                                ELSE NoCall]
          /\ status' = [g \in Functions |->
                          IF g = f THEN "pending"
                          ELSE IF Overflows(s) /\ g = Head(work_queue[s])
                               THEN "cancelled" ELSE status[g]]
  /\ UNCHANGED <<active, seq_shutdown, has_pool, poolVars, workerVars, downVars,
                 live>>

\* CancelPendingFunctions: the swap and the cancels.
CancelPendingFunctions(c, s) ==
  /\ CancelsPending
  /\ call[c] = NoCall
  /\ s \in live
  /\ work_queue[s] # <<>>
  /\ status' = [f \in Functions |-> IF f \in Elements(work_queue[s])
                                    THEN "cancelled" ELSE status[f]]
  /\ work_queue' = [work_queue EXCEPT ![s] = <<>>]
  /\ UNCHANGED <<active, seq_shutdown, has_pool, poolVars, workerVars, call,
                 downVars, live>>

-----------------------------------------------------------------------------
(* QueueSequence: the region under mutex_, and what follows it.            *)

\* Finding a worker: an available one, or a new one below the limit.
TakeWorker(c, s) ==
  \/ \E w \in available_workers :
       /\ available_workers' = available_workers \ {w}
       /\ active_workers' = active_workers \cup {w}
       /\ call' = [call EXCEPT ![c] = Call("start", s, w)]
       /\ UNCHANGED pc
  \/ /\ available_workers = {}
     /\ \E w \in Workers :
          /\ pc[w] = "unborn"
          /\ pc' = [pc EXCEPT ![w] = "wait"]
          /\ active_workers' = active_workers \cup {w}
          /\ call' = [call EXCEPT ![c] = Call("start", s, w)]
     /\ UNCHANGED available_workers

NoWorker == available_workers = {} /\ Cardinality(active_workers) >= Cardinality(Workers)

\* Mutant of Queued: the sequence is lost.
NotQueued(q, s) == q

Queued(q, s) == Append(q, s)

QueueSequence(c) ==
  LET s == call[c].seq
      q == Queued(queued_sequences, s)
  IN  /\ call[c].op = "queue"
      /\ has_pool[s]
      /\ \/ /\ ~NoWorker
            /\ TakeWorker(c, s)
            /\ UNCHANGED queued_sequences
         \/ /\ NoWorker
            /\ IF LoadShedding # 0 /\ Len(q) > LoadShedding
               THEN /\ queued_sequences' = Tail(q)
                    /\ call' = [call EXCEPT ![c] = Call("drop", Head(q), None)]
               ELSE /\ queued_sequences' = q
                    /\ call' = [call EXCEPT ![c] = NoCall]
            /\ UNCHANGED <<pc, active_workers, available_workers>>
      /\ UNCHANGED <<seqVars, shutdown, all_sequences, free_sequences, tasks, exit,
                     seq, run, downVars, live, status>>

\* CancelTasksOnWorkQueue: one turn of its loop, which unlocks the sequence to
\* cancel what it took.
CancelOne(s) ==
  /\ work_queue[s] # <<>>
  /\ work_queue' = [work_queue EXCEPT ![s] = Tail(@)]
  /\ status' = [status EXCEPT ![Head(work_queue[s])] = "cancelled"]

\* drop_sequence->Cancel().
DropSequence(c) ==
  LET s == call[c].seq
  IN  /\ call[c].op = "drop"
      /\ \/ /\ CancelOne(s)
            /\ UNCHANGED call
         \/ /\ work_queue[s] = <<>>
            /\ call' = [call EXCEPT ![c] = NoCall]
            /\ UNCHANGED <<work_queue, status>>
      /\ UNCHANGED <<active, seq_shutdown, has_pool, poolVars, workerVars, downVars,
                     live>>

\* RunInWorkThread.
StartWorker(c) ==
  /\ call[c].op = "start"
  /\ tasks' = [tasks EXCEPT ![call[c].worker] = Append(@, call[c].seq)]
  /\ call' = [call EXCEPT ![c] = NoCall]
  /\ UNCHANGED <<seqVars, poolVars, exit, pc, seq, run, downVars, live, status>>

-----------------------------------------------------------------------------
(* A worker.                                                               *)

\* WorkThread::GetNextTask.
GetNextTask(w) ==
  /\ pc[w] = "wait"
  /\ \/ /\ exit[w]
        /\ pc' = [pc EXCEPT ![w] = "gone"]
        /\ UNCHANGED <<tasks, seq>>
     \/ /\ ~exit[w]
        /\ tasks[w] # <<>>
        /\ pc' = [pc EXCEPT ![w] = "next"]
        /\ seq' = [seq EXCEPT ![w] = Head(tasks[w])]
        /\ tasks' = [tasks EXCEPT ![w] = Tail(@)]
  /\ UNCHANGED <<seqVars, poolVars, exit, run, call, downVars, live, status>>

\* NextFunction when there is one to run.
NextFunction(w) ==
  LET s == seq[w]
  IN  /\ pc[w] = "next"
      /\ ~seq_shutdown[s]
      /\ work_queue[s] # <<>>
      /\ active' = [active EXCEPT ![s] = TRUE]
      /\ work_queue' = [work_queue EXCEPT ![s] = Tail(@)]
      /\ run' = [run EXCEPT ![w] = Head(work_queue[s])]
      /\ status' = [status EXCEPT ![Head(work_queue[s])] = "running"]
      /\ pc' = [pc EXCEPT ![w] = "run"]
      /\ UNCHANGED <<seq_shutdown, has_pool, poolVars, tasks, exit, seq, call,
                     downVars, live>>

\* function->CallRun() returns.
FunctionDone(w) ==
  /\ pc[w] = "run"
  /\ status' = [status EXCEPT ![run[w]] = "done"]
  /\ run' = [run EXCEPT ![w] = None]
  /\ pc' = [pc EXCEPT ![w] = "next"]
  /\ UNCHANGED <<seqVars, poolVars, tasks, exit, seq, call, downVars, live>>

\* Mutant of GoesInactive: the flag is left.
StaysActive(s) == active

\* active_ = false.
GoesInactive(s) == [active EXCEPT ![s] = FALSE]

\* NextFunction when the queue is empty, or shut down before it began.
NoFunction(w) ==
  LET s == seq[w]
  IN  /\ pc[w] = "next"
      /\ IF seq_shutdown[s]
         THEN ~active[s] /\ UNCHANGED active
         ELSE work_queue[s] = <<>> /\ active' = GoesInactive(s)
      /\ pc' = [pc EXCEPT ![w] = "assign"]
      /\ UNCHANGED <<work_queue, seq_shutdown, has_pool, poolVars, tasks, exit, seq,
                     run, call, downVars, live, status>>

\* NextFunction on a sequence shut down while this worker was active in it.
DrainSequence(w) ==
  LET s == seq[w]
  IN  /\ \/ pc[w] = "drain"
         \/ pc[w] = "next" /\ seq_shutdown[s] /\ active[s]
      /\ \/ /\ CancelOne(s)
            /\ pc' = [pc EXCEPT ![w] = "drain"]
            /\ UNCHANGED active
         \/ /\ work_queue[s] = <<>>
            /\ active' = GoesInactive(s)
            /\ pc' = [pc EXCEPT ![w] = IF has_pool[s] THEN "release" ELSE "assign"]
            /\ UNCHANGED <<work_queue, status>>
      /\ UNCHANGED <<seq_shutdown, has_pool, poolVars, tasks, exit, seq, run, call,
                     downVars, live>>

SequenceNoLongerActive(w) ==
  /\ pc[w] = "release"
  /\ free_sequences' = IF shutdown THEN free_sequences
                       ELSE Append(free_sequences, seq[w])
  /\ pc' = [pc EXCEPT ![w] = "assign"]
  /\ UNCHANGED <<seqVars, shutdown, all_sequences, queued_sequences,
                 active_workers, available_workers, tasks, exit, seq, run, call,
                 downVars, live, status>>

\* active_workers_.erase(worker)
Erased(w) == active_workers \ {w}

AssignWorkerToNextSequence(w) ==
  /\ pc[w] = "assign"
  /\ IF ~shutdown /\ queued_sequences # <<>>
     THEN /\ seq' = [seq EXCEPT ![w] = Head(queued_sequences)]
          /\ queued_sequences' = Tail(queued_sequences)
          /\ pc' = [pc EXCEPT ![w] = "next"]
          /\ UNCHANGED <<active_workers, available_workers>>
     ELSE /\ seq' = [seq EXCEPT ![w] = None]
          /\ pc' = [pc EXCEPT ![w] = "wait"]
          /\ IF shutdown
             THEN UNCHANGED <<active_workers, available_workers>>
             ELSE /\ active_workers' = Erased(w)
                  /\ available_workers' = available_workers \cup {w}
          /\ UNCHANGED queued_sequences
  /\ UNCHANGED <<seqVars, shutdown, all_sequences, free_sequences, tasks, exit, run,
                 call, downVars, live, status>>

-----------------------------------------------------------------------------
(* ShutDown, by the thread that owns the pool.                             *)

InitiateShutDown ==
  /\ stage = "up"
  /\ AddsDuringShutDown \/ \A c \in Clients : call[c] = NoCall
  /\ shutdown' = TRUE
  /\ stage' = "initiate"
  /\ waiting' = all_sequences
  /\ UNCHANGED <<seqVars, all_sequences, queued_sequences, free_sequences,
                 active_workers, available_workers, workerVars, call, live, status>>

InitiateSequenceShutDown ==
  /\ stage = "initiate"
  /\ IF waiting = {}
     THEN /\ stage' = "wait"
          /\ UNCHANGED <<seq_shutdown, waiting>>
     ELSE \E s \in waiting :
            /\ seq_shutdown' = [seq_shutdown EXCEPT ![s] = TRUE]
            /\ waiting' = waiting \ {s}
            /\ UNCHANGED stage
  /\ UNCHANGED <<work_queue, active, has_pool, poolVars, workerVars, call, live,
                 status>>

\* Sequence::WaitForShutDown, from the flags it sets ...
BeginWait ==
  /\ stage = "wait"
  /\ LET left == {s \in all_sequences : has_pool[s]}
     IN  IF left = {}
         THEN /\ stage' = "join"
              /\ UNCHANGED <<seq_shutdown, has_pool, waiting>>
         ELSE \E s \in left :
                /\ seq_shutdown' = [seq_shutdown EXCEPT ![s] = TRUE]
                /\ has_pool' = [has_pool EXCEPT ![s] = FALSE]
                /\ waiting' = {s}
                /\ stage' = "waiting"
  /\ UNCHANGED <<work_queue, active, poolVars, workerVars, call, live, status>>

LeftToCancel(s) == work_queue[s] # <<>>

\* ... through while (active_) TimedWait to the cancelling of what is left.
WaitForShutDown ==
  /\ stage = "waiting"
  /\ \E s \in waiting :
       /\ ~active[s]
       /\ IF LeftToCancel(s)
          THEN CancelOne(s) /\ UNCHANGED <<stage, waiting>>
          ELSE /\ stage' = "wait"
               /\ waiting' = {}
               /\ UNCHANGED <<work_queue, status>>
  /\ UNCHANGED <<active, seq_shutdown, has_pool, poolVars, workerVars, call, live>>

\* worker->ShutDown() asks the thread to exit, and joins it.
ShutDownWorker(w) ==
  /\ stage = "join"
  /\ ~exit[w]
  /\ w \in IF active_workers # {} THEN active_workers ELSE available_workers
  /\ \A v \in Workers : exit[v] => pc[v] = "gone"
  /\ exit' = [exit EXCEPT ![w] = TRUE]
  /\ active_workers' = active_workers \ {w}
  /\ available_workers' = available_workers \ {w}
  /\ UNCHANGED <<seqVars, shutdown, all_sequences, queued_sequences, free_sequences,
                 tasks, pc, seq, run, call, downVars, live, status>>

\* The last Join has returned: the pool is down.
ShutDownComplete ==
  /\ stage = "join"
  /\ active_workers = {} /\ available_workers = {}
  /\ \A v \in Workers : exit[v] => pc[v] = "gone"
  /\ stage' = "down"
  /\ UNCHANGED <<seqVars, poolVars, workerVars, call, waiting, live, status>>

ShutDownStep ==
  \/ InitiateSequenceShutDown
  \/ BeginWait
  \/ WaitForShutDown
  \/ \E w \in Workers : ShutDownWorker(w)
  \/ ShutDownComplete

ClientStep(c) == PushFree(c) \/ QueueSequence(c) \/ DropSequence(c) \/ StartWorker(c)

WorkerStep(w) ==
  \/ GetNextTask(w)
  \/ NextFunction(w)
  \/ FunctionDone(w)
  \/ NoFunction(w)
  \/ DrainSequence(w)
  \/ SequenceNoLongerActive(w)
  \/ AssignWorkerToNextSequence(w)

Next ==
  \/ \E c \in Clients : NewSequence(c) \/ ClientStep(c)
  \/ \E c \in Clients, s \in Seqs : FreeSequence(c, s) \/ CancelPendingFunctions(c, s)
  \/ \E c \in Clients, s \in Seqs, f \in Functions : Add(c, s, f)
  \/ \E w \in Workers : WorkerStep(w)
  \/ InitiateShutDown
  \/ ShutDownStep

SafeSpec == Init /\ [][Next]_vars

\* Threads run, and functions return; nobody has to add, free or shut down.
Fairness ==
  /\ \A c \in Clients : WF_vars(ClientStep(c))
  /\ \A w \in Workers : WF_vars(WorkerStep(w))
  /\ WF_vars(ShutDownStep)

Spec == SafeSpec /\ Fairness

-----------------------------------------------------------------------------
(* Properties.                                                             *)

Ops == {"none", "free", "queue", "drop", "start"}
Pcs == {"unborn", "wait", "next", "run", "drain", "release", "assign", "gone"}
Statuses == {"new", "pending", "running", "done", "cancelled"}

TypeOK ==
  /\ work_queue \in [Seqs -> Seq(Functions)]
  /\ MaxQueueSize # 0 => \A s \in Seqs : Len(work_queue[s]) <= MaxQueueSize
  /\ active \in [Seqs -> BOOLEAN]
  /\ seq_shutdown \in [Seqs -> BOOLEAN]
  /\ has_pool \in [Seqs -> BOOLEAN]
  /\ shutdown \in BOOLEAN
  /\ all_sequences \subseteq Seqs /\ live \subseteq all_sequences
  /\ queued_sequences \in Seq(Seqs) /\ free_sequences \in Seq(Seqs)
  /\ active_workers \subseteq Workers /\ available_workers \subseteq Workers
  /\ tasks \in [Workers -> Seq(Seqs)]
  /\ exit \in [Workers -> BOOLEAN]
  /\ pc \in [Workers -> Pcs]
  /\ seq \in [Workers -> Seqs \cup {None}]
  /\ call \in [Clients -> [op : Ops, seq : Seqs \cup {None},
                           worker : Workers \cup {None}]]
  /\ stage \in {"up", "initiate", "wait", "waiting", "join", "down"}
  /\ waiting \subseteq Seqs
  /\ status \in [Functions -> Statuses]
  /\ run \in [Workers -> Functions \cup {None}]

\* Who is on the way to run what sequence s has pending, or to cancel it when
\* load is shed: the caller of QueueSequence, the pool's queue, a worker's task
\* queue, a worker.
Carriers(s) ==
  {<<"call", c>> : c \in {c \in Clients : call[c].seq = s
                                          /\ call[c].op \in {"queue", "start", "drop"}}}
  \cup {<<"queued", i>> : i \in {i \in DOMAIN queued_sequences :
                                   queued_sequences[i] = s}}
  \cup {<<"task", w>> : w \in {w \in Workers : s \in Elements(tasks[w])}}
  \cup {<<"worker", w>> : w \in {w \in Workers :
                             seq[w] = s /\ pc[w] \in {"next", "run", "drain"}}}

\* Work is never stranded: while a sequence is in service and has functions
\* pending, somebody is on the way to run or shed them, whatever was cancelled
\* in between.
WorkIsCarried ==
  \A s \in live :
    work_queue[s] # <<>> /\ ~seq_shutdown[s] => Carriers(s) # {}

\* While nobody cancels what is pending, only one is, so that no two workers can serve one sequence.
OneCarrier == \A s \in Seqs : Cardinality(Carriers(s)) <= 1

Serving(s) == {w \in Workers : pc[w] = "run" /\ seq[w] = s}

\* "Functions added to a Sequence will be run sequentially."
Sequential == \A s \in Seqs : Cardinality(Serving(s)) <= 1

\* AreBusy() is what tells a RewriteDriver that it may be recycled: when it
\* says no of a sequence, no function of that sequence runs or waits.
AreBusy(S) == \E s \in S : active[s] \/ work_queue[s] # <<>>

IdleMeansQuiet ==
  \A s \in Seqs : ~AreBusy({s}) => Serving(s) = {}

\* The comments on the members of the pool: active and available workers are
\* disjoint, and there are no more than max_workers_ of them.
WorkersConsistent ==
  /\ active_workers \cap available_workers = {}
  /\ Cardinality(active_workers \cup available_workers) <= Cardinality(Workers)
  /\ \A w \in available_workers : pc[w] \in {"wait", "gone"} /\ tasks[w] = <<>>

\* "queued_sequences_ and free_sequences_ are mutually exclusive": a sequence
\* handed to a new owner is not in the queue on behalf of the previous one.
QueuedNotFree ==
  shutdown \/ Elements(queued_sequences) \cap Elements(free_sequences) = {}

\* A free sequence is in the free list once, so that it gets one new owner,
\* and is not in service.
FreeOnce ==
  /\ Elements(free_sequences) \cap live = {}
  /\ Cardinality(Elements(free_sequences)) = Len(free_sequences)

\* A sequence whose pool_ was cleared is not about to be queued.
PoolIsThere == \A c \in Clients : call[c].op = "queue" => has_pool[call[c].seq]

\* With clients that do not cancel: one carrier, an owner that is told the truth
\* about its sequence, and no sequence served for two owners.
ServedByOne == TypeOK /\ OneCarrier /\ IdleMeansQuiet /\ QueuedNotFree

\* Once ShutDown has returned no thread of the pool runs, and every function
\* that was ever added has been run or cancelled.
NothingLeft ==
  stage = "down" =>
    /\ \A w \in Workers : pc[w] \in {"unborn", "gone"}
    /\ \A f \in Functions : status[f] \notin {"pending", "running"}

\* With clients that cancel: work carried, workers and free sequences accounted
\* for, and nothing left behind by ShutDown.
PoolConsistent == TypeOK /\ WorkIsCarried /\ WorkersConsistent /\ FreeOnce /\ NothingLeft

\* ShutDown returns.
ShutDownReturns == stage = "initiate" ~> stage = "down"

\* Every function added is run to its end, or cancelled.
EveryFunctionAnswered ==
  \A f \in Functions : status[f] = "pending" ~> status[f] \in {"done", "cancelled"}

\* A sequence is an executor of its functions: one at a time, in the order of
\* Add, none lost, none twice.
RunningIn(s) ==
  IF Serving(s) = {} THEN None ELSE run[CHOOSE w \in Serving(s) : TRUE]

Sequencer == INSTANCE SequencerSpec WITH
  pending <- work_queue, running <- [s \in Seqs |-> RunningIn(s)]

IsSequencer == Sequencer!Spec
=============================================================================
