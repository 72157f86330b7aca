---------------------------- MODULE SequencerSpec ----------------------------
(***************************************************************************)
(* What QueuedWorkerPool::Sequence promises (queued_worker_pool.h): the    *)
(* functions added to a sequence are run one after the other in the order  *)
(* they were added, each of them run or cancelled, once.                   *)
(***************************************************************************)
EXTENDS Sequences

CONSTANTS Seqs, Functions, None

VARIABLES pending,   \* per sequence: the functions that wait, in order
          running,   \* per sequence: the function that runs, or None
          status     \* of every function

vars == <<pending, running, status>>

Init ==
  /\ pending = [s \in Seqs |-> <<>>]
  /\ running = [s \in Seqs |-> None]
  /\ status = [f \in Functions |-> "new"]

\* A function enters at the end; a bounded queue may cancel its oldest ones.
Add(s, f) ==
  /\ status[f] = "new"
  /\ \/ /\ pending' = [pending EXCEPT ![s] = Append(@, f)]
        /\ status' = [status EXCEPT ![f] = "pending"]
     \/ /\ pending[s] # <<>>
        /\ pending' = [pending EXCEPT ![s] = Append(Tail(@), f)]
        /\ status' = [status EXCEPT ![f] = "pending", ![Head(pending[s])] = "cancelled"]
  /\ UNCHANGED running

Refuse(f) ==
  /\ status[f] = "new"
  /\ status' = [status EXCEPT ![f] = "cancelled"]
  /\ UNCHANGED <<pending, running>>

Start(s) ==
  /\ running[s] = None
  /\ pending[s] # <<>>
  /\ running' = [running EXCEPT ![s] = Head(pending[s])]
  /\ pending' = [pending EXCEPT ![s] = Tail(@)]
  /\ status' = [status EXCEPT ![Head(pending[s])] = "running"]

Finish(s) ==
  /\ running[s] # None
  /\ running' = [running EXCEPT ![s] = None]
  /\ status' = [status EXCEPT ![running[s]] = "done"]
  /\ UNCHANGED pending

\* On shutdown.
CancelOldest(s) ==
  /\ pending[s] # <<>>
  /\ pending' = [pending EXCEPT ![s] = Tail(@)]
  /\ status' = [status EXCEPT ![Head(pending[s])] = "cancelled"]
  /\ UNCHANGED running

Next ==
  \/ \E s \in Seqs : Start(s) \/ Finish(s) \/ CancelOldest(s)
  \/ \E s \in Seqs, f \in Functions : Add(s, f)
  \/ \E f \in Functions : Refuse(f)

SafeSpec == Init /\ [][Next]_vars

\* Work that is pending is eventually begun, or cancelled.
Spec ==
  /\ SafeSpec
  /\ \A s \in Seqs : WF_vars(Start(s) \/ CancelOldest(s))
=============================================================================
