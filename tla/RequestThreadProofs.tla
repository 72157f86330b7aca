------------------------- MODULE RequestThreadProofs -------------------------
(***************************************************************************)
(* What RequestThread's runs check on an instance, for any threads, alarms *)
(* and times.  The invariant says who owns an alarm: the scheduler's sets, *)
(* a Signal that has taken it, or the one thread whose callback it is; the *)
(* steps of one thread are shown to leave the others' alarms alone, and    *)
(* what they do to the request thread's wait is kept apart from that.      *)
(***************************************************************************)
EXTENDS RequestThread, FiniteSetTheorems, SequenceTheorems, WellFoundedInduction, TLAPS

Places == {"idle", "run", "await", "unblocked", "function", "cancel", "timeout",
           "dispatch", "signaled", "tasks", "task"}
ThreadType ==
  [at : Places, alarm : Alarms \cup {None}, saved : BOOLEAN, todo : SUBSET Alarms,
   then : {"leave", "block", "process"}, until : Nat, woken : BOOLEAN, ran : BOOLEAN,
   blocked : Alarms \cup {None}, timed_out : BOOLEAN, signaled : BOOLEAN]

\* The variables have their types, and code under the mutex holds it.
Typed ==
  /\ now \in 0..MaxTime
  /\ mutex \in Threads \cup {None}
  /\ alarm \in [Alarms -> AlarmType]
  /\ outstanding \in Seq(Alarms) /\ IsInjective(outstanding)
  /\ waiting \subseteq Alarms /\ stray \subseteq Alarms
  /\ thread \in [Threads -> ThreadType]
  /\ work_queue \in Seq(Functions) /\ forwarded \in Seq(Functions)
  /\ added \in Seq(Functions) /\ ran \in Seq(Functions)
  /\ forwarding \in BOOLEAN /\ done \in BOOLEAN /\ wait \in {"no", "in", "over"}
Holding ==
  \A t \in Threads : thread[t].at \in {"run", "unblocked", "dispatch", "tasks"}
    => mutex = t

Out == Range(outstanding)
Runs(t) == thread[t].at \in {"function", "cancel"}
Answers(t) == thread[t].at = "signaled"
  \/ (thread[t].at = "timeout" /\ ~thread[t].saved)

\* Thread t will delete a when the callback it is in returns.
Uses(t, a) == thread[t].alarm = a /\ (Runs(t) \/ Answers(t))

OutLive == \A a \in Out : Live(a) /\ alarm[a].calls = <<>>
WaitingLive ==
  \A a \in waiting :
    /\ Live(a) /\ alarm[a].kind \in {"callback", "block"} /\ ~alarm[a].in_wait_dispatch
    /\ alarm[a].kind = "callback" => a \in Out
TodoLive ==
  \A t \in Threads : \A a \in thread[t].todo :
    /\ Live(a) /\ alarm[a].kind \in {"callback", "block"} /\ alarm[a].in_wait_dispatch
    /\ alarm[a].kind = "callback" /\ a \notin Out => alarm[a].calls # <<>>
    /\ \A u \in Threads : a \in thread[u].todo => t = u
UsesLive ==
  \A t \in Threads, a \in Alarms : Uses(t, a) =>
    /\ Live(a) /\ a \notin Out
    /\ Runs(t) => alarm[a].kind = "function" /\ alarm[a].calls = <<>>
    /\ Answers(t) => alarm[a].kind = "callback" /\ alarm[a].calls # <<>>
    /\ \A u \in Threads : a \notin thread[u].todo /\ (Uses(u, a) => t = u)
UsesSome == \A t \in Threads : Runs(t) \/ Answers(t) => thread[t].alarm \in Alarms
Deleted ==
  \A a \in Alarms :
    /\ alarm[a].deletes <= 1 /\ Len(alarm[a].calls) <= 1
    /\ alarm[a].kind \in {"function", "callback"} /\ alarm[a].deletes > 0
         => alarm[a].calls # <<>>
Owned == OutLive /\ WaitingLive /\ TodoLive /\ UsesLive /\ UsesSome /\ Deleted

Blocks ==
  \A t \in Threads :
    /\ thread[t].blocked # None <=>
         thread[t].at \in {"run", "await", "function", "timeout"}
           /\ thread[t].then = "block"
    /\ thread[t].then = "process" => t = SchedulerThread
    /\ thread[t].at \in {"dispatch", "signaled"} => thread[t].then = "leave"

Pending == done \/ work_queue # <<>>
Request ==
  /\ thread[R].at \in {"tasks", "task", "unblocked"} \/ thread[R].blocked # None
       => wait = "in"
  /\ forwarding => wait = "over"
  /\ ~forwarding => forwarded = <<>>
  /\ thread[R].at = "await" => thread[R].blocked # None
  /\ thread[R].blocked # None /\ Pending => thread[R].signaled
  /\ thread[R].at = "await" /\ thread[R].signaled
       => thread[R].woken \/ \E t \in Threads : Signaling(t)

IInv == Typed /\ Holding /\ Owned /\ Blocks /\ AddedInOrder /\ Request

-----------------------------------------------------------------------------
(* outstanding_alarms_ as a set.                                           *)

LEMMA Without ==
  ASSUME NEW S, NEW s \in Seq(S), NEW i \in 1..Len(s)
  PROVE  /\ RemoveAt(s, i) \in Seq(S) /\ Len(RemoveAt(s, i)) = Len(s) - 1
         /\ \A j \in 1..(Len(s) - 1) :
              RemoveAt(s, i)[j] = IF j < i THEN s[j] ELSE s[j + 1]
<1> DEFINE p == SubSeq(s, 1, i - 1)
           q == SubSeq(s, i + 1, Len(s))
<1>1. p \in Seq(S) /\ Len(p) = i - 1 /\ \A j \in 1..(i - 1) : p[j] = s[j]
  OBVIOUS
<1>2. q \in Seq(S) /\ Len(q) = Len(s) - i /\ \A j \in 1..(Len(s) - i) : q[j] = s[i + j]
  OBVIOUS
<1>3. /\ p \o q \in Seq(S) /\ Len(p \o q) = Len(s) - 1
      /\ \A j \in 1..(Len(s) - 1) :
           (p \o q)[j] = IF j < i THEN p[j] ELSE q[j - (i - 1)]
  <2> HIDE DEF p, q
  <2>1. /\ p \o q \in Seq(S) /\ Len(p \o q) = Len(p) + Len(q)
        /\ \A j \in 1..(Len(p) + Len(q)) :
             (p \o q)[j] = IF j <= Len(p) THEN p[j] ELSE q[j - Len(p)]
    BY <1>1, <1>2, ConcatProperties
  <2> QED BY <2>1, <1>1, <1>2
<1> HIDE DEF p, q
<1>4. ASSUME NEW j \in 1..(Len(s) - 1)
      PROVE  (p \o q)[j] = IF j < i THEN s[j] ELSE s[j + 1]
  <2>1. CASE j < i
    <3>1. j \in 1..(i - 1)
      BY <2>1
    <3> QED BY <1>1, <1>3, <2>1, <3>1
  <2>2. CASE ~(j < i)
    <3>1. j - (i - 1) \in 1..(Len(s) - i) /\ i + (j - (i - 1)) = j + 1
      BY <2>2
    <3>2. q[j - (i - 1)] = s[i + (j - (i - 1))]
      BY <3>1, <1>2
    <3>3. (p \o q)[j] = q[j - (i - 1)]
      BY <1>3, <2>2
    <3> QED BY <3>1, <3>2, <3>3, <2>2
  <2> QED BY <2>1, <2>2
<1> QED BY <1>3, <1>4 DEF RemoveAt, p, q

LEMMA Removed ==
  ASSUME NEW S, NEW s \in Seq(S), IsInjective(s), NEW a
  PROVE  /\ Erased(s, a) \in Seq(S) /\ IsInjective(Erased(s, a))
         /\ Range(Erased(s, a)) = Range(s) \ {a}
<1>1. CASE a \notin Range(s)
  BY <1>1 DEF Erased
<1>2. CASE a \in Range(s)
  <2>1. PICK i \in 1..Len(s) : s[i] = a /\ i = CHOOSE j \in DOMAIN s : s[j] = a
    BY <1>2 DEF Range
  <2> DEFINE t == RemoveAt(s, i)
  <2>2. Erased(s, a) = t
    BY <1>2, <2>1 DEF Erased
  <2>3. /\ t \in Seq(S) /\ Len(t) = Len(s) - 1 /\ Len(s) \in Nat
        /\ \A j \in 1..(Len(s) - 1) : t[j] = IF j < i THEN s[j] ELSE s[j + 1]
    BY Without
  <2> HIDE DEF t
  <2>4. \A j, k \in 1..Len(s) : s[j] = s[k] => j = k
    BY DEF IsInjective
  <2>5. IsInjective(t)
    <3>1. DOMAIN t = 1..(Len(s) - 1)
      BY <2>3
    <3>2. ASSUME NEW j \in 1..(Len(s) - 1), NEW k \in 1..(Len(s) - 1), t[j] = t[k]
          PROVE  j = k
      <4>1. {j, j + 1, k, k + 1} \subseteq 1..Len(s)
        BY <2>3
      <4>2. CASE j < i /\ k < i
        BY <2>3, <2>4, <3>2, <4>1, <4>2
      <4>3. CASE j < i /\ ~(k < i)
        BY <2>3, <2>4, <3>2, <4>1, <4>3
      <4>4. CASE ~(j < i) /\ k < i
        BY <2>3, <2>4, <3>2, <4>1, <4>4
      <4>5. CASE ~(j < i) /\ ~(k < i)
        BY <2>3, <2>4, <3>2, <4>1, <4>5
      <4> QED BY <4>2, <4>3, <4>4, <4>5
    <3> QED BY <3>1, <3>2 DEF IsInjective
  <2>6. ASSUME NEW j \in 1..Len(s), j # i PROVE s[j] \in Range(t)
    <3>1. CASE j < i
      <4>1. j \in 1..Len(t) /\ t[j] = s[j]
        BY <2>1, <2>3, <3>1
      <4> QED BY <2>3, <4>1 DEF Range
    <3>2. CASE j > i
      <4>1. j - 1 \in 1..Len(t) /\ ~(j - 1 < i) /\ (j - 1) + 1 = j
        BY <2>1, <2>3, <3>2
      <4>2. t[j - 1] = s[(j - 1) + 1]
        BY <2>3, <4>1
      <4>3. t[j - 1] = s[j]
        BY <4>1, <4>2
      <4> QED BY <2>3, <4>1, <4>3 DEF Range
    <3> QED BY <2>6, <3>1, <3>2
  <2>7. ASSUME NEW j \in 1..Len(t) PROVE t[j] \in Range(s) /\ t[j] # a
    <3>1. j \in 1..Len(s) /\ j + 1 \in 1..Len(s)
      BY <2>3
    <3>2. CASE j < i
      BY <2>1, <2>3, <2>4, <3>1, <3>2 DEF Range
    <3>3. CASE ~(j < i)
      BY <2>1, <2>3, <2>4, <3>1, <3>3 DEF Range
    <3> QED BY <3>2, <3>3
  <2>8. Range(t) \subseteq Range(s) \ {a}
    BY <2>3, <2>7 DEF Range
  <2>9. Range(s) \ {a} \subseteq Range(t)
    BY <2>1, <2>6 DEF Range
  <2> QED BY <2>2, <2>3, <2>5, <2>8, <2>9
<1> QED BY <1>1, <1>2

LEMMA HeadRemoved ==
  ASSUME NEW S, NEW s \in Seq(S), IsInjective(s), s # <<>>
  PROVE  /\ Tail(s) \in Seq(S) /\ IsInjective(Tail(s))
         /\ Head(s) \in Range(s) /\ Head(s) \in S
         /\ Range(Tail(s)) = Range(s) \ {Head(s)}
<1> DEFINE t == Tail(s)
<1>1. /\ t \in Seq(S) /\ Len(t) = Len(s) - 1 /\ Len(s) \in Nat \ {0}
      /\ \A i \in 1..Len(t) : t[i] = s[i + 1]
      /\ Head(s) = s[1] /\ Head(s) \in S
  BY HeadTailProperties, EmptySeq
<1> HIDE DEF t
<1>2. \A i, j \in 1..Len(s) : s[i] = s[j] => i = j
  BY DEF IsInjective
<1>3. \A i \in 1..Len(t) : i + 1 \in 1..Len(s)
  BY <1>1
<1>4. IsInjective(t)
  <2>1. DOMAIN t = 1..Len(t)
    BY <1>1
  <2>2. ASSUME NEW i \in 1..Len(t), NEW j \in 1..Len(t), t[i] = t[j] PROVE i = j
    <3>1. i + 1 = j + 1
      BY <1>1, <1>2, <1>3, <2>2
    <3> QED BY <3>1, <1>1
  <2> QED BY <2>1, <2>2 DEF IsInjective
<1>5. ASSUME NEW i \in 1..Len(t) PROVE t[i] \in Range(s) /\ t[i] # s[1]
  BY <1>1, <1>2, <1>3 DEF Range
<1>6. ASSUME NEW i \in 1..Len(s), s[i] # s[1] PROVE s[i] \in Range(t)
  <2>1. i - 1 \in 1..Len(t) /\ (i - 1) + 1 = i
    BY <1>1, <1>6
  <2>2. t[i - 1] = s[i]
    BY <1>1, <2>1
  <2> QED BY <1>1, <2>1, <2>2 DEF Range
<1>7. Range(t) \subseteq Range(s) \ {s[1]}
  BY <1>1, <1>5 DEF Range
<1>8. Range(s) \ {s[1]} \subseteq Range(t)
  BY <1>6 DEF Range
<1>9. s[1] \in Range(s)
  BY <1>1 DEF Range
<1> QED BY <1>1, <1>4, <1>7, <1>8, <1>9 DEF t

LEMMA InsertedOnce ==
  ASSUME NEW S, NEW s \in Seq(S), IsInjective(s), NEW a \in S, a \notin Range(s),
         NEW i \in 1..(Len(s) + 1)
  PROVE  /\ InsertAt(s, i, a) \in Seq(S) /\ IsInjective(InsertAt(s, i, a))
         /\ Range(InsertAt(s, i, a)) = Range(s) \cup {a}
<1> DEFINE p == SubSeq(s, 1, i - 1)
           q == SubSeq(s, i, Len(s))
           pa == p \o <<a>>
           t == pa \o q
<1>1. p \in Seq(S) /\ Len(p) = i - 1 /\ \A j \in 1..(i - 1) : p[j] = s[j]
  OBVIOUS
<1>2. /\ q \in Seq(S) /\ Len(q) = Len(s) + 1 - i
      /\ \A j \in 1..(Len(s) + 1 - i) : q[j] = s[i + j - 1]
  OBVIOUS
<1> HIDE DEF p, q
<1>3. /\ pa \in Seq(S) /\ Len(pa) = i
      /\ \A j \in 1..i : pa[j] = IF j < i THEN s[j] ELSE a
  <2>1. <<a>> \in Seq(S) /\ Len(<<a>>) = 1 /\ <<a>>[1] = a
    OBVIOUS
  <2>2. /\ pa \in Seq(S) /\ Len(pa) = Len(p) + 1
        /\ \A j \in 1..(Len(p) + 1) :
             pa[j] = IF j <= Len(p) THEN p[j] ELSE <<a>>[j - Len(p)]
    BY <1>1, <2>1, ConcatProperties
  <2>3. \A j \in 1..i : ~(j < i) => j - Len(p) = 1
    BY <1>1
  <2> HIDE DEF pa
  <2>4. ASSUME NEW j \in 1..i PROVE pa[j] = IF j < i THEN s[j] ELSE a
    <3>1. CASE j < i
      BY <1>1, <2>2, <3>1
    <3>2. CASE ~(j < i)
      <4>1. j \in 1..(Len(p) + 1) /\ ~(j <= Len(p)) /\ j - Len(p) = 1
        BY <1>1, <3>2
      <4> QED BY <2>1, <2>2, <3>2, <4>1
    <3> QED BY <3>1, <3>2
  <2> QED BY <1>1, <2>2, <2>4
<1> HIDE DEF pa
<1>4. /\ t \in Seq(S) /\ Len(t) = Len(s) + 1
      /\ \A j \in 1..(Len(s) + 1) : t[j] = IF j <= i THEN pa[j] ELSE q[j - i]
  <2>1. /\ t \in Seq(S) /\ Len(t) = Len(pa) + Len(q)
        /\ \A j \in 1..(Len(pa) + Len(q)) :
             t[j] = IF j <= Len(pa) THEN pa[j] ELSE q[j - Len(pa)]
    BY <1>2, <1>3, ConcatProperties
  <2> QED BY <1>2, <1>3, <2>1
<1> HIDE DEF t
<1>5. /\ \A j \in 1..(i - 1) : t[j] = s[j]
      /\ t[i] = a
      /\ \A j \in i..Len(s) : t[j + 1] = s[j]
  <2>1. ASSUME NEW j \in 1..(i - 1) PROVE t[j] = s[j]
    BY <1>3, <1>4
  <2>2. t[i] = a
    BY <1>3, <1>4
  <2>3. ASSUME NEW j \in i..Len(s) PROVE t[j + 1] = s[j]
    <3>1. /\ j + 1 \in 1..(Len(s) + 1) /\ ~(j + 1 <= i)
          /\ (j + 1) - i \in 1..(Len(s) + 1 - i) /\ i + ((j + 1) - i) - 1 = j
      OBVIOUS
    <3>2. t[j + 1] = q[(j + 1) - i]
      BY <1>4, <3>1
    <3>3. q[(j + 1) - i] = s[i + ((j + 1) - i) - 1]
      BY <1>2, <3>1
    <3> QED BY <3>1, <3>2, <3>3
  <2> QED BY <2>1, <2>2, <2>3
<1>6. ASSUME NEW j \in 1..Len(s)
      PROVE  \E k \in 1..(Len(s) + 1) : k = (IF j < i THEN j ELSE j + 1) /\ t[k] = s[j]
  <2>1. CASE j < i
    BY <1>5, <2>1
  <2>2. CASE ~(j < i)
    BY <1>5, <2>2
  <2> QED BY <2>1, <2>2
<1>7. ASSUME NEW k \in 1..(Len(s) + 1), k # i
      PROVE  \E j \in 1..Len(s) : k = (IF j < i THEN j ELSE j + 1) /\ t[k] = s[j]
  <2>1. CASE k < i
    <3>1. k \in 1..Len(s) /\ k \in 1..(i - 1)
      BY <2>1
    <3> QED BY <1>5, <2>1, <3>1
  <2>2. CASE k > i
    <3>1. k - 1 \in i..Len(s) /\ k - 1 \in 1..Len(s) /\ (k - 1) + 1 = k /\ ~(k - 1 < i)
      BY <2>2
    <3>2. t[(k - 1) + 1] = s[k - 1]
      BY <1>5, <3>1
    <3> QED BY <3>1, <3>2
  <2> QED BY <1>7, <2>1, <2>2
<1>8. /\ \A j, k \in 1..Len(s) : s[j] = s[k] => j = k
      /\ \A j \in 1..Len(s) : s[j] # a
  BY DEF IsInjective, Range
<1>9. IsInjective(t)
  <2>1. DOMAIN t = 1..(Len(s) + 1)
    BY <1>4
  <2>2. ASSUME NEW j \in 1..(Len(s) + 1), NEW k \in 1..(Len(s) + 1), t[j] = t[k]
        PROVE  j = k
    <3>1. CASE j = i \/ k = i
      BY <1>5, <1>7, <1>8, <2>2, <3>1
    <3>2. CASE j # i /\ k # i
      <4>1. PICK jj \in 1..Len(s) : j = (IF jj < i THEN jj ELSE jj + 1) /\ t[j] = s[jj]
        BY <1>7, <3>2
      <4>2. PICK kk \in 1..Len(s) : k = (IF kk < i THEN kk ELSE kk + 1) /\ t[k] = s[kk]
        BY <1>7, <3>2
      <4> QED BY <4>1, <4>2, <2>2, <1>8
    <3> QED BY <3>1, <3>2
  <2> QED BY <2>1, <2>2 DEF IsInjective
<1>10. \A k \in 1..(Len(s) + 1) : t[k] \in Range(s) \cup {a}
  BY <1>5, <1>7 DEF Range
<1>11. \A j \in 1..Len(s) : s[j] \in Range(t)
  <2>1. DOMAIN t = 1..(Len(s) + 1)
    BY <1>4
  <2> QED BY <1>6, <2>1 DEF Range
<1>12. a \in Range(t)
  <2>1. i \in 1..Len(t)
    BY <1>4
  <2> QED BY <1>4, <1>5, <2>1 DEF Range
<1>13. Range(t) = Range(s) \cup {a}
  <2>1. Range(t) \subseteq Range(s) \cup {a}
    BY <1>4, <1>10 DEF Range
  <2>2. Range(s) \subseteq Range(t)
    BY <1>11 DEF Range
  <2> QED BY <1>12, <2>1, <2>2
<1>14. InsertAt(s, i, a) = t
  BY DEF InsertAt, t, pa, p, q
<1> QED BY <1>4, <1>9, <1>13, <1>14

\* Signal takes the alarms in their order: one of a set of alarms is first.
LEMMA FirstIsOne ==
  ASSUME Typed, NEW S \in SUBSET Alarms, S # {}
  PROVE  FirstOf(S) \in S
<1> DEFINE T == {alarm[a].wakeup : a \in S}
           Less == {p \in Nat \X Nat : p[1] < p[2]}
<1>1. T \subseteq Nat /\ T # {}
  BY DEF Typed, AlarmType
<1>2. IsWellFoundedOn(Less, Nat)
  BY NatLessThanWellFounded DEF OpToRel
<1>3. PICK n \in T : \A m \in T : ~(<<m, n>> \in Less)
  <2> HIDE DEF T, Less
  <2> QED BY <1>1, <1>2, WFMin
<1>4. PICK a \in S : n = alarm[a].wakeup
  BY <1>3
<1>5. ASSUME NEW b \in S PROVE alarm[a].wakeup <= alarm[b].wakeup
  <2>1. alarm[b].wakeup \in T /\ alarm[b].wakeup \in Nat /\ n \in Nat
    BY <1>1, <1>3
  <2>2. ~(alarm[b].wakeup < n)
    BY <1>3, <2>1
  <2> QED BY <1>4, <2>1, <2>2
<1> QED BY <1>4, <1>5 DEF FirstOf

-----------------------------------------------------------------------------
(* What a step of one thread does to the others.                           *)

\* th2 is th with more threads woken.
MoreWoken(th, th2) ==
  /\ th2 \in [Threads -> ThreadType]
  /\ \A u \in Threads :
       /\ th2[u].at = th[u].at /\ th2[u].alarm = th[u].alarm
       /\ th2[u].saved = th[u].saved /\ th2[u].todo = th[u].todo
       /\ th2[u].then = th[u].then /\ th2[u].blocked = th[u].blocked
       /\ th2[u].signaled = th[u].signaled
       /\ th[u].woken => th2[u].woken

\* All that the other threads notice is that they are woken or signaled.
Others(t) ==
  \A u \in Threads \ {t} :
    /\ thread'[u].at = thread[u].at /\ thread'[u].alarm = thread[u].alarm
    /\ thread'[u].saved = thread[u].saved /\ thread'[u].todo = thread[u].todo
    /\ thread'[u].then = thread[u].then /\ thread'[u].blocked = thread[u].blocked
    /\ thread[u].signaled => thread'[u].signaled
    /\ thread[u].woken => thread'[u].woken

LEMMA BroadcastWakes ==
  ASSUME NEW th \in [Threads -> ThreadType]
  PROVE  /\ MoreWoken(th, Broadcast(th))
         /\ \A u \in Threads : th[u].at = "await" => Broadcast(th)[u].woken
  BY DEF Broadcast, MoreWoken, ThreadType

LEMMA InsertedWakes ==
  ASSUME NEW th \in [Threads -> ThreadType], NEW w
  PROVE  MoreWoken(th, Inserted(th, w))
<1>1. MoreWoken(th, th)
  BY DEF MoreWoken
<1> QED BY <1>1, BroadcastWakes DEF Inserted

\* Code under the mutex is entered with it free or held by the thread itself.
LEMMA HoldingKept ==
  ASSUME Typed, Holding, NEW t \in Threads, Others(t), mutex = t \/ mutex = None,
         thread'[t].at \in {"run", "unblocked", "dispatch", "tasks"} => mutex' = t
  PROVE  Holding'
<1>1. ASSUME NEW u \in Threads, u # t,
             thread'[u].at \in {"run", "unblocked", "dispatch", "tasks"}
      PROVE  FALSE
  <2>1. mutex = u
    BY <1>1 DEF Others, Holding
  <2> QED BY <1>1, <2>1, ThreadsAssumption
<1> QED BY <1>1 DEF Holding

BlocksOf(u) ==
  /\ thread[u].blocked # None <=>
       thread[u].at \in {"run", "await", "function", "timeout"}
         /\ thread[u].then = "block"
  /\ thread[u].then = "process" => u = SchedulerThread
  /\ thread[u].at \in {"dispatch", "signaled"} => thread[u].then = "leave"

LEMMA BlocksKept ==
  ASSUME Blocks, NEW t \in Threads, Others(t), BlocksOf(t)'
  PROVE  Blocks'
  BY DEF Blocks, BlocksOf, Others

Waits == thread[R].at \in {"tasks", "task", "unblocked"} \/ thread[R].blocked # None

\* What a step of the scheduler has to leave alone for Wait's sake.
LEMMA RequestKept ==
  ASSUME Typed, Blocks, Request, NEW t \in Threads, Others(t),
         UNCHANGED <<wait, forwarding, forwarded>>,
         Pending' => Pending \/ (thread'[R].blocked # None => thread'[R].signaled),
         t = R => /\ Waits' => Waits
                  /\ thread'[R].blocked # None =>
                       thread[R].blocked # None
                         /\ thread'[R].signaled = thread[R].signaled
                  /\ thread'[R].at = "await" =>
                       thread'[R].blocked # None /\ ~thread'[R].signaled,
         t # R => /\ thread'[R].signaled = thread[R].signaled \/ Signaling(t)'
                  /\ Signaling(t) => Signaling(t)'
                       \/ (thread[R].at = "await" => thread'[R].woken)
  PROVE  Request'
<1>0. R \in Threads
  BY RolesAssumption DEF R
<1>1. CASE t = R
  BY <1>0, <1>1 DEF Request, Waits
<1>2. CASE t # R
  <2>1. /\ thread'[R].at = thread[R].at /\ thread'[R].blocked = thread[R].blocked
        /\ thread[R].signaled => thread'[R].signaled
        /\ thread[R].woken => thread'[R].woken
    BY <1>0, <1>2 DEF Others
  <2>2. \A u \in Threads \ {t} : Signaling(u)' = Signaling(u)
    BY DEF Others, Signaling
  <2>3. thread'[R].at = "await" /\ thread'[R].signaled
          => thread'[R].woken \/ \E u \in Threads : Signaling(u)'
    BY <1>2, <2>1, <2>2 DEF Request
  <2> QED BY <2>1, <2>3 DEF Request
<1> QED BY <1>1, <1>2

-----------------------------------------------------------------------------
(* Steps that leave the alarms as they are.                                *)

LEMMA OwnedKept ==
  ASSUME Owned, UNCHANGED <<alarm, outstanding, waiting>>,
         \A u \in Threads :
           /\ thread'[u].todo \subseteq thread[u].todo
           /\ Runs(u)' => Runs(u)
           /\ Answers(u)' => Answers(u)
           /\ (Runs(u) \/ Answers(u))' => thread'[u].alarm = thread[u].alarm
  PROVE  Owned'
<1>1. Out' = Out /\ \A a : Live(a)' = Live(a)
  BY DEF Out, Live
<1>2. \A u \in Threads, a \in Alarms : Uses(u, a)' => Uses(u, a)
  BY DEF Uses
<1>3. OutLive' /\ WaitingLive' /\ Deleted'
  BY <1>1 DEF Owned, OutLive, WaitingLive, Deleted
<1>4. TodoLive'
  BY <1>1 DEF Owned, TodoLive
<1>5. UsesLive'
  BY <1>1, <1>2 DEF Owned, UsesLive
<1>6. UsesSome'
  BY DEF Owned, UsesSome
<1> QED BY <1>3, <1>4, <1>5, <1>6 DEF Owned

LEMMA QuietOwned ==
  ASSUME Owned, NEW t \in Threads, Others(t), UNCHANGED <<alarm, outstanding, waiting>>,
         thread'[t].todo \subseteq thread[t].todo,
         thread'[t].at \notin {"function", "cancel", "signaled", "timeout"}
  PROVE  Owned'
<1>1. ASSUME NEW u \in Threads
      PROVE  /\ thread'[u].todo \subseteq thread[u].todo
             /\ Runs(u)' => Runs(u)
             /\ Answers(u)' => Answers(u)
             /\ (Runs(u) \/ Answers(u))' => thread'[u].alarm = thread[u].alarm
  <2>1. CASE u = t
    BY <2>1 DEF Runs, Answers
  <2>2. CASE u # t
    BY <2>2 DEF Others, Runs, Answers
  <2> QED BY <2>1, <2>2
<1> QED BY <1>1, OwnedKept

RequestTyped ==
  /\ work_queue \in Seq(Functions) /\ forwarded \in Seq(Functions)
  /\ added \in Seq(Functions) /\ ran \in Seq(Functions)
  /\ forwarding \in BOOLEAN /\ done \in BOOLEAN /\ wait \in {"no", "in", "over"}

LEMMA QuietStep ==
  ASSUME IInv, NEW t \in Threads, Others(t),
         UNCHANGED <<now, alarm, outstanding, waiting, stray>>,
         mutex = t \/ mutex = None, mutex' = t \/ mutex' = None,
         thread' \in [Threads -> ThreadType],
         thread'[t].at \in {"run", "unblocked", "dispatch", "tasks"} => mutex' = t,
         thread'[t].todo \subseteq thread[t].todo,
         thread'[t].at \notin {"function", "cancel", "signaled", "timeout"},
         BlocksOf(t)',
         RequestTyped', AddedInOrder', Request'
  PROVE  IInv'
<1>1. Holding'
  BY HoldingKept DEF IInv
<1>2. Owned'
  BY QuietOwned DEF IInv
<1>3. Blocks'
  BY BlocksKept DEF IInv
<1>4. Typed'
  BY DEF IInv, Typed, RequestTyped
<1> QED BY <1>1, <1>2, <1>3, <1>4 DEF IInv

LEMMA RequestVarsKept ==
  ASSUME IInv, UNCHANGED requestVars
  PROVE  RequestTyped' /\ AddedInOrder' /\ Pending' = Pending
  BY DEF IInv, Typed, RequestTyped, AddedInOrder, Pending, requestVars

LEMMA RIsThread == R \in Threads
  BY RolesAssumption DEF R

LEMMA ThreadsTyped ==
  ASSUME IInv, NEW t \in Threads
  PROVE  /\ thread \in [Threads -> ThreadType] /\ thread[t] \in ThreadType
         /\ IdleThread \in ThreadType /\ R \in Threads
  BY RolesAssumption DEF IInv, Typed, R, IdleThread, ThreadType, Places

LEMMA OnlyOneChanges ==
  ASSUME IInv, NEW t \in Threads, NEW r, thread' = [thread EXCEPT ![t] = r]
  PROVE  /\ thread'[t] = r /\ \A u \in Threads \ {t} : thread'[u] = thread[u]
         /\ Others(t) /\ (r \in ThreadType => thread' \in [Threads -> ThreadType])
<1>1. thread \in [Threads -> ThreadType]
  BY ThreadsTyped
<1>2. /\ thread'[t] = r /\ \A u \in Threads \ {t} : thread'[u] = thread[u]
      /\ (r \in ThreadType => thread' \in [Threads -> ThreadType])
  BY <1>1
<1> QED BY <1>2 DEF Others

LEMMA ProcessKeeps ==
  ASSUME IInv, ProcessAlarmsOrWaitUs(SchedulerThread), UNCHANGED requestVars
  PROVE  IInv'
<1> DEFINE t == SchedulerThread
<1>1. t \in Threads /\ R # t
  BY ThreadsAssumption, RolesAssumption DEF R
<1>2. thread \in [Threads -> ThreadType]
  BY <1>1, ThreadsTyped
<1>3. /\ thread' = [thread EXCEPT ![t].at = "run", ![t].then = "process",
           ![t].ran = FALSE]
      /\ thread[t].at = "idle" /\ mutex = None /\ mutex' = t
      /\ UNCHANGED <<now, alarm, outstanding, waiting, stray>>
  BY DEF ProcessAlarmsOrWaitUs, Enters
<1> HIDE DEF t
<1> DEFINE r == [thread[t] EXCEPT !.at = "run", !.then = "process", !.ran = FALSE]
<1>4. thread[t] \in ThreadType /\ thread' = [thread EXCEPT ![t] = r]
  BY <1>1, <1>2, <1>3
<1>5. /\ r \in ThreadType /\ r.at = "run" /\ r.then = "process"
      /\ r.todo = thread[t].todo /\ r.blocked = thread[t].blocked
  BY <1>4 DEF ThreadType, Places
<1> HIDE DEF r
<1>6. /\ thread'[t] = r /\ thread'[R] = thread[R]
      /\ Others(t) /\ thread' \in [Threads -> ThreadType]
  BY <1>1, <1>4, <1>5, ThreadsTyped, OnlyOneChanges
<1>7. BlocksOf(t)'
  BY <1>1, <1>3, <1>5, <1>6 DEF IInv, Blocks, BlocksOf, t
<1>8. Request'
  <2>1. UNCHANGED <<wait, forwarding, forwarded>> /\ Pending' = Pending
    BY RequestVarsKept DEF requestVars
  <2>2. ~Signaling(t)
    BY <1>3 DEF Signaling
  <2> QED BY <1>1, <1>6, <2>1, <2>2, RequestKept DEF IInv
<1> QED BY <1>1, <1>3, <1>5, <1>6, <1>7, <1>8, RequestVarsKept, QuietStep

\* A step of a thread that is not in Signal, and what it may do when it is the
\* request thread.
LEMMA PlainStep ==
  ASSUME IInv, NEW t \in Threads, NEW r, thread' = [thread EXCEPT ![t] = r],
         UNCHANGED <<now, alarm, outstanding, waiting, stray>>, UNCHANGED requestVars,
         mutex = t \/ mutex = None, mutex' = t \/ mutex' = None,
         r \in ThreadType, r.todo \subseteq thread[t].todo,
         r.at \in {"run", "unblocked", "dispatch", "tasks"} => mutex' = t,
         r.at \notin {"function", "cancel", "signaled", "timeout"},
         r.blocked # None <=> r.at \in {"run", "await"} /\ r.then = "block",
         r.then = "process" => t = SchedulerThread, r.at # "dispatch",
         ~Signaling(t),
         t = R => /\ (r.at \in {"tasks", "task", "unblocked"} \/ r.blocked # None)
                       => Waits
                  /\ r.blocked # None =>
                       thread[R].blocked # None /\ r.signaled = thread[R].signaled
                  /\ r.at = "await" => r.blocked # None /\ ~r.signaled
  PROVE  IInv'
<1>1. /\ thread'[t] = r /\ \A u \in Threads \ {t} : thread'[u] = thread[u]
      /\ Others(t) /\ thread' \in [Threads -> ThreadType]
  BY OnlyOneChanges
<1>2. BlocksOf(t)'
  BY <1>1 DEF BlocksOf
<1>3. Request'
  <2>1. UNCHANGED <<wait, forwarding, forwarded>> /\ Pending' = Pending
    BY RequestVarsKept DEF requestVars
  <2>2. R \in Threads
    BY ThreadsTyped
  <2>3. CASE t = R
    <3>1. Waits' => Waits
      BY <1>1, <2>3 DEF Waits
    <3>2. t = R => /\ Waits' => Waits
                   /\ thread'[R].blocked # None =>
                        thread[R].blocked # None
                          /\ thread'[R].signaled = thread[R].signaled
                   /\ thread'[R].at = "await" =>
                        thread'[R].blocked # None /\ ~thread'[R].signaled
      BY <1>1, <3>1
    <3> QED BY <1>1, <2>1, <2>3, <3>2, RequestKept DEF IInv
  <2>4. CASE t # R
    <3>1. thread'[R] = thread[R]
      BY <1>1, <2>2, <2>4
    <3> QED BY <1>1, <2>1, <2>4, <3>1, RequestKept DEF IInv
  <2> QED BY <2>3, <2>4
<1> QED BY <1>1, <1>2, <1>3, RequestVarsKept, QuietStep

LEMMA NextWakeupTyped ==
  ASSUME Typed
  PROVE  NextWakeup \in Nat /\ \A a \in Alarms : alarm[a].wakeup \in Nat
<1>1. \A a \in Alarms : alarm[a].wakeup \in Nat
  BY DEF Typed, AlarmType
<1>2. outstanding # <<>> => Head(outstanding) \in Alarms
  BY HeadTailProperties DEF Typed
<1> QED BY <1>1, <1>2 DEF NextWakeup

LEMMA RunAlarmsReturnsKeeps ==
  ASSUME IInv, NEW t \in Threads, RunAlarmsReturns(t), UNCHANGED requestVars
  PROVE  IInv'
<1>1. /\ thread \in [Threads -> ThreadType] /\ thread[t] \in ThreadType
      /\ IdleThread \in ThreadType
  BY ThreadsTyped
<1>2. /\ thread[t].at = "run" /\ mutex = t
      /\ UNCHANGED <<now, alarm, outstanding, waiting, stray>>
  BY DEF RunAlarmsReturns, Inside
<1>3. ~Signaling(t)
  BY <1>2 DEF Signaling
<1>4. /\ NextWakeup \in Nat /\ \A a \in Alarms : alarm[a].wakeup \in Nat
      /\ MaxTime \in Nat
  BY NextWakeupTyped, TimesAssumption DEF IInv
<1>5. /\ thread[t].blocked # None <=> thread[t].then = "block"
      /\ thread[t].then = "process" => t = SchedulerThread
  BY <1>2 DEF IInv, Blocks
<1>6. CASE /\ thread[t].then = "block" /\ WaitsOn(t) /\ mutex' = None
           /\ Sleeps(t, Min({alarm[thread[t].blocked].wakeup, NextWakeup}))
  <2> DEFINE until == Min({alarm[thread[t].blocked].wakeup, NextWakeup})
             r == [thread[t] EXCEPT !.at = "await", !.until = until, !.woken = FALSE]
  <2>1. until \in Nat
    <3>1. alarm[thread[t].blocked].wakeup \in Nat
      BY <1>1, <1>4, <1>5, <1>6 DEF ThreadType
    <3> DEFINE x == alarm[thread[t].blocked].wakeup
               y == NextWakeup
    <3>2. x \in Nat /\ y \in Nat
      BY <3>1, <1>4
    <3> HIDE DEF x, y
    <3>3. \E m \in {x, y} : \A k \in {x, y} : m <= k
      BY <3>2
    <3>4. Min({x, y}) \in {x, y}
      BY <3>3 DEF Min
    <3> QED BY <3>2, <3>4 DEF x, y
  <2> HIDE DEF until
  <2>2. thread' = [thread EXCEPT ![t] = r]
    BY <1>1, <1>6 DEF Sleeps, until
  <2>3. /\ r \in ThreadType /\ r.at = "await" /\ r.then = "block"
        /\ r.todo = thread[t].todo /\ r.blocked = thread[t].blocked
        /\ r.signaled = thread[t].signaled /\ ~r.signaled
    BY <1>1, <1>6, <2>1 DEF ThreadType, Places, WaitsOn
  <2> HIDE DEF r
  <2> QED BY <1>2, <1>3, <1>5, <1>6, <2>2, <2>3, PlainStep DEF Waits
<1>7. CASE /\ thread[t].then = "block" /\ ~WaitsOn(t) /\ UNCHANGED mutex
           /\ thread' = [thread EXCEPT ![t].at = "unblocked", ![t].blocked = None,
                ![t].timed_out = FALSE, ![t].signaled = FALSE]
  <2> DEFINE r == [thread[t] EXCEPT !.at = "unblocked", !.blocked = None,
                     !.timed_out = FALSE, !.signaled = FALSE]
  <2>2. thread' = [thread EXCEPT ![t] = r]
    BY <1>1, <1>7
  <2>3. /\ r \in ThreadType /\ r.at = "unblocked" /\ r.then = "block"
        /\ r.todo = thread[t].todo /\ r.blocked = None
    BY <1>1, <1>7 DEF ThreadType, Places
  <2> HIDE DEF r
  <2> QED BY <1>2, <1>3, <1>5, <1>7, <2>2, <2>3, PlainStep DEF Waits
<1>8. CASE /\ thread[t].then = "process" /\ ~thread[t].ran /\ mutex' = None
           /\ thread' = [thread EXCEPT ![t].at = "await", ![t].woken = FALSE,
                ![t].then = "leave",
                ![t].until = IF NextWakeup = 0 THEN MaxTime + 1 ELSE NextWakeup]
  <2> DEFINE until == IF NextWakeup = 0 THEN MaxTime + 1 ELSE NextWakeup
             r == [thread[t] EXCEPT !.at = "await", !.woken = FALSE, !.then = "leave",
                                    !.until = until]
  <2>1. until \in Nat
    BY <1>4
  <2> HIDE DEF until
  <2>2. thread' = [thread EXCEPT ![t] = r]
    BY <1>1, <1>8 DEF until
  <2>3. /\ r \in ThreadType /\ r.at = "await" /\ r.then = "leave"
        /\ r.todo = thread[t].todo /\ r.blocked = thread[t].blocked
    BY <1>1, <1>8, <2>1 DEF ThreadType, Places
  <2> HIDE DEF r
  <2>4. t # R
    BY <1>5, <1>8, RolesAssumption DEF R
  <2> QED BY <1>2, <1>3, <1>5, <1>8, <2>2, <2>3, <2>4, PlainStep
<1>9. CASE mutex' = None /\ thread' = [thread EXCEPT ![t] = IdleThread]
  <2>1. /\ IdleThread.at = "idle" /\ IdleThread.then = "leave"
        /\ IdleThread.blocked = None /\ IdleThread.todo = {}
    BY DEF IdleThread
  <2> QED BY <1>1, <1>2, <1>3, <1>9, <2>1, PlainStep
<1> QED BY <1>6, <1>7, <1>8, <1>9 DEF RunAlarmsReturns

LEMMA WakesKeeps ==
  ASSUME IInv, NEW t \in Threads, Wakes(t), UNCHANGED requestVars
  PROVE  IInv'
<1> DEFINE r == [thread[t] EXCEPT !.at = "run", !.woken = FALSE, !.until = 0]
<1>1. thread \in [Threads -> ThreadType] /\ thread[t] \in ThreadType
  BY ThreadsTyped
<1>2. /\ thread[t].at = "await" /\ mutex = None /\ mutex' = t
      /\ UNCHANGED <<now, alarm, outstanding, waiting, stray>>
      /\ thread' = [thread EXCEPT ![t] = r]
  BY <1>1 DEF Wakes, Enters
<1>3. /\ r \in ThreadType /\ r.at = "run" /\ r.then = thread[t].then
      /\ r.todo = thread[t].todo /\ r.blocked = thread[t].blocked
      /\ r.signaled = thread[t].signaled
  BY <1>1 DEF ThreadType, Places
<1> HIDE DEF r
<1>4. /\ thread[t].blocked # None <=> thread[t].then = "block"
      /\ thread[t].then = "process" => t = SchedulerThread
  BY <1>2 DEF IInv, Blocks
<1>5. ~Signaling(t)
  BY <1>2 DEF Signaling
<1> QED BY <1>2, <1>3, <1>4, <1>5, PlainStep DEF Waits

LEMMA DispatchDoneKeeps ==
  ASSUME IInv, NEW t \in Threads, DispatchDone(t), UNCHANGED requestVars
  PROVE  IInv'
<1> DEFINE th == [thread EXCEPT ![t].at = "run"]
<1>1. thread \in [Threads -> ThreadType] /\ R \in Threads
  BY ThreadsTyped
<1>2. /\ thread[t].at = "dispatch" /\ mutex = t /\ thread' = Broadcast(th)
      /\ UNCHANGED <<now, mutex, alarm, outstanding, waiting, stray>>
  BY DEF DispatchDone, Inside
<1>3. /\ th \in [Threads -> ThreadType] /\ th[t].at = "run"
      /\ th[t].then = thread[t].then /\ th[t].todo = thread[t].todo
      /\ th[t].blocked = thread[t].blocked /\ th[t].signaled = thread[t].signaled
      /\ \A u \in Threads \ {t} : th[u] = thread[u]
  BY <1>1 DEF ThreadType, Places
<1> HIDE DEF th
<1>4. /\ MoreWoken(th, thread')
      /\ \A u \in Threads : th[u].at = "await" => thread'[u].woken
  BY <1>2, <1>3, BroadcastWakes
<1>5. Others(t) /\ thread' \in [Threads -> ThreadType]
  BY <1>3, <1>4 DEF Others, MoreWoken
<1>6. /\ thread'[t].at = "run" /\ thread'[t].then = thread[t].then
      /\ thread'[t].todo = thread[t].todo /\ thread'[t].blocked = thread[t].blocked
      /\ \A u \in Threads : thread'[u].signaled = thread[u].signaled
  BY <1>3, <1>4 DEF MoreWoken
<1>7. BlocksOf(t)' /\ thread[t].blocked = None
  BY <1>2, <1>6 DEF IInv, Blocks, BlocksOf
<1>8. Request'
  <2>1. UNCHANGED <<wait, forwarding, forwarded>> /\ Pending' = Pending
    BY RequestVarsKept DEF requestVars
  <2>2. thread[R].at = "await" => thread'[R].woken
    BY <1>1, <1>2, <1>3, <1>4
  <2>3. t = R => thread'[R].blocked = None /\ ~Waits' /\ thread'[R].at # "await"
    BY <1>6, <1>7 DEF Waits
  <2> QED BY <1>1, <1>5, <1>6, <2>1, <2>2, <2>3, RequestKept DEF IInv
<1> QED BY <1>2, <1>5, <1>6, <1>7, <1>8, RequestVarsKept, QuietStep

LEMMA TickKeeps ==
  ASSUME IInv, Tick, UNCHANGED requestVars
  PROVE  IInv'
<1>1. /\ UNCHANGED <<mutex, alarm, outstanding, waiting, thread, stray>>
      /\ now \in 0..MaxTime /\ now < MaxTime /\ now' = now + 1 /\ MaxTime \in Nat
  BY TimesAssumption DEF IInv, Typed, Tick
<1>2. RequestTyped' /\ AddedInOrder'
  BY RequestVarsKept
<1>3. Typed'
  BY <1>1, <1>2 DEF IInv, Typed, RequestTyped
<1>4. Owned'
  BY <1>1, OwnedKept DEF IInv, Runs, Answers
<1>5. Holding' /\ Blocks' /\ Request'
  BY <1>1 DEF IInv, Holding, Blocks, Request, Pending, Signaling, requestVars
<1> QED BY <1>2, <1>3, <1>4, <1>5 DEF IInv

-----------------------------------------------------------------------------
(* The request thread's own steps.                                         *)

LEMMA HeadMoved ==
  ASSUME NEW S, NEW p \in Seq(S), NEW q \in Seq(S), q # <<>>
  PROVE  Append(p, Head(q)) \o Tail(q) = p \o q
<1> DEFINE t == Tail(q)
           h == Head(q)
           ph == Append(p, h)
<1>1. /\ t \in Seq(S) /\ h \in S /\ Len(t) = Len(q) - 1 /\ q[1] = h
      /\ \A i \in 1..Len(t) : t[i] = q[i + 1]
      /\ Len(q) \in Nat \ {0} /\ Len(p) \in Nat
  BY HeadTailProperties, EmptySeq
<1> HIDE DEF t, h
<1>2. /\ ph \in Seq(S) /\ Len(ph) = Len(p) + 1 /\ ph[Len(p) + 1] = h
      /\ \A i \in 1..Len(p) : ph[i] = p[i]
  BY <1>1
<1> HIDE DEF ph
<1>3. /\ ph \o t \in Seq(S) /\ Len(ph \o t) = Len(ph) + Len(t)
      /\ \A i \in 1..(Len(ph) + Len(t)) :
           (ph \o t)[i] = IF i <= Len(ph) THEN ph[i] ELSE t[i - Len(ph)]
  BY <1>1, <1>2, ConcatProperties
<1>4. /\ p \o q \in Seq(S) /\ Len(p \o q) = Len(p) + Len(q)
      /\ \A i \in 1..(Len(p) + Len(q)) :
           (p \o q)[i] = IF i <= Len(p) THEN p[i] ELSE q[i - Len(p)]
  BY ConcatProperties
<1>5. ASSUME NEW i \in 1..Len(p \o q) PROVE (ph \o t)[i] = (p \o q)[i]
  <2>1. i \in 1..(Len(p) + Len(q)) /\ i \in 1..(Len(ph) + Len(t))
    BY <1>1, <1>2, <1>4
  <2>2. CASE i <= Len(p)
    BY <1>1, <1>2, <1>3, <1>4, <2>1, <2>2
  <2>3. CASE i = Len(p) + 1
    BY <1>1, <1>2, <1>3, <1>4, <2>1, <2>3
  <2>4. CASE i > Len(p) + 1
    <3>1. /\ i - (Len(p) + 1) \in 1..Len(t)
          /\ (i - (Len(p) + 1)) + 1 = i - Len(p)
      BY <1>1, <2>1, <2>4
    <3>2. t[i - (Len(p) + 1)] = q[i - Len(p)]
      BY <1>1, <3>1
    <3>3. (ph \o t)[i] = t[i - (Len(p) + 1)]
      BY <1>1, <1>2, <1>3, <2>1, <2>4
    <3>4. (p \o q)[i] = q[i - Len(p)]
      BY <1>1, <1>4, <2>1, <2>4
    <3> QED BY <3>2, <3>3, <3>4
  <2> QED BY <1>1, <2>1, <2>2, <2>3, <2>4
<1>6. Len(ph \o t) = Len(p \o q)
  BY <1>1, <1>2, <1>3, <1>4
<1> QED BY <1>3, <1>4, <1>5, <1>6, SeqEqual DEF ph, t, h

Appends(p, q, e) == Append(p \o q, e) = p \o Append(q, e)

LEMMA AppendMoved ==
  ASSUME NEW S, NEW p \in Seq(S), NEW q \in Seq(S), NEW e \in S
  PROVE  Appends(p, q, e)
<1>1. /\ p \o q \in Seq(S) /\ Len(p \o q) = Len(p) + Len(q)
      /\ \A i \in 1..(Len(p) + Len(q)) :
           (p \o q)[i] = IF i <= Len(p) THEN p[i] ELSE q[i - Len(p)]
      /\ Len(p) \in Nat /\ Len(q) \in Nat
  BY ConcatProperties, LenProperties
<1> DEFINE qe == Append(q, e)
           l == Append(p \o q, e)
<1>2. /\ qe \in Seq(S) /\ Len(qe) = Len(q) + 1 /\ qe[Len(q) + 1] = e
      /\ \A i \in 1..Len(q) : qe[i] = q[i]
  OBVIOUS
<1>3. /\ l \in Seq(S) /\ Len(l) = Len(p) + Len(q) + 1 /\ l[Len(p) + Len(q) + 1] = e
      /\ \A i \in 1..(Len(p) + Len(q)) : l[i] = (p \o q)[i]
  BY <1>1
<1> HIDE DEF qe, l
<1>4. /\ p \o qe \in Seq(S) /\ Len(p \o qe) = Len(p) + Len(qe)
      /\ \A i \in 1..(Len(p) + Len(qe)) :
           (p \o qe)[i] = IF i <= Len(p) THEN p[i] ELSE qe[i - Len(p)]
  BY <1>2, ConcatProperties
<1>5. ASSUME NEW i \in 1..Len(l) PROVE l[i] = (p \o qe)[i]
  <2>1. i \in 1..(Len(p) + Len(q) + 1) /\ i \in 1..(Len(p) + Len(qe))
    BY <1>1, <1>2, <1>3
  <2>2. CASE i <= Len(p)
    <3>1. i \in 1..(Len(p) + Len(q))
      BY <1>1, <2>1, <2>2
    <3> QED BY <1>1, <1>3, <1>4, <2>1, <2>2, <3>1
  <2>3. CASE i > Len(p) /\ i <= Len(p) + Len(q)
    <3>1. i \in 1..(Len(p) + Len(q)) /\ i - Len(p) \in 1..Len(q) /\ ~(i <= Len(p))
      BY <1>1, <2>1, <2>3
    <3>2. l[i] = q[i - Len(p)]
      BY <1>1, <1>3, <3>1
    <3>3. (p \o qe)[i] = q[i - Len(p)]
      BY <1>2, <1>4, <2>1, <3>1
    <3> QED BY <3>2, <3>3
  <2>4. CASE i = Len(p) + Len(q) + 1
    <3>1. i - Len(p) = Len(q) + 1 /\ ~(i <= Len(p))
      BY <1>1, <2>4
    <3> QED BY <1>2, <1>3, <1>4, <2>1, <2>4, <3>1
  <2> QED BY <1>1, <2>1, <2>2, <2>3, <2>4
<1>6. Len(l) = Len(p \o qe)
  BY <1>1, <1>2, <1>3, <1>4
<1> QED BY <1>3, <1>4, <1>5, <1>6, SeqEqual DEF Appends, l, qe

\* A step of the request thread between RunTasksUntil's calls of the scheduler.
LEMMA RequestQuiet ==
  ASSUME IInv, NEW r \in ThreadType, thread' = [thread EXCEPT ![R] = r],
         UNCHANGED <<now, alarm, outstanding, waiting, stray>>,
         mutex = R \/ mutex = None, mutex' = R \/ mutex' = None,
         r.at \in {"idle", "tasks", "task"}, r.at = "tasks" => mutex' = R,
         r.todo \subseteq thread[R].todo,
         r.blocked = None, r.then # "process" \/ R = SchedulerThread,
         r.at \in {"tasks", "task"} => wait' = "in",
         forwarding' => wait' = "over", ~forwarding' => forwarded' = <<>>,
         RequestTyped', AddedInOrder'
  PROVE  IInv'
<1>1. R \in Threads
  BY RIsThread
<1>2. /\ thread'[R] = r /\ \A u \in Threads \ {R} : thread'[u] = thread[u]
      /\ Others(R) /\ thread' \in [Threads -> ThreadType]
  BY <1>1, OnlyOneChanges
<1>3. BlocksOf(R)'
  BY <1>2 DEF BlocksOf
<1>4. Request'
  BY <1>2 DEF Request
<1> QED BY <1>1, <1>2, <1>3, <1>4, QuietStep

LEMMA AtTasks ==
  ASSUME IInv, thread[R].at \in {"tasks", "task", "unblocked"}
  PROVE  /\ wait = "in" /\ ~forwarding /\ forwarded = <<>> /\ thread[R].blocked = None
         /\ thread[R].then # "process"
<1>1. R \in Threads /\ R # SchedulerThread
  BY ThreadsTyped, RolesAssumption DEF R
<1> QED BY <1>1 DEF IInv, Request, Blocks

LEMMA StartWaitKeeps ==
  ASSUME IInv, StartWait
  PROVE  IInv'
<1> DEFINE r == [thread[R] EXCEPT !.at = "tasks"]
<1>1. thread \in [Threads -> ThreadType] /\ R \in Threads /\ R # SchedulerThread
  BY ThreadsTyped, RolesAssumption DEF R
<1>2. /\ wait = "no" /\ wait' = "in" /\ thread[R].at = "idle" /\ mutex = None
           /\ mutex' = R
      /\ thread' = [thread EXCEPT ![R] = r]
      /\ UNCHANGED <<now, alarm, outstanding, waiting, stray>>
      /\ UNCHANGED <<work_queue, forwarded, forwarding, done, added, ran>>
  BY <1>1 DEF StartWait, Enters
<1>3. r.blocked = None /\ r.then # "process"
  BY <1>1, <1>2 DEF IInv, Blocks, ThreadType
<1>4. r \in ThreadType /\ r.at = "tasks" /\ r.todo = thread[R].todo
  BY <1>1 DEF ThreadType, Places
<1> HIDE DEF r
<1>5. RequestTyped' /\ AddedInOrder' /\ ~forwarding /\ forwarded = <<>>
  BY <1>2 DEF IInv, Typed, RequestTyped, AddedInOrder, Request
<1> QED BY <1>2, <1>3, <1>4, <1>5, RequestQuiet

LEMMA RunTaskKeeps ==
  ASSUME IInv, RunTask
  PROVE  IInv'
<1> DEFINE r == [thread[R] EXCEPT !.at = "task"]
<1>1. thread \in [Threads -> ThreadType] /\ R \in Threads
  BY RIsThread, ThreadsTyped
<1>2. /\ thread[R].at = "tasks" /\ mutex = R /\ mutex' = None
      /\ thread' = [thread EXCEPT ![R] = r]
      /\ UNCHANGED <<now, alarm, outstanding, waiting, stray>>
      /\ UNCHANGED <<forwarded, forwarding, done, added, wait>>
      /\ work_queue # <<>> /\ work_queue' = Tail(work_queue)
      /\ ran' = Append(ran, Head(work_queue))
  BY <1>1 DEF RunTask, Inside
<1>3. /\ wait = "in" /\ ~forwarding /\ forwarded = <<>> /\ thread[R].blocked = None
      /\ thread[R].then # "process"
  BY <1>2, AtTasks
<1>4. /\ r \in ThreadType /\ r.at = "task" /\ r.todo = thread[R].todo
      /\ r.blocked = thread[R].blocked /\ r.then = thread[R].then
  BY <1>1 DEF ThreadType, Places
<1> HIDE DEF r
<1>5. RequestTyped'
  <2>1. Tail(work_queue) \in Seq(Functions) /\ Head(work_queue) \in Functions
    BY <1>2, HeadTailProperties DEF IInv, Typed
  <2> QED BY <1>2, <2>1 DEF IInv, Typed, RequestTyped
<1>6. AddedInOrder'
  <2>1. Append(ran, Head(work_queue)) \o Tail(work_queue) = ran \o work_queue
    BY <1>2, HeadMoved DEF IInv, Typed
  <2> QED BY <1>2, <2>1 DEF IInv, AddedInOrder
<1> QED BY <1>2, <1>3, <1>4, <1>5, <1>6, RequestQuiet

LEMMA TaskReturnsKeeps ==
  ASSUME IInv, TaskReturns
  PROVE  IInv'
<1> DEFINE r == [thread[R] EXCEPT !.at = "tasks"]
<1>1. thread \in [Threads -> ThreadType] /\ R \in Threads
  BY RIsThread, ThreadsTyped
<1>2. /\ thread[R].at = "task" /\ mutex = None /\ mutex' = R
      /\ thread' = [thread EXCEPT ![R] = r]
      /\ UNCHANGED <<now, alarm, outstanding, waiting, stray>> /\ UNCHANGED requestVars
  BY <1>1 DEF TaskReturns, Enters
<1>3. /\ wait = "in" /\ ~forwarding /\ forwarded = <<>> /\ thread[R].blocked = None
      /\ thread[R].then # "process"
  BY <1>2, AtTasks
<1>4. /\ r \in ThreadType /\ r.at = "tasks" /\ r.todo = thread[R].todo
      /\ r.blocked = thread[R].blocked /\ r.then = thread[R].then
  BY <1>1 DEF ThreadType, Places
<1> HIDE DEF r
<1>5. wait' = "in" /\ ~forwarding' /\ forwarded' = <<>>
  BY <1>2, <1>3 DEF requestVars
<1> QED BY <1>2, <1>3, <1>4, <1>5, RequestVarsKept, RequestQuiet

LEMMA WaitReturnsKeeps ==
  ASSUME IInv, WaitReturns
  PROVE  IInv'
<1> DEFINE r == [IdleThread EXCEPT !.at = "tasks"]
<1>1. thread \in [Threads -> ThreadType] /\ R \in Threads
  BY RIsThread, ThreadsTyped
<1>2. /\ thread[R].at = "unblocked" /\ mutex = R /\ mutex' = mutex
      /\ thread' = [thread EXCEPT ![R] = r]
      /\ UNCHANGED <<now, alarm, outstanding, waiting, stray>> /\ UNCHANGED requestVars
  BY <1>1 DEF WaitReturns, Inside
<1>3. wait = "in" /\ ~forwarding /\ forwarded = <<>>
  BY <1>2, AtTasks
<1>4. /\ r \in ThreadType /\ r.at = "tasks" /\ r.todo = {}
      /\ r.blocked = None /\ r.then = "leave"
  BY DEF ThreadType, Places, IdleThread
<1> HIDE DEF r
<1>5. wait' = "in" /\ ~forwarding' /\ forwarded' = <<>>
  BY <1>2, <1>3 DEF requestVars
<1> QED BY <1>2, <1>4, <1>5, RequestVarsKept, RequestQuiet

LEMMA SwitchKeeps ==
  ASSUME IInv, SwitchToQueuedWorkerPool
  PROVE  IInv'
<1>1. thread \in [Threads -> ThreadType] /\ R \in Threads
  BY RIsThread, ThreadsTyped
<1>2. /\ thread[R].at = "tasks" /\ mutex = R /\ mutex' = None
      /\ thread' = [thread EXCEPT ![R] = IdleThread]
      /\ UNCHANGED <<now, alarm, outstanding, waiting, stray>>
      /\ UNCHANGED <<done, added, ran>>
      /\ wait' = "over" /\ forwarding' = TRUE
      /\ forwarded' = work_queue /\ work_queue' = <<>>
  BY DEF SwitchToQueuedWorkerPool, Inside
<1>3. forwarded = <<>>
  BY <1>2, AtTasks
<1>4. /\ IdleThread \in ThreadType /\ IdleThread.at = "idle" /\ IdleThread.todo = {}
      /\ IdleThread.blocked = None /\ IdleThread.then = "leave"
  BY DEF ThreadType, Places, IdleThread
<1>5. RequestTyped'
  BY <1>2 DEF IInv, Typed, RequestTyped
<1>6. AddedInOrder'
  <2>1. /\ ran \in Seq(Functions) /\ work_queue \in Seq(Functions)
        /\ added = ran \o work_queue \o <<>>
    BY <1>3 DEF IInv, Typed, AddedInOrder
  <2>2. ran \o work_queue \in Seq(Functions)
    BY <2>1, ConcatProperties
  <2>3. ran \o work_queue \o <<>> = ran \o work_queue /\ ran \o <<>> = ran
    BY <2>1, <2>2, ConcatEmptySeq
  <2> QED BY <1>2, <2>1, <2>3 DEF AddedInOrder
<1> QED BY <1>1, <1>2, <1>4, <1>5, <1>6, RequestQuiet

-----------------------------------------------------------------------------
(* Who owns an alarm.                                                      *)

\* Threads other than t use what they used.
LEMMA OthersUse ==
  ASSUME NEW t \in Threads, Others(t), NEW u \in Threads, u # t
  PROVE  /\ Runs(u)' = Runs(u) /\ Answers(u)' = Answers(u)
         /\ thread'[u].todo = thread[u].todo /\ thread'[u].alarm = thread[u].alarm
         /\ \A a : Uses(u, a)' = Uses(u, a)
  BY DEF Others, Runs, Answers, Uses

LEMMA OutTyped ==
  ASSUME Typed
  PROVE  Out \subseteq Alarms
<1>1. outstanding \in [1..Len(outstanding) -> Alarms]
  BY LenProperties DEF Typed
<1> QED BY <1>1 DEF Out, Range

LEMMA TodoTyped ==
  ASSUME Typed
  PROVE  \A u \in Threads : \A c \in thread[u].todo : c \in Alarms
  BY DEF Typed, ThreadType

\* The alarm that a callback was run for is deleted when the callback returns.
LEMMA DeleteOwned ==
  ASSUME Typed, Owned, NEW t \in Threads, NEW a \in Alarms, Uses(t, a), Others(t),
         UNCHANGED <<outstanding, waiting>>,
         \A c \in Alarms \ {a} : alarm'[c] = alarm[c],
         alarm'[a].deletes = alarm[a].deletes + 1, alarm'[a].kind = alarm[a].kind,
         alarm'[a].calls # <<>> /\ Len(alarm'[a].calls) <= 1,
         ~Runs(t)', ~Answers(t)', thread'[t].todo \subseteq thread[t].todo
  PROVE  Owned'
<1>1. /\ Live(a) /\ a \notin Out /\ alarm[a].kind \in {"function", "callback"}
      /\ \A u \in Threads : a \notin thread[u].todo /\ (Uses(u, a) => t = u)
  BY DEF Owned, UsesLive, Uses
<1>2. a \notin waiting
  <2>1. a \in waiting => Answers(t)
    BY <1>1 DEF Owned, UsesLive, WaitingLive, Uses
  <2> QED BY <1>1, <2>1 DEF Owned, UsesLive, WaitingLive
<1>3. Out' = Out /\ waiting' = waiting /\ \A c \in Alarms \ {a} : Live(c)' = Live(c)
  BY DEF Out, Live
<1>4. OutLive' /\ WaitingLive'
  BY <1>1, <1>2, <1>3, OutTyped DEF Owned, OutLive, WaitingLive, Typed
<1>5. \A u \in Threads : thread'[u].todo \subseteq thread[u].todo
  BY OthersUse
<1>6. \A u \in Threads, c \in Alarms : Uses(u, c)' => u # t /\ c # a /\ Uses(u, c)
  BY <1>1, OthersUse DEF Uses
<1>7. Deleted'
  BY <1>1 DEF Owned, Deleted, Live
<1>8. UsesSome'
  BY OthersUse DEF Owned, UsesSome
<1>9. UsesLive'
  <2>1. ASSUME NEW u \in Threads, NEW c \in Alarms, Uses(u, c)'
        PROVE  /\ Live(c)' /\ c \notin Out'
               /\ Runs(u)' => alarm'[c].kind = "function" /\ alarm'[c].calls = <<>>
               /\ Answers(u)' => alarm'[c].kind = "callback" /\ alarm'[c].calls # <<>>
               /\ \A v \in Threads : c \notin thread'[v].todo /\ (Uses(v, c)' => u = v)
    <3>1. u # t /\ c # a /\ Uses(u, c)
      BY <1>6, <2>1
    <3>2. Runs(u)' = Runs(u) /\ Answers(u)' = Answers(u)
      BY <3>1, OthersUse
    <3> QED BY <1>3, <1>5, <1>6, <3>1, <3>2 DEF Owned, UsesLive
  <2> QED BY <2>1 DEF UsesLive
<1>10. TodoLive'
  <2>1. \A u \in Threads : \A c \in thread[u].todo : c \in Alarms /\ c # a
    BY <1>1, TodoTyped
  <2> QED BY <1>3, <1>5, <2>1 DEF Owned, TodoLive
<1> QED BY <1>4, <1>7, <1>8, <1>9, <1>10 DEF Owned

\* A function is taken from outstanding_alarms_, to be run or cancelled.
LEMMA TakeOwned ==
  ASSUME Typed, Owned, NEW t \in Threads, NEW a \in Out, Others(t),
         Out' = Out \ {a}, UNCHANGED <<alarm, waiting>>,
         alarm[a].kind = "function",
         Runs(t)', ~Answers(t)', thread'[t].alarm = a, thread'[t].todo = thread[t].todo
  PROVE  Owned'
<1>1. a \in Alarms /\ Live(a) /\ alarm[a].calls = <<>>
  BY OutTyped DEF Owned, OutLive
<1>2. \A c : Live(c)' = Live(c)
  BY DEF Live
<1>3. a \notin waiting /\ \A u \in Threads : a \notin thread[u].todo /\ ~Uses(u, a)
  BY <1>1 DEF Owned, WaitingLive, TodoLive, UsesLive
<1>4. OutLive' /\ WaitingLive' /\ Deleted'
  BY <1>2, <1>3 DEF Owned, OutLive, WaitingLive, Deleted
<1>5. \A u \in Threads : thread'[u].todo = thread[u].todo
  BY OthersUse
<1>6. TodoLive'
  BY <1>2, <1>3, <1>5 DEF Owned, TodoLive
<1>7. UsesSome'
  BY <1>1, OthersUse DEF Owned, UsesSome
<1>8. /\ \A c \in Alarms : Uses(t, c)' => c = a
      /\ \A u \in Threads \ {t}, c \in Alarms : Uses(u, c)' => Uses(u, c) /\ c # a
  BY <1>3, OthersUse DEF Uses
<1>9. ASSUME NEW u \in Threads, NEW c \in Alarms, Uses(u, c)'
      PROVE  /\ Live(c)' /\ c \notin Out'
             /\ Runs(u)' => alarm'[c].kind = "function" /\ alarm'[c].calls = <<>>
             /\ Answers(u)' => alarm'[c].kind = "callback" /\ alarm'[c].calls # <<>>
             /\ \A v \in Threads : c \notin thread'[v].todo /\ (Uses(v, c)' => u = v)
  <2>1. CASE u = t
    BY <1>1, <1>2, <1>3, <1>5, <1>8, <1>9, <2>1
  <2>2. CASE u # t
    <3>1. Uses(u, c) /\ c # a /\ Runs(u)' = Runs(u) /\ Answers(u)' = Answers(u)
      BY <1>8, <1>9, <2>2, OthersUse
    <3> QED BY <1>2, <1>5, <1>8, <3>1 DEF Owned, UsesLive
  <2> QED BY <2>1, <2>2
<1> QED BY <1>4, <1>6, <1>7, <1>9 DEF Owned, UsesLive

\* An alarm is answered: its callback is run, by a timeout or by Signal.
LEMMA AnswerOwned ==
  ASSUME Typed, Owned, NEW t \in Threads, NEW a \in Out, Others(t),
         Out' = Out \ {a}, waiting' = waiting \ {a},
         \A c \in Alarms \ {a} : alarm'[c] = alarm[c],
         alarm[a].kind = "callback",
         alarm'[a] = [alarm[a] EXCEPT !.calls = Append(@, "run")],
         ~Runs(t)', Answers(t)' => \A u \in Threads : a \notin thread'[u].todo,
         thread'[t].alarm = a, thread'[t].todo \subseteq thread[t].todo
  PROVE  Owned'
<1>1. a \in Alarms /\ Live(a) /\ alarm[a].calls = <<>> /\ alarm[a] \in AlarmType
  BY OutTyped DEF Owned, OutLive, Typed
<1>2. /\ alarm'[a].kind = alarm[a].kind /\ alarm'[a].deletes = alarm[a].deletes
      /\ alarm'[a].in_wait_dispatch = alarm[a].in_wait_dispatch
      /\ alarm'[a].calls # <<>> /\ Len(alarm'[a].calls) = 1
  <2>1. alarm'[a].calls = Append(<<>>, "run")
    BY <1>1 DEF AlarmType
  <2>2. Append(<<>>, "run") # <<>> /\ Len(Append(<<>>, "run")) = 1
    OBVIOUS
  <2>3. /\ alarm'[a].kind = alarm[a].kind /\ alarm'[a].deletes = alarm[a].deletes
        /\ alarm'[a].in_wait_dispatch = alarm[a].in_wait_dispatch
    BY <1>1 DEF AlarmType
  <2> QED BY <2>1, <2>2, <2>3
<1>3. ASSUME NEW c \in Alarms PROVE Live(c)' = Live(c)
  <2>1. CASE c = a
    BY <1>2, <2>1 DEF Live
  <2>2. CASE c # a
    BY <2>2 DEF Live
  <2> QED BY <2>1, <2>2
<1>4. OutLive' /\ WaitingLive'
  <2>1. Out \subseteq Alarms /\ waiting \subseteq Alarms
    BY OutTyped DEF Typed
  <2> QED BY <1>2, <1>3, <2>1 DEF Owned, OutLive, WaitingLive
<1>5. Deleted'
  <2>1. ASSUME NEW c \in Alarms
        PROVE  /\ alarm'[c].deletes <= 1 /\ Len(alarm'[c].calls) <= 1
               /\ alarm'[c].kind \in {"function", "callback"} /\ alarm'[c].deletes > 0
                    => alarm'[c].calls # <<>>
    <3>1. CASE c = a
      <4>1. alarm'[a].deletes <= 1 /\ Len(alarm'[a].calls) <= 1
              /\ alarm'[a].calls # <<>>
        BY <1>1, <1>2 DEF Live
      <4> QED BY <3>1, <4>1, Zenon
    <3>2. CASE c # a
      BY <3>2 DEF Owned, Deleted
    <3> QED BY <3>1, <3>2
  <2> QED BY <2>1 DEF Deleted
<1>6. \A u \in Threads : thread'[u].todo \subseteq thread[u].todo
  BY OthersUse
<1>7. TodoLive'
  BY <1>2, <1>3, <1>6, TodoTyped DEF Owned, TodoLive
<1>8. UsesSome'
  BY <1>1, OthersUse DEF Owned, UsesSome
<1>9. /\ \A c \in Alarms : Uses(t, c)' => c = a
      /\ \A u \in Threads \ {t}, c \in Alarms : Uses(u, c)' => Uses(u, c) /\ c # a
  BY OthersUse DEF Uses, Owned, UsesLive
<1>10. ASSUME NEW u \in Threads, NEW c \in Alarms, Uses(u, c)'
       PROVE  /\ Live(c)' /\ c \notin Out'
              /\ Runs(u)' => alarm'[c].kind = "function" /\ alarm'[c].calls = <<>>
              /\ Answers(u)' => alarm'[c].kind = "callback" /\ alarm'[c].calls # <<>>
              /\ \A v \in Threads : c \notin thread'[v].todo /\ (Uses(v, c)' => u = v)
  <2>1. CASE u = t
    <3>1. c = a /\ Answers(t)'
      BY <1>9, <1>10, <2>1 DEF Uses
    <3> QED BY <1>1, <1>2, <1>3, <1>9, <2>1, <3>1
  <2>2. CASE u # t
    <3>1. Uses(u, c) /\ c # a /\ Runs(u)' = Runs(u) /\ Answers(u)' = Answers(u)
      BY <1>9, <1>10, <2>2, OthersUse
    <3> QED BY <1>3, <1>6, <1>9, <3>1 DEF Owned, UsesLive
  <2> QED BY <2>1, <2>2
<1> QED BY <1>4, <1>5, <1>7, <1>8, <1>10 DEF Owned, UsesLive

\* RunBlock: the alarm of a blocking wait is deleted unless Signal has it.
LEMMA BlockOwned ==
  ASSUME Typed, Owned, NEW a \in Out, Out' = Out \ {a}, waiting' = waiting \ {a},
         \A u \in Threads :
           /\ thread'[u].at = thread[u].at /\ thread'[u].alarm = thread[u].alarm
           /\ thread'[u].saved = thread[u].saved /\ thread'[u].todo = thread[u].todo,
         \A c \in Alarms \ {a} : alarm'[c] = alarm[c],
         alarm[a].kind = "block",
         alarm'[a].kind = "block", alarm'[a].calls = alarm[a].calls,
         alarm'[a].in_wait_dispatch = alarm[a].in_wait_dispatch,
         alarm'[a].deletes = IF alarm[a].in_wait_dispatch THEN alarm[a].deletes
                             ELSE alarm[a].deletes + 1
  PROVE  Owned'
<1>1. a \in Alarms /\ Live(a)
  BY OutTyped DEF Owned, OutLive
<1>2. \A c \in Alarms \ {a} : Live(c)' = Live(c)
  BY DEF Live
<1>3. alarm[a].in_wait_dispatch => Live(a)'
  BY <1>1 DEF Live
<1>4. OutLive' /\ WaitingLive'
  <2>1. Out \subseteq Alarms /\ waiting \subseteq Alarms
    BY OutTyped DEF Typed
  <2> QED BY <1>2, <2>1 DEF Owned, OutLive, WaitingLive
<1>5. Deleted'
  <2>1. ASSUME NEW c \in Alarms
        PROVE  /\ alarm'[c].deletes <= 1 /\ Len(alarm'[c].calls) <= 1
               /\ alarm'[c].kind \in {"function", "callback"} /\ alarm'[c].deletes > 0
                    => alarm'[c].calls # <<>>
    <3>1. CASE c = a
      BY <1>1, <3>1 DEF Live, Owned, Deleted
    <3>2. CASE c # a
      BY <3>2 DEF Owned, Deleted
    <3> QED BY <3>1, <3>2
  <2> QED BY <2>1 DEF Deleted
<1>6. ASSUME NEW u \in Threads
      PROVE  /\ Runs(u)' = Runs(u) /\ Answers(u)' = Answers(u)
             /\ \A c : Uses(u, c)' = Uses(u, c)
  BY DEF Runs, Answers, Uses
<1>7. TodoLive'
  BY <1>2, <1>3, TodoTyped DEF Owned, TodoLive
<1>8. UsesSome'
  BY <1>6 DEF Owned, UsesSome
<1>9. ASSUME NEW u \in Threads, NEW c \in Alarms, Uses(u, c)'
      PROVE  /\ Live(c)' /\ c \notin Out'
             /\ Runs(u)' => alarm'[c].kind = "function" /\ alarm'[c].calls = <<>>
             /\ Answers(u)' => alarm'[c].kind = "callback" /\ alarm'[c].calls # <<>>
             /\ \A v \in Threads : c \notin thread'[v].todo /\ (Uses(v, c)' => u = v)
  <2>1. Uses(u, c) /\ c # a
    BY <1>6, <1>9 DEF Owned, UsesLive
  <2> QED BY <1>2, <1>6, <2>1 DEF Owned, UsesLive
<1> QED BY <1>4, <1>5, <1>7, <1>8, <1>9 DEF Owned, UsesLive

\* Signal deletes the next alarm of its set, unless it runs its callback.
LEMMA DispatchOwned ==
  ASSUME Typed, Owned, NEW t \in Threads, NEW a \in thread[t].todo, Others(t),
         Out' = Out \ {a}, UNCHANGED waiting,
         \A c \in Alarms \ {a} : alarm'[c] = alarm[c],
         alarm[a].kind = "callback" => a \notin Out,
         alarm'[a].kind = alarm[a].kind, alarm'[a].calls = alarm[a].calls,
         alarm'[a].deletes = alarm[a].deletes + 1,
         ~Runs(t)', ~Answers(t)', thread'[t].todo = thread[t].todo \ {a}
  PROVE  Owned'
<1>1. /\ a \in Alarms /\ Live(a) /\ a \notin waiting
      /\ alarm[a].kind = "callback" => alarm[a].calls # <<>>
      /\ alarm[a].kind # "function"
      /\ \A u \in Threads \ {t} : a \notin thread[u].todo
  BY TodoTyped DEF Owned, TodoLive, WaitingLive
<1>2. \A c \in Alarms \ {a} : Live(c)' = Live(c)
  BY DEF Live
<1>3. OutLive' /\ WaitingLive'
  <2>1. Out \subseteq Alarms /\ waiting \subseteq Alarms
    BY OutTyped DEF Typed
  <2> QED BY <1>1, <1>2, <2>1 DEF Owned, OutLive, WaitingLive
<1>4. Deleted'
  <2>1. ASSUME NEW c \in Alarms
        PROVE  /\ alarm'[c].deletes <= 1 /\ Len(alarm'[c].calls) <= 1
               /\ alarm'[c].kind \in {"function", "callback"} /\ alarm'[c].deletes > 0
                    => alarm'[c].calls # <<>>
    <3>1. CASE c = a
      BY <1>1, <3>1 DEF Live, Owned, Deleted
    <3>2. CASE c # a
      BY <3>2 DEF Owned, Deleted
    <3> QED BY <3>1, <3>2
  <2> QED BY <2>1 DEF Deleted
<1>5. \A u \in Threads : thread'[u].todo = thread[u].todo \ {a}
  BY <1>1, OthersUse
<1>6. TodoLive'
  BY <1>2, <1>5, TodoTyped DEF Owned, TodoLive
<1>7. UsesSome'
  BY OthersUse DEF Owned, UsesSome
<1>8. \A u \in Threads, c \in Alarms : Uses(u, c)' => u # t /\ Uses(u, c) /\ c # a
  BY OthersUse DEF Uses, Owned, UsesLive
<1>9. ASSUME NEW u \in Threads, NEW c \in Alarms, Uses(u, c)'
      PROVE  /\ Live(c)' /\ c \notin Out'
             /\ Runs(u)' => alarm'[c].kind = "function" /\ alarm'[c].calls = <<>>
             /\ Answers(u)' => alarm'[c].kind = "callback" /\ alarm'[c].calls # <<>>
             /\ \A v \in Threads : c \notin thread'[v].todo /\ (Uses(v, c)' => u = v)
  <2>1. u # t /\ Uses(u, c) /\ c # a
    BY <1>8, <1>9
  <2>2. Runs(u)' = Runs(u) /\ Answers(u)' = Answers(u)
    BY <2>1, OthersUse
  <2> QED BY <1>2, <1>5, <1>8, <2>1, <2>2 DEF Owned, UsesLive
<1> QED BY <1>3, <1>4, <1>6, <1>7, <1>9 DEF Owned, UsesLive

\* Signal takes all the alarms of waiting_alarms_.
LEMMA SignalOwned ==
  ASSUME Typed, Owned, NEW t \in Threads, Others(t),
         UNCHANGED outstanding, waiting' = {}, alarm' = Taken,
         ~Runs(t)', ~Answers(t)', thread'[t].todo = waiting
  PROVE  Owned'
<1>1. waiting \subseteq Alarms /\ Out \subseteq Alarms /\ Out' = Out
  BY OutTyped DEF Typed, Out
<1>2. ASSUME NEW c \in Alarms
      PROVE  /\ alarm'[c].kind = alarm[c].kind /\ alarm'[c].calls = alarm[c].calls
             /\ alarm'[c].deletes = alarm[c].deletes /\ Live(c)' = Live(c)
             /\ alarm[c].in_wait_dispatch \/ c \in waiting => alarm'[c].in_wait_dispatch
  <2>1. alarm[c] \in AlarmType
    BY DEF Typed
  <2>2. /\ alarm'[c].kind = alarm[c].kind /\ alarm'[c].calls = alarm[c].calls
        /\ alarm'[c].deletes = alarm[c].deletes
        /\ alarm[c].in_wait_dispatch \/ c \in waiting => alarm'[c].in_wait_dispatch
    BY <2>1 DEF Taken, AlarmType
  <2> QED BY <2>2 DEF Live
<1>3. OutLive' /\ WaitingLive' /\ Deleted'
  BY <1>1, <1>2 DEF Owned, OutLive, WaitingLive, Deleted
<1>4. \A c \in waiting : \A u \in Threads : c \notin thread[u].todo
  BY DEF Owned, WaitingLive, TodoLive
<1>5. \A u \in Threads \ {t} : thread'[u].todo = thread[u].todo
  BY OthersUse
<1>6. TodoLive'
  <2>1. ASSUME NEW u \in Threads, NEW c \in thread'[u].todo
        PROVE  /\ Live(c)' /\ alarm'[c].kind \in {"callback", "block"}
               /\ alarm'[c].in_wait_dispatch
               /\ alarm'[c].kind = "callback" /\ c \notin Out' => alarm'[c].calls # <<>>
               /\ \A v \in Threads : c \in thread'[v].todo => u = v
    <3>1. CASE u = t
      BY <1>1, <1>2, <1>4, <1>5, <3>1 DEF Owned, WaitingLive
    <3>2. CASE u # t
      <4>1. c \in thread[u].todo /\ c \in Alarms
        BY <1>5, <3>2, TodoTyped
      <4>2. \A v \in Threads : c \in thread'[v].todo => u = v
        BY <1>4, <1>5, <4>1 DEF Owned, TodoLive
      <4> QED BY <1>1, <1>2, <4>1, <4>2 DEF Owned, TodoLive
    <3> QED BY <3>1, <3>2
  <2> QED BY <2>1 DEF TodoLive
<1>7. UsesSome'
  BY OthersUse DEF Owned, UsesSome
<1>8. \A u \in Threads, c \in Alarms : Uses(u, c)' => u # t /\ Uses(u, c)
  BY OthersUse DEF Uses
<1>9. ASSUME NEW u \in Threads, NEW c \in Alarms, Uses(u, c)'
      PROVE  /\ Live(c)' /\ c \notin Out'
             /\ Runs(u)' => alarm'[c].kind = "function" /\ alarm'[c].calls = <<>>
             /\ Answers(u)' => alarm'[c].kind = "callback" /\ alarm'[c].calls # <<>>
             /\ \A v \in Threads : c \notin thread'[v].todo /\ (Uses(v, c)' => u = v)
  <2>1. u # t /\ Uses(u, c)
    BY <1>8, <1>9
  <2>2. Runs(u)' = Runs(u) /\ Answers(u)' = Answers(u) /\ (Runs(u) \/ Answers(u))
    BY <2>1, OthersUse DEF Uses
  <2>3. c \notin waiting
    BY <2>1, <2>2 DEF Owned, UsesLive, WaitingLive
  <2>4. \A v \in Threads : c \notin thread'[v].todo
    BY <1>5, <2>1, <2>3 DEF Owned, UsesLive
  <2> QED BY <1>1, <1>2, <1>8, <2>1, <2>2, <2>4 DEF Owned, UsesLive
<1> QED BY <1>3, <1>6, <1>7, <1>9 DEF Owned, UsesLive

\* A new alarm is one that nobody refers to.
LEMMA InsertOwned ==
  ASSUME Typed, Owned, NEW t \in Threads, NEW a \in Alarms, Others(t), ~Live(a),
         Out' = Out \cup {a},
         \A c \in Alarms \ {a} : alarm'[c] = alarm[c],
         alarm'[a].kind \in {"function", "callback", "block"},
         alarm'[a].deletes = 0, alarm'[a].calls = <<>>, ~alarm'[a].in_wait_dispatch,
         waiting' = IF alarm'[a].kind = "function" THEN waiting ELSE waiting \cup {a},
         ~Runs(t)', ~Answers(t)', thread'[t].todo = thread[t].todo
  PROVE  Owned'
<1>1. /\ a \notin Out /\ a \notin waiting
      /\ \A u \in Threads : a \notin thread[u].todo /\ ~Uses(u, a)
  BY DEF Owned, OutLive, WaitingLive, TodoLive, UsesLive
<1>2. Live(a)' /\ \A c \in Alarms \ {a} : Live(c)' = Live(c)
  BY DEF Live
<1>3. Out \subseteq Alarms /\ waiting \subseteq Alarms
  BY OutTyped DEF Typed
<1>4. OutLive'
  BY <1>2, <1>3 DEF Owned, OutLive
<1>5. WaitingLive'
  BY <1>1, <1>2, <1>3 DEF Owned, WaitingLive
<1>6. Deleted'
  <2>1. Len(<<>>) = 0
    OBVIOUS
  <2> QED BY <2>1 DEF Owned, Deleted
<1>7. \A u \in Threads : thread'[u].todo = thread[u].todo
  BY OthersUse
<1>8. TodoLive'
  BY <1>1, <1>2, <1>7, TodoTyped DEF Owned, TodoLive
<1>9. UsesSome'
  BY OthersUse DEF Owned, UsesSome
<1>10. \A u \in Threads, c \in Alarms : Uses(u, c)' => u # t /\ Uses(u, c) /\ c # a
  BY <1>1, OthersUse DEF Uses
<1>11. ASSUME NEW u \in Threads, NEW c \in Alarms, Uses(u, c)'
       PROVE  /\ Live(c)' /\ c \notin Out'
              /\ Runs(u)' => alarm'[c].kind = "function" /\ alarm'[c].calls = <<>>
              /\ Answers(u)' => alarm'[c].kind = "callback" /\ alarm'[c].calls # <<>>
              /\ \A v \in Threads : c \notin thread'[v].todo /\ (Uses(v, c)' => u = v)
  <2>1. u # t /\ Uses(u, c) /\ c # a
    BY <1>10, <1>11
  <2>2. Runs(u)' = Runs(u) /\ Answers(u)' = Answers(u)
    BY <2>1, OthersUse
  <2> QED BY <1>2, <1>7, <1>10, <2>1, <2>2 DEF Owned, UsesLive
<1> QED BY <1>4, <1>5, <1>6, <1>8, <1>9, <1>11 DEF Owned, UsesLive

-----------------------------------------------------------------------------
(* Steps of the scheduler that change alarms.                              *)

LEMMA RequestUntouched ==
  ASSUME IInv, NEW t \in Threads, Others(t), UNCHANGED requestVars,
         thread'[t].at \notin {"tasks", "task", "unblocked", "await"},
         thread'[t].blocked # None =>
           thread[t].blocked # None /\ thread'[t].signaled = thread[t].signaled,
         \A u \in Threads \ {t} : thread'[u].signaled = thread[u].signaled,
         Signaling(t) => Signaling(t)'
  PROVE  Request'
<1>1. UNCHANGED <<wait, forwarding, forwarded>> /\ Pending' = Pending
  BY RequestVarsKept DEF requestVars
<1>2. R \in Threads
  BY RIsThread
<1>3. t = R => (Waits' => Waits)
  BY DEF Waits
<1> QED BY <1>1, <1>2, <1>3, RequestKept DEF IInv

LEMMA AlarmStep ==
  ASSUME IInv, NEW t \in Threads, Others(t), UNCHANGED now, UNCHANGED requestVars,
         mutex = t \/ mutex = None, mutex' = t \/ mutex' = None,
         alarm' \in [Alarms -> AlarmType],
         outstanding' \in Seq(Alarms), IsInjective(outstanding'),
         waiting' \subseteq Alarms, stray' \subseteq Alarms,
         thread' \in [Threads -> ThreadType],
         thread'[t].at \in {"run", "dispatch"} => mutex' = t,
         thread'[t].at \notin {"tasks", "task", "unblocked", "await"},
         thread'[t].blocked # None =>
           thread[t].blocked # None /\ thread'[t].signaled = thread[t].signaled,
         \A u \in Threads \ {t} : thread'[u].signaled = thread[u].signaled,
         Signaling(t) => Signaling(t)',
         BlocksOf(t)', Owned'
  PROVE  IInv'
<1>1. Holding'
  BY HoldingKept DEF IInv
<1>2. Blocks'
  BY BlocksKept DEF IInv
<1>3. Request'
  BY RequestUntouched
<1>4. RequestTyped' /\ AddedInOrder'
  BY RequestVarsKept
<1>5. Typed'
  BY <1>4 DEF IInv, Typed, RequestTyped
<1> QED BY <1>1, <1>2, <1>3, <1>4, <1>5 DEF IInv

LEMMA OneAlarmChanges ==
  ASSUME Typed, NEW a \in Alarms, NEW b, alarm' = [alarm EXCEPT ![a] = b]
  PROVE  /\ alarm'[a] = b /\ \A c \in Alarms \ {a} : alarm'[c] = alarm[c]
         /\ b \in AlarmType => alarm' \in [Alarms -> AlarmType]
  BY DEF Typed

\* The first of outstanding_alarms_ is taken out.
LEMMA HeadTaken ==
  ASSUME IInv, Due, outstanding' = Tail(outstanding)
  PROVE  /\ Head(outstanding) \in Alarms /\ Head(outstanding) \in Out
         /\ outstanding' \in Seq(Alarms) /\ IsInjective(outstanding')
         /\ Out' = Out \ {Head(outstanding)}
         /\ alarm[Head(outstanding)] \in AlarmType
<1>1. /\ Head(outstanding) \in Alarms /\ Head(outstanding) \in Out
      /\ outstanding' \in Seq(Alarms) /\ IsInjective(outstanding')
      /\ Out' = Out \ {Head(outstanding)}
  BY HeadRemoved DEF IInv, Typed, Due, Out
<1> QED BY <1>1 DEF IInv, Typed

LEMMA RunFunctionKeeps ==
  ASSUME IInv, NEW t \in Threads, RunFunction(t), UNCHANGED requestVars
  PROVE  IInv'
<1> DEFINE a == Head(outstanding)
           r == [thread[t] EXCEPT !.at = "function", !.alarm = a, !.ran = TRUE]
<1>1. thread \in [Threads -> ThreadType] /\ thread[t] \in ThreadType
  BY ThreadsTyped
<1>2. /\ thread[t].at = "run" /\ mutex = t /\ mutex' = None /\ Due
      /\ alarm[a].kind = "function" /\ outstanding' = Tail(outstanding)
      /\ thread' = [thread EXCEPT ![t] = r]
      /\ UNCHANGED <<now, alarm, waiting, stray>>
  BY <1>1 DEF RunFunction, Inside
<1>3. /\ a \in Alarms /\ a \in Out /\ Out' = Out \ {a}
      /\ outstanding' \in Seq(Alarms) /\ IsInjective(outstanding')
  BY <1>2, HeadTaken
<1> HIDE DEF a
<1>4. /\ r \in ThreadType /\ r.at = "function" /\ r.alarm = a
      /\ r.todo = thread[t].todo /\ r.blocked = thread[t].blocked
      /\ r.then = thread[t].then /\ r.signaled = thread[t].signaled
  BY <1>1, <1>3 DEF ThreadType, Places
<1> HIDE DEF r
<1>5. /\ thread'[t] = r /\ \A u \in Threads \ {t} : thread'[u] = thread[u]
      /\ Others(t) /\ thread' \in [Threads -> ThreadType]
  BY <1>2, <1>4, OnlyOneChanges
<1>6. BlocksOf(t)' /\ ~Signaling(t) /\ Runs(t)' /\ ~Answers(t)'
  BY <1>2, <1>4, <1>5 DEF IInv, Blocks, BlocksOf, Signaling, Runs, Answers
<1>7. Owned'
  BY <1>2, <1>3, <1>4, <1>5, <1>6, TakeOwned DEF IInv
<1> QED BY <1>2, <1>3, <1>4, <1>5, <1>6, <1>7, AlarmStep DEF IInv, Typed

LEMMA CancelAlarmStep ==
  ASSUME IInv, NEW t \in Threads, NEW a \in Alarms, CancelAlarm(t, a),
         UNCHANGED requestVars
  PROVE  IInv'
<1> DEFINE r == [thread[t] EXCEPT !.at = "cancel", !.alarm = a, !.then = "leave"]
<1>1. thread \in [Threads -> ThreadType] /\ thread[t] \in ThreadType
  BY ThreadsTyped
<1>2. /\ thread[t].at = "idle" /\ mutex = None /\ mutex' = None
      /\ alarm[a].kind = "function" /\ a \in Out
      /\ outstanding' = Erased(outstanding, a)
      /\ thread' = [thread EXCEPT ![t] = r]
      /\ UNCHANGED <<now, alarm, waiting, stray>>
  BY <1>1 DEF CancelAlarm, Outside, Out
<1>3. /\ Out' = Out \ {a}
      /\ outstanding' \in Seq(Alarms) /\ IsInjective(outstanding')
  BY <1>2, Removed DEF IInv, Typed, Out
<1>4. /\ r \in ThreadType /\ r.at = "cancel" /\ r.alarm = a
      /\ r.todo = thread[t].todo /\ r.blocked = thread[t].blocked
      /\ r.then = "leave"
  BY <1>1 DEF ThreadType, Places
<1> HIDE DEF r
<1>5. /\ thread'[t] = r /\ \A u \in Threads \ {t} : thread'[u] = thread[u]
      /\ Others(t) /\ thread' \in [Threads -> ThreadType]
  BY <1>2, <1>4, OnlyOneChanges
<1>6. /\ BlocksOf(t)' /\ ~Signaling(t) /\ Runs(t)' /\ ~Answers(t)'
      /\ thread[t].blocked = None
  BY <1>2, <1>4, <1>5 DEF IInv, Blocks, BlocksOf, Signaling, Runs, Answers
<1>7. Owned'
  BY <1>2, <1>3, <1>4, <1>5, <1>6, TakeOwned DEF IInv
<1> QED BY <1>2, <1>3, <1>4, <1>5, <1>6, <1>7, AlarmStep DEF IInv, Typed

LEMMA RunBlockKeeps ==
  ASSUME IInv, NEW t \in Threads, RunBlock(t), UNCHANGED requestVars
  PROVE  IInv'
<1> DEFINE a == Head(outstanding)
           waiters == {u \in Threads : thread[u].blocked = a}
           b == [alarm[a] EXCEPT !.deletes =
                   IF alarm[a].in_wait_dispatch THEN @ ELSE @ + 1]
<1>1. thread \in [Threads -> ThreadType] /\ thread[t] \in ThreadType
  BY ThreadsTyped
<1>2. /\ thread[t].at = "run" /\ mutex = t /\ mutex' = mutex /\ Due
      /\ alarm[a].kind = "block" /\ outstanding' = Tail(outstanding)
      /\ waiting' = waiting \ {a}
      /\ thread' = [u \in Threads |->
           [thread[u] EXCEPT !.timed_out = @ \/ u \in waiters, !.ran = @ \/ u = t]]
      /\ stray' = IF waiters = {} THEN stray \cup {a} ELSE stray
      /\ now' = now
  BY DEF RunBlock, Inside
<1>3. /\ a \in Alarms /\ a \in Out /\ Out' = Out \ {a} /\ alarm[a] \in AlarmType
      /\ outstanding' \in Seq(Alarms) /\ IsInjective(outstanding')
  BY <1>2, HeadTaken
<1>4. alarm' = [alarm EXCEPT ![a] = b]
  <2>1. alarm' = [alarm EXCEPT ![a].deletes =
                    IF alarm[a].in_wait_dispatch THEN @ ELSE @ + 1]
    BY DEF RunBlock
  <2> QED BY <2>1, <1>3 DEF IInv, Typed
<1> HIDE DEF a
<1>5. /\ b \in AlarmType /\ b.kind = "block" /\ b.calls = alarm[a].calls
      /\ b.in_wait_dispatch = alarm[a].in_wait_dispatch
      /\ b.deletes = IF alarm[a].in_wait_dispatch THEN alarm[a].deletes
                     ELSE alarm[a].deletes + 1
  <2>1. alarm[a].deletes \in {0, 1}
    BY <1>3 DEF IInv, Owned, Deleted, AlarmType
  <2> DEFINE d == IF alarm[a].in_wait_dispatch THEN alarm[a].deletes
                  ELSE alarm[a].deletes + 1
  <2>2. d \in 0..2
    BY <2>1
  <2>3. b = [alarm[a] EXCEPT !.deletes = d]
    OBVIOUS
  <2> HIDE DEF d, b
  <2>4. b \in AlarmType /\ b.deletes = d
    BY <2>2, <2>3, <1>3 DEF AlarmType
  <2>5. /\ b.kind = "block" /\ b.calls = alarm[a].calls
        /\ b.in_wait_dispatch = alarm[a].in_wait_dispatch
    BY <2>3, <1>2, <1>3 DEF AlarmType
  <2> QED BY <2>4, <2>5 DEF d
<1> HIDE DEF b
<1>6. /\ alarm'[a] = b /\ \A c \in Alarms \ {a} : alarm'[c] = alarm[c]
      /\ alarm' \in [Alarms -> AlarmType]
  BY <1>3, <1>4, <1>5, OneAlarmChanges DEF IInv
<1> HIDE DEF waiters
<1>7. /\ thread' \in [Threads -> ThreadType]
      /\ \A u \in Threads :
           /\ thread'[u].at = thread[u].at /\ thread'[u].alarm = thread[u].alarm
           /\ thread'[u].saved = thread[u].saved /\ thread'[u].todo = thread[u].todo
           /\ thread'[u].then = thread[u].then /\ thread'[u].blocked = thread[u].blocked
           /\ thread'[u].signaled = thread[u].signaled
           /\ thread'[u].woken = thread[u].woken
  BY <1>1, <1>2 DEF ThreadType
<1>8. Others(t)
  BY <1>7 DEF Others
<1>9. BlocksOf(t)' /\ ~Signaling(t)
  BY <1>2, <1>7 DEF IInv, Blocks, BlocksOf, Signaling
<1>10. Owned'
  BY <1>2, <1>3, <1>5, <1>6, <1>7, BlockOwned DEF IInv
<1>11. waiting' \subseteq Alarms /\ stray' \subseteq Alarms
  BY <1>2, <1>3 DEF IInv, Typed
<1> QED BY <1>2, <1>3, <1>6, <1>7, <1>8, <1>9, <1>10, <1>11, AlarmStep

LEMMA RunCallbackKeeps ==
  ASSUME IInv, NEW t \in Threads, RunCallback(t), UNCHANGED requestVars
  PROVE  IInv'
<1> DEFINE a == Head(outstanding)
           r == [thread[t] EXCEPT !.at = "timeout", !.alarm = a,
                   !.saved = alarm[a].in_wait_dispatch, !.ran = TRUE]
           b == [alarm[a] EXCEPT !.calls = Append(@, "run")]
<1>1. thread \in [Threads -> ThreadType] /\ thread[t] \in ThreadType
  BY ThreadsTyped
<1>2. /\ thread[t].at = "run" /\ mutex = t /\ (mutex' = t \/ mutex' = None) /\ Due
      /\ alarm[a].kind = "callback" /\ outstanding' = Tail(outstanding)
      /\ waiting' = waiting \ {a}
      /\ thread' = [thread EXCEPT ![t] = r]
      /\ UNCHANGED <<now, stray>>
  BY <1>1 DEF RunCallback, Inside, DropsOrKeeps
<1>3. /\ a \in Alarms /\ a \in Out /\ Out' = Out \ {a} /\ alarm[a] \in AlarmType
      /\ outstanding' \in Seq(Alarms) /\ IsInjective(outstanding')
  BY <1>2, HeadTaken
<1>4. alarm' = [alarm EXCEPT ![a] = b]
  <2>1. alarm' = [alarm EXCEPT ![a].calls = Append(@, "run")]
    BY DEF RunCallback
  <2> QED BY <2>1, <1>3 DEF IInv, Typed
<1> HIDE DEF a
<1>5. b \in AlarmType
  <2>1. Append(alarm[a].calls, "run") \in Seq({"run", "cancel"})
    BY <1>3 DEF AlarmType
  <2> QED BY <1>3, <2>1 DEF AlarmType
<1>6. /\ alarm'[a] = b /\ \A c \in Alarms \ {a} : alarm'[c] = alarm[c]
      /\ alarm' \in [Alarms -> AlarmType]
  BY <1>3, <1>4, <1>5, OneAlarmChanges DEF IInv
<1>7. /\ r \in ThreadType /\ r.at = "timeout" /\ r.alarm = a
      /\ r.saved = alarm[a].in_wait_dispatch
      /\ r.todo = thread[t].todo /\ r.blocked = thread[t].blocked
      /\ r.then = thread[t].then /\ r.signaled = thread[t].signaled
  BY <1>1, <1>3 DEF ThreadType, Places, AlarmType
<1> HIDE DEF r
<1>8. /\ thread'[t] = r /\ \A u \in Threads \ {t} : thread'[u] = thread[u]
      /\ Others(t) /\ thread' \in [Threads -> ThreadType]
  BY <1>2, <1>7, OnlyOneChanges
<1>9. BlocksOf(t)' /\ ~Signaling(t) /\ ~Runs(t)'
  BY <1>2, <1>7, <1>8 DEF IInv, Blocks, BlocksOf, Signaling, Runs
<1>10. Answers(t)' => \A u \in Threads : a \notin thread'[u].todo
  <2>1. Answers(t)' => ~alarm[a].in_wait_dispatch
    BY <1>7, <1>8 DEF Answers
  <2>2. \A u \in Threads : thread'[u].todo = thread[u].todo
    BY <1>7, <1>8
  <2> QED BY <2>1, <2>2 DEF IInv, Owned, TodoLive
<1>11. Owned'
  BY <1>2, <1>3, <1>6, <1>7, <1>8, <1>9, <1>10, AnswerOwned DEF IInv
<1>12. waiting' \subseteq Alarms /\ stray' \subseteq Alarms
  BY <1>2 DEF IInv, Typed
<1> QED BY <1>2, <1>3, <1>6, <1>7, <1>8, <1>9, <1>11, <1>12, AlarmStep

\* What is deleted when a callback returns.
LEMMA UsedAlarm ==
  ASSUME IInv, NEW t \in Threads, Runs(t) \/ Answers(t)
  PROVE  LET a == thread[t].alarm
         IN  /\ a \in Alarms /\ Uses(t, a) /\ alarm[a] \in AlarmType
             /\ alarm[a].deletes = 0
             /\ Runs(t) => alarm[a].calls = <<>>
             /\ Answers(t) => alarm[a].calls # <<>> /\ Len(alarm[a].calls) <= 1
<1> DEFINE a == thread[t].alarm
<1>1. a \in Alarms /\ Uses(t, a)
  BY DEF IInv, Owned, UsesSome, Uses
<1>2. alarm[a] \in AlarmType
  BY <1>1 DEF IInv, Typed
<1> HIDE DEF a
<1>3. /\ Live(a) /\ (Runs(t) => alarm[a].calls = <<>>)
      /\ Answers(t) => alarm[a].calls # <<>>
  BY <1>1 DEF IInv, Owned, UsesLive
<1>4. Len(alarm[a].calls) <= 1
  BY <1>1 DEF IInv, Owned, Deleted
<1> QED BY <1>1, <1>2, <1>3, <1>4 DEF Live, a

\* A function's callback has returned: it is deleted.
LEMMA FunctionDeleted ==
  ASSUME NEW b \in AlarmType, b.calls = <<>>, b.deletes = 0,
         NEW c \in {"run", "cancel"},
         NEW d, d = [b EXCEPT !.calls = Append(@, c), !.deletes = @ + 1]
  PROVE  /\ d \in AlarmType /\ d.deletes = b.deletes + 1 /\ d.kind = b.kind
         /\ d.calls # <<>> /\ Len(d.calls) <= 1
<1> DEFINE q == Append(<<>>, c)
<1>1. q \in Seq({"run", "cancel"}) /\ Len(q) = 1 /\ q # <<>>
  OBVIOUS
<1>2. d = [b EXCEPT !.calls = q, !.deletes = 1]
  OBVIOUS
<1> HIDE DEF q
<1>3. d.calls = q /\ d.deletes = 1 /\ d.kind = b.kind
  BY <1>2 DEF AlarmType
<1>4. d \in AlarmType
  <2>1. /\ d.kind \in {"none", "function", "callback", "block"} /\ d.wakeup \in Nat
        /\ d.in_wait_dispatch \in BOOLEAN
    BY <1>2 DEF AlarmType
  <2>2. d = [kind |-> d.kind, wakeup |-> d.wakeup,
             in_wait_dispatch |-> d.in_wait_dispatch, calls |-> q, deletes |-> 1]
    BY <1>2 DEF AlarmType
  <2> QED BY <1>1, <2>1, <2>2 DEF AlarmType
<1> QED BY <1>1, <1>3, <1>4

LEMMA AnsweredDeleted ==
  ASSUME NEW b \in AlarmType, b.deletes = 0,
         NEW d, d = [b EXCEPT !.deletes = @ + 1]
  PROVE  /\ d \in AlarmType /\ d.deletes = b.deletes + 1 /\ d.kind = b.kind
         /\ d.calls = b.calls
  BY DEF AlarmType

LEMMA FunctionReturnsKeeps ==
  ASSUME IInv, NEW t \in Threads, FunctionReturns(t), UNCHANGED requestVars
  PROVE  IInv'
<1> DEFINE a == thread[t].alarm
           r == [thread[t] EXCEPT !.at = "run", !.alarm = None]
           b == [alarm[a] EXCEPT !.calls = Append(@, "run"), !.deletes = @ + 1]
<1>1. thread \in [Threads -> ThreadType] /\ thread[t] \in ThreadType
  BY ThreadsTyped
<1>2. /\ thread[t].at = "function" /\ mutex = None /\ mutex' = t
      /\ thread' = [thread EXCEPT ![t] = r]
      /\ UNCHANGED <<now, outstanding, waiting, stray>>
  BY <1>1 DEF FunctionReturns, Enters
<1>3. Runs(t)
  BY <1>2 DEF Runs
<1>4. /\ a \in Alarms /\ Uses(t, a) /\ alarm[a] \in AlarmType
      /\ alarm[a].deletes = 0 /\ alarm[a].calls = <<>>
  BY <1>3, UsedAlarm
<1>5. alarm' = [alarm EXCEPT ![a] = b]
  <2>1. alarm' = [alarm EXCEPT ![a].calls = Append(@, "run"), ![a].deletes = @ + 1]
    BY DEF FunctionReturns
  <2> QED BY <2>1, <1>4 DEF IInv, Typed
<1> HIDE DEF a
<1>6. /\ b \in AlarmType /\ b.deletes = alarm[a].deletes + 1 /\ b.kind = alarm[a].kind
      /\ b.calls # <<>> /\ Len(b.calls) <= 1
  BY <1>4, FunctionDeleted
<1> HIDE DEF b
<1>7. /\ alarm'[a] = b /\ \A c \in Alarms \ {a} : alarm'[c] = alarm[c]
      /\ alarm' \in [Alarms -> AlarmType]
  BY <1>4, <1>5, <1>6, OneAlarmChanges DEF IInv
<1>8. /\ r \in ThreadType /\ r.at = "run"
      /\ r.todo = thread[t].todo /\ r.blocked = thread[t].blocked
      /\ r.then = thread[t].then /\ r.signaled = thread[t].signaled
  BY <1>1 DEF ThreadType, Places
<1> HIDE DEF r
<1>9. /\ thread'[t] = r /\ \A u \in Threads \ {t} : thread'[u] = thread[u]
      /\ Others(t) /\ thread' \in [Threads -> ThreadType]
  BY <1>2, <1>8, OnlyOneChanges
<1>10. BlocksOf(t)' /\ ~Signaling(t) /\ ~Runs(t)' /\ ~Answers(t)'
  BY <1>2, <1>8, <1>9 DEF IInv, Blocks, BlocksOf, Signaling, Runs, Answers
<1>11. Owned'
  BY <1>2, <1>4, <1>6, <1>7, <1>8, <1>9, <1>10, DeleteOwned DEF IInv
<1> QED BY <1>2, <1>7, <1>8, <1>9, <1>10, <1>11, AlarmStep DEF IInv, Typed

LEMMA CancelReturnsKeeps ==
  ASSUME IInv, NEW t \in Threads, CancelReturns(t), UNCHANGED requestVars
  PROVE  IInv'
<1> DEFINE a == thread[t].alarm
           b == [alarm[a] EXCEPT !.calls = Append(@, "cancel"), !.deletes = @ + 1]
<1>1. thread \in [Threads -> ThreadType] /\ thread[t] \in ThreadType
  BY ThreadsTyped
<1>2. /\ thread[t].at = "cancel" /\ mutex = None /\ mutex' = None
      /\ thread' = [thread EXCEPT ![t] = IdleThread]
      /\ UNCHANGED <<now, outstanding, waiting, stray>>
  BY DEF CancelReturns, Outside
<1>3. Runs(t)
  BY <1>2 DEF Runs
<1>4. /\ a \in Alarms /\ Uses(t, a) /\ alarm[a] \in AlarmType
      /\ alarm[a].deletes = 0 /\ alarm[a].calls = <<>>
  BY <1>3, UsedAlarm
<1>5. alarm' = [alarm EXCEPT ![a] = b]
  <2>1. alarm' = [alarm EXCEPT ![a].calls = Append(@, "cancel"), ![a].deletes = @ + 1]
    BY DEF CancelReturns
  <2> QED BY <2>1, <1>4 DEF IInv, Typed
<1> HIDE DEF a
<1>6. /\ b \in AlarmType /\ b.deletes = alarm[a].deletes + 1 /\ b.kind = alarm[a].kind
      /\ b.calls # <<>> /\ Len(b.calls) <= 1
  BY <1>4, FunctionDeleted
<1> HIDE DEF b
<1>7. /\ alarm'[a] = b /\ \A c \in Alarms \ {a} : alarm'[c] = alarm[c]
      /\ alarm' \in [Alarms -> AlarmType]
  BY <1>4, <1>5, <1>6, OneAlarmChanges DEF IInv
<1>8. /\ IdleThread \in ThreadType /\ IdleThread.at = "idle"
      /\ IdleThread.todo = {} /\ IdleThread.blocked = None
      /\ IdleThread.then = "leave" /\ IdleThread.signaled = FALSE
  BY DEF IdleThread, ThreadType, Places
<1>9. /\ thread'[t] = IdleThread /\ \A u \in Threads \ {t} : thread'[u] = thread[u]
      /\ Others(t) /\ thread' \in [Threads -> ThreadType]
  BY <1>2, <1>8, OnlyOneChanges
<1>10. BlocksOf(t)' /\ ~Signaling(t) /\ ~Runs(t)' /\ ~Answers(t)'
  BY <1>2, <1>8, <1>9 DEF IInv, Blocks, BlocksOf, Signaling, Runs, Answers
<1>11. Owned'
  BY <1>2, <1>4, <1>6, <1>7, <1>8, <1>9, <1>10, DeleteOwned DEF IInv
<1> QED BY <1>2, <1>7, <1>8, <1>9, <1>10, <1>11, AlarmStep DEF IInv, Typed

LEMMA TimeoutReturnsKeeps ==
  ASSUME IInv, NEW t \in Threads, TimeoutReturns(t), UNCHANGED requestVars
  PROVE  IInv'
<1> DEFINE a == thread[t].alarm
           r == [thread[t] EXCEPT !.at = "run", !.alarm = None, !.saved = FALSE]
           b == [alarm[a] EXCEPT !.deletes = @ + 1]
<1>1. thread \in [Threads -> ThreadType] /\ thread[t] \in ThreadType
  BY ThreadsTyped
<1>2. /\ thread[t].at = "timeout" /\ (mutex = t \/ mutex = None) /\ mutex' = t
      /\ thread' = [thread EXCEPT ![t] = r]
      /\ UNCHANGED <<now, outstanding, waiting, stray>>
  BY <1>1 DEF TimeoutReturns, At
<1>3. /\ r \in ThreadType /\ r.at = "run"
      /\ r.todo = thread[t].todo /\ r.blocked = thread[t].blocked
      /\ r.then = thread[t].then /\ r.signaled = thread[t].signaled
  BY <1>1 DEF ThreadType, Places
<1> HIDE DEF r
<1>4. /\ thread'[t] = r /\ \A u \in Threads \ {t} : thread'[u] = thread[u]
      /\ Others(t) /\ thread' \in [Threads -> ThreadType]
  BY <1>2, <1>3, OnlyOneChanges
<1>5. BlocksOf(t)' /\ ~Signaling(t) /\ ~Runs(t)' /\ ~Answers(t)'
  BY <1>2, <1>3, <1>4 DEF IInv, Blocks, BlocksOf, Signaling, Runs, Answers
<1>6. alarm' \in [Alarms -> AlarmType] /\ Owned'
  <2>1. CASE thread[t].saved
    <3>1. alarm' = alarm
      BY <2>1 DEF TimeoutReturns
    <3> QED BY <1>2, <1>3, <1>4, <3>1, QuietOwned DEF IInv, Typed
  <2>2. CASE ~thread[t].saved
    <3>1. Answers(t)
      BY <1>2, <2>2 DEF Answers
    <3>2. /\ a \in Alarms /\ Uses(t, a) /\ alarm[a] \in AlarmType
          /\ alarm[a].deletes = 0 /\ alarm[a].calls # <<>> /\ Len(alarm[a].calls) <= 1
      BY <3>1, UsedAlarm
    <3>3. alarm' = [alarm EXCEPT ![a] = b]
      <4>1. alarm' = [alarm EXCEPT ![a].deletes = @ + 1]
        BY <2>2 DEF TimeoutReturns
      <4> QED BY <4>1, <3>2 DEF IInv, Typed
    <3> HIDE DEF a
    <3>4. /\ b \in AlarmType /\ b.deletes = alarm[a].deletes + 1
          /\ b.kind = alarm[a].kind /\ b.calls = alarm[a].calls
      BY <3>2, AnsweredDeleted
    <3> HIDE DEF b
    <3>5. /\ alarm'[a] = b /\ \A c \in Alarms \ {a} : alarm'[c] = alarm[c]
          /\ alarm' \in [Alarms -> AlarmType]
      BY <3>2, <3>3, <3>4, OneAlarmChanges DEF IInv
    <3> QED BY <1>2, <1>3, <1>4, <1>5, <3>2, <3>4, <3>5, DeleteOwned DEF IInv
  <2> QED BY <2>1, <2>2
<1> QED BY <1>2, <1>3, <1>4, <1>5, <1>6, AlarmStep DEF IInv, Typed

LEMMA SignaledReturnsKeeps ==
  ASSUME IInv, NEW t \in Threads, SignaledReturns(t), UNCHANGED requestVars
  PROVE  IInv'
<1> DEFINE a == thread[t].alarm
           r == [thread[t] EXCEPT !.at = "dispatch", !.alarm = None]
           b == [alarm[a] EXCEPT !.deletes = @ + 1]
<1>1. thread \in [Threads -> ThreadType] /\ thread[t] \in ThreadType
  BY ThreadsTyped
<1>2. /\ thread[t].at = "signaled" /\ (mutex = t \/ mutex = None) /\ mutex' = t
      /\ thread' = [thread EXCEPT ![t] = r]
      /\ UNCHANGED <<now, outstanding, waiting, stray>>
  BY <1>1 DEF SignaledReturns, At
<1>3. Answers(t)
  BY <1>2 DEF Answers
<1>4. /\ a \in Alarms /\ Uses(t, a) /\ alarm[a] \in AlarmType
      /\ alarm[a].deletes = 0 /\ alarm[a].calls # <<>> /\ Len(alarm[a].calls) <= 1
  BY <1>3, UsedAlarm
<1>5. alarm' = [alarm EXCEPT ![a] = b]
  <2>1. alarm' = [alarm EXCEPT ![a].deletes = @ + 1]
    BY DEF SignaledReturns
  <2> QED BY <2>1, <1>4 DEF IInv, Typed
<1> HIDE DEF a
<1>6. /\ b \in AlarmType /\ b.deletes = alarm[a].deletes + 1 /\ b.kind = alarm[a].kind
      /\ b.calls = alarm[a].calls
  BY <1>4, AnsweredDeleted
<1> HIDE DEF b
<1>7. /\ alarm'[a] = b /\ \A c \in Alarms \ {a} : alarm'[c] = alarm[c]
      /\ alarm' \in [Alarms -> AlarmType]
  BY <1>4, <1>5, <1>6, OneAlarmChanges DEF IInv
<1>8. /\ r \in ThreadType /\ r.at = "dispatch"
      /\ r.todo = thread[t].todo /\ r.blocked = thread[t].blocked
      /\ r.then = thread[t].then /\ r.signaled = thread[t].signaled
  BY <1>1 DEF ThreadType, Places
<1> HIDE DEF r
<1>9. /\ thread'[t] = r /\ \A u \in Threads \ {t} : thread'[u] = thread[u]
      /\ Others(t) /\ thread' \in [Threads -> ThreadType]
  BY <1>2, <1>8, OnlyOneChanges
<1>10. BlocksOf(t)' /\ Signaling(t)' /\ ~Runs(t)' /\ ~Answers(t)'
  BY <1>2, <1>8, <1>9 DEF IInv, Blocks, BlocksOf, Signaling, Runs, Answers
<1>11. Owned'
  BY <1>2, <1>4, <1>6, <1>7, <1>8, <1>9, <1>10, DeleteOwned DEF IInv
<1> QED BY <1>2, <1>7, <1>8, <1>9, <1>10, <1>11, AlarmStep DEF IInv, Typed

LEMMA DispatchNextKeeps ==
  ASSUME IInv, NEW t \in Threads, DispatchNext(t), UNCHANGED requestVars
  PROVE  IInv'
<1> DEFINE a == FirstOf(thread[t].todo)
<1>1. thread \in [Threads -> ThreadType] /\ thread[t] \in ThreadType
  BY ThreadsTyped
<1>2. /\ thread[t].at = "dispatch" /\ mutex = t /\ thread[t].todo # {}
      /\ outstanding' = Erased(outstanding, a)
      /\ UNCHANGED <<now, waiting, stray>>
  BY DEF DispatchNext, Inside
<1>3. a \in thread[t].todo /\ a \in Alarms /\ alarm[a] \in AlarmType
  <2>1. thread[t].todo \in SUBSET Alarms
    BY <1>1 DEF ThreadType
  <2> QED BY <1>2, <2>1, FirstIsOne DEF IInv, Typed
<1>4. \/ /\ a \in Out /\ alarm[a].kind = "callback"
         /\ alarm' = [alarm EXCEPT ![a].calls = Append(@, "run")]
         /\ thread' = [thread EXCEPT ![t].at = "signaled", ![t].alarm = a,
                                     ![t].todo = @ \ {a}]
         /\ mutex' = t \/ mutex' = None
      \/ /\ ~(a \in Out /\ alarm[a].kind = "callback")
         /\ alarm' = [alarm EXCEPT ![a].deletes = @ + 1]
         /\ thread' = [thread EXCEPT ![t].todo = @ \ {a}]
         /\ mutex' = mutex
  BY DEF DispatchNext, DropsOrKeeps, Out
<1> HIDE DEF a
<1>5. /\ Out' = Out \ {a}
      /\ outstanding' \in Seq(Alarms) /\ IsInjective(outstanding')
  BY <1>2, Removed DEF IInv, Typed, Out
<1>6. /\ Live(a) /\ alarm[a].in_wait_dispatch /\ a \notin waiting
      /\ \A u \in Threads \ {t} : a \notin thread[u].todo
  BY <1>3 DEF IInv, Owned, TodoLive, WaitingLive
<1>7. thread[t].blocked = None /\ thread[t].then = "leave"
  BY <1>2 DEF IInv, Blocks
<1>8. CASE /\ a \in Out /\ alarm[a].kind = "callback"
           /\ alarm' = [alarm EXCEPT ![a].calls = Append(@, "run")]
           /\ thread' = [thread EXCEPT ![t].at = "signaled", ![t].alarm = a,
                                       ![t].todo = @ \ {a}]
           /\ mutex' = t \/ mutex' = None
  <2> DEFINE r == [thread[t] EXCEPT !.at = "signaled", !.alarm = a, !.todo = @ \ {a}]
             b == [alarm[a] EXCEPT !.calls = Append(@, "run")]
  <2>1. alarm' = [alarm EXCEPT ![a] = b] /\ thread' = [thread EXCEPT ![t] = r]
    BY <1>1, <1>3, <1>8 DEF IInv, Typed
  <2>2. b \in AlarmType
    <3>1. Append(alarm[a].calls, "run") \in Seq({"run", "cancel"})
      BY <1>3 DEF AlarmType
    <3> QED BY <1>3, <3>1 DEF AlarmType
  <2>3. /\ alarm'[a] = b /\ \A c \in Alarms \ {a} : alarm'[c] = alarm[c]
        /\ alarm' \in [Alarms -> AlarmType]
    BY <1>3, <2>1, <2>2, OneAlarmChanges DEF IInv
  <2>4. /\ r \in ThreadType /\ r.at = "signaled" /\ r.alarm = a
        /\ r.todo = thread[t].todo \ {a} /\ r.blocked = None /\ r.then = "leave"
    BY <1>1, <1>3, <1>7 DEF ThreadType, Places
  <2> HIDE DEF r
  <2>5. /\ thread'[t] = r /\ \A u \in Threads \ {t} : thread'[u] = thread[u]
        /\ Others(t) /\ thread' \in [Threads -> ThreadType]
    BY <2>1, <2>4, OnlyOneChanges
  <2>6. BlocksOf(t)' /\ Signaling(t)' /\ ~Runs(t)'
    BY <2>4, <2>5 DEF BlocksOf, Signaling, Runs
  <2>7. \A u \in Threads : a \notin thread'[u].todo
    BY <1>6, <2>4, <2>5
  <2>8. waiting' = waiting \ {a}
    BY <1>2, <1>6
  <2>9. Owned'
    BY <1>5, <1>8, <2>3, <2>4, <2>5, <2>6, <2>7, <2>8, AnswerOwned DEF IInv
  <2> QED BY <1>2, <1>5, <1>8, <2>3, <2>4, <2>5, <2>6, <2>9, AlarmStep DEF IInv, Typed
<1>9. CASE /\ ~(a \in Out /\ alarm[a].kind = "callback")
           /\ alarm' = [alarm EXCEPT ![a].deletes = @ + 1]
           /\ thread' = [thread EXCEPT ![t].todo = @ \ {a}]
           /\ mutex' = mutex
  <2> DEFINE r == [thread[t] EXCEPT !.todo = @ \ {a}]
             b == [alarm[a] EXCEPT !.deletes = @ + 1]
  <2>1. alarm' = [alarm EXCEPT ![a] = b] /\ thread' = [thread EXCEPT ![t] = r]
    BY <1>1, <1>3, <1>9 DEF IInv, Typed
  <2>2. /\ b \in AlarmType /\ b.deletes = alarm[a].deletes + 1
        /\ b.kind = alarm[a].kind /\ b.calls = alarm[a].calls
    BY <1>3, <1>6, AnsweredDeleted DEF Live
  <2> HIDE DEF b
  <2>3. /\ alarm'[a] = b /\ \A c \in Alarms \ {a} : alarm'[c] = alarm[c]
        /\ alarm' \in [Alarms -> AlarmType]
    BY <1>3, <2>1, <2>2, OneAlarmChanges DEF IInv
  <2>4. /\ r \in ThreadType /\ r.at = "dispatch"
        /\ r.todo = thread[t].todo \ {a} /\ r.blocked = None /\ r.then = "leave"
    BY <1>1, <1>2, <1>3, <1>7 DEF ThreadType, Places
  <2> HIDE DEF r
  <2>5. /\ thread'[t] = r /\ \A u \in Threads \ {t} : thread'[u] = thread[u]
        /\ Others(t) /\ thread' \in [Threads -> ThreadType]
    BY <2>1, <2>4, OnlyOneChanges
  <2>6. BlocksOf(t)' /\ Signaling(t)' /\ ~Runs(t)' /\ ~Answers(t)'
    BY <2>4, <2>5 DEF BlocksOf, Signaling, Runs, Answers
  <2>7. Owned'
    BY <1>2, <1>3, <1>5, <1>9, <2>2, <2>3, <2>4, <2>5, <2>6, DispatchOwned DEF IInv
  <2> QED BY <1>2, <1>5, <1>9, <2>3, <2>4, <2>5, <2>6, <2>7, AlarmStep DEF IInv, Typed
<1> QED BY <1>4, <1>8, <1>9

-----------------------------------------------------------------------------
(* New alarms, and Signal.                                                 *)

LEMMA Inserting ==
  ASSUME IInv, NEW a \in Alarms, ~Live(a),
         NEW kind \in {"function", "callback", "block"},
         NEW w \in Nat, Insert(a, kind, w)
  PROVE  /\ alarm' \in [Alarms -> AlarmType] /\ alarm'[a].kind = kind
         /\ alarm'[a].deletes = 0 /\ alarm'[a].calls = <<>>
         /\ ~alarm'[a].in_wait_dispatch
         /\ \A c \in Alarms \ {a} : alarm'[c] = alarm[c]
         /\ outstanding' \in Seq(Alarms) /\ IsInjective(outstanding')
         /\ Out' = Out \cup {a}
<1> DEFINE b == [FreshAlarm EXCEPT !.kind = kind, !.wakeup = w]
<1>1. alarm' = [alarm EXCEPT ![a] = b]
  BY DEF Insert
<1>2. /\ b \in AlarmType /\ b.kind = kind /\ b.deletes = 0 /\ b.calls = <<>>
      /\ ~b.in_wait_dispatch
  <2>1. <<>> \in Seq({"run", "cancel"})
    OBVIOUS
  <2>2. /\ FreshAlarm \in AlarmType /\ FreshAlarm.deletes = 0
        /\ FreshAlarm.calls = <<>> /\ FreshAlarm.in_wait_dispatch = FALSE
    BY <2>1 DEF FreshAlarm, AlarmType
  <2> QED BY <2>2 DEF AlarmType
<1> HIDE DEF b
<1>3. /\ alarm'[a] = b /\ \A c \in Alarms \ {a} : alarm'[c] = alarm[c]
      /\ alarm' \in [Alarms -> AlarmType]
  BY <1>1, <1>2, OneAlarmChanges DEF IInv
<1>4. Earlier(w) \in 0..Len(outstanding)
  <2> DEFINE S == {i \in DOMAIN outstanding : alarm[outstanding[i]].wakeup <= w}
  <2>1. Len(outstanding) \in Nat /\ DOMAIN outstanding = 1..Len(outstanding)
    BY LenProperties DEF IInv, Typed
  <2>2. IsFiniteSet(1..Len(outstanding))
          /\ Cardinality(1..Len(outstanding)) = Len(outstanding)
    <3>1. 1 \in Int /\ Len(outstanding) \in Int
      BY <2>1
    <3>2. /\ IsFiniteSet(1..Len(outstanding))
          /\ Cardinality(1..Len(outstanding)) =
               IF 1 > Len(outstanding) THEN 0 ELSE Len(outstanding) - 1 + 1
      BY <3>1, FS_Interval
    <3> QED BY <2>1, <3>2
  <2>3. S \subseteq 1..Len(outstanding)
    BY <2>1
  <2> HIDE DEF S
  <2>4. IsFiniteSet(S) /\ Cardinality(S) <= Cardinality(1..Len(outstanding))
    BY <2>2, <2>3, FS_Subset
  <2>5. Cardinality(S) \in Nat
    BY <2>4, FS_CardinalityType
  <2> QED BY <2>1, <2>2, <2>4, <2>5 DEF Earlier, S
<1>5. a \notin Out
  BY DEF IInv, Owned, OutLive
<1>6. outstanding' = InsertAt(outstanding, Earlier(w) + 1, a)
  BY DEF Insert
<1>7. Earlier(w) + 1 \in 1..(Len(outstanding) + 1) /\ Len(outstanding) \in Nat
  BY <1>4, LenProperties DEF IInv, Typed
<1> HIDE DEF Earlier
<1>8. /\ outstanding' \in Seq(Alarms) /\ IsInjective(outstanding')
      /\ Out' = Out \cup {a}
  BY <1>5, <1>6, <1>7, InsertedOnce DEF IInv, Typed, Out
<1> QED BY <1>2, <1>3, <1>8

LEMMA Deadline ==
  ASSUME IInv, NEW d, d \in Delays \/ d = FetchTimeout
  PROVE  now + d \in Nat
<1>1. d \in Nat
  BY TimesAssumption, WaitAssumption
<1>2. now \in Nat
  BY TimesAssumption DEF IInv, Typed
<1> QED BY <1>1, <1>2

LEMMA UserAlarm ==
  ASSUME IInv, NEW t \in Threads, NEW a \in Alarms, NEW d \in Delays,
         NEW kind \in {"function", "callback"},
         Unused(a), Enters(t, "idle"), Insert(a, kind, now + d),
         thread' = Inserted([thread EXCEPT ![t].at = "run", ![t].then = "leave"],
                            now + d),
         waiting' = IF kind = "function" THEN waiting ELSE waiting \cup {a},
         UNCHANGED <<now, stray>>, UNCHANGED requestVars
  PROVE  IInv'
<1> DEFINE th == [thread EXCEPT ![t].at = "run", ![t].then = "leave"]
<1>1. thread \in [Threads -> ThreadType] /\ thread[t] \in ThreadType
  BY ThreadsTyped
<1>2. /\ thread[t].at = "idle" /\ mutex = None /\ mutex' = t /\ ~Live(a)
      /\ thread[t].blocked = None
  BY DEF Enters, Unused, Live, IInv, Blocks
<1>3. /\ alarm' \in [Alarms -> AlarmType] /\ alarm'[a].kind = kind
      /\ alarm'[a].deletes = 0 /\ alarm'[a].calls = <<>>
      /\ ~alarm'[a].in_wait_dispatch
      /\ \A c \in Alarms \ {a} : alarm'[c] = alarm[c]
      /\ outstanding' \in Seq(Alarms) /\ IsInjective(outstanding')
      /\ Out' = Out \cup {a}
  BY <1>2, Deadline, Inserting
<1>4. /\ th \in [Threads -> ThreadType] /\ th[t].at = "run" /\ th[t].then = "leave"
      /\ th[t].todo = thread[t].todo /\ th[t].blocked = None
      /\ \A u \in Threads \ {t} : th[u] = thread[u]
  BY <1>1, <1>2 DEF ThreadType, Places
<1> HIDE DEF th
<1>5. MoreWoken(th, thread')
  BY <1>4, InsertedWakes DEF th
<1>6. /\ Others(t) /\ thread' \in [Threads -> ThreadType]
      /\ \A u \in Threads \ {t} : thread'[u].signaled = thread[u].signaled
      /\ thread'[t].at = "run" /\ thread'[t].then = "leave"
      /\ thread'[t].todo = thread[t].todo /\ thread'[t].blocked = None
  <2>1. Others(t)
    <3>1. ASSUME NEW u \in Threads \ {t}
          PROVE  /\ thread'[u].at = thread[u].at /\ thread'[u].alarm = thread[u].alarm
                 /\ thread'[u].saved = thread[u].saved
                      /\ thread'[u].todo = thread[u].todo
                 /\ thread'[u].then = thread[u].then
                 /\ thread'[u].blocked = thread[u].blocked
                 /\ thread'[u].signaled = thread[u].signaled
                 /\ thread[u].woken => thread'[u].woken
      <4>1. th[u] = thread[u]
        BY <1>4
      <4> QED BY <1>5, <4>1 DEF MoreWoken
    <3> QED BY <3>1 DEF Others
  <2>2. \A u \in Threads \ {t} : thread'[u].signaled = thread[u].signaled
    BY <1>4, <1>5 DEF MoreWoken
  <2> QED BY <1>4, <1>5, <2>1, <2>2 DEF MoreWoken
<1>7. BlocksOf(t)' /\ ~Signaling(t) /\ ~Runs(t)' /\ ~Answers(t)'
  BY <1>2, <1>6 DEF BlocksOf, Signaling, Runs, Answers
<1>8. Owned'
  BY <1>2, <1>3, <1>6, <1>7, InsertOwned DEF IInv
<1>9. waiting' \subseteq Alarms
  BY DEF IInv, Typed
<1> QED BY <1>2, <1>3, <1>6, <1>7, <1>8, <1>9, AlarmStep DEF IInv, Typed

LEMMA UserStepKeeps ==
  ASSUME IInv, UserStep, UNCHANGED requestVars
  PROVE  IInv'
<1>1. User \in Threads
  BY RolesAssumption
<1>2. ASSUME NEW a \in Alarms, NEW d \in Delays, AddAlarmAtUs(User, a, d)
      PROVE  IInv'
  BY <1>1, <1>2, UserAlarm DEF AddAlarmAtUs
<1>3. ASSUME NEW a \in Alarms, NEW d \in Delays, TimedWaitMs(User, a, d)
      PROVE  IInv'
  BY <1>1, <1>3, UserAlarm DEF TimedWaitMs
<1>4. ASSUME NEW a \in Alarms, CancelAlarm(User, a)
      PROVE  IInv'
  BY <1>1, <1>4, CancelAlarmStep
<1> QED BY <1>2, <1>3, <1>4, ProcessKeeps DEF UserStep

LEMMA WaitForTasksKeeps ==
  ASSUME IInv, WaitForTasks
  PROVE  IInv'
<1> DEFINE a == CHOOSE x \in FreeWaitAlarms : TRUE
           th == [thread EXCEPT ![R].at = "run", ![R].then = "block",
                    ![R].blocked = a, ![R].timed_out = FALSE, ![R].signaled = FALSE]
<1>1. thread \in [Threads -> ThreadType] /\ thread[R] \in ThreadType /\ R \in Threads
  BY RIsThread, ThreadsTyped
<1>2. /\ thread[R].at = "tasks" /\ mutex = R /\ mutex' = mutex /\ UNCHANGED requestVars
      /\ ~done /\ work_queue = <<>>
      /\ Insert(a, "block", now + FetchTimeout) /\ waiting' = waiting \cup {a}
      /\ thread' = Inserted(th, now + FetchTimeout) /\ UNCHANGED <<now, stray>>
  BY DEF WaitForTasks, BlockingTimedWaitUs, Inside
<1>3. a \in FreeWaitAlarms
  BY DEF WaitForTasks
<1> HIDE DEF a
<1>4. a \in Alarms /\ ~Live(a) /\ a # None
  BY <1>3, WaitAssumption, ThreadsAssumption DEF FreeWaitAlarms, Unused, Live
<1>5. wait = "in" /\ ~forwarding /\ forwarded = <<>>
  BY <1>2, AtTasks
<1>6. /\ alarm' \in [Alarms -> AlarmType] /\ alarm'[a].kind = "block"
      /\ alarm'[a].deletes = 0 /\ alarm'[a].calls = <<>>
      /\ ~alarm'[a].in_wait_dispatch
      /\ \A c \in Alarms \ {a} : alarm'[c] = alarm[c]
      /\ outstanding' \in Seq(Alarms) /\ IsInjective(outstanding')
      /\ Out' = Out \cup {a}
  BY <1>2, <1>4, Deadline, Inserting
<1>7. /\ th \in [Threads -> ThreadType] /\ th[R].at = "run" /\ th[R].then = "block"
      /\ th[R].todo = thread[R].todo /\ th[R].blocked = a
      /\ \A u \in Threads \ {R} : th[u] = thread[u]
  BY <1>1, <1>4 DEF ThreadType, Places
<1> HIDE DEF th
<1>8. MoreWoken(th, thread')
  BY <1>2, <1>7, InsertedWakes
<1>9. /\ Others(R) /\ thread' \in [Threads -> ThreadType]
      /\ thread'[R].at = "run" /\ thread'[R].then = "block"
      /\ thread'[R].todo = thread[R].todo /\ thread'[R].blocked = a
  BY <1>1, <1>7, <1>8 DEF Others, MoreWoken
<1>10. BlocksOf(R)' /\ ~Runs(R)' /\ ~Answers(R)'
  BY <1>4, <1>9 DEF BlocksOf, Runs, Answers
<1>11. Owned'
  BY <1>1, <1>2, <1>4, <1>6, <1>9, <1>10, InsertOwned DEF IInv
<1>12. Holding' /\ Blocks'
  BY <1>1, <1>2, <1>9, <1>10, HoldingKept, BlocksKept DEF IInv
<1>13. RequestTyped' /\ AddedInOrder' /\ Pending' = Pending
  BY <1>2, RequestVarsKept
<1>14. Typed'
  BY <1>1, <1>2, <1>4, <1>6, <1>9, <1>13 DEF IInv, Typed, RequestTyped
<1>15. Request'
  BY <1>2, <1>5, <1>9, <1>13 DEF Request, Pending, requestVars
<1> QED BY <1>11, <1>12, <1>13, <1>14, <1>15 DEF IInv

\* Signal tells every thread that waits, and so the request thread, whatever there
\* is for it now.
LEMMA SignalKeeps ==
  ASSUME IInv, NEW t \in Threads, Signal(t), RequestTyped', AddedInOrder',
         UNCHANGED <<wait, forwarding, forwarded>>
  PROVE  IInv'
<1>1. thread \in [Threads -> ThreadType] /\ thread[t] \in ThreadType /\ R \in Threads
  BY RIsThread, ThreadsTyped
<1>2. /\ thread[t].at = "idle" /\ mutex = None /\ mutex' = t
      /\ alarm' = Taken /\ waiting' = {} /\ UNCHANGED <<now, outstanding, stray>>
      /\ thread' = [u \in Threads |->
           IF u = t THEN [thread[u] EXCEPT !.at = "dispatch", !.todo = waiting,
                                           !.then = "leave"]
           ELSE [thread[u] EXCEPT !.signaled = @ \/ thread[u].blocked # None]]
  BY DEF Signal, DoSignal, Enters
<1>3. waiting \subseteq Alarms
  BY DEF IInv, Typed
<1>4. ASSUME NEW u \in Threads \ {t}
      PROVE  /\ thread'[u] \in ThreadType
             /\ thread'[u].at = thread[u].at /\ thread'[u].alarm = thread[u].alarm
             /\ thread'[u].saved = thread[u].saved /\ thread'[u].todo = thread[u].todo
             /\ thread'[u].then = thread[u].then
                  /\ thread'[u].blocked = thread[u].blocked
             /\ thread[u].signaled => thread'[u].signaled
             /\ thread[u].blocked # None => thread'[u].signaled
             /\ thread[u].woken => thread'[u].woken
  <2>1. thread[u] \in ThreadType
    BY <1>1
  <2>2. thread'[u] = [thread[u] EXCEPT !.signaled = @ \/ thread[u].blocked # None]
    BY <1>2
  <2> QED BY <2>1, <2>2 DEF ThreadType
<1>5. /\ thread'[t] \in ThreadType /\ thread'[t].at = "dispatch"
      /\ thread'[t].todo = waiting /\ thread'[t].then = "leave"
      /\ thread'[t].blocked = None
  <2>1. thread[t].blocked = None
    BY <1>2 DEF IInv, Blocks
  <2>2. thread'[t] = [thread[t] EXCEPT !.at = "dispatch", !.todo = waiting,
                                       !.then = "leave"]
    BY <1>2
  <2> DEFINE W == waiting
             r == [thread[t] EXCEPT !.at = "dispatch", !.todo = W, !.then = "leave"]
  <2>3. W \in SUBSET Alarms /\ thread'[t] = r
    BY <1>3, <2>2
  <2> HIDE DEF W
  <2>4. /\ r \in ThreadType /\ r.at = "dispatch" /\ r.todo = W /\ r.then = "leave"
        /\ r.blocked = None
    BY <1>1, <2>1, <2>3 DEF ThreadType, Places
  <2> HIDE DEF r
  <2> QED BY <2>3, <2>4 DEF W
<1>6. Others(t) /\ thread' \in [Threads -> ThreadType]
  <2>1. Others(t)
    BY <1>4 DEF Others
  <2>2. \A u \in Threads : thread'[u] \in ThreadType
    BY <1>4, <1>5
  <2> QED BY <1>2, <2>1, <2>2
<1>7. BlocksOf(t)' /\ Signaling(t)' /\ ~Runs(t)' /\ ~Answers(t)'
  BY <1>5 DEF BlocksOf, Signaling, Runs, Answers
<1>8. Owned'
  BY <1>2, <1>5, <1>6, <1>7, SignalOwned DEF IInv
<1>9. alarm' \in [Alarms -> AlarmType]
  <2>1. \A c \in Alarms : Taken[c] \in AlarmType
    BY DEF Taken, IInv, Typed, AlarmType
  <2> QED BY <1>2, <2>1 DEF Taken
<1>10. Holding' /\ Blocks'
  BY <1>2, <1>6, <1>7, HoldingKept, BlocksKept DEF IInv
<1>11. Typed'
  BY <1>2, <1>6, <1>9 DEF IInv, Typed, RequestTyped
<1>12. Request'
  <2>1. thread'[R].blocked # None => thread'[R].signaled
    BY <1>1, <1>4, <1>5
  <2>2. CASE t = R
    BY <1>5, <1>6, <2>1, <2>2, RequestKept DEF IInv, Waits
  <2>3. CASE t # R
    BY <1>6, <1>7, <2>1, <2>3, RequestKept DEF IInv
  <2> QED BY <2>2, <2>3
<1> QED BY <1>8, <1>10, <1>11, <1>12 DEF IInv

LEMMA AddKeeps ==
  ASSUME IInv, NEW f \in Functions, Add(f)
  PROVE  IInv'
<1>1. /\ Worker \in Threads /\ added \in Seq(Functions) /\ ran \in Seq(Functions)
      /\ work_queue \in Seq(Functions) /\ forwarded \in Seq(Functions)
      /\ added = (ran \o work_queue) \o forwarded
      /\ ran \o work_queue \in Seq(Functions)
  BY RolesAssumption, ConcatProperties DEF IInv, Typed, AddedInOrder
<1>2. added' = Append(added, f) /\ UNCHANGED <<forwarding, done, ran, wait>>
  BY DEF Add
<1>5. Appends(ran \o work_queue, forwarded, f) /\ Appends(ran, work_queue, f)
  BY <1>1, AppendMoved
<1>3. CASE forwarding
  <2>1. forwarded' = Append(forwarded, f) /\ UNCHANGED <<work_queue, schedulerVars>>
    BY <1>3 DEF Add
  <2>2. AddedInOrder'
    BY <1>1, <1>2, <1>5, <2>1 DEF AddedInOrder, Appends
  <2>3. Typed'
    BY <1>1, <1>2, <2>1 DEF IInv, Typed, schedulerVars
  <2>4. Owned'
    BY <2>1, OwnedKept DEF IInv, Runs, Answers, schedulerVars
  <2>5. Holding' /\ Blocks'
    BY <2>1 DEF IInv, Holding, Blocks, schedulerVars
  <2>6. Request'
    BY <1>2, <1>3, <2>1 DEF IInv, Request, Pending, Signaling, schedulerVars
  <2> QED BY <2>2, <2>3, <2>4, <2>5, <2>6 DEF IInv
<1>4. CASE ~forwarding
  <2>1. /\ Signal(Worker) /\ work_queue' = Append(work_queue, f)
        /\ forwarded' = forwarded /\ forwarded = <<>>
    BY <1>4 DEF Add, IInv, Request
  <2>2. Append(work_queue, f) \in Seq(Functions) /\ Append(added, f) \in Seq(Functions)
    BY <1>1
  <2>3. AddedInOrder'
    <3>1. added = ran \o work_queue
      BY <1>1, <2>1, ConcatEmptySeq
    <3>2. Append(added, f) = ran \o Append(work_queue, f)
      BY <1>5, <3>1 DEF Appends
    <3>3. (ran \o Append(work_queue, f)) \o <<>> = ran \o Append(work_queue, f)
      BY <1>1, <2>2, ConcatProperties, ConcatEmptySeq
    <3> QED BY <1>2, <2>1, <3>2, <3>3 DEF AddedInOrder
  <2>4. RequestTyped'
    BY <1>2, <2>1, <2>2 DEF IInv, Typed, RequestTyped
  <2> QED BY <1>1, <1>2, <2>1, <2>3, <2>4, SignalKeeps
<1> QED BY <1>3, <1>4

LEMMA HandleDoneKeeps ==
  ASSUME IInv, HandleDone
  PROVE  IInv'
<1>1. Worker \in Threads
  BY RolesAssumption
<1>2. /\ done' = TRUE /\ Signal(Worker)
      /\ UNCHANGED <<work_queue, forwarded, forwarding, added, ran, wait>>
  BY DEF HandleDone
<1>3. RequestTyped' /\ AddedInOrder'
  BY <1>2 DEF IInv, Typed, RequestTyped, AddedInOrder
<1> QED BY <1>1, <1>2, <1>3, SignalKeeps

-----------------------------------------------------------------------------
(* The theorems.                                                           *)

LEMMA InitIInv == Init => IInv
<1> SUFFICES ASSUME Init PROVE IInv
  OBVIOUS
<1>1. /\ now = 0 /\ mutex = None /\ alarm = [a \in Alarms |-> FreshAlarm]
      /\ outstanding = <<>> /\ waiting = {} /\ stray = {}
      /\ thread = [t \in Threads |-> IdleThread]
      /\ work_queue = <<>> /\ forwarded = <<>> /\ forwarding = FALSE
      /\ done = FALSE /\ added = <<>> /\ ran = <<>> /\ wait = "no"
  BY DEF Init, SchedulerInit
<1>2. /\ IdleThread \in ThreadType /\ IdleThread.at = "idle" /\ IdleThread.todo = {}
      /\ IdleThread.blocked = None /\ IdleThread.then = "leave" /\ R \in Threads
  BY RIsThread DEF IdleThread, ThreadType, Places
<1>3. /\ FreshAlarm \in AlarmType /\ FreshAlarm.calls = <<>> /\ Len(<<>>) = 0
      /\ FreshAlarm.deletes = 0
  <2>1. <<>> \in Seq({"run", "cancel"}) /\ Len(<<>>) = 0
    OBVIOUS
  <2> QED BY <2>1 DEF FreshAlarm, AlarmType
<1>4. \A t \in Threads : thread[t] = IdleThread
  BY <1>1
<1>5. Out = {} /\ IsInjective(outstanding) /\ outstanding \in Seq(Alarms)
  BY <1>1 DEF Out, Range, IsInjective
<1>6. Typed
  <2>1. 0 \in 0..MaxTime
    BY TimesAssumption
  <2>2. <<>> \in Seq(Functions)
    OBVIOUS
  <2> QED BY <1>1, <1>2, <1>3, <1>5, <2>1, <2>2 DEF Typed
<1>7. Holding /\ Blocks
  BY <1>2, <1>4 DEF Holding, Blocks
<1>8. Owned
  <2>1. \A a \in Alarms : alarm[a] = FreshAlarm
    BY <1>1
  <2>2. \A t \in Threads : ~Runs(t) /\ ~Answers(t)
    BY <1>2, <1>4 DEF Runs, Answers
  <2>3. OutLive /\ WaitingLive /\ TodoLive
    BY <1>1, <1>2, <1>4, <1>5 DEF OutLive, WaitingLive, TodoLive
  <2>4. UsesLive /\ UsesSome
    BY <2>2 DEF UsesLive, UsesSome, Uses
  <2>5. Deleted
    BY <1>3, <2>1 DEF Deleted
  <2> QED BY <2>3, <2>4, <2>5 DEF Owned
<1>9. AddedInOrder
  BY <1>1, ConcatEmptySeq DEF AddedInOrder
<1>10. Request
  BY <1>1, <1>2, <1>4 DEF Request
<1> QED BY <1>6, <1>7, <1>8, <1>9, <1>10 DEF IInv

LEMMA GoesKeeps ==
  ASSUME IInv, NEW t \in Threads, Goes(t), UNCHANGED requestVars
  PROVE  IInv'
BY RunFunctionKeeps, RunBlockKeeps, RunCallbackKeeps, RunAlarmsReturnsKeeps,
   WakesKeeps, FunctionReturnsKeeps, CancelReturnsKeeps, TimeoutReturnsKeeps,
   DispatchNextKeeps, SignaledReturnsKeeps, DispatchDoneKeeps DEF Goes

LEMMA NextKeeps == IInv /\ [Next]_vars => IInv'
<1> SUFFICES ASSUME IInv, [Next]_vars PROVE IInv'
  OBVIOUS
<1>1. ASSUME NEW f \in Functions, Add(f) PROVE IInv'
  BY <1>1, AddKeeps
<1>2. CASE HandleDone
  BY <1>2, HandleDoneKeeps
<1>3. CASE StartWait
  BY <1>3, StartWaitKeeps
<1>4. CASE RequestStep
  BY <1>4, RunTaskKeeps, TaskReturnsKeeps, WaitReturnsKeeps, SwitchKeeps,
     WaitForTasksKeeps DEF RequestStep
<1>5. CASE UserStep /\ UNCHANGED requestVars
  BY <1>5, UserStepKeeps
<1>6. ASSUME NEW t \in Threads, Goes(t), UNCHANGED requestVars PROVE IInv'
  BY <1>6, GoesKeeps
<1>7. CASE Tick /\ UNCHANGED requestVars
  BY <1>7, TickKeeps
<1>8. CASE UNCHANGED vars
  <2>1. UNCHANGED schedulerVars /\ UNCHANGED requestVars
    BY <1>8 DEF vars
  <2>2. Owned'
    BY <2>1, OwnedKept DEF IInv, Runs, Answers, schedulerVars
  <2>3. Typed' /\ Holding' /\ Blocks' /\ AddedInOrder' /\ Request'
    BY <2>1 DEF IInv, Typed, Holding, Blocks, AddedInOrder, Request, Pending,
       Signaling, schedulerVars, requestVars
  <2> QED BY <2>2, <2>3 DEF IInv
<1> QED BY <1>1, <1>2, <1>3, <1>4, <1>5, <1>6, <1>7, <1>8 DEF Next

\* All the parts hold always.
THEOREM Invariant == Spec => []IInv
<1> QED BY InitIInv, NextKeeps, PTL DEF Spec

\* An alarm is deleted once, and never while outstanding_alarms_, waiting_alarms_, a
\* Signal or a callback still has it; whoever is inside the scheduler holds its
\* mutex.  Signal, timeouts and cancellations meet in any order.
THEOREM AlarmsAlwaysConsistent == Spec => []AlarmsConsistent
<1>1. IInv => AlarmsConsistent
  <2> SUFFICES ASSUME IInv PROVE AlarmsConsistent
    OBVIOUS
  <2>1. SchedulerTypeOK
    BY DEF IInv, Typed, Holding, SchedulerTypeOK, ThreadType, Places
  <2>2. ASSUME NEW t \in Threads, thread[t].at \in {"function", "cancel", "signaled"}
        PROVE  Live(thread[t].alarm)
    <3>1. Runs(t) \/ Answers(t)
      BY <2>2 DEF Runs, Answers
    <3>2. thread[t].alarm \in Alarms /\ Uses(t, thread[t].alarm)
      BY <3>1 DEF IInv, Owned, UsesSome, Uses
    <3> QED BY <3>2 DEF IInv, Owned, UsesLive
  <2>3. \A a \in Range(outstanding) \cup waiting : Live(a)
    BY DEF IInv, Owned, OutLive, WaitingLive, Out
  <2>4. AlarmsLive
    BY <2>2, <2>3 DEF AlarmsLive, IInv, Owned, Deleted, TodoLive
  <2> QED BY <2>1, <2>4 DEF AlarmsConsistent
<1> QED BY <1>1, Invariant, PTL

\* A timeout, a Signal and a cancellation do not answer one alarm twice, and none
\* is deleted unanswered.
THEOREM AlarmsAnsweredOnce == Spec => []AnsweredOnce
<1>1. IInv => AnsweredOnce
  BY DEF IInv, Owned, Deleted, AnsweredOnce
<1> QED BY <1>1, Invariant, PTL

\* The functions added to a scheduler sequence are run by the request thread or
\* handed to the pool, once and in order, across ForwardToSequence.
THEOREM FunctionsKeepOrder == Spec => []AddedInOrder
<1>1. IInv => AddedInOrder
  BY DEF IInv
<1> QED BY <1>1, Invariant, PTL

\* The request thread never sleeps past a function or the end of its fetch
\* without a wakeup that has been given or is coming.
THEOREM WakeupsReachTheRequest == Spec => []WakeupNotLost
<1>1. IInv => WakeupNotLost
  BY DEF IInv, Request, Pending, WakeupNotLost
<1> QED BY <1>1, Invariant, PTL
=============================================================================
