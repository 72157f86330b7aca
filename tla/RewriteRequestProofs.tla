------------------------ MODULE RewriteRequestProofs ------------------------
(***************************************************************************)
(* One use of a RewriteDriver, for a page of any flush windows, contexts,  *)
(* chains and keys or for a fetch, in every interleaving of the HTML       *)
(* thread, the rewrite thread, what answers them, alarms, a purge and the  *)
(* server's shutdown: no wakeup is lost, the counts match the contexts,    *)
(* contexts work and render in turn, a fetch is answered once, and the     *)
(* server gets the driver back once, when nothing is left.                 *)
(*                                                                         *)
(* The inductive invariant IInv says                                       *)
(*  - who holds each reference (Counted), so that the last reference goes  *)
(*    once, with one thread on its way to release the driver (Released);   *)
(*  - who waits and has to be told (WaitMatches), and that what a flush    *)
(*    past its deadline leaves behind is slow (LeftBehind);                *)
(*  - where a context is, by its phase (Placed, Windows, Started), which   *)
(*    one works for a key and which repeat it (Works, Repeating), and that *)
(*    a task finds its context where it expects it (HtmlTasks);            *)
(*  - that slowness is passed on to what is held up (Slowness);            *)
(*  - how far the fetch and its alarm are, and that each has at most one   *)
(*    task (FetchStages, FetchTasks).                                      *)
(***************************************************************************)
EXTENDS RewriteRequest, FiniteSetTheorems, SequenceTheorems, TLAPS

HtmlOps == {"Start", "OutputCacheDone", "ResourceRevalidateDone", "LockFailed", "FetchInputs",
            "ResourceFetchDone", "RewriteDoneImpl", "DeleteRewriteContext"}
AtWork == {"lookup", "revalidating", "locking", "fetching", "rewriting", "queued"}
Phases == {"new", "created", "repeated", "done", "deleted"} \cup AtWork

-----------------------------------------------------------------------------
(* The driver.                                                             *)

DriverTypes ==
  /\ refs \in [Categories -> Nat]
  /\ possibly_quick_rewrites \in Nat
  /\ waiting \in {"no", "completion", "render", "shutdown"}
  /\ deadline_reached \in BOOLEAN /\ deadline \in {"none", "ahead", "past"}
  /\ done \in {"none", "html", "shutdown"}
  /\ fully_rewrite_on_flush \in BOOLEAN
  /\ release_driver \in BOOLEAN /\ releasing \in Nat /\ recycled \in Nat
  /\ shutdown \in {"no", "cleaning", "waiting", "over"}
  /\ purge \in {"no", "issued", "over"} /\ num_detached \in BOOLEAN

\* What the references of the driver are held for, besides contexts.
Held(b) == IF b THEN 1 ELSE 0
HtmlUser == html \notin {"unused", "finished"}
FetchUser == html = "unused" /\ (answered = 0 \/ \E i \in DOMAIN drops : drops[i] = "User")
Parsing == html \in {"parsing", "flushing", "waiting", "finishing"}
UserFacing ==
  IF answered = 0 THEN fetch \notin {"unused", "start"}
  ELSE \E i \in DOMAIN drops : drops[i] = "FetchUserFacing"
Background ==
  detached_fetch /\ (fetch # "over" \/ \E i \in DOMAIN drops : drops[i] = "FetchBackground")

Counted ==
  /\ refs["User"] = Held(HtmlUser) + Held(FetchUser) + Held(shutdown = "waiting")
  /\ refs["Parsing"] = Held(Parsing)
  /\ refs["FetchUserFacing"] = Held(UserFacing)
  /\ refs["FetchBackground"] = Held(Background)
  /\ refs["AsyncEvents"] = Held(purge = "issued")

\* A wait, and who has to be told that it is over.
WaitMatches ==
  /\ (waiting \in {"completion", "render"} \/ done = "html") <=> html = "waiting"
  /\ (waiting = "shutdown" \/ done = "shutdown") <=> shutdown = "waiting"
  /\ done # "none" => waiting = "no"
  /\ shutdown # "no" => html \in {"unused", "finished"}
  /\ waiting = "completion" => deadline = "none"
\* Contexts that the HTML thread leaves behind are slow.
LeftBehind == done = "html" => \A c \in initiated : slow[c]

\* The server has the driver back once nothing refers to it.
Kept == releasing = 0 /\ ~release_driver /\ Total(refs) > 0
Leaving == releasing = 1 /\ release_driver /\ Total(refs) = 0
Given == releasing = 0 /\ ~release_driver /\ Total(refs) = 0 /\ shutdown \in {"no", "over"}
Released ==
  \/ recycled = 0 /\ (shutdown = "no" => Kept \/ Leaving)
  \/ recycled = 1 /\ Given

DriverInv == DriverTypes /\ Counted /\ WakeupNotLost /\ WaitMatches /\ Released

-----------------------------------------------------------------------------
(* The page and its contexts.                                              *)

PageTypes ==
  /\ html \in {"start", "parsing", "flushing", "waiting", "finishing", "cleanup", "finished", "unused"}
  /\ window \in 1..Len(Page)
  /\ can_rewrite_resources \in BOOLEAN
  /\ rewrites \in Seq(Contexts) /\ retiring \in Seq(Contexts)
  /\ initiated \subseteq Contexts /\ detached \subseteq Contexts
  /\ phase \in [Contexts -> Phases]
  /\ starts \in [Contexts -> Nat] /\ num_predecessors \in [Contexts -> Nat]
  /\ repeated \in [Contexts -> Seq(Contexts)]
  /\ primary \in [Keys -> Contexts \cup {None}]
  /\ locked \subseteq Contexts

OnceEach(q) == \A i, j \in 1..Len(q) : q[i] = q[j] => i = j
Reported(c) ==
  \/ phase[c] = "deleted" /\ starts[c] = 1
  \/ phase[c] = "done" /\ c \notin ToSet(retiring)

\* Where a context is.
Outstanding == initiated \cup detached
Placed ==
  /\ \A c \in Contexts :
       /\ c \in Outstanding \cup ToSet(rewrites) <=> (phase[c] \notin {"new", "deleted"} /\ ~Reported(c))
       /\ c \in ToSet(rewrites) => phase[c] = "created" /\ c \notin Outstanding
  /\ initiated \cap detached = {}
  /\ OnceEach(rewrites) /\ OnceEach(retiring)
  /\ \A c \in ToSet(retiring) : phase[c] = "done"

WindowOf(c) == CHOOSE v \in DOMAIN Page : c \in ToSet(Page[v])
Unflushed(c) ==
  WindowOf(c) > window \/ (WindowOf(c) = window /\ html \in {"start", "parsing", "unused"})
Windows ==
  /\ \A c \in Contexts :
       IF Unflushed(c) THEN \/ phase[c] = "new"
                            \/ c \in ToSet(rewrites)
                            \/ phase[c] = "deleted" /\ starts[c] = 0
       ELSE phase[c] # "new" /\ c \notin ToSet(rewrites)
  /\ \A c \in ToSet(rewrites) \cup initiated : WindowOf(c) = window
  /\ html = "start" => \A c \in Contexts : phase[c] = "new"
  /\ rewrites # <<>> => html = "parsing"
  /\ initiated # {} => html \in {"flushing", "waiting"}
  /\ html \in {"finishing", "cleanup", "finished"} => window = Len(Page)

Ahead(c) == {d \in Predecessors(c) : ~Reported(d)}
Started ==
  \A c \in Contexts :
    /\ starts[c] = IF phase[c] \in {"new", "created"} THEN 0
                   ELSE IF phase[c] = "deleted" THEN Held(can_rewrite_resources) ELSE 1
    /\ ~can_rewrite_resources => phase[c] \in {"new", "deleted"}
    /\ num_predecessors[c] = Cardinality(Ahead(c))
    /\ starts[c] = 1 => Ahead(c) = {}

Works ==
  /\ \A c \in Contexts, k \in Keys : primary[k] = c <=> (Key[c] = k /\ phase[c] \in AtWork)
  /\ \A c \in locked : phase[c] \in AtWork
Repeating ==
  \A c \in Contexts :
    /\ OnceEach(repeated[c])
    /\ \A d \in ToSet(repeated[c]) : Key[d] = Key[c] /\ d # c
    /\ repeated[c] # <<>> => phase[c] \in AtWork \cup {"done", "deleted"}
    /\ phase[c] \in AtWork => \A d \in ToSet(repeated[c]) : phase[d] = "repeated"

\* A context has at most one task, which finds it where it expects it.
HasTask(op, c) == <<op, c>> \in ToSet(tasks)
OneTaskEach(q) == \A i, j \in 1..Len(q) : q[i][2] = q[j][2] => i = j
HtmlTasks ==
  /\ tasks \in Seq(HtmlOps \X Contexts) /\ OneTaskEach(tasks)
  /\ \A c \in Contexts, op \in HtmlOps : HasTask(op, c) =>
       IF op = "Start" THEN phase[c] = "created" /\ c \in Outstanding /\ Ahead(c) = {}
       ELSE IF op = "DeleteRewriteContext" THEN phase[c] = "done" /\ c \notin ToSet(retiring)
       ELSE phase[c] = "queued"

PageInv == PageTypes /\ Placed /\ Windows /\ Started /\ Works /\ Repeating

Slowness ==
  /\ slow \in [Contexts -> BOOLEAN]
  /\ \A c \in Contexts :
       /\ slow[c] => \A d \in HeldUpBy(c) : slow[d]
       /\ phase[c] = "new" => ~slow[c]

HtmlInv == PageInv /\ (fetch = "unused" => HtmlTasks) /\ Slowness /\ RefsMatch /\ LeftBehind

-----------------------------------------------------------------------------
(* The fetch.                                                              *)

FetchWaits == {"locking", "lookup", "fallback", "fetching", "rewriting"}
FetchTaskNames == {"StartFetch", "StartFetchImpl", "FetchCacheDone", "FetchFallbackCacheDone",
                   "ResourceFetchDone", "Rewrite", "RewriteDoneImpl"}
Alarm == <<"SequencePortionOfRun">>
FetchTypes ==
  /\ fetch \in {"unused", "start", "finding", "queued", "over"} \cup FetchWaits
  /\ (fetch = "unused") <=> (html # "unused")
  /\ answered \in {0, 1}
  /\ detached_fetch \in BOOLEAN /\ deadline_alarm \in BOOLEAN /\ canceled \in BOOLEAN
  /\ alarm \in {"none", "set", "running", "queued"}
  /\ drops \in {<<>>, <<"User">>, Both, <<"FetchUserFacing">>, <<"FetchBackground">>}

FetchStages ==
  /\ fetch = "unused" => answered = 0 /\ alarm = "none"
  /\ answered = 0 => drops = <<>> /\ ~detached_fetch /\ fetch # "over"
  /\ answered = 1 => detached_fetch \/ fetch = "over"
  /\ (alarm # "none" \/ detached_fetch) => fetch \in {"rewriting", "queued", "over"}
  /\ deadline_alarm => alarm # "none" /\ ~canceled /\ answered = 0
  /\ alarm # "none" => deadline_alarm \/ canceled
  /\ canceled => fetch = "over"
  /\ drops = <<"FetchBackground">> => fetch = "over" /\ detached_fetch

\* At most one task for the fetch and one for its alarm.
FetchTasks ==
  /\ tasks \in Seq({Alarm} \cup {<<t>> : t \in FetchTaskNames})
  /\ \A i, j \in 1..Len(tasks) : (tasks[i] = Alarm <=> tasks[j] = Alarm) => i = j
  /\ \A t \in ToSet(tasks) :
       IF t = Alarm THEN alarm = "queued"
       ELSE /\ fetch = "queued"
            /\ (alarm # "none" \/ detached_fetch) => t = <<"RewriteDoneImpl">>

FetchInv == FetchTypes /\ FetchStages /\ (fetch # "unused" => FetchTasks)

IInv == DriverInv /\ HtmlInv /\ FetchInv

-----------------------------------------------------------------------------
(* Sequences.                                                              *)

\* What ToSet and DOMAIN say of a sequence.
LEMMA Elements ==
  ASSUME NEW S, NEW q \in Seq(S)
  PROVE  /\ Len(q) \in Nat /\ DOMAIN q = 1..Len(q)
         /\ ToSet(q) \subseteq S
         /\ q = <<>> <=> Len(q) = 0
         /\ \A e : e \in ToSet(q) <=> \E i \in 1..Len(q) : q[i] = e
<1>1. Len(q) \in Nat /\ DOMAIN q = 1..Len(q) /\ \A i \in 1..Len(q) : q[i] \in S
  OBVIOUS
<1>2. q = <<>> <=> Len(q) = 0
  OBVIOUS
<1> QED BY <1>1, <1>2 DEF ToSet

\* The empty sequence has no elements.
LEMMA EmptyElements == ToSet(<<>>) = {} /\ \A S : <<>> \in Seq(S)
BY DEF ToSet

\* A sequence without elements is empty.
LEMMA SomeElement ==
  ASSUME NEW S, NEW q \in Seq(S), ToSet(q) = {}
  PROVE  q = <<>>
<1>1. SUFFICES ASSUME Len(q) # 0 PROVE FALSE
  BY Elements
<1>2. 1 \in 1..Len(q)
  BY <1>1, Elements
<1> QED BY <1>2, Elements

\* What Append does to the elements, their places and their number.
LEMMA Appended ==
  ASSUME NEW S, NEW q \in Seq(S), NEW e \in S
  PROVE  /\ Append(q, e) \in Seq(S) /\ Append(q, e) # <<>>
         /\ ToSet(Append(q, e)) = ToSet(q) \cup {e}
         /\ Len(Append(q, e)) = Len(q) + 1
         /\ \A i \in 1..Len(q) : Append(q, e)[i] = q[i]
         /\ Append(q, e)[Len(q) + 1] = e
         /\ OnceEach(q) /\ e \notin ToSet(q) => OnceEach(Append(q, e))
<1> DEFINE p == Append(q, e)
<1>1. /\ p \in Seq(S) /\ Len(p) = Len(q) + 1 /\ Len(q) \in Nat
      /\ \A i \in 1..Len(q) : p[i] = q[i]
      /\ p[Len(q) + 1] = e
  OBVIOUS
<1> HIDE DEF p
<1>2. ToSet(p) = ToSet(q) \cup {e}
  <2>1. \A x : x \in ToSet(p) <=> \E i \in 1..Len(p) : p[i] = x
    BY <1>1, Elements
  <2>2. \A x : x \in ToSet(q) <=> \E i \in 1..Len(q) : q[i] = x
    BY Elements
  <2>3. 1..Len(p) = 1..Len(q) \cup {Len(q) + 1}
    BY <1>1
  <2> QED BY <1>1, <2>1, <2>2, <2>3
<1>3. OnceEach(q) /\ e \notin ToSet(q) => OnceEach(p)
  <2>1. \A x : x \in ToSet(q) <=> \E i \in 1..Len(q) : q[i] = x
    BY Elements
  <2>2. \A i \in 1..Len(p) : i \in 1..Len(q) \/ i = Len(q) + 1
    BY <1>1
  <2> QED BY <1>1, <2>1, <2>2 DEF OnceEach
<1>4. p # <<>>
  BY <1>1, Elements
<1> QED BY <1>1, <1>2, <1>3, <1>4 DEF p

\* What is left of a sequence when its head is taken.
LEMMA HeadAndTail ==
  ASSUME NEW S, NEW q \in Seq(S), q # <<>>
  PROVE  /\ Head(q) \in S /\ Tail(q) \in Seq(S)
         /\ Head(q) = q[1] /\ Len(Tail(q)) = Len(q) - 1 /\ Len(q) > 0
         /\ \A i \in 1..Len(Tail(q)) : Tail(q)[i] = q[i + 1]
         /\ ToSet(q) = {Head(q)} \cup ToSet(Tail(q))
         /\ OnceEach(q) => OnceEach(Tail(q)) /\ Head(q) \notin ToSet(Tail(q))
<1> DEFINE p == Tail(q)
<1>1. /\ Len(q) \in Nat /\ Len(q) > 0
      /\ Head(q) = q[1] /\ Head(q) \in S
      /\ p \in Seq(S) /\ Len(p) = Len(q) - 1
      /\ \A i \in 1..Len(p) : p[i] = q[i + 1]
  OBVIOUS
<1> HIDE DEF p
<1>2. /\ \A x : x \in ToSet(p) <=> \E i \in 1..Len(p) : p[i] = x
      /\ \A x : x \in ToSet(q) <=> \E i \in 1..Len(q) : q[i] = x
  BY <1>1, Elements
<1>3. \A i \in 1..Len(q) : i = 1 \/ \E j \in 1..Len(p) : i = j + 1
  <2> TAKE i \in 1..Len(q)
  <2>1. i = 1 \/ i - 1 \in 1..Len(p)
    BY <1>1
  <2> QED BY <2>1
<1>4. 1 \in 1..Len(q) /\ \A j \in 1..Len(p) : j + 1 \in 1..Len(q) /\ j + 1 # 1
  BY <1>1
<1>5. ToSet(q) = {Head(q)} \cup ToSet(p)
  <2>1. ASSUME NEW x \in ToSet(q) PROVE x = Head(q) \/ x \in ToSet(p)
    <3>1. PICK i \in 1..Len(q) : q[i] = x
      BY <1>2, <2>1
    <3>2. CASE i = 1
      BY <1>1, <3>1, <3>2
    <3>3. CASE \E j \in 1..Len(p) : i = j + 1
      BY <1>1, <1>2, <3>1, <3>3
    <3> QED BY <1>3, <3>2, <3>3
  <2>2. Head(q) \in ToSet(q) /\ \A x \in ToSet(p) : x \in ToSet(q)
    BY <1>1, <1>2, <1>4
  <2> QED BY <2>1, <2>2
<1>6. OnceEach(q) => OnceEach(p)
  <2>1. \A i, j \in 1..Len(p) : i + 1 = j + 1 => i = j
    BY <1>1
  <2> QED BY <1>1, <1>4, <2>1 DEF OnceEach
<1>7. OnceEach(q) => Head(q) \notin ToSet(p)
  BY <1>1, <1>2, <1>4 DEF OnceEach
<1> QED BY <1>1, <1>5, <1>6, <1>7 DEF p

\* A sequence of one element.
LEMMA Singleton ==
  ASSUME NEW S, NEW e \in S
  PROVE  <<e>> \in Seq(S) /\ <<e>> # <<>> /\ ToSet(<<e>>) = {e} /\ OnceEach(<<e>>)
<1>1. /\ <<e>> \in Seq(S) /\ Len(<<e>>) = 1 /\ <<e>>[1] = e
  OBVIOUS
<1>2. \A i \in 1..1 : i = 1
  OBVIOUS
<1>3. ToSet(<<e>>) = {e}
  <2>1. \A x : x \in ToSet(<<e>>) <=> \E i \in 1..1 : <<e>>[i] = x
    BY <1>1, Elements
  <2>2. 1 \in 1..1
    OBVIOUS
  <2> QED BY <1>1, <1>2, <2>1, <2>2
<1>4. OnceEach(<<e>>)
  BY <1>1, <1>2 DEF OnceEach
<1> QED BY <1>1, <1>3, <1>4

\* The elements of two sequences, one after the other.
LEMMA Concatenated ==
  ASSUME NEW S, NEW p \in Seq(S), NEW q \in Seq(S)
  PROVE  /\ p \o q \in Seq(S) /\ Len(p \o q) = Len(p) + Len(q)
         /\ \A i \in 1..Len(p \o q) : (p \o q)[i] = IF i <= Len(p) THEN p[i] ELSE q[i - Len(p)]
         /\ ToSet(p \o q) = ToSet(p) \cup ToSet(q)
<1> DEFINE r == p \o q
<1>1. /\ r \in Seq(S) /\ Len(r) = Len(p) + Len(q) /\ Len(p) \in Nat /\ Len(q) \in Nat
      /\ \A i \in 1..Len(r) : r[i] = IF i <= Len(p) THEN p[i] ELSE q[i - Len(p)]
  OBVIOUS
<1> HIDE DEF r
<1>2. /\ \A x : x \in ToSet(p) <=> \E i \in 1..Len(p) : p[i] = x
      /\ \A x : x \in ToSet(q) <=> \E i \in 1..Len(q) : q[i] = x
      /\ \A x : x \in ToSet(r) <=> \E i \in 1..Len(r) : r[i] = x
  BY <1>1, Elements
<1>3. \A x : x \in ToSet(r) => x \in ToSet(p) \cup ToSet(q)
  <2> SUFFICES ASSUME NEW i \in 1..Len(r) PROVE r[i] \in ToSet(p) \cup ToSet(q)
    BY <1>2
  <2>1. CASE i <= Len(p)
    BY <1>1, <1>2, <2>1
  <2>2. CASE i > Len(p)
    <3>1. i - Len(p) \in 1..Len(q)
      BY <1>1, <2>2
    <3> QED BY <1>1, <1>2, <2>2, <3>1
  <2> QED BY <1>1, <2>1, <2>2
<1>4. \A x \in ToSet(p) : x \in ToSet(r)
  <2> SUFFICES ASSUME NEW i \in 1..Len(p) PROVE p[i] \in ToSet(r)
    BY <1>2
  <2>1. i \in 1..Len(r) /\ r[i] = p[i]
    BY <1>1
  <2> QED BY <1>2, <2>1
<1>5. \A x \in ToSet(q) : x \in ToSet(r)
  <2> SUFFICES ASSUME NEW i \in 1..Len(q) PROVE q[i] \in ToSet(r)
    BY <1>2
  <2>1. /\ i + Len(p) \in 1..Len(r) /\ ~(i + Len(p) <= Len(p))
        /\ i + Len(p) - Len(p) = i
    BY <1>1
  <2>2. r[i + Len(p)] = q[i]
    BY <1>1, <2>1
  <2> QED BY <1>2, <2>1, <2>2
<1> QED BY <1>1, <1>3, <1>4, <1>5 DEF r

\* A sequence of the elements of a set.
LEMMA SequencesOfSet ==
  ASSUME NEW S, IsFiniteSet(S)
  PROVE  /\ \A q \in SetToSeqs(S) : q \in Seq(S) /\ OnceEach(q)
         /\ SetToSeq(S) \in Seq(S) /\ OnceEach(SetToSeq(S))
<1> DEFINE n == Cardinality(S)
<1>1. n \in Nat /\ ExistsBijection(1..n, S)
  BY FS_CardinalityType
<1> HIDE DEF n
<1>2. \A q \in [1..n -> S] : q \in Seq(S) /\ Len(q) = n
  BY <1>1
<1>3. \A q \in SetToSeqs(S) : q \in [1..n -> S] /\ OnceEach(q)
  BY <1>2 DEF SetToSeqs, OnceEach, n
<1>4. PICK f \in [1..n -> S] : IsInjective(f)
  BY <1>1 DEF ExistsBijection, Bijection, Injection, IsInjective
<1>5. SetToSeq(S) \in [1..n -> S] /\ IsInjective(SetToSeq(S))
  BY <1>4 DEF SetToSeq, n
<1>6. OnceEach(SetToSeq(S))
  BY <1>2, <1>5 DEF OnceEach, IsInjective
<1> QED BY <1>2, <1>3, <1>5, <1>6

-----------------------------------------------------------------------------
(* Sets of contexts and windows.                                           *)

\* Sets of contexts can be counted.
LEMMA CountedSets ==
  ASSUME NEW S, NEW T, S \subseteq Contexts, T \subseteq Contexts
  PROVE  /\ IsFiniteSet(S) /\ Cardinality(S) \in Nat
         /\ Cardinality(S) = 0 <=> S = {}
         /\ \A c : c \notin S => Cardinality(S \cup {c}) = Cardinality(S) + 1
         /\ \A c \in S : Cardinality(S \ {c}) = Cardinality(S) - 1 /\ Cardinality(S) > 0
         /\ S \cap T = {} => Cardinality(S \cup T) = Cardinality(S) + Cardinality(T)
         /\ T \subseteq S => Cardinality(S \ T) = Cardinality(S) - Cardinality(T)
                             /\ Cardinality(T) <= Cardinality(S)
<1>1. IsFiniteSet(S) /\ IsFiniteSet(T)
  BY ContextAssumption, FS_Subset
<1>2. /\ Cardinality(S) \in Nat /\ Cardinality(T) \in Nat
      /\ Cardinality(S) = 0 <=> S = {}
      /\ Cardinality({}) = 0
  BY <1>1, FS_CardinalityType, FS_EmptySet
<1>3. \A c : c \notin S => Cardinality(S \cup {c}) = Cardinality(S) + 1
  BY <1>1, FS_AddElement
<1>4. \A c \in S : Cardinality(S \ {c}) = Cardinality(S) - 1 /\ Cardinality(S) > 0
  <2> TAKE c \in S
  <2>1. Cardinality(S \ {c}) = Cardinality(S) - 1
    BY <1>1, FS_RemoveElement
  <2> QED BY <1>2, <2>1
<1>5. S \cap T = {} => Cardinality(S \cup T) = Cardinality(S) + Cardinality(T)
  <2> HAVE S \cap T = {}
  <2>1. Cardinality(S \cup T) = Cardinality(S) + Cardinality(T) - Cardinality(S \cap T)
    BY <1>1, FS_Union
  <2>2. Cardinality(S \cap T) = 0
    BY <1>2
  <2> QED BY <1>2, <2>1, <2>2
<1>6. T \subseteq S => Cardinality(S \ T) = Cardinality(S) - Cardinality(T)
                       /\ Cardinality(T) <= Cardinality(S)
  <2> HAVE T \subseteq S
  <2>1. S \cap T = T
    OBVIOUS
  <2> QED BY <1>1, <2>1, FS_Difference, FS_Subset
<1> QED BY <1>1, <1>2, <1>3, <1>4, <1>5, <1>6

\* A context is in one window, with its successors.
LEMMA WindowFacts ==
  /\ Len(Page) \in Nat \ {0} /\ DOMAIN Page = 1..Len(Page)
  /\ \A v \in 1..Len(Page) : Page[v] \in Seq(Contexts)
  /\ \A v \in 1..Len(Page) : \A i \in DOMAIN Page[v] :
       Page[v][i] \in Contexts /\ WindowOf(Page[v][i]) = v
  /\ \A c \in Contexts : /\ WindowOf(c) \in 1..Len(Page)
                         /\ \E i \in DOMAIN Page[WindowOf(c)] : Page[WindowOf(c)][i] = c
                         /\ \A d \in Successors[c] : d \in Contexts /\ WindowOf(d) = WindowOf(c)
<1>1. /\ Len(Page) \in Nat \ {0} /\ DOMAIN Page = 1..Len(Page)
      /\ \A v \in 1..Len(Page) : Page[v] \in Seq(Contexts)
  BY PageAssumption
<1>2. \A v \in 1..Len(Page) : \A i \in DOMAIN Page[v] : Page[v][i] \in Contexts
  BY <1>1
<1>3. \A v, w \in 1..Len(Page) : \A c : c \in ToSet(Page[v]) /\ c \in ToSet(Page[w]) => v = w
  BY <1>1, PageAssumption DEF ToSet
<1>4. \A v \in 1..Len(Page) : \A c : c \in ToSet(Page[v]) => WindowOf(c) = v
  BY <1>1, <1>3 DEF WindowOf
<1>5. \A v \in 1..Len(Page) : \A i \in DOMAIN Page[v] : WindowOf(Page[v][i]) = v
  BY <1>4 DEF ToSet
<1>6. ASSUME NEW c \in Contexts
      PROVE  /\ WindowOf(c) \in 1..Len(Page)
             /\ \E i \in DOMAIN Page[WindowOf(c)] : Page[WindowOf(c)][i] = c
             /\ \A d \in Successors[c] : d \in Contexts /\ WindowOf(d) = WindowOf(c)
  <2>1. PICK v \in 1..Len(Page) : c \in ToSet(Page[v])
    BY <1>1, PageAssumption
  <2>2. WindowOf(c) = v
    BY <1>4, <2>1
  <2>3. \A d \in Successors[c] : d \in Contexts /\ d \in ToSet(Page[v])
    BY <1>1, <2>1, SuccessorsAssumption
  <2> QED BY <1>4, <2>1, <2>2, <2>3 DEF ToSet
<1> QED BY <1>1, <1>2, <1>5, <1>6

-----------------------------------------------------------------------------
(* Signals and the references of the driver.                               *)

\* The driver has a reference exactly when a category counts one.
LEMMA Totals ==
  ASSUME NEW r \in [Categories -> Nat]
  PROVE  Total(r) \in Nat /\ (Total(r) = 0 <=> \A c \in Categories : r[c] = 0)
BY DEF Total, Categories

\* What a signal does, whoever waits.
Signalled(r, q) ==
  /\ refs' = r /\ possibly_quick_rewrites' = q
  /\ release_driver' = (release_driver \/ Total(r) = 0)
  /\ deadline_reached' \in BOOLEAN
  /\ waiting' = waiting => done' = done
  /\ waiting' # waiting =>
       /\ waiting' = "no" /\ done' = (IF waiting = "shutdown" THEN "shutdown" ELSE "html")
       /\ waiting # "shutdown" => r["PendingRewrites"] = 0 \/ q = 0

\* SignalIfRequired leaves no waiter whose condition holds, and tells at most the one there is.
LEMMA SignalTells ==
  ASSUME DriverTypes, WakeupNotLost, WaitMatches, NEW r, NEW q,
         SignalIfRequired(r, q), UNCHANGED fully_rewrite_on_flush
  PROVE  Signalled(r, q) /\ WakeupNotLost'
<1> DEFINE told == waiting # "no" /\ IsDone(waiting, deadline_reached, r, q)
           reached == deadline = "past"
<1>1. /\ refs' = r /\ possibly_quick_rewrites' = q
      /\ release_driver' = (release_driver \/ Total(r) = 0)
      /\ told => TryCheckForCompletion(waiting, reached, r, q)
      /\ ~told => UNCHANGED <<waiting, deadline_reached, done>>
  BY DEF SignalIfRequired, LastRefRemoved, WakeupNotLost
<1>2. CASE ~told
  <2>1. UNCHANGED <<waiting, deadline_reached, done>>
    BY <1>1, <1>2
  <2>2. Signalled(r, q)
    BY <1>1, <2>1 DEF Signalled, DriverTypes
  <2>3. WakeupNotLost'
    BY <1>1, <1>2, <2>1 DEF WakeupNotLost, IsDone
  <2> QED BY <2>2, <2>3
<1>3. CASE told /\ IsDone(waiting, reached, r, q)
  <2>1. /\ deadline_reached' = reached /\ waiting' = "no" /\ waiting # "no"
        /\ done' = (IF waiting = "shutdown" THEN "shutdown" ELSE "html")
    BY <1>1, <1>3 DEF TryCheckForCompletion
  <2>2. ASSUME waiting # "shutdown" PROVE r["PendingRewrites"] = 0 \/ q = 0
    <3>1. waiting = "render" \/ (waiting = "completion" /\ ~reached)
      BY <2>1, <2>2 DEF DriverTypes, WaitMatches
    <3> QED BY <1>3, <3>1 DEF IsDone, RewritesComplete
  <2> QED BY <1>1, <2>1, <2>2 DEF Signalled, WakeupNotLost
<1>4. CASE told /\ ~IsDone(waiting, reached, r, q)
  <2>1. deadline_reached' = reached /\ waiting' = waiting /\ done' = done
    BY <1>1, <1>4 DEF TryCheckForCompletion
  <2>2. WakeupNotLost'
    BY <1>1, <1>4, <2>1 DEF WakeupNotLost, IsDone
  <2> QED BY <1>1, <2>1, <2>2 DEF Signalled
<1> QED BY <1>2, <1>3, <1>4

\* Nobody waits on after a signal that was for him, and what the HTML thread then
\* leaves behind is slow.
LEMMA SignalEndsWait ==
  ASSUME DriverTypes, WaitMatches, LeftBehind, NEW r, NEW q, Signalled(r, q),
         UNCHANGED <<deadline, shutdown>>,
         html' = "waiting" <=> html = "waiting",
         shutdown # "no" => html' \in {"unused", "finished"},
         initiated' \subseteq initiated, \A c \in initiated' : slow[c] => slow'[c],
         r["PendingRewrites"] = 0 => initiated' = {},
         q = 0 => \A c \in initiated' : slow'[c]
  PROVE  WaitMatches' /\ LeftBehind'
<1>1. CASE waiting' = waiting
  <2>1. done' = done
    BY <1>1 DEF Signalled
  <2> QED BY <1>1, <2>1 DEF WaitMatches, LeftBehind
<1>2. CASE waiting' # waiting
  <2>1. /\ waiting' = "no" /\ done' = (IF waiting = "shutdown" THEN "shutdown" ELSE "html")
        /\ waiting # "shutdown" => r["PendingRewrites"] = 0 \/ q = 0
    BY <1>2 DEF Signalled
  <2>2. waiting # "no" /\ done = "none"
    BY <1>2, <2>1 DEF WaitMatches, DriverTypes
  <2>3. LeftBehind'
    BY <2>1 DEF LeftBehind
  <2>4. WaitMatches'
    BY <2>1, <2>2 DEF WaitMatches, DriverTypes
  <2> QED BY <2>3, <2>4
<1> QED BY <1>1, <1>2

\* While there is a reference, the driver is with the request.
LEMMA Alive ==
  ASSUME DriverTypes, Released, NEW c \in Categories, refs[c] > 0
  PROVE  Total(refs) > 0 /\ recycled = 0 /\ (shutdown = "no" => Kept)
<1>1. Total(refs) \in Nat /\ Total(refs) # 0
  BY Totals DEF DriverTypes
<1> QED BY <1>1 DEF Released, Kept, Leaving, Given

\* A step between references that keeps one keeps the driver where it is.
LEMMA StaysWhileReferenced ==
  ASSUME DriverTypes, Released,
         NEW c \in Categories, refs[c] > 0,
         NEW d \in Categories, refs' \in [Categories -> Nat], refs'[d] > 0,
         release_driver' = (release_driver \/ Total(refs') = 0) \/ release_driver' = release_driver,
         UNCHANGED <<releasing, recycled, shutdown>>
  PROVE  Released'
<1>1. recycled = 0 /\ (shutdown = "no" => Kept)
  BY Alive
<1>2. Total(refs') \in Nat /\ Total(refs') # 0
  BY Totals
<1>3. release_driver' = release_driver
  BY <1>2 DEF DriverTypes
<1>4. shutdown = "no" => Kept'
  BY <1>1, <1>2, <1>3 DEF Kept, Total
<1> QED BY <1>1, <1>4 DEF Released

\* DropReference tells the waiter, and who drops the last reference is the one who releases the driver.
LEMMA ReferenceDropped ==
  ASSUME DriverTypes, WakeupNotLost, WaitMatches, Released,
         NEW c \in Categories, refs[c] > 0, DropReference(c),
         UNCHANGED <<recycled, shutdown, fully_rewrite_on_flush>>
  PROVE  /\ refs' = [refs EXCEPT ![c] = @ - 1] /\ refs' \in [Categories -> Nat]
         /\ Signalled(refs', possibly_quick_rewrites) /\ WakeupNotLost'
         /\ releasing' \in Nat /\ Released'
<1> DEFINE r == [refs EXCEPT ![c] = @ - 1]
<1>1. r \in [Categories -> Nat]
  BY DEF DriverTypes
<1>2. Signalled(r, possibly_quick_rewrites) /\ WakeupNotLost'
  BY SignalTells DEF DropReference
<1>3. refs' = r /\ release_driver' = (release_driver \/ Total(r) = 0)
  BY <1>2 DEF Signalled
<1>4. releasing' = IF release_driver' THEN releasing + 1 ELSE releasing
  BY DEF DropReference
<1>5. Total(r) \in Nat
  BY <1>1, Totals
<1>6. recycled = 0 /\ (shutdown = "no" => Kept)
  BY Alive
<1>7. shutdown = "no" => Kept' \/ Leaving'
  <2> HAVE shutdown = "no"
  <2>1. releasing = 0 /\ ~release_driver
    BY <1>6 DEF Kept
  <2> HIDE DEF r
  <2>2. Total(refs') = Total(r)
    BY <1>3
  <2>3. CASE Total(r) = 0
    <3>1. release_driver' = TRUE
      BY <1>3, <2>3
    <3>2. releasing' = 1
      BY <1>4, <2>1, <3>1
    <3> QED BY <2>2, <2>3, <3>1, <3>2 DEF Leaving
  <2>4. CASE Total(r) # 0
    <3>1. ~release_driver' /\ releasing' = 0
      BY <1>3, <1>4, <2>1, <2>4
    <3> QED BY <1>5, <2>2, <2>4, <3>1 DEF Kept
  <2> QED BY <2>3, <2>4
<1>8. Released' /\ releasing' \in Nat
  BY <1>4, <1>6, <1>7 DEF Released, DriverTypes
<1> QED BY <1>1, <1>2, <1>3, <1>8

\* A step that does not touch the driver.
LEMMA DriverStill ==
  ASSUME DriverTypes, WakeupNotLost, Released,
         UNCHANGED <<waitVars, deadline, fully_rewrite_on_flush, endVars, num_detached>>
  PROVE  DriverTypes' /\ WakeupNotLost' /\ Released'
<1>1. DriverTypes'
  BY DEF DriverTypes, waitVars, endVars
<1>2. WakeupNotLost'
  BY DEF WakeupNotLost, IsDone, RewritesComplete, waitVars
<1>3. Released'
  BY DEF Released, Kept, Leaving, Given, Total, waitVars, endVars
<1> QED BY <1>1, <1>2, <1>3

-----------------------------------------------------------------------------
(* Tasks of an HTML request.                                               *)

\* The task that runs is taken out; its context has no other.
LEMMA TaskRuns ==
  ASSUME HtmlTasks, NEW op \in HtmlOps, Runs(op), tasks' = Tail(tasks)
  PROVE  /\ retiring = <<>>
         /\ TheContext \in Contexts /\ HasTask(op, TheContext)
         /\ tasks' \in Seq(HtmlOps \X Contexts) /\ OneTaskEach(tasks')
         /\ \A o, d : <<o, d>> \in ToSet(tasks') => <<o, d>> \in ToSet(tasks) /\ d # TheContext
<1> DEFINE T == HtmlOps \X Contexts
           q == Tail(tasks)
<1>1. tasks \in Seq(T) /\ tasks # <<>> /\ Head(tasks)[1] = op /\ retiring = <<>>
  BY DEF HtmlTasks, Runs, HeadIs
<1> HIDE DEF T
<1>2. /\ Head(tasks) \in T /\ q \in Seq(T) /\ Head(tasks) = tasks[1]
      /\ Len(q) = Len(tasks) - 1 /\ Len(tasks) > 0 /\ Len(tasks) \in Nat
      /\ \A i \in 1..Len(q) : q[i] = tasks[i + 1]
      /\ ToSet(tasks) = {Head(tasks)} \cup ToSet(q)
  BY <1>1, HeadAndTail
<1>3. TheContext \in Contexts /\ Head(tasks) = <<op, TheContext>>
  BY <1>1, <1>2 DEF T, TheContext
<1>4. HasTask(op, TheContext)
  BY <1>2, <1>3 DEF HasTask
<1> HIDE DEF q
<1>5. \A i \in 1..Len(q) : i + 1 \in 1..Len(tasks) /\ i + 1 # 1 /\ 1 \in 1..Len(tasks)
  BY <1>2
<1>6. OneTaskEach(q)
  <2> SUFFICES ASSUME NEW i \in 1..Len(q), NEW j \in 1..Len(q), q[i][2] = q[j][2] PROVE i = j
    BY DEF OneTaskEach
  <2>1. tasks[i + 1][2] = tasks[j + 1][2]
    BY <1>2
  <2>2. i + 1 = j + 1
    BY <1>5, <2>1 DEF OneTaskEach, HtmlTasks
  <2> QED BY <2>2
<1>7. ASSUME NEW o, NEW d, <<o, d>> \in ToSet(q) PROVE <<o, d>> \in ToSet(tasks) /\ d # TheContext
  <2>1. PICK i \in 1..Len(q) : q[i] = <<o, d>>
    BY <1>2, <1>7, Elements
  <2>2. tasks[i + 1] = <<o, d>> /\ tasks[1] = <<op, TheContext>>
    BY <1>2, <1>3, <2>1
  <2>3. tasks[i + 1][2] = d /\ tasks[1][2] = TheContext
    BY <2>2
  <2>4. d # TheContext
    BY <1>5, <2>3 DEF OneTaskEach, HtmlTasks
  <2> QED BY <1>2, <1>7, <2>4
<1> QED BY <1>1, <1>2, <1>3, <1>4, <1>6, <1>7 DEF T, q

\* A context that has no task is given one.
LEMMA TaskAdded ==
  ASSUME NEW q \in Seq(HtmlOps \X Contexts), OneTaskEach(q),
         NEW op \in HtmlOps, NEW c \in Contexts, \A o : <<o, c>> \notin ToSet(q)
  PROVE  /\ Append(q, <<op, c>>) \in Seq(HtmlOps \X Contexts) /\ OneTaskEach(Append(q, <<op, c>>))
         /\ ToSet(Append(q, <<op, c>>)) = ToSet(q) \cup {<<op, c>>}
<1> DEFINE T == HtmlOps \X Contexts
           e == <<op, c>>
           p == Append(q, e)
<1>1. e \in T /\ e[2] = c
  OBVIOUS
<1>2. \A i \in 1..Len(q) : q[i] \in T /\ q[i] \in ToSet(q) /\ q[i] = <<q[i][1], q[i][2]>>
  BY Elements
<1>3. \A i \in 1..Len(q) : q[i][2] # c
  BY <1>2
<1> HIDE DEF T, e
<1>4. /\ p \in Seq(T) /\ ToSet(p) = ToSet(q) \cup {e}
      /\ Len(p) = Len(q) + 1 /\ Len(q) \in Nat /\ p[Len(q) + 1] = e
      /\ \A i \in 1..Len(q) : p[i] = q[i]
  BY <1>1, Appended, Elements DEF T
<1> HIDE DEF p
<1>5. \A i \in 1..Len(p) : i \in 1..Len(q) \/ i = Len(q) + 1
  BY <1>4
<1>6. OneTaskEach(p)
  BY <1>1, <1>3, <1>4, <1>5 DEF OneTaskEach
<1> QED BY <1>4, <1>6 DEF T, e, p

\* Contexts that have no task are started.
LEMMA ContextsStarted ==
  ASSUME NEW q \in Seq(HtmlOps \X Contexts), OneTaskEach(q),
         NEW s \in Seq(Contexts), OnceEach(s), \A o : \A c \in ToSet(s) : <<o, c>> \notin ToSet(q)
  PROVE  /\ q \o StartTasks(s) \in Seq(HtmlOps \X Contexts) /\ OneTaskEach(q \o StartTasks(s))
         /\ ToSet(q \o StartTasks(s)) = ToSet(q) \cup {<<"Start", c>> : c \in ToSet(s)}
<1> DEFINE T == HtmlOps \X Contexts
           t == StartTasks(s)
           p == q \o t
<1>1. /\ Len(s) \in Nat /\ DOMAIN s = 1..Len(s) /\ \A i \in 1..Len(s) : s[i] \in Contexts
      /\ \A e : e \in ToSet(s) <=> \E i \in 1..Len(s) : s[i] = e
  BY Elements
<1>2. "Start" \in HtmlOps
  BY DEF HtmlOps
<1>3. t = [i \in 1..Len(s) |-> <<"Start", s[i]>>]
  BY <1>1 DEF StartTasks
<1>4. t \in Seq(T) /\ Len(t) = Len(s)
  BY <1>1, <1>2, <1>3
<1>5. \A i \in 1..Len(t) : t[i] = <<"Start", s[i]>> /\ t[i][2] = s[i] /\ s[i] \in ToSet(s)
  BY <1>1, <1>3, <1>4
<1>6. \A i \in 1..Len(q) : q[i] \in T /\ q[i] \in ToSet(q) /\ q[i] = <<q[i][1], q[i][2]>>
  BY Elements
<1>7. \A i \in 1..Len(q) : q[i][2] \notin ToSet(s)
  BY <1>6
<1>8. q \in Seq(T)
  OBVIOUS
<1> HIDE DEF T, t
<1>9. Len(q) \in Nat /\ Len(t) \in Nat
  BY <1>1, <1>4, <1>8, Elements
<1>10. /\ p \in Seq(T) /\ Len(p) = Len(q) + Len(t)
       /\ \A i \in 1..Len(p) : p[i] = IF i <= Len(q) THEN q[i] ELSE t[i - Len(q)]
       /\ ToSet(p) = ToSet(q) \cup ToSet(t)
  BY <1>4, <1>8, Concatenated
<1> HIDE DEF p
<1>11. OneTaskEach(p)
  <2> SUFFICES ASSUME NEW i \in 1..Len(p), NEW j \in 1..Len(p), p[i][2] = p[j][2] PROVE i = j
    BY DEF OneTaskEach
  <2>1. \A k \in 1..Len(p) : k \in 1..Len(q) \/ (~(k <= Len(q)) /\ k - Len(q) \in 1..Len(t))
    BY <1>10, <1>9
  <2>2. \A k \in 1..Len(q) : k \in 1..Len(p) /\ k <= Len(q) /\ p[k] = q[k]
    BY <1>10, <1>9
  <2>3. \A k \in 1..Len(p) : ~(k <= Len(q)) => p[k] = t[k - Len(q)] /\ k - Len(q) \in 1..Len(t)
    BY <1>10, <2>1
  <2>4. ASSUME NEW k \in 1..Len(p), ~(k <= Len(q)) PROVE p[k][2] \in ToSet(s)
    <3>1. PICK m \in 1..Len(t) : p[k] = t[m]
      BY <2>3, <2>4
    <3>2. t[m][2] = s[m] /\ s[m] \in ToSet(s)
      BY <1>5
    <3> QED BY <3>1, <3>2
  <2>5. CASE i \in 1..Len(q) /\ j \in 1..Len(q)
    BY <2>5, <2>2 DEF OneTaskEach
  <2>6. CASE i \in 1..Len(q) /\ ~(j <= Len(q))
    BY <1>7, <2>6, <2>2, <2>4
  <2>7. CASE ~(i <= Len(q)) /\ j \in 1..Len(q)
    BY <1>7, <2>7, <2>2, <2>4
  <2>8. CASE ~(i <= Len(q)) /\ ~(j <= Len(q))
    <3>1. PICK m \in 1..Len(t) : m = i - Len(q) /\ p[i] = t[m]
      BY <2>8, <2>3
    <3>2. PICK n \in 1..Len(t) : n = j - Len(q) /\ p[j] = t[n]
      BY <2>8, <2>3
    <3>3. t[m][2] = t[n][2]
      BY <3>1, <3>2
    <3>4. s[m] = s[n]
      BY <1>5, <3>3
    <3>5. m = n
      BY <1>4, <3>4 DEF OnceEach
    <3> QED BY <1>9, <3>1, <3>2, <3>5
  <2> QED BY <2>1, <2>5, <2>6, <2>7, <2>8
<1>12. ToSet(t) = {<<"Start", c>> : c \in ToSet(s)}
  <2>1. \A e : e \in ToSet(t) <=> \E i \in 1..Len(t) : t[i] = e
    BY <1>4, Elements
  <2>2. \A e \in ToSet(t) : \E c \in ToSet(s) : e = <<"Start", c>>
    <3> TAKE e \in ToSet(t)
    <3>1. PICK i \in 1..Len(t) : t[i] = e
      BY <2>1
    <3>2. t[i] = <<"Start", s[i]>> /\ s[i] \in ToSet(s)
      BY <1>5
    <3> QED BY <3>1, <3>2
  <2>3. ASSUME NEW c \in ToSet(s) PROVE <<"Start", c>> \in ToSet(t)
    <3>1. PICK i \in 1..Len(s) : s[i] = c
      BY <1>1, <2>3
    <3> QED BY <1>4, <1>5, <2>1, <3>1
  <2> QED BY <2>2, <2>3
<1> QED BY <1>10, <1>11, <1>12 DEF T, t, p

\* Tasks go on to find their contexts as they expect them.
LEMMA TasksKept ==
  ASSUME HtmlTasks, tasks' \in Seq(HtmlOps \X Contexts), OneTaskEach(tasks'),
         UNCHANGED <<initiated, detached>>, Retired' = Retired,
         \A d \in Contexts : Ahead(d)' = Ahead(d),
         \A op \in HtmlOps, d \in Contexts : <<op, d>> \in ToSet(tasks') =>
           \/ <<op, d>> \in ToSet(tasks) /\ phase'[d] = phase[d]
           \/ op \notin {"Start", "DeleteRewriteContext"} /\ phase'[d] = "queued"
  PROVE  HtmlTasks'
<1> SUFFICES ASSUME NEW d \in Contexts, NEW op \in HtmlOps, <<op, d>> \in ToSet(tasks')
             PROVE  IF op = "Start" THEN phase'[d] = "created" /\ d \in Outstanding' /\ Ahead(d)' = {}
                    ELSE IF op = "DeleteRewriteContext"
                    THEN phase'[d] = "done" /\ d \notin ToSet(retiring')
                    ELSE phase'[d] = "queued"
  BY DEF HtmlTasks, HasTask
<1>1. CASE op \notin {"Start", "DeleteRewriteContext"} /\ phase'[d] = "queued"
  BY <1>1
<1>2. CASE <<op, d>> \in ToSet(tasks) /\ phase'[d] = phase[d]
  <2>1. IF op = "Start" THEN phase[d] = "created" /\ d \in Outstanding /\ Ahead(d) = {}
        ELSE IF op = "DeleteRewriteContext" THEN phase[d] = "done" /\ d \notin ToSet(retiring)
        ELSE phase[d] = "queued"
    BY <1>2 DEF HtmlTasks, HasTask
  <2>2. CASE op = "Start"
    BY <1>2, <2>1, <2>2 DEF Outstanding
  <2>3. CASE op = "DeleteRewriteContext"
    <3>1. d \in Retired
      BY <2>1, <2>3 DEF Retired
    <3> QED BY <2>3, <3>1 DEF Retired
  <2> QED BY <1>2, <2>1, <2>2, <2>3
<1> QED BY <1>1, <1>2

-----------------------------------------------------------------------------
(* Contexts at work.                                                       *)

\* Contexts that are outstanding go on, none is reported.
LEMMA PhasesMove ==
  ASSUME PageInv, UNCHANGED <<pageVars, num_predecessors>>,
         retiring' \in Seq(Contexts), OnceEach(retiring'),
         \A d \in ToSet(retiring') : phase'[d] = "done",
         \A d \in Contexts :
           /\ phase'[d] # phase[d] =>
                d \in Outstanding /\ phase'[d] \in Phases \ {"new", "created", "deleted"}
           /\ starts'[d] = IF phase'[d] \in {"new", "created"} THEN 0
                           ELSE IF phase'[d] = "deleted" THEN Held(can_rewrite_resources) ELSE 1
           /\ starts'[d] = 1 /\ starts[d] # 1 => Ahead(d) = {}
           /\ Reported(d)' <=> Reported(d)
  PROVE  /\ Placed' /\ Windows' /\ Started'
         /\ \A d \in Contexts : Ahead(d)' = Ahead(d)
         /\ Unreported' = Unreported /\ Retired' = Retired
<1> USE DEF pageVars, PageInv
<1>1. \A d \in Contexts : Ahead(d)' = Ahead(d)
  BY DEF Ahead, Predecessors
<1>2. \A d \in Contexts : phase'[d] # phase[d] =>
        phase[d] \notin {"new", "deleted"} /\ ~Reported(d) /\ d \notin ToSet(rewrites)
  BY DEF Placed
<1>3. Placed'
  <2>1. \A d \in Contexts :
          /\ d \in (Outstanding \cup ToSet(rewrites))'
             <=> (phase'[d] \notin {"new", "deleted"} /\ ~Reported(d)')
          /\ d \in ToSet(rewrites)' => phase'[d] = "created" /\ d \notin Outstanding'
    BY <1>2 DEF Placed, Outstanding
  <2> QED BY <2>1 DEF Placed, Reported
<1>4. Windows'
  <2>1. \A d \in Contexts : phase'[d] # phase[d] => ~Unflushed(d)
    BY <1>2 DEF Windows
  <2>2. \A d \in Contexts : phase'[d] = "deleted" => phase[d] = "deleted" /\ starts'[d] = starts[d]
    BY DEF Started
  <2>3. \A d \in Contexts : Unflushed(d)' <=> Unflushed(d)
    BY DEF Unflushed
  <2>4. ASSUME NEW d \in Contexts
        PROVE  IF Unflushed(d)' THEN \/ phase'[d] = "new"
                                     \/ d \in ToSet(rewrites)
                                     \/ phase'[d] = "deleted" /\ starts'[d] = 0
               ELSE phase'[d] # "new" /\ d \notin ToSet(rewrites)
    BY <1>2, <2>1, <2>2, <2>3 DEF Windows
  <2>5. html = "start" => \A d \in Contexts : phase'[d] = "new"
    BY <1>2 DEF Windows
  <2> QED BY <2>4, <2>5 DEF Windows
<1>5. Started'
  <2>1. \A d \in Contexts : ~can_rewrite_resources => phase'[d] \in {"new", "deleted"}
    BY <1>2 DEF Started
  <2>2. \A d \in Contexts : num_predecessors'[d] = Cardinality(Ahead(d)')
    BY <1>1 DEF Started
  <2>3. \A d \in Contexts : starts'[d] = 1 => Ahead(d)' = {}
    BY <1>1 DEF Started
  <2> QED BY <2>1, <2>2, <2>3 DEF Started
<1>6. Unreported' = Unreported
  BY DEF Unreported
<1>7. Retired' = Retired
  <2>1. ASSUME NEW d \in Contexts PROVE d \in Retired' <=> d \in Retired
    <3>1. CASE phase'[d] # phase[d]
      BY <1>2, <3>1 DEF Retired, Reported
    <3>2. CASE phase'[d] = phase[d]
      BY <3>2 DEF Retired, Reported
    <3> QED BY <3>1, <3>2
  <2> QED BY <2>1 DEF Retired
<1> QED BY <1>1, <1>3, <1>4, <1>5, <1>6, <1>7

\* The sets that counts stand for.
SameSets ==
  /\ \A d \in Contexts : Ahead(d)' = Ahead(d)
  /\ Unreported' = Unreported /\ Retired' = Retired

\* A context that has started and is not reported complete is outstanding.
LEMMA BegunIsOutstanding ==
  ASSUME PageInv, NEW c \in Contexts,
         phase[c] \in AtWork \cup {"repeated"} \/ (phase[c] = "done" /\ c \in ToSet(retiring))
  PROVE  c \in Outstanding /\ c \notin ToSet(rewrites) /\ starts[c] = 1 /\ Ahead(c) = {} /\ ~Reported(c)
<1> USE DEF PageInv
<1>1. phase[c] \notin {"new", "created", "deleted"} /\ ~Reported(c)
  BY DEF Reported, AtWork
<1>2. starts[c] = 1
  BY <1>1 DEF Started
<1> QED BY <1>1, <1>2 DEF Placed, Started

\* A context at work goes on working.
LEMMA WorkGoesOn ==
  ASSUME PageInv, NEW c \in Contexts, phase[c] \in AtWork, NEW p \in AtWork, Phase(c, p),
         locked' \subseteq locked \cup {c},
         UNCHANGED <<pageVars, starts, num_predecessors, repeated, primary, retiring>>
  PROVE  /\ PageInv' /\ SameSets
         /\ phase'[c] = p /\ \A d \in Contexts \ {c} : phase'[d] = phase[d]
<1> USE DEF PageInv
<1>1. phase' \in [Contexts -> Phases] /\ phase'[c] = p /\ \A d \in Contexts \ {c} : phase'[d] = phase[d]
  BY DEF Phase, PageTypes, Phases
<1>2. c \in Outstanding /\ starts[c] = 1
  BY BegunIsOutstanding
<1>3. \A d \in Contexts : phase'[d] \in AtWork <=> phase[d] \in AtWork
  BY <1>1
<1>4. \A d \in Contexts : Reported(d)' <=> Reported(d)
  BY <1>1 DEF Reported, AtWork
<1>5. ASSUME NEW d \in Contexts
      PROVE  starts'[d] = IF phase'[d] \in {"new", "created"} THEN 0
                          ELSE IF phase'[d] = "deleted" THEN Held(can_rewrite_resources) ELSE 1
  <2>1. CASE d = c
    BY <1>1, <1>2, <2>1 DEF AtWork
  <2>2. CASE d # c
    BY <1>1, <2>2 DEF Started
  <2> QED BY <2>1, <2>2
<1>6. Placed' /\ Windows' /\ Started' /\ SameSets
  <2>1. \A d \in Contexts : phase'[d] # phase[d] =>
          d \in Outstanding /\ phase'[d] \in Phases \ {"new", "created", "deleted"}
    BY <1>1, <1>2 DEF AtWork, Phases
  <2>2. retiring' \in Seq(Contexts) /\ OnceEach(retiring')
    BY DEF PageTypes, Placed
  <2>3. \A d \in ToSet(retiring') : phase'[d] = "done"
    <3>1. \A d \in ToSet(retiring) : d \in Contexts /\ d # c /\ phase[d] = "done"
      BY Elements DEF Placed, PageTypes, AtWork
    <3> QED BY <1>1, <3>1
  <2> QED BY <1>4, <1>5, <2>1, <2>2, <2>3, PhasesMove DEF SameSets
<1>7. PageTypes'
  BY <1>1 DEF PageTypes, pageVars
<1>8. Works'
  BY <1>3 DEF Works, PageTypes
<1>9. Repeating'
  <2>1. \A d \in Contexts : phase[d] = "repeated" => phase'[d] = "repeated"
    BY <1>1 DEF AtWork
  <2>2. \A d \in Contexts : phase[d] \in {"done", "deleted"} => phase'[d] = phase[d]
    BY <1>1 DEF AtWork
  <2>3. \A d \in Contexts : ToSet(repeated[d]) \subseteq Contexts
    BY Elements DEF PageTypes
  <2> QED BY <1>3, <2>1, <2>2, <2>3 DEF Repeating
<1> QED BY <1>1, <1>6, <1>7, <1>8, <1>9

\* A context is finished, with those that repeat it.
LEMMA Finalized ==
  ASSUME PageInv, NEW c \in Contexts, phase[c] \in AtWork, retiring = <<>>,
         FinalizeRewriteForHtml(c), UNCHANGED <<pageVars, starts, num_predecessors, repeated>>
  PROVE  /\ PageInv' /\ SameSets
         /\ \A d \in Contexts \ {c} : phase'[d] = phase[d] \/ phase[d] = "repeated"
<1> USE DEF PageInv
<1> DEFINE All == ToSet(repeated[c]) \cup {c}
<1>1. /\ retiring' = Append(repeated[c], c) /\ locked' = locked \ {c}
      /\ primary' = [primary EXCEPT ![Key[c]] = IF @ = c THEN None ELSE @]
      /\ phase' = [d \in Contexts |-> IF d \in All THEN "done" ELSE phase[d]]
  BY DEF FinalizeRewriteForHtml
<1>2. repeated[c] \in Seq(Contexts) /\ ToSet(repeated[c]) \subseteq Contexts
  BY Elements DEF PageTypes
<1>3. OnceEach(repeated[c]) /\ c \notin ToSet(repeated[c])
  BY DEF Repeating
<1>4. \A d \in ToSet(repeated[c]) : phase[d] = "repeated" /\ Key[d] = Key[c]
  BY DEF Repeating
<1>5. /\ retiring' \in Seq(Contexts) /\ ToSet(retiring') = All /\ OnceEach(retiring')
      /\ All \subseteq Contexts
  BY <1>1, <1>2, <1>3, Appended
<1>6. \A d \in All : phase[d] \in AtWork \cup {"repeated"} /\ Key[d] = Key[c]
  BY <1>4
<1> HIDE DEF All
<1>7. \A d \in All : d \in Outstanding /\ starts[d] = 1 /\ ~Reported(d)
  BY <1>5, <1>6, BegunIsOutstanding
<1>8. /\ \A d \in Contexts : phase'[d] = IF d \in All THEN "done" ELSE phase[d]
      /\ phase' \in [Contexts -> Phases]
  BY <1>1 DEF PageTypes, Phases
<1>9. \A d \in Contexts : Reported(d)' <=> Reported(d)
  <2>1. ToSet(retiring) = {}
    BY EmptyElements
  <2>2. ASSUME NEW d \in All PROVE ~Reported(d)' /\ ~Reported(d)
    BY <1>5, <1>7, <1>8, <2>2 DEF Reported
  <2>3. ASSUME NEW d \in Contexts \ All PROVE Reported(d)' <=> Reported(d)
    BY <1>5, <1>8, <2>1, <2>3 DEF Reported
  <2> QED BY <2>2, <2>3
<1>10. ASSUME NEW d \in Contexts
       PROVE  starts'[d] = IF phase'[d] \in {"new", "created"} THEN 0
                           ELSE IF phase'[d] = "deleted" THEN Held(can_rewrite_resources) ELSE 1
  <2>1. CASE d \in All
    BY <1>7, <1>8, <2>1
  <2>2. CASE d \notin All
    BY <1>8, <2>2 DEF Started
  <2> QED BY <2>1, <2>2
<1>11. Placed' /\ Windows' /\ Started' /\ SameSets
  <2>1. \A d \in Contexts : phase'[d] # phase[d] =>
          d \in Outstanding /\ phase'[d] \in Phases \ {"new", "created", "deleted"}
    BY <1>7, <1>8 DEF Phases
  <2>2. \A d \in ToSet(retiring') : phase'[d] = "done"
    BY <1>5, <1>8
  <2> QED BY <1>5, <1>9, <1>10, <2>1, <2>2, PhasesMove DEF SameSets
<1>12. PageTypes'
  <2>1. primary' \in [Keys -> Contexts \cup {None}]
    BY <1>1 DEF PageTypes
  <2>2. locked' \subseteq Contexts
    BY <1>1 DEF PageTypes
  <2> QED BY <1>5, <1>8, <2>1, <2>2 DEF PageTypes, pageVars
<1>13. \A d \in Contexts : phase'[d] \in AtWork <=> (phase[d] \in AtWork /\ d # c)
  <2>1. "done" \notin AtWork /\ "repeated" \notin AtWork /\ c \in All
    BY DEF AtWork, All
  <2>2. \A d \in All : d # c => phase[d] = "repeated"
    BY <1>4 DEF All
  <2> QED BY <1>8, <2>1, <2>2
<1>14. Works'
  <2>1. Key[c] \in Keys /\ c # None /\ primary \in [Keys -> Contexts \cup {None}]
    BY ContextAssumption DEF PageTypes
  <2>2. primary[Key[c]] = c
    BY <2>1 DEF Works
  <2>3. ASSUME NEW d \in Contexts, NEW k \in Keys
        PROVE  primary'[k] = d <=> (Key[d] = k /\ phase'[d] \in AtWork)
    <3>1. d # None
      BY ContextAssumption
    <3>2. CASE k = Key[c]
      <4>1. primary'[k] = None
        BY <1>1, <2>1, <2>2, <3>2
      <4>2. Key[d] = k /\ phase[d] \in AtWork => d = c
        BY <2>2, <3>2 DEF Works
      <4> QED BY <1>13, <3>1, <4>1, <4>2
    <3>3. CASE k # Key[c]
      <4>1. primary'[k] = primary[k]
        BY <1>1, <2>1, <3>3
      <4> QED BY <1>13, <3>3, <4>1 DEF Works
    <3> QED BY <3>2, <3>3
  <2>4. \A d \in locked' : phase'[d] \in AtWork
    BY <1>1, <1>13 DEF Works, PageTypes
  <2> QED BY <2>3, <2>4 DEF Works
<1>15. Repeating'
  <2>1. ASSUME NEW d \in Contexts, repeated[d] # <<>>
        PROVE  phase'[d] \in AtWork \cup {"done", "deleted"}
    BY <1>8, <2>1 DEF Repeating
  <2>2. ASSUME NEW d \in Contexts, phase'[d] \in AtWork, NEW e \in ToSet(repeated[d])
        PROVE  phase'[e] = "repeated"
    <3>1. phase[d] \in AtWork /\ d # c
      BY <1>13, <2>2
    <3>2. phase[e] = "repeated" /\ Key[e] = Key[d] /\ e \in Contexts
      BY <2>2, <3>1, Elements DEF Repeating, PageTypes
    <3>3. Key[c] \in Keys /\ Key[d] \in Keys
      BY ContextAssumption
    <3>4. Key[d] # Key[c]
      BY <3>1, <3>3 DEF Works
    <3>5. e \notin All
      BY <1>6, <3>2, <3>4
    <3> QED BY <1>8, <3>2, <3>5
  <2> QED BY <2>1, <2>2 DEF Repeating
<1>16. \A d \in Contexts \ {c} : phase'[d] = phase[d] \/ phase[d] = "repeated"
  BY <1>4, <1>8 DEF All
<1> QED BY <1>11, <1>12, <1>14, <1>15, <1>16

\* A context starts: it is reported at once, works, or repeats the one at work.
LEMMA StartMoves ==
  ASSUME PageInv, NEW c \in Contexts, phase[c] = "created", c \in Outstanding, Ahead(c) = {},
         retiring = <<>>, starts' = [starts EXCEPT ![c] = @ + 1],
         NEW p \in {"done", "lookup", "repeated"}, Phase(c, p),
         retiring' = IF p = "done" THEN <<c>> ELSE <<>>,
         UNCHANGED <<pageVars, num_predecessors>>
  PROVE  /\ Placed' /\ Windows' /\ Started' /\ SameSets
         /\ phase' \in [Contexts -> Phases] /\ starts' \in [Contexts -> Nat]
         /\ retiring' \in Seq(Contexts) /\ p \in Phases
         /\ phase'[c] = p /\ \A d \in Contexts \ {c} : phase'[d] = phase[d]
<1> USE DEF PageInv
<1>1. /\ phase' \in [Contexts -> Phases] /\ phase'[c] = p
      /\ \A d \in Contexts \ {c} : phase'[d] = phase[d]
  BY DEF Phase, PageTypes, Phases, AtWork
<1>2. /\ starts' \in [Contexts -> Nat] /\ starts'[c] = 1
      /\ \A d \in Contexts \ {c} : starts'[d] = starts[d]
  <2>1. starts[c] = 0
    BY DEF Started
  <2> QED BY <2>1 DEF PageTypes
<1>3. retiring' \in Seq(Contexts) /\ OnceEach(retiring') /\ \A d \in ToSet(retiring') : d = c /\ p = "done"
  <2>1. CASE p = "done"
    BY <2>1, Singleton
  <2>2. CASE p # "done"
    BY <2>2, EmptyElements DEF OnceEach
  <2> QED BY <2>1, <2>2
<1>4. ToSet(retiring) = {} /\ (p = "done" => c \in ToSet(retiring'))
  BY EmptyElements, Singleton
<1>5. ~Reported(c)
  BY DEF Reported
<1>6. \A d \in Contexts : Reported(d)' <=> Reported(d)
  <2>1. ~Reported(c)'
    BY <1>1, <1>4 DEF Reported
  <2>2. \A d \in Contexts \ {c} : Reported(d)' <=> Reported(d)
    BY <1>1, <1>2, <1>3, <1>4 DEF Reported
  <2> QED BY <1>5, <2>1, <2>2
<1>7. ASSUME NEW d \in Contexts
      PROVE  starts'[d] = IF phase'[d] \in {"new", "created"} THEN 0
                          ELSE IF phase'[d] = "deleted" THEN Held(can_rewrite_resources) ELSE 1
  <2>1. CASE d = c
    BY <1>1, <1>2, <2>1
  <2>2. CASE d # c
    BY <1>1, <1>2, <2>2 DEF Started
  <2> QED BY <2>1, <2>2
<1>8. \A d \in Contexts : phase'[d] # phase[d] =>
        d \in Outstanding /\ phase'[d] \in Phases \ {"new", "created", "deleted"}
  BY <1>1 DEF Phases, AtWork
<1>9. \A d \in Contexts : starts'[d] = 1 /\ starts[d] # 1 => Ahead(d) = {}
  BY <1>2
<1>10. \A d \in ToSet(retiring') : phase'[d] = "done"
  BY <1>1, <1>3
<1>11. Placed' /\ Windows' /\ Started' /\ SameSets
  BY <1>3, <1>6, <1>7, <1>8, <1>9, <1>10, PhasesMove DEF SameSets
<1> QED BY <1>1, <1>2, <1>3, <1>11 DEF Phases, AtWork

\* Start of a context that may not follow what ran before it on its slots.
LEMMA StartReports ==
  ASSUME PageInv, NEW c \in Contexts, phase[c] = "created", c \in Outstanding, Ahead(c) = {},
         retiring = <<>>, starts' = [starts EXCEPT ![c] = @ + 1],
         retiring' = <<c>>, Phase(c, "done"),
         UNCHANGED <<pageVars, num_predecessors, repeated, primary, locked>>
  PROVE  PageInv' /\ SameSets /\ \A d \in Contexts \ {c} : phase'[d] = phase[d]
<1> USE DEF PageInv
<1>1. /\ Placed' /\ Windows' /\ Started' /\ SameSets
      /\ phase' \in [Contexts -> Phases] /\ starts' \in [Contexts -> Nat]
      /\ retiring' \in Seq(Contexts)
      /\ phase'[c] = "done" /\ \A d \in Contexts \ {c} : phase'[d] = phase[d]
  BY StartMoves
<1>2. PageTypes'
  BY <1>1 DEF PageTypes, pageVars
<1>3. Works'
  <2>1. \A d \in Contexts : phase'[d] \in AtWork <=> phase[d] \in AtWork
    BY <1>1 DEF AtWork
  <2> QED BY <2>1 DEF Works, PageTypes
<1>4. Repeating'
  <2>1. \A d \in Contexts : phase'[d] \in AtWork => phase[d] \in AtWork
    BY <1>1 DEF AtWork
  <2>2. \A d \in Contexts : ToSet(repeated[d]) \subseteq Contexts
    BY Elements DEF PageTypes
  <2>3. \A d \in Contexts : phase[d] = "repeated" => phase'[d] = "repeated"
    BY <1>1
  <2>4. \A d \in Contexts : repeated[d] # <<>> => phase'[d] \in AtWork \cup {"done", "deleted"}
    BY <1>1 DEF Repeating
  <2> QED BY <2>1, <2>2, <2>3, <2>4 DEF Repeating
<1> QED BY <1>1, <1>2, <1>3, <1>4

\* Start of the first context of its key.
LEMMA StartWorks ==
  ASSUME PageInv, NEW c \in Contexts, phase[c] = "created", c \in Outstanding, Ahead(c) = {},
         retiring = <<>>, starts' = [starts EXCEPT ![c] = @ + 1],
         primary[Key[c]] = None, primary' = [primary EXCEPT ![Key[c]] = c], Phase(c, "lookup"),
         UNCHANGED <<pageVars, num_predecessors, repeated, retiring, locked>>
  PROVE  PageInv' /\ SameSets /\ \A d \in Contexts \ {c} : phase'[d] = phase[d]
<1> USE DEF PageInv
<1>1. /\ Placed' /\ Windows' /\ Started' /\ SameSets
      /\ phase' \in [Contexts -> Phases] /\ starts' \in [Contexts -> Nat]
      /\ retiring' \in Seq(Contexts)
      /\ phase'[c] = "lookup" /\ \A d \in Contexts \ {c} : phase'[d] = phase[d]
  BY StartMoves
<1>2. PageTypes'
  BY <1>1 DEF PageTypes, pageVars
<1>3. Works'
  <2>1. ASSUME NEW d \in Contexts, NEW k \in Keys
        PROVE  primary'[k] = d <=> (Key[d] = k /\ phase'[d] \in AtWork)
    <3>1. d # None /\ Key[c] \in Keys /\ primary \in [Keys -> Contexts \cup {None}]
      BY ContextAssumption DEF PageTypes
    <3>2. CASE d = c
      BY <1>1, <3>1, <3>2 DEF Works, AtWork
    <3>3. CASE d # c
      BY <1>1, <3>1, <3>3 DEF Works
    <3> QED BY <3>2, <3>3
  <2>2. \A d \in locked : phase'[d] \in AtWork
    BY <1>1 DEF Works, AtWork, PageTypes
  <2> QED BY <2>1, <2>2 DEF Works
<1>4. Repeating'
  <2>1. repeated[c] = <<>>
    BY DEF Repeating, AtWork
  <2>2. ToSet(repeated[c]) = {}
    BY <2>1, EmptyElements
  <2>3. \A d \in Contexts : ToSet(repeated[d]) \subseteq Contexts
    BY Elements DEF PageTypes
  <2>4. \A d \in Contexts : phase[d] = "repeated" => phase'[d] = "repeated"
    BY <1>1
  <2>5. \A d \in Contexts : repeated[d] # <<>> => phase'[d] \in AtWork \cup {"done", "deleted"}
    BY <1>1, <2>1 DEF Repeating
  <2>6. \A d \in Contexts : phase'[d] \in AtWork => d = c \/ phase[d] \in AtWork
    BY <1>1
  <2> QED BY <2>2, <2>3, <2>4, <2>5, <2>6 DEF Repeating
<1> QED BY <1>1, <1>2, <1>3, <1>4

\* Start of a context that repeats another.
LEMMA StartRepeats ==
  ASSUME PageInv, NEW c \in Contexts, phase[c] = "created", c \in Outstanding, Ahead(c) = {},
         retiring = <<>>, starts' = [starts EXCEPT ![c] = @ + 1],
         primary[Key[c]] # None,
         repeated' = [repeated EXCEPT ![primary[Key[c]]] = Append(@, c)], Phase(c, "repeated"),
         UNCHANGED <<pageVars, num_predecessors, primary, retiring, locked>>
  PROVE  PageInv' /\ SameSets /\ \A d \in Contexts \ {c} : phase'[d] = phase[d]
<1> USE DEF PageInv
<1>1. /\ Placed' /\ Windows' /\ Started' /\ SameSets
      /\ phase' \in [Contexts -> Phases] /\ starts' \in [Contexts -> Nat]
      /\ retiring' \in Seq(Contexts)
      /\ phase'[c] = "repeated" /\ \A d \in Contexts \ {c} : phase'[d] = phase[d]
  BY StartMoves
<1>2. PICK p \in Contexts : p = primary[Key[c]]
  BY ContextAssumption DEF PageTypes
<1>3. Key[p] = Key[c] /\ phase[p] \in AtWork /\ p # c
  BY <1>2, ContextAssumption DEF Works, AtWork
<1>4. /\ \A d \in Contexts : repeated[d] \in Seq(Contexts) /\ ToSet(repeated[d]) \subseteq Contexts
      /\ repeated' = [repeated EXCEPT ![p] = Append(repeated[p], c)]
      /\ \A d \in Contexts \ {p} : repeated'[d] = repeated[d]
      /\ repeated'[p] = Append(repeated[p], c)
  BY <1>2, Elements DEF PageTypes
<1>5. c \notin ToSet(repeated[p])
  BY <1>3 DEF Repeating
<1>6. /\ repeated'[p] \in Seq(Contexts) /\ ToSet(repeated'[p]) = ToSet(repeated[p]) \cup {c}
      /\ OnceEach(repeated'[p])
  BY <1>4, <1>5, Appended DEF Repeating
<1>7. PageTypes'
  <2>1. repeated' \in [Contexts -> Seq(Contexts)]
    BY <1>4, <1>6 DEF PageTypes
  <2> QED BY <1>1, <2>1 DEF PageTypes, pageVars
<1>8. \A d \in Contexts : phase'[d] \in AtWork <=> phase[d] \in AtWork
  BY <1>1 DEF AtWork
<1>9. Works'
  BY <1>8 DEF Works, PageTypes
<1>10. Repeating'
  <2>1. \A d \in Contexts : phase[d] = "repeated" => phase'[d] = "repeated"
    BY <1>1
  <2>2. repeated[c] = <<>> /\ repeated'[c] = repeated[c]
    BY <1>3, <1>4 DEF Repeating, AtWork
  <2>3. ASSUME NEW d \in Contexts
        PROVE  /\ OnceEach(repeated'[d])
               /\ \A e \in ToSet(repeated'[d]) : Key[e] = Key[d] /\ e # d
               /\ repeated'[d] # <<>> => phase'[d] \in AtWork \cup {"done", "deleted"}
               /\ phase'[d] \in AtWork => \A e \in ToSet(repeated'[d]) : phase'[e] = "repeated"
    <3>1. CASE d = p
      BY <1>1, <1>3, <1>4, <1>6, <1>8, <2>1, <3>1 DEF Repeating
    <3>2. CASE d # p
      <4>1. repeated'[d] = repeated[d]
        BY <1>4, <3>2
      <4>2. repeated'[d] # <<>> => phase'[d] \in AtWork \cup {"done", "deleted"}
        BY <1>1, <2>2, <4>1 DEF Repeating
      <4>3. phase'[d] \in AtWork => \A e \in ToSet(repeated'[d]) : phase'[e] = "repeated"
        BY <1>4, <1>8, <2>1, <4>1 DEF Repeating
      <4> QED BY <4>1, <4>2, <4>3 DEF Repeating
    <3> QED BY <3>1, <3>2
  <2> QED BY <2>3 DEF Repeating
<1> QED BY <1>1, <1>7, <1>9, <1>10

-----------------------------------------------------------------------------
(* The end of a context.                                                   *)

\* The successors that a context holds up alone can start once it is reported.
LEMMA SuccessorsReady ==
  ASSUME PageInv, HtmlTasks, NEW c \in Contexts, phase[c] = "done", c \in ToSet(retiring)
  PROVE  /\ RunSuccessors(c) \in Seq(Contexts) /\ OnceEach(RunSuccessors(c))
         /\ \A d \in ToSet(RunSuccessors(c)) :
              /\ Ahead(d) = {c} /\ phase[d] = "created" /\ d \in Outstanding
              /\ \A op : <<op, d>> \notin ToSet(tasks)
<1> USE DEF PageInv
<1> DEFINE Ready == {d \in Successors[c] : num_predecessors[d] = 1}
<1>1. c \in Outstanding /\ ~Reported(c) /\ starts[c] = 1
  BY BegunIsOutstanding
<1>2. Ready \subseteq Contexts /\ IsFiniteSet(Ready)
  <2>1. Ready \subseteq Contexts
    BY SuccessorsAssumption
  <2> QED BY <2>1, ContextAssumption, FS_Subset
<1>3. SetToSeq(Ready) \in Seq(Ready) /\ OnceEach(SetToSeq(Ready))
  BY <1>2, SequencesOfSet
<1>4. RunSuccessors(c) \in Seq(Ready) /\ OnceEach(RunSuccessors(c))
  BY <1>3 DEF RunSuccessors
<1>5. RunSuccessors(c) \in Seq(Contexts)
  BY <1>2, <1>4
<1>6. ToSet(RunSuccessors(c)) \subseteq Ready
  BY <1>4, Elements
<1>7. ASSUME NEW d \in Ready
      PROVE  /\ Ahead(d) = {c} /\ phase[d] = "created" /\ d \in Outstanding
             /\ \A op : <<op, d>> \notin ToSet(tasks)
  <2>1. d \in Contexts /\ d \in Successors[c] /\ num_predecessors[d] = 1
    BY <1>2, <1>7
  <2>2. c \in Ahead(d) /\ Ahead(d) \subseteq Contexts
    BY <1>1, <2>1 DEF Ahead, Predecessors
  <2>3. Ahead(d) = {c}
    <3>1. Cardinality(Ahead(d)) = 1 /\ IsFiniteSet(Ahead(d))
      BY <2>1, <2>2, CountedSets DEF Started
    <3>2. PICK e : Ahead(d) = {e}
      BY <3>1, FS_Singleton
    <3> QED BY <2>2, <3>2
  <2>4. phase[d] \in {"new", "created"}
    <3>1. starts[d] # 1
      BY <2>1, <2>3 DEF Started
    <3>2. can_rewrite_resources
      BY DEF Started, PageTypes
    <3> QED BY <2>1, <3>1, <3>2 DEF Started, Held
  <2>5. phase[d] # "new" /\ d \notin ToSet(rewrites)
    <3>1. ~Unflushed(c)
      BY <1>1 DEF Windows, Placed
    <3>2. ~Unflushed(d)
      BY <2>1, <3>1, WindowFacts DEF Unflushed
    <3> QED BY <2>1, <3>2 DEF Windows
  <2>6. d \in Outstanding
    BY <2>1, <2>4, <2>5 DEF Placed, Reported
  <2>7. \A op : <<op, d>> \notin ToSet(tasks)
    <3> SUFFICES ASSUME NEW op, <<op, d>> \in ToSet(tasks) PROVE FALSE
      OBVIOUS
    <3>1. op \in HtmlOps
      <4>1. <<op, d>> \in HtmlOps \X Contexts
        BY Elements DEF HtmlTasks
      <4> QED BY <4>1
    <3> QED BY <2>1, <2>3, <2>4, <2>5, <3>1 DEF HtmlTasks, HasTask
  <2> QED BY <2>3, <2>4, <2>5, <2>6, <2>7
<1> QED BY <1>4, <1>5, <1>6, <1>7

\* A context is reported complete.
LEMMA Completed ==
  ASSUME PageInv, HtmlTasks, retiring # <<>>, NEW c, c = Head(retiring), retiring' = Tail(retiring),
         initiated' = initiated \ {c}, detached' = detached \ {c},
         num_predecessors' = [d \in Contexts |-> IF d \in Successors[c] THEN num_predecessors[d] - 1
                                                 ELSE num_predecessors[d]],
         tasks' = Append(tasks \o StartTasks(RunSuccessors(c)), <<"DeleteRewriteContext", c>>),
         UNCHANGED <<html, window, can_rewrite_resources, rewrites,
                     phase, starts, repeated, primary, locked>>
  PROVE  /\ PageInv' /\ HtmlTasks' /\ c \in Contexts /\ c \in Outstanding
         /\ Unreported' = Unreported \ {c}
         /\ c \notin Retired /\ Retired' = Retired \cup {c}
<1> USE DEF PageInv
<1>1. /\ c \in Contexts /\ retiring' \in Seq(Contexts) /\ c \in ToSet(retiring)
      /\ ToSet(retiring) = {c} \cup ToSet(retiring')
      /\ OnceEach(retiring') /\ c \notin ToSet(retiring')
  BY HeadAndTail DEF PageTypes, Placed
<1>2. phase[c] = "done"
  BY <1>1 DEF Placed
<1>3. /\ c \in Outstanding /\ c \notin ToSet(rewrites) /\ starts[c] = 1
      /\ Ahead(c) = {} /\ ~Reported(c)
  BY <1>1, <1>2, BegunIsOutstanding
<1>4. \A d \in Contexts : Reported(d)' <=> (Reported(d) \/ d = c)
  BY <1>1, <1>2 DEF Reported
<1>5. \A d \in Contexts : Ahead(d)' = Ahead(d) \ {c} /\ Ahead(d) \subseteq Contexts
  BY <1>4 DEF Ahead, Predecessors
<1>6. \A d \in Contexts : c \in Ahead(d) <=> d \in Successors[c]
  BY <1>1, <1>3 DEF Ahead, Predecessors
<1>7. ASSUME NEW d \in Contexts
      PROVE  num_predecessors'[d] \in Nat /\ num_predecessors'[d] = Cardinality(Ahead(d)')
  <2>1. num_predecessors[d] = Cardinality(Ahead(d)) /\ num_predecessors[d] \in Nat
    BY DEF Started, PageTypes
  <2>2. CASE d \in Successors[c]
    <3>1. /\ Cardinality(Ahead(d) \ {c}) = Cardinality(Ahead(d)) - 1
          /\ Cardinality(Ahead(d)) > 0
      BY <1>5, <1>6, <2>2, CountedSets
    <3>2. num_predecessors'[d] = num_predecessors[d] - 1
      BY <2>2
    <3>3. Cardinality(Ahead(d)') = Cardinality(Ahead(d)) - 1
      BY <1>5, <3>1
    <3> QED BY <2>1, <3>1, <3>2, <3>3
  <2>3. CASE d \notin Successors[c]
    <3>1. Ahead(d) \ {c} = Ahead(d)
      BY <1>6, <2>3
    <3>2. num_predecessors'[d] = num_predecessors[d]
      BY <2>3
    <3> QED BY <1>5, <2>1, <3>1, <3>2
  <2> QED BY <2>2, <2>3
<1>8. PageTypes'
  <2>1. num_predecessors' \in [Contexts -> Nat]
    BY <1>7
  <2> QED BY <1>1, <2>1 DEF PageTypes
<1>9. Placed'
  <2>1. \A d \in Contexts :
          /\ d \in (Outstanding \cup ToSet(rewrites))'
             <=> (phase'[d] \notin {"new", "deleted"} /\ ~Reported(d)')
          /\ d \in ToSet(rewrites)' => phase'[d] = "created" /\ d \notin Outstanding'
    BY <1>3, <1>4 DEF Placed, Outstanding
  <2> QED BY <1>1, <2>1 DEF Placed
<1>10. Windows'
  BY DEF Windows, Unflushed
<1>11. Started'
  BY <1>5, <1>7 DEF Started
<1>12. Works' /\ Repeating'
  BY DEF Works, Repeating
<1>13. Unreported' = Unreported \ {c}
  BY <1>3 DEF Unreported
<1>14. c \notin Retired /\ Retired' = Retired \cup {c}
  BY <1>1, <1>2 DEF Retired
<1>15. HtmlTasks'
  <2> DEFINE s == RunSuccessors(c)
             q == tasks \o StartTasks(s)
  <2>1. /\ s \in Seq(Contexts) /\ OnceEach(s)
        /\ \A d \in ToSet(s) : Ahead(d) = {c} /\ phase[d] = "created" /\ d \in Outstanding
                               /\ \A op : <<op, d>> \notin ToSet(tasks)
    BY <1>1, <1>2, SuccessorsReady
  <2> HIDE DEF s
  <2>2. /\ q \in Seq(HtmlOps \X Contexts) /\ OneTaskEach(q)
        /\ ToSet(q) = ToSet(tasks) \cup {<<"Start", d>> : d \in ToSet(s)}
    BY <2>1, ContextsStarted DEF HtmlTasks
  <2>3. \A op : <<op, c>> \notin ToSet(tasks)
    <3> SUFFICES ASSUME NEW op, <<op, c>> \in ToSet(tasks) PROVE FALSE
      OBVIOUS
    <3>1. op \in HtmlOps
      <4>1. <<op, c>> \in HtmlOps \X Contexts
        BY Elements DEF HtmlTasks
      <4> QED BY <4>1
    <3> QED BY <1>1, <1>2, <3>1 DEF HtmlTasks, HasTask
  <2>4. \A op : <<op, c>> \notin ToSet(q)
    BY <1>2, <2>1, <2>2, <2>3
  <2> HIDE DEF q
  <2>5. /\ tasks' \in Seq(HtmlOps \X Contexts) /\ OneTaskEach(tasks')
        /\ ToSet(tasks') = ToSet(q) \cup {<<"DeleteRewriteContext", c>>}
    <3>1. "DeleteRewriteContext" \in HtmlOps
      BY DEF HtmlOps
    <3>2. tasks' = Append(q, <<"DeleteRewriteContext", c>>)
      BY DEF q, s
    <3>3. \A r \in Seq(HtmlOps \X Contexts) :
            OneTaskEach(r) /\ (\A o : <<o, c>> \notin ToSet(r)) =>
              LET p == Append(r, <<"DeleteRewriteContext", c>>)
              IN  /\ p \in Seq(HtmlOps \X Contexts) /\ OneTaskEach(p)
                  /\ ToSet(p) = ToSet(r) \cup {<<"DeleteRewriteContext", c>>}
      BY <1>1, <3>1, TaskAdded
    <3> QED BY <1>1, <2>2, <2>4, <3>2, <3>3
  <2>6. ASSUME NEW op \in HtmlOps, NEW d \in Contexts, <<op, d>> \in ToSet(tasks')
        PROVE  IF op = "Start" THEN phase[d] = "created" /\ d \in Outstanding' /\ Ahead(d)' = {}
               ELSE IF op = "DeleteRewriteContext"
               THEN phase[d] = "done" /\ d \notin ToSet(retiring')
               ELSE phase[d] = "queued"
    <3>1. CASE <<op, d>> \in ToSet(tasks)
      <4>1. IF op = "Start" THEN phase[d] = "created" /\ d \in Outstanding /\ Ahead(d) = {}
            ELSE IF op = "DeleteRewriteContext" THEN phase[d] = "done" /\ d \notin ToSet(retiring)
            ELSE phase[d] = "queued"
        BY <3>1 DEF HtmlTasks, HasTask
      <4>2. CASE op = "Start"
        BY <1>2, <1>5, <4>1, <4>2 DEF Outstanding
      <4>3. CASE op # "Start"
        BY <1>1, <4>1, <4>3
      <4> QED BY <4>2, <4>3
    <3>2. CASE op = "Start" /\ d \in ToSet(s)
      <4>1. Ahead(d) = {c} /\ phase[d] = "created" /\ d \in Outstanding
        BY <2>1, <3>2
      <4> QED BY <1>2, <1>5, <3>2, <4>1 DEF Outstanding
    <3>3. CASE op = "DeleteRewriteContext" /\ d = c
      BY <1>1, <1>2, <3>3
    <3> QED BY <2>2, <2>5, <2>6, <3>1, <3>2, <3>3
  <2> QED BY <2>5, <2>6 DEF HtmlTasks, HasTask
<1> QED BY <1>1, <1>3, <1>8, <1>9, <1>10, <1>11, <1>12, <1>13, <1>14, <1>15

\* A context is deleted.
LEMMA Deleted ==
  ASSUME PageInv, NEW c \in Contexts, c \in Retired, Phase(c, "deleted"),
         UNCHANGED <<pageVars, starts, num_predecessors, repeated, primary, locked, retiring>>
  PROVE  /\ PageInv' /\ Unreported' = Unreported /\ Retired' = Retired \ {c}
         /\ \A d \in Contexts : Ahead(d)' = Ahead(d)
         /\ \A d \in Contexts \ {c} : phase'[d] = phase[d]
<1> USE DEF PageInv, pageVars
<1>1. /\ phase' \in [Contexts -> Phases] /\ phase'[c] = "deleted"
      /\ \A d \in Contexts \ {c} : phase'[d] = phase[d]
  BY DEF Phase, PageTypes, Phases
<1>2. phase[c] = "done" /\ c \notin ToSet(retiring) /\ Reported(c)
  BY DEF Retired, Reported
<1>3. starts[c] = 1 /\ can_rewrite_resources
  BY <1>2 DEF Started
<1>4. \A d \in Contexts : Reported(d)' <=> Reported(d)
  <2>1. Reported(c)'
    BY <1>1, <1>3 DEF Reported
  <2>2. \A d \in Contexts \ {c} : Reported(d)' <=> Reported(d)
    BY <1>1 DEF Reported
  <2> QED BY <1>2, <2>1, <2>2
<1>5. \A d \in Contexts : Ahead(d)' = Ahead(d)
  BY <1>4 DEF Ahead, Predecessors
<1>6. PageTypes'
  BY <1>1 DEF PageTypes
<1>7. Placed'
  <2>1. \A d \in Contexts :
          /\ d \in (Outstanding \cup ToSet(rewrites))'
             <=> (phase'[d] \notin {"new", "deleted"} /\ ~Reported(d)')
          /\ d \in ToSet(rewrites)' => phase'[d] = "created" /\ d \notin Outstanding'
    BY <1>1, <1>2, <1>4 DEF Placed, Outstanding
  <2>2. \A d \in ToSet(retiring) : d \in Contexts /\ phase'[d] = "done"
    BY <1>1, <1>2, Elements DEF Placed, PageTypes
  <2> QED BY <2>1, <2>2 DEF Placed
<1>8. Windows'
  <2>1. ~Unflushed(c) /\ c \notin ToSet(rewrites) /\ html # "start"
    BY <1>2 DEF Windows, Placed
  <2>2. \A d \in Contexts : Unflushed(d)' <=> Unflushed(d)
    BY DEF Unflushed
  <2>3. ASSUME NEW d \in Contexts
        PROVE  IF Unflushed(d)' THEN \/ phase'[d] = "new"
                                     \/ d \in ToSet(rewrites)
                                     \/ phase'[d] = "deleted" /\ starts[d] = 0
               ELSE phase'[d] # "new" /\ d \notin ToSet(rewrites)
    BY <1>1, <2>1, <2>2 DEF Windows
  <2> QED BY <2>1, <2>3 DEF Windows
<1>9. Started'
  <2>1. ASSUME NEW d \in Contexts
        PROVE  starts[d] = IF phase'[d] \in {"new", "created"} THEN 0
                           ELSE IF phase'[d] = "deleted" THEN Held(can_rewrite_resources) ELSE 1
    <3>1. CASE d = c
      BY <1>1, <1>3, <3>1 DEF Held
    <3>2. CASE d # c
      BY <1>1, <3>2 DEF Started
    <3> QED BY <3>1, <3>2
  <2>2. \A d \in Contexts : num_predecessors[d] = Cardinality(Ahead(d)')
    BY <1>5 DEF Started
  <2>3. \A d \in Contexts : starts[d] = 1 => Ahead(d)' = {}
    BY <1>5 DEF Started
  <2> QED BY <1>3, <2>1, <2>2, <2>3 DEF Started
<1>10. Works'
  <2>1. \A d \in Contexts : phase'[d] \in AtWork <=> phase[d] \in AtWork
    BY <1>1, <1>2 DEF AtWork
  <2> QED BY <2>1 DEF Works, PageTypes
<1>11. Repeating'
  <2>1. \A d \in Contexts : phase'[d] \in AtWork => phase[d] \in AtWork
    BY <1>1 DEF AtWork
  <2>2. \A d \in Contexts : ToSet(repeated[d]) \subseteq Contexts
    BY Elements DEF PageTypes
  <2>3. \A d \in Contexts : phase[d] = "repeated" => phase'[d] = "repeated"
    BY <1>1, <1>2
  <2>4. \A d \in Contexts : repeated[d] # <<>> => phase'[d] \in AtWork \cup {"done", "deleted"}
    BY <1>1 DEF Repeating
  <2> QED BY <2>1, <2>2, <2>3, <2>4 DEF Repeating
<1>12. Unreported' = Unreported /\ Retired' = Retired \ {c}
  <2>1. Retired' = Retired \ {c}
    BY <1>1, <1>2 DEF Retired
  <2> QED BY <2>1 DEF Unreported
<1> QED BY <1>1, <1>5, <1>6, <1>7, <1>8, <1>9, <1>10, <1>11, <1>12

-----------------------------------------------------------------------------
(* The HTML thread.                                                        *)

\* The thread goes on; the contexts are as they were.
LEMMA PageWaits ==
  ASSUME PageInv, fetch = "unused" => HtmlTasks,
         UNCHANGED <<window, rewrites, initiated, detached, contextVars, tasks, fetch>>,
         html' \in {"parsing", "waiting", "finishing", "cleanup", "finished"},
         can_rewrite_resources' = can_rewrite_resources \/ html = "start",
         can_rewrite_resources' \in BOOLEAN,
         html \in {"start", "parsing", "unused"} <=> html' = "parsing",
         rewrites # <<>> => html' = "parsing",
         initiated # {} => html' = "waiting",
         html' \in {"finishing", "cleanup", "finished"} => window = Len(Page)
  PROVE  PageInv' /\ (fetch' = "unused" => HtmlTasks') /\ SameSets
<1> USE DEF PageInv, contextVars
<1>1. \A d \in Contexts : Reported(d)' <=> Reported(d)
  BY DEF Reported
<1>2. \A d \in Contexts : Ahead(d)' = Ahead(d)
  BY <1>1 DEF Ahead, Predecessors
<1>3. SameSets
  BY <1>2 DEF SameSets, Unreported, Retired
<1>4. PageTypes'
  BY DEF PageTypes
<1>5. Placed'
  BY DEF Placed, Reported, Outstanding
<1>6. Windows'
  <2>1. \A d \in Contexts : Unflushed(d)' <=> Unflushed(d)
    BY DEF Unflushed
  <2> QED BY <2>1 DEF Windows
<1>7. Started'
  <2>1. \A d \in Contexts : /\ num_predecessors'[d] = Cardinality(Ahead(d)')
                            /\ starts'[d] = 1 => Ahead(d)' = {}
    BY <1>2 DEF Started
  <2>2. CASE can_rewrite_resources' = can_rewrite_resources
    BY <2>1, <2>2 DEF Started
  <2>3. CASE html = "start"
    <3>1. \A d \in Contexts : phase[d] = "new"
      BY <2>3 DEF Windows
    <3> QED BY <2>1, <3>1 DEF Started
  <2> QED BY <2>2, <2>3
<1>8. Works' /\ Repeating'
  BY DEF Works, Repeating
<1>9. ASSUME fetch' = "unused" PROVE HtmlTasks'
  BY <1>2, <1>9 DEF HtmlTasks, HasTask, Outstanding
<1> QED BY <1>3, <1>4, <1>5, <1>6, <1>7, <1>8, <1>9

\* The next context of the window is parsed.
LEMMA ContextParsed ==
  ASSUME PageInv, HtmlTasks, html = "parsing", NEW c \in Contexts, phase[c] = "new", WindowOf(c) = window,
         IF can_rewrite_resources THEN rewrites' = Append(rewrites, c) /\ Phase(c, "created")
                                  ELSE rewrites' = rewrites /\ Phase(c, "deleted"),
         UNCHANGED <<html, window, can_rewrite_resources, initiated, detached, tasks,
                     starts, num_predecessors, repeated, primary, locked, retiring>>
  PROVE  /\ PageInv' /\ HtmlTasks' /\ Retired' = Retired
         /\ c \notin Unreported
         /\ Unreported' = IF can_rewrite_resources THEN Unreported \cup {c} ELSE Unreported
         /\ phase'[c] # "new" /\ \A d \in Contexts \ {c} : phase'[d] = phase[d]
<1> USE DEF PageInv
<1> DEFINE p == IF can_rewrite_resources THEN "created" ELSE "deleted"
<1>1. /\ phase' \in [Contexts -> Phases] /\ phase'[c] = p
      /\ \A d \in Contexts \ {c} : phase'[d] = phase[d]
  BY DEF Phase, PageTypes, Phases
<1>2. c \notin Outstanding /\ c \notin ToSet(rewrites) /\ starts[c] = 0 /\ ~Reported(c)
  BY DEF Placed, Started, Reported
<1>3. /\ rewrites' \in Seq(Contexts) /\ OnceEach(rewrites')
      /\ ToSet(rewrites') = IF can_rewrite_resources THEN ToSet(rewrites) \cup {c} ELSE ToSet(rewrites)
  <2>1. rewrites \in Seq(Contexts) /\ OnceEach(rewrites)
    BY DEF PageTypes, Placed
  <2>2. CASE can_rewrite_resources
    <3>1. rewrites' = Append(rewrites, c)
      BY <2>2
    <3> HIDE DEF PageInv
    <3>2. /\ Append(rewrites, c) \in Seq(Contexts) /\ OnceEach(Append(rewrites, c))
          /\ ToSet(Append(rewrites, c)) = ToSet(rewrites) \cup {c}
      BY <1>2, <2>1, Appended
    <3> QED BY <2>2, <3>1, <3>2
  <2>3. CASE ~can_rewrite_resources
    BY <2>1, <2>3
  <2> QED BY <2>2, <2>3
<1>4. \A d \in Contexts : Reported(d)' <=> Reported(d)
  <2>1. ~Reported(c)'
    BY <1>1, <1>2 DEF Reported
  <2>2. \A d \in Contexts \ {c} : Reported(d)' <=> Reported(d)
    BY <1>1 DEF Reported
  <2> QED BY <1>2, <2>1, <2>2
<1>5. \A d \in Contexts : Ahead(d)' = Ahead(d)
  BY <1>4 DEF Ahead, Predecessors
<1>6. PageTypes'
  BY <1>1, <1>3 DEF PageTypes
<1>7. Placed'
  <2>1. \A d \in Contexts :
          /\ d \in (Outstanding \cup ToSet(rewrites))'
             <=> (phase'[d] \notin {"new", "deleted"} /\ ~Reported(d)')
          /\ d \in ToSet(rewrites)' => phase'[d] = "created" /\ d \notin Outstanding'
    <3> TAKE d \in Contexts
    <3>1. CASE d = c
      <4>1. CASE can_rewrite_resources
        BY <1>1, <1>2, <1>3, <1>4, <3>1, <4>1 DEF Outstanding
      <4>2. CASE ~can_rewrite_resources
        BY <1>1, <1>2, <1>3, <1>4, <3>1, <4>2 DEF Outstanding
      <4> QED BY <4>1, <4>2
    <3>2. CASE d # c
      BY <1>1, <1>3, <1>4, <3>2 DEF Placed, Outstanding
    <3> QED BY <3>1, <3>2
  <2>2. \A d \in ToSet(retiring) : d \in Contexts /\ d # c /\ phase[d] = "done"
    BY Elements DEF Placed, PageTypes
  <2>3. \A d \in ToSet(retiring') : phase'[d] = "done"
    BY <1>1, <2>2
  <2> QED BY <1>3, <2>1, <2>3 DEF Placed
<1>8. Windows'
  <2>1. \A d \in Contexts : Unflushed(d)' <=> Unflushed(d)
    BY DEF Unflushed
  <2>2. ASSUME NEW d \in Contexts
        PROVE  IF Unflushed(d)' THEN \/ phase'[d] = "new"
                                     \/ d \in ToSet(rewrites')
                                     \/ phase'[d] = "deleted" /\ starts[d] = 0
               ELSE phase'[d] # "new" /\ d \notin ToSet(rewrites')
    <3>1. CASE d = c
      <4>1. Unflushed(c)'
        BY DEF Unflushed
      <4> QED BY <1>1, <1>2, <1>3, <3>1, <4>1
    <3>2. CASE d # c
      BY <1>1, <1>3, <2>1, <3>2 DEF Windows
    <3> QED BY <3>1, <3>2
  <2>3. \A d \in ToSet(rewrites') \cup initiated : WindowOf(d) = window
    BY <1>3 DEF Windows
  <2> QED BY <2>2, <2>3 DEF Windows
<1>9. Started'
  <2>1. ASSUME NEW d \in Contexts
        PROVE  /\ starts[d] = IF phase'[d] \in {"new", "created"} THEN 0
                              ELSE IF phase'[d] = "deleted" THEN Held(can_rewrite_resources) ELSE 1
               /\ ~can_rewrite_resources => phase'[d] \in {"new", "deleted"}
    <3>1. CASE d = c
      BY <1>1, <1>2, <3>1 DEF Held
    <3>2. CASE d # c
      BY <1>1, <3>2 DEF Started
    <3> QED BY <3>1, <3>2
  <2>2. \A d \in Contexts : num_predecessors[d] = Cardinality(Ahead(d)')
    BY <1>5 DEF Started
  <2>3. \A d \in Contexts : starts[d] = 1 => Ahead(d)' = {}
    BY <1>5 DEF Started
  <2> QED BY <2>1, <2>2, <2>3 DEF Started
<1>10. Works'
  <2>1. \A d \in Contexts : phase'[d] \in AtWork <=> phase[d] \in AtWork
    BY <1>1 DEF AtWork
  <2> QED BY <2>1 DEF Works, PageTypes
<1>11. Repeating'
  <2>1. \A d \in Contexts : phase'[d] \in AtWork => phase[d] \in AtWork
    BY <1>1 DEF AtWork
  <2>2. \A d \in Contexts : ToSet(repeated[d]) \subseteq Contexts
    BY Elements DEF PageTypes
  <2>3. \A d \in Contexts : phase[d] = "repeated" => phase'[d] = "repeated"
    BY <1>1
  <2>4. \A d \in Contexts : repeated[d] # <<>> => phase'[d] \in AtWork \cup {"done", "deleted"}
    BY <1>1 DEF Repeating, AtWork
  <2> QED BY <2>1, <2>2, <2>3, <2>4 DEF Repeating
<1>12. Retired' = Retired
  BY <1>1 DEF Retired
<1>13. c \notin Unreported /\ Unreported' = IF can_rewrite_resources THEN Unreported \cup {c} ELSE Unreported
  BY <1>2, <1>3 DEF Unreported, Outstanding
<1>14. HtmlTasks'
  <2>1. tasks' \in Seq(HtmlOps \X Contexts) /\ OneTaskEach(tasks')
    BY DEF HtmlTasks
  <2>2. \A op \in HtmlOps, d \in Contexts : <<op, d>> \in ToSet(tasks') =>
          <<op, d>> \in ToSet(tasks) /\ phase'[d] = phase[d]
    BY <1>1 DEF HtmlTasks, HasTask
  <2> HIDE DEF PageInv
  <2> QED BY <1>5, <1>12, <2>1, <2>2, TasksKept
<1> QED BY <1>1, <1>6, <1>7, <1>8, <1>9, <1>10, <1>11, <1>12, <1>13, <1>14

\* The contexts of the window are handed to the rewrite thread.
LEMMA WindowFlushed ==
  ASSUME PageInv, HtmlTasks, FlushAsync
  PROVE  PageInv' /\ HtmlTasks' /\ SameSets
<1> USE DEF PageInv
<1>1. /\ html = "parsing" /\ html' = "flushing" /\ Unparsed = {}
      /\ initiated' = initiated \cup ToSet(rewrites) /\ rewrites' = <<>>
      /\ UNCHANGED <<window, can_rewrite_resources, detached, phase, starts, num_predecessors,
                     repeated, primary, locked, retiring>>
  BY DEF FlushAsync, contextVars
<1>2. ToSet(rewrites') = {} /\ rewrites' \in Seq(Contexts) /\ OnceEach(rewrites')
  BY <1>1, EmptyElements DEF OnceEach
<1>3. ToSet(rewrites) \subseteq Contexts /\ initiated = {}
  BY <1>1, Elements DEF PageTypes, Windows
<1>4. \A d \in Contexts : Reported(d)' <=> Reported(d)
  BY <1>1 DEF Reported
<1>5. \A d \in Contexts : Ahead(d)' = Ahead(d)
  BY <1>4 DEF Ahead, Predecessors
<1>6. Unreported' = Unreported /\ Retired' = Retired
  BY <1>1, <1>2 DEF Unreported, Retired
<1>7. PageTypes'
  BY <1>1, <1>2, <1>3 DEF PageTypes
<1>8. Placed'
  <2>1. \A d \in Contexts :
          /\ d \in (Outstanding \cup ToSet(rewrites))'
             <=> (phase'[d] \notin {"new", "deleted"} /\ ~Reported(d)')
          /\ d \in ToSet(rewrites)' => phase'[d] = "created" /\ d \notin Outstanding'
    BY <1>1, <1>2, <1>4 DEF Placed, Outstanding
  <2>2. initiated' \cap detached' = {}
    BY <1>1, <1>3 DEF Placed, Outstanding
  <2> QED BY <1>1, <1>2, <2>1, <2>2 DEF Placed
<1>9. Windows'
  <2>1. \A d \in Contexts : WindowOf(d) = window => phase[d] # "new"
    BY <1>1, WindowFacts DEF Unparsed
  <2>2. \A d \in Contexts : WindowOf(d) \in Nat /\ window \in Nat
    BY WindowFacts DEF PageTypes
  <2>3. \A d \in Contexts : Unflushed(d)' <=> WindowOf(d) > window
    BY <1>1 DEF Unflushed
  <2>4. \A d \in Contexts : Unflushed(d) <=> (WindowOf(d) > window \/ WindowOf(d) = window)
    BY <1>1 DEF Unflushed
  <2>5. \A d \in ToSet(rewrites) : WindowOf(d) = window
    BY DEF Windows
  <2>6. ASSUME NEW d \in Contexts
        PROVE  IF Unflushed(d)' THEN \/ phase'[d] = "new"
                                     \/ d \in ToSet(rewrites')
                                     \/ phase'[d] = "deleted" /\ starts'[d] = 0
               ELSE phase'[d] # "new" /\ d \notin ToSet(rewrites')
    <3>1. CASE WindowOf(d) > window
      <4>1. d \notin ToSet(rewrites)
        BY <2>2, <2>5, <3>1
      <4> QED BY <1>1, <2>3, <2>4, <3>1, <4>1 DEF Windows
    <3>2. CASE WindowOf(d) = window
      BY <1>1, <1>2, <2>1, <2>2, <2>3, <3>2
    <3>3. CASE ~(WindowOf(d) > window) /\ WindowOf(d) # window
      BY <1>1, <1>2, <2>3, <2>4, <3>3 DEF Windows
    <3> QED BY <3>1, <3>2, <3>3
  <2>7. \A d \in ToSet(rewrites') \cup initiated' : WindowOf(d) = window
    BY <1>1, <1>2, <1>3, <2>5
  <2> QED BY <1>1, <2>6, <2>7 DEF Windows
<1>10. Started'
  BY <1>1, <1>5 DEF Started
<1>11. Works' /\ Repeating'
  BY <1>1 DEF Works, Repeating
<1>12. HtmlTasks'
  <2> DEFINE S == {c \in ToSet(rewrites) : ~Chained(c)}
  <2>1. PICK q \in SetToSeqs(S) : tasks' = tasks \o StartTasks(q)
    BY DEF FlushAsync
  <2>2. S \subseteq Contexts /\ IsFiniteSet(S)
    <3>1. S \subseteq Contexts
      BY <1>3
    <3> QED BY <3>1, ContextAssumption, FS_Subset
  <2>3. q \in Seq(S) /\ OnceEach(q)
    BY <2>2, SequencesOfSet
  <2>4. q \in Seq(Contexts) /\ ToSet(q) \subseteq S
    BY <2>2, <2>3, Elements
  <2>5. \A d \in ToSet(q) : /\ phase[d] = "created" /\ d \notin Outstanding /\ d \in Contexts
                            /\ Ahead(d) = {} /\ d \in initiated'
    BY <1>1, <1>3, <2>4 DEF Placed, Chained, Ahead
  <2>6. ASSUME NEW o, NEW d \in ToSet(q), <<o, d>> \in ToSet(tasks) PROVE FALSE
    <3>1. o \in HtmlOps
      <4>1. <<o, d>> \in HtmlOps \X Contexts
        BY <2>6, Elements DEF HtmlTasks
      <4> QED BY <4>1
    <3> QED BY <2>5, <2>6, <3>1 DEF HtmlTasks, HasTask
  <2>7. /\ tasks' \in Seq(HtmlOps \X Contexts) /\ OneTaskEach(tasks')
        /\ ToSet(tasks') = ToSet(tasks) \cup {<<"Start", d>> : d \in ToSet(q)}
    <3> HIDE DEF PageInv
    <3> QED BY <2>1, <2>3, <2>4, <2>6, ContextsStarted DEF HtmlTasks
  <2>8. ASSUME NEW op \in HtmlOps, NEW d \in Contexts, <<op, d>> \in ToSet(tasks')
        PROVE  IF op = "Start" THEN phase'[d] = "created" /\ d \in Outstanding' /\ Ahead(d)' = {}
               ELSE IF op = "DeleteRewriteContext"
               THEN phase'[d] = "done" /\ d \notin ToSet(retiring')
               ELSE phase'[d] = "queued"
    <3>1. CASE <<op, d>> \in ToSet(tasks)
      BY <1>1, <1>5, <3>1 DEF HtmlTasks, HasTask, Outstanding
    <3>2. CASE op = "Start" /\ d \in ToSet(q)
      BY <1>1, <1>5, <2>5, <3>2 DEF Outstanding
    <3> QED BY <2>7, <2>8, <3>1, <3>2
  <2> QED BY <2>7, <2>8 DEF HtmlTasks, HasTask
<1> QED BY <1>5, <1>6, <1>7, <1>8, <1>9, <1>10, <1>11, <1>12 DEF SameSets

\* What is outstanding at the end of the wait is detached.
LEMMA WindowLeft ==
  ASSUME PageInv, HtmlTasks, html = "waiting",
         detached' = detached \cup initiated, initiated' = {},
         IF window < Len(Page) THEN html' = "parsing" /\ window' = window + 1
                               ELSE html' = "finishing" /\ window' = window,
         UNCHANGED <<can_rewrite_resources, rewrites, contextVars, tasks>>
  PROVE  PageInv' /\ HtmlTasks' /\ Unreported' = {} /\ Retired' = Retired /\ Unreported = initiated
<1> USE DEF PageInv, contextVars
<1>1. rewrites = <<>> /\ ToSet(rewrites) = {}
  BY EmptyElements DEF Windows
<1>2. \A d \in Contexts : Reported(d)' <=> Reported(d)
  BY DEF Reported
<1>3. \A d \in Contexts : Ahead(d)' = Ahead(d)
  BY <1>2 DEF Ahead, Predecessors
<1>4. Unreported' = {} /\ Retired' = Retired /\ Unreported = initiated
  BY <1>1 DEF Unreported, Retired, PageTypes
<1>5. window \in Nat /\ Len(Page) \in Nat /\ window <= Len(Page) /\ window >= 1
  BY WindowFacts DEF PageTypes
<1>6. PageTypes'
  BY <1>5 DEF PageTypes
<1>7. Placed'
  BY <1>2 DEF Placed, Outstanding
<1>8. Windows'
  <2>1. \A d \in Contexts : WindowOf(d) \in Nat
    BY WindowFacts
  <2>2. \A d \in Contexts : Unflushed(d)' <=> Unflushed(d)
    BY <1>5, <2>1 DEF Unflushed
  <2>3. html' \in {"finishing", "cleanup", "finished"} => window' = Len(Page)
    BY <1>5
  <2> QED BY <1>1, <2>2, <2>3 DEF Windows
<1>9. Started'
  BY <1>3 DEF Started
<1>10. Works' /\ Repeating'
  BY DEF Works, Repeating
<1>11. HtmlTasks'
  BY <1>3 DEF HtmlTasks, HasTask, Outstanding
<1> QED BY <1>4, <1>6, <1>7, <1>8, <1>9, <1>10, <1>11

-----------------------------------------------------------------------------
(* Slow contexts.                                                          *)

Closed(S) == \A b \in S : HeldUpBy(b) \subseteq S

\* CollectDependentTopLevel is the least closed set that has the context.
LEMMA Collected ==
  ASSUME PageTypes, NEW c \in Contexts
  PROVE  /\ c \in CollectDependentTopLevel(c) /\ CollectDependentTopLevel(c) \subseteq Contexts
         /\ Closed(CollectDependentTopLevel(c))
         /\ \A S \in SUBSET Contexts : c \in S /\ Closed(S) => CollectDependentTopLevel(c) \subseteq S
<1>1. \A b \in Contexts : HeldUpBy(b) \subseteq Contexts
  BY SuccessorsAssumption, Elements DEF HeldUpBy, PageTypes
<1>2. \A d : d \in CollectDependentTopLevel(c) <=>
        d \in Contexts /\ \A S \in SUBSET Contexts : c \in S /\ Closed(S) => d \in S
  BY DEF CollectDependentTopLevel, Closed
<1> HIDE DEF Closed
<1>3. CollectDependentTopLevel(c) \subseteq Contexts
  BY <1>2
<1>4. ASSUME NEW b \in CollectDependentTopLevel(c), NEW d \in HeldUpBy(b)
      PROVE  d \in CollectDependentTopLevel(c)
  <2>1. d \in Contexts
    BY <1>1, <1>3
  <2>2. ASSUME NEW S \in SUBSET Contexts, c \in S, Closed(S) PROVE d \in S
    <3>1. b \in S
      BY <1>2, <2>2
    <3> QED BY <2>2, <3>1 DEF Closed
  <2> QED BY <1>2, <2>1, <2>2
<1>5. Closed(CollectDependentTopLevel(c))
  BY <1>4 DEF Closed
<1> QED BY <1>2, <1>3, <1>5

\* What an attached context that is not slow holds up is attached or slow.
LEMMA AttachedOrSlow ==
  ASSUME PageInv, Slowness, RefsMatch, retiring = <<>>, NEW c \in initiated, ~slow[c], NEW d \in HeldUpBy(c)
  PROVE  d \in initiated \/ slow[d]
<1> USE DEF PageInv
<1>1. c \in Contexts /\ c \in Outstanding /\ ~Reported(c) /\ phase[c] \notin {"new", "deleted"}
  BY DEF Placed, Outstanding, PageTypes
<1>2. d \in Contexts
  BY <1>1, SuccessorsAssumption, Elements DEF HeldUpBy, PageTypes
<1>3. d \in Outstanding => d \in initiated \/ slow[d]
  BY DEF Outstanding, RefsMatch
<1>4. CASE d \in Successors[c]
  <2>1. c \in Ahead(d)
    BY <1>1, <1>4 DEF Ahead, Predecessors
  <2>2. phase[d] \in {"new", "created"}
    <3>1. starts[d] # 1
      BY <1>2, <2>1 DEF Started
    <3>2. can_rewrite_resources
      BY <1>1 DEF Started, PageTypes
    <3> QED BY <1>2, <3>1, <3>2 DEF Started, Held
  <2>3. phase[d] # "new" /\ d \notin ToSet(rewrites)
    <3>1. ~Unflushed(c)
      BY <1>1 DEF Windows, Placed
    <3>2. ~Unflushed(d)
      BY <1>1, <1>4, <3>1, WindowFacts DEF Unflushed
    <3> QED BY <1>2, <3>2 DEF Windows
  <2> QED BY <1>2, <1>3, <2>2, <2>3 DEF Placed, Reported
<1>5. CASE d \in ToSet(repeated[c])
  <2>1. phase[c] # "done"
    BY <1>1, EmptyElements DEF Reported
  <2>2. repeated[c] # <<>>
    BY <1>5, EmptyElements
  <2>3. phase[c] \in AtWork
    BY <1>1, <2>1, <2>2 DEF Repeating
  <2>4. phase[d] = "repeated"
    BY <1>1, <1>5, <2>3 DEF Repeating
  <2> HIDE DEF PageInv
  <2> QED BY <1>2, <1>3, <2>4, BegunIsOutstanding
<1> QED BY <1>4, <1>5 DEF HeldUpBy

\* A context is found slow, with all it holds up.
LEMMA Marked ==
  ASSUME DriverTypes, WakeupNotLost, WaitMatches, PageInv, Slowness, RefsMatch, retiring = <<>>,
         NEW c \in Contexts, c \in Outstanding, MarkSlow(c),
         UNCHANGED <<fully_rewrite_on_flush, initiated, rewrites>>
  PROVE  /\ slow' \in [Contexts -> BOOLEAN] /\ slow'[c]
         /\ \A d \in Contexts : slow'[d] => \A e \in HeldUpBy(d) : slow'[e]
         /\ \A d \in Contexts : slow[d] => slow'[d]
         /\ \A d \in Contexts : slow'[d] => slow[d] \/ d \in initiated
         /\ possibly_quick_rewrites' \in Nat
         /\ possibly_quick_rewrites' = Cardinality({d \in Unreported' : ~slow'[d]})
         /\ UNCHANGED waitVars \/ Signalled(refs, possibly_quick_rewrites')
         /\ WakeupNotLost'
<1> DEFINE All == CollectDependentTopLevel(c)
           new == {d \in All : ~slow[d]}
           Slow == {d \in Contexts : slow[d]}
<1>1. /\ c \in All /\ All \subseteq Contexts /\ Closed(All)
      /\ \A S \in SUBSET Contexts : c \in S /\ Closed(S) => All \subseteq S
  BY Collected DEF PageInv
<1>2. /\ slow' = [d \in Contexts |-> slow[d] \/ d \in new]
      /\ IF new = {} THEN UNCHANGED waitVars
         ELSE SignalIfRequired(refs, possibly_quick_rewrites - Cardinality(new))
  BY DEF MarkSlow
<1>3. \A b \in Contexts : HeldUpBy(b) \subseteq Contexts
  BY SuccessorsAssumption, Elements DEF HeldUpBy, PageInv, PageTypes
<1>4. Closed(Slow) /\ Closed(Slow \cup initiated)
  <2>1. Closed(Slow)
    BY <1>3 DEF Closed, Slowness
  <2>2. initiated \subseteq Contexts
    BY DEF PageInv, PageTypes
  <2>3. ASSUME NEW b \in Slow \cup initiated, NEW d \in HeldUpBy(b) PROVE d \in Slow \cup initiated
    <3>1. b \in Contexts /\ d \in Contexts
      BY <1>3, <2>2
    <3>2. CASE slow[b]
      BY <2>1, <3>1, <3>2 DEF Closed
    <3>3. CASE ~slow[b]
      <4>1. b \in initiated
        BY <3>3
      <4>2. d \in initiated \/ slow[d]
        BY <3>3, <4>1, AttachedOrSlow
      <4> QED BY <3>1, <4>2
    <3> QED BY <3>2, <3>3
  <2> QED BY <2>1, <2>3 DEF Closed
<1>5. new \subseteq initiated
  <2>1. CASE slow[c]
    BY <1>1, <1>4, <2>1
  <2>2. CASE ~slow[c]
    <3>1. c \in initiated /\ Slow \cup initiated \subseteq Contexts
      BY <2>2 DEF Outstanding, RefsMatch, PageInv, PageTypes
    <3>2. All \subseteq Slow \cup initiated
      BY <1>1, <1>4, <3>1
    <3> QED BY <3>2
  <2> QED BY <2>1, <2>2
<1> HIDE DEF All
<1>6. slow' \in [Contexts -> BOOLEAN] /\ \A d \in Contexts : slow'[d] <=> slow[d] \/ d \in All
  BY <1>2 DEF Slowness
<1>7. slow'[c] /\ (\A d \in Contexts : slow[d] => slow'[d])
      /\ \A d \in Contexts : slow'[d] => slow[d] \/ d \in initiated
  BY <1>1, <1>5, <1>6
<1>8. ASSUME NEW d \in Contexts, slow'[d], NEW e \in HeldUpBy(d) PROVE slow'[e]
  <2>1. e \in Contexts
    BY <1>3
  <2>2. CASE slow[d]
    BY <1>6, <2>1, <2>2 DEF Slowness
  <2>3. CASE d \in All
    BY <1>1, <1>6, <2>1, <2>3 DEF Closed
  <2> QED BY <1>6, <1>8, <2>2, <2>3
<1>9. Unreported' = Unreported /\ Unreported \subseteq Contexts
  BY DEF Unreported
<1> DEFINE Quick == {d \in Unreported : ~slow[d]}
<1>10. {d \in Unreported : ~slow'[d]} = Quick \ new
  BY <1>6, <1>9
<1>11. new \subseteq Quick /\ Quick \subseteq Contexts
  <2>1. initiated \subseteq Unreported
    BY DEF Unreported, PageInv, PageTypes
  <2> QED BY <1>5, <1>9, <2>1
<1>12. possibly_quick_rewrites = Cardinality(Quick)
  BY DEF RefsMatch
<1> HIDE DEF new, Quick
<1>13. /\ Cardinality(Quick \ new) = Cardinality(Quick) - Cardinality(new)
       /\ Cardinality(new) \in Nat /\ Cardinality(Quick) \in Nat
       /\ Cardinality(new) <= Cardinality(Quick)
  <2>1. new \subseteq Contexts
    BY <1>11
  <2> QED BY <1>11, <2>1, CountedSets
<1>14. CASE new = {}
  <2>1. UNCHANGED waitVars
    BY <1>2, <1>14
  <2>2. Quick \ new = Quick
    BY <1>14
  <2>3. possibly_quick_rewrites' = Cardinality({d \in Unreported' : ~slow'[d]})
    BY <1>9, <1>10, <1>12, <2>1, <2>2 DEF waitVars
  <2>4. WakeupNotLost'
    BY <2>1 DEF WakeupNotLost, IsDone, RewritesComplete, waitVars
  <2>5. possibly_quick_rewrites' \in Nat
    BY <2>1 DEF waitVars, DriverTypes
  <2> QED BY <1>6, <1>7, <1>8, <2>1, <2>3, <2>4, <2>5
<1>15. CASE new # {}
  <2>1. SignalIfRequired(refs, possibly_quick_rewrites - Cardinality(new))
    BY <1>2, <1>15
  <2>2. Signalled(refs, possibly_quick_rewrites - Cardinality(new)) /\ WakeupNotLost'
    BY <2>1, SignalTells
  <2>3. possibly_quick_rewrites' = possibly_quick_rewrites - Cardinality(new)
    BY <2>2 DEF Signalled
  <2>4. Signalled(refs, possibly_quick_rewrites')
    BY <2>2, <2>3
  <2>5. possibly_quick_rewrites' = Cardinality({d \in Unreported' : ~slow'[d]})
    BY <1>9, <1>10, <1>12, <1>13, <2>3
  <2>6. possibly_quick_rewrites' \in Nat
    BY <1>12, <1>13, <2>3
  <2> QED BY <1>6, <1>7, <1>8, <2>2, <2>4, <2>5, <2>6
<1> QED BY <1>14, <1>15

-----------------------------------------------------------------------------
(* Steps for an HTML request.                                              *)

\* A driver that serves a page has no fetch.
LEMMA FetchUnused ==
  ASSUME FetchInv, fetch = "unused", UNCHANGED fetchVars, html' # "unused"
  PROVE  FetchInv'
<1>1. UNCHANGED <<fetch, answered, detached_fetch, deadline_alarm, alarm, canceled, drops>>
  BY DEF fetchVars, alarmVars
<1>2. FetchTypes' /\ FetchStages'
  BY <1>1 DEF FetchInv, FetchTypes, FetchStages
<1> QED BY <1>1, <1>2 DEF FetchInv

\* The references of a driver that serves a page.
LEMMA CountedForPage ==
  ASSUME Counted, html # "unused", html' # "unused", UNCHANGED <<fetchVars, shutdown, purge>>,
         refs'["User"] = Held(HtmlUser') + Held(shutdown = "waiting"),
         refs'["Parsing"] = Held(Parsing'),
         \A c \in {"FetchUserFacing", "FetchBackground", "AsyncEvents"} : refs'[c] = refs[c]
  PROVE  Counted'
<1>1. UNCHANGED <<fetch, answered, detached_fetch, drops, shutdown, purge>>
  BY DEF fetchVars
<1>2. /\ UserFacing' <=> UserFacing
      /\ Background' <=> Background
  BY <1>1 DEF UserFacing, Background
<1>3. ~FetchUser'
  BY DEF FetchUser
<1>4. /\ Held(UserFacing') = Held(UserFacing) /\ Held(Background') = Held(Background)
      /\ Held(FetchUser') = 0 /\ Held(HtmlUser') \in Nat /\ Held(shutdown = "waiting") \in Nat
  BY <1>2, <1>3 DEF Held
<1>5. refs'["User"] = Held(HtmlUser') + Held(FetchUser') + Held(shutdown' = "waiting")
  BY <1>1, <1>4
<1> QED BY <1>1, <1>4, <1>5 DEF Counted

\* The references of the HTML thread.
LEMMA PageReferences ==
  ASSUME Counted, html # "unused"
  PROVE  /\ refs["User"] = Held(HtmlUser) + Held(shutdown = "waiting")
         /\ refs["Parsing"] = Held(Parsing)
         /\ Held(shutdown = "waiting") \in Nat
<1>1. Held(FetchUser) = 0 /\ Held(HtmlUser) \in Nat /\ Held(shutdown = "waiting") \in Nat
  BY DEF Held, FetchUser
<1> QED BY <1>1 DEF Counted

\* A step in which nothing that is counted changes.
LEMMA WorkStep ==
  ASSUME IInv, fetch = "unused", UNCHANGED <<fetchVars, waitVars, RestOfDriver, pageVars, slow>>,
         PageInv', HtmlTasks', SameSets, Slowness'
  PROVE  IInv'
<1> USE DEF IInv, DriverInv, HtmlInv
<1>1. html # "unused" /\ html' # "unused" /\ UNCHANGED <<html, initiated, detached>>
  BY DEF FetchInv, FetchTypes, pageVars
<1>2. FetchInv'
  BY <1>1, FetchUnused
<1>3. DriverTypes' /\ WakeupNotLost' /\ Released'
  BY DriverStill DEF RestOfDriver
<1>4. UNCHANGED <<refs, possibly_quick_rewrites, waiting, done, deadline, shutdown, purge>>
  BY DEF waitVars, RestOfDriver, endVars
<1>5. HtmlUser' = HtmlUser /\ Parsing' = Parsing
  BY <1>1 DEF HtmlUser, Parsing
<1>6. Counted'
  <2>1. /\ refs["User"] = Held(HtmlUser) + Held(shutdown = "waiting")
        /\ refs["Parsing"] = Held(Parsing)
    BY <1>1, PageReferences
  <2> QED BY <1>1, <1>4, <1>5, <2>1, CountedForPage
<1>7. WaitMatches' /\ LeftBehind'
  BY <1>1, <1>4 DEF WaitMatches, LeftBehind
<1>8. RefsMatch'
  BY <1>1, <1>4 DEF RefsMatch, SameSets
<1> QED BY <1>2, <1>3, <1>6, <1>7, <1>8

\* An outstanding context is counted.
LEMMA OutstandingIsReferenced ==
  ASSUME RefsMatch, PageTypes, NEW c \in Outstanding
  PROVE  \E k \in {"PendingRewrites", "DetachedRewrites"} : k \in Categories /\ refs[k] > 0
<1>1. c \in Unreported \/ c \in detached
  BY DEF Unreported, Outstanding, PageTypes
<1>2. Unreported \subseteq Contexts /\ detached \subseteq Contexts
  BY DEF Unreported, PageTypes
<1>3. \A S \in SUBSET Contexts : c \in S => Cardinality(S) > 0
  BY CountedSets
<1>4. refs["PendingRewrites"] > 0 \/ refs["DetachedRewrites"] > 0
  BY <1>1, <1>2, <1>3 DEF RefsMatch
<1> QED BY <1>4 DEF Categories

\* A step in which a context is found slow.
LEMMA SlowStep ==
  ASSUME IInv, fetch = "unused", UNCHANGED <<fetchVars, RestOfDriver, pageVars>>, retiring = <<>>,
         NEW c \in Contexts, c \in Outstanding, MarkSlow(c),
         PageInv', HtmlTasks', SameSets,
         \A d \in Contexts : HeldUpBy(d)' \subseteq HeldUpBy(d) \cup {c},
         \A d \in Contexts : phase'[d] = "new" => phase[d] = "new"
  PROVE  IInv'
<1> USE DEF IInv, DriverInv, HtmlInv
<1>1. html # "unused" /\ html' # "unused" /\ UNCHANGED <<html, initiated, detached, rewrites>>
  BY DEF FetchInv, FetchTypes, pageVars
<1>2. FetchInv'
  BY <1>1, FetchUnused
<1>3. UNCHANGED <<deadline, fully_rewrite_on_flush, releasing, recycled, shutdown, purge, num_detached>>
  BY DEF RestOfDriver, endVars
<1>4. /\ slow' \in [Contexts -> BOOLEAN] /\ slow'[c]
      /\ \A d \in Contexts : slow'[d] => \A e \in HeldUpBy(d) : slow'[e]
      /\ \A d \in Contexts : slow[d] => slow'[d]
      /\ \A d \in Contexts : slow'[d] => slow[d] \/ d \in initiated
      /\ possibly_quick_rewrites' \in Nat
      /\ possibly_quick_rewrites' = Cardinality({d \in Unreported' : ~slow'[d]})
      /\ UNCHANGED waitVars \/ Signalled(refs, possibly_quick_rewrites')
      /\ WakeupNotLost'
  BY <1>1, <1>3, Marked
<1>5. Slowness'
  <2>1. \A d \in Contexts : slow'[d] => \A e \in HeldUpBy(d)' : slow'[e]
    BY <1>4
  <2>2. \A d \in Contexts : phase'[d] = "new" => ~slow'[d]
    BY <1>4 DEF Slowness, PageInv, Placed, Outstanding
  <2> QED BY <1>4, <2>1, <2>2 DEF Slowness
<1>6. refs' = refs
  BY <1>4 DEF waitVars, Signalled
<1>7. RefsMatch'
  <2>1. \A d \in detached' : slow'[d]
    BY <1>1, <1>4 DEF RefsMatch, PageInv, PageTypes
  <2> QED BY <1>1, <1>4, <1>6, <2>1 DEF RefsMatch, SameSets
<1>8. WaitMatches' /\ LeftBehind'
  <2>1. initiated \subseteq Contexts /\ initiated \subseteq Unreported
    BY DEF PageInv, PageTypes, Unreported
  <2>2. CASE UNCHANGED waitVars
    BY <1>1, <1>3, <1>4, <2>1, <2>2 DEF WaitMatches, LeftBehind, waitVars
  <2>3. CASE Signalled(refs, possibly_quick_rewrites')
    <3>1. Unreported \subseteq Contexts /\ Unreported' = Unreported
      BY DEF Unreported, SameSets
    <3>2. refs["PendingRewrites"] = 0 => initiated' = {}
      BY <1>1, <2>1, <3>1, CountedSets DEF RefsMatch
    <3>3. possibly_quick_rewrites' = 0 => \A d \in initiated' : slow'[d]
      <4>1. {d \in Unreported : ~slow'[d]} \subseteq Contexts
        BY <3>1
      <4>2. possibly_quick_rewrites' = 0 => {d \in Unreported : ~slow'[d]} = {}
        BY <1>4, <3>1, <4>1, CountedSets
      <4> QED BY <1>1, <2>1, <4>2
    <3>4. \A d \in initiated' : slow[d] => slow'[d]
      BY <1>1, <1>4, <2>1
    <3>5. shutdown # "no" => html' \in {"unused", "finished"}
      BY <1>1 DEF WaitMatches
    <3> QED BY <1>1, <1>3, <2>3, <3>2, <3>3, <3>4, <3>5, SignalEndsWait
  <2> QED BY <1>4, <2>2, <2>3
<1>9. DriverTypes'
  <2>1. CASE UNCHANGED waitVars
    BY <1>3, <2>1 DEF DriverTypes, waitVars
  <2>2. CASE Signalled(refs, possibly_quick_rewrites')
    <3>1. waiting' \in {"no", waiting} /\ done' \in {done, "html", "shutdown"}
      BY <2>2 DEF Signalled
    <3> QED BY <1>3, <1>4, <1>6, <2>2, <3>1 DEF DriverTypes, Signalled
  <2> QED BY <1>4, <2>1, <2>2
<1>10. Released'
  <2>1. PICK k \in Categories : refs[k] > 0
    BY OutstandingIsReferenced DEF PageInv
  <2>2. release_driver' = release_driver \/ release_driver' = (release_driver \/ Total(refs') = 0)
    BY <1>4, <1>6 DEF waitVars, Signalled
  <2>3. refs' \in [Categories -> Nat] /\ refs'[k] > 0
    BY <1>6, <2>1 DEF DriverTypes
  <2> QED BY <1>3, <2>1, <2>2, <2>3, StaysWhileReferenced
<1>11. Counted'
  <2>1. /\ refs["User"] = Held(HtmlUser) + Held(shutdown = "waiting")
        /\ refs["Parsing"] = Held(Parsing)
    BY <1>1, PageReferences
  <2>2. HtmlUser' = HtmlUser /\ Parsing' = Parsing
    BY <1>1 DEF HtmlUser, Parsing
  <2> QED BY <1>1, <1>3, <1>6, <2>1, <2>2, CountedForPage
<1> QED BY <1>2, <1>4, <1>5, <1>7, <1>8, <1>9, <1>10, <1>11

\* A step that marks nothing slow and adds no repetition.
LEMMA SlownessKept ==
  ASSUME Slowness, UNCHANGED <<slow, repeated>>,
         \A d \in Contexts : phase'[d] = "new" => phase[d] = "new"
  PROVE  Slowness'
BY DEF Slowness, HeldUpBy

\* The contexts of tasks.
LEMMA TaskPhases ==
  ASSUME HtmlTasks, NEW o, NEW d, <<o, d>> \in ToSet(tasks)
  PROVE  o \in HtmlOps /\ d \in Contexts /\ phase[d] \in {"created", "queued", "done"} /\ HasTask(o, d)
<1>1. <<o, d>> \in HtmlOps \X Contexts
  BY Elements DEF HtmlTasks
<1> QED BY <1>1 DEF HtmlTasks, HasTask

\* A task of the rewrite thread finds its context queued: it works on, or it is finished.
LEMMA QueuedRuns ==
  ASSUME PageInv, HtmlTasks, NEW op \in HtmlOps \ {"Start", "DeleteRewriteContext"},
         Runs(op), tasks' = Tail(tasks), NEW c, c = TheContext,
         UNCHANGED <<pageVars, starts, num_predecessors, repeated>>,
         \/ Unfinished /\ \E p \in AtWork : Phase(c, p)
         \/ FinalizeRewriteForHtml(c)
  PROVE  /\ PageInv' /\ HtmlTasks' /\ SameSets
         /\ c \in Contexts /\ c \in Outstanding /\ retiring = <<>>
         /\ \A d \in Contexts : phase'[d] = "new" => phase[d] = "new"
<1>1. /\ retiring = <<>> /\ c \in Contexts /\ HasTask(op, c)
      /\ tasks' \in Seq(HtmlOps \X Contexts) /\ OneTaskEach(tasks')
      /\ \A o, d : <<o, d>> \in ToSet(tasks') => <<o, d>> \in ToSet(tasks) /\ d # c
  BY TaskRuns
<1>2. phase[c] = "queued" /\ "queued" \in AtWork
  BY <1>1 DEF HtmlTasks, AtWork
<1>3. c \in Outstanding
  BY <1>1, <1>2, BegunIsOutstanding
<1>4. /\ PageInv' /\ SameSets
      /\ \A d \in Contexts \ {c} : phase'[d] = phase[d] \/ phase[d] = "repeated"
  <2>1. CASE Unfinished /\ \E p \in AtWork : Phase(c, p)
    <3>1. PICK p \in AtWork : Phase(c, p)
      BY <2>1
    <3>2. UNCHANGED <<retiring, primary>> /\ locked' \subseteq locked \cup {c}
      BY <2>1 DEF Unfinished
    <3> QED BY <1>1, <1>2, <3>1, <3>2, WorkGoesOn
  <2>2. CASE FinalizeRewriteForHtml(c)
    BY <1>1, <1>2, <2>2, Finalized
  <2> QED BY <2>1, <2>2
<1>5. HtmlTasks'
  <2>1. \A o, d : <<o, d>> \in ToSet(tasks') =>
          <<o, d>> \in ToSet(tasks) /\ d \in Contexts /\ phase'[d] = phase[d]
    BY <1>1, <1>4, TaskPhases
  <2> QED BY <1>1, <1>4, <2>1, TasksKept DEF SameSets, pageVars
<1>6. \A d \in Contexts : phase'[d] = "new" => phase[d] = "new"
  <2> TAKE d \in Contexts
  <2> HAVE phase'[d] = "new"
  <2>1. d \notin Outstanding'
    BY <1>4 DEF PageInv, Placed
  <2>2. d \notin Outstanding
    BY <2>1 DEF Outstanding, pageVars
  <2>3. phase[d] # "repeated"
    BY <2>2, BegunIsOutstanding
  <2> QED BY <1>3, <1>4, <2>2, <2>3
<1> QED BY <1>1, <1>3, <1>4, <1>5, <1>6

\* Tasks that find nothing slow.
LEMMA QueuedStep ==
  ASSUME IInv, fetch = "unused", UNCHANGED fetchVars,
         ResourceRevalidateDone \/ LockFailed \/ FetchInputs \/ ResourceFetchDone \/ RewriteDoneImpl
  PROVE  IInv'
<1> DEFINE c == TheContext
<1>1. PICK op \in {"ResourceRevalidateDone", "LockFailed", "FetchInputs", "ResourceFetchDone",
                   "RewriteDoneImpl"} :
        /\ Runs(op) /\ tasks' = Tail(tasks)
        /\ \/ Unfinished /\ \E p \in AtWork : Phase(c, p)
           \/ FinalizeRewriteForHtml(c)
        /\ UNCHANGED <<waitVars, RestOfDriver, pageVars, slow, starts, num_predecessors, repeated>>
  <2>1. {"locking", "rewriting", "fetching"} \subseteq AtWork
    BY DEF AtWork
  <2>2. CASE ResourceRevalidateDone
    BY <2>1, <2>2 DEF ResourceRevalidateDone, OutputCacheMiss
  <2>3. CASE LockFailed
    BY <2>3 DEF LockFailed
  <2>4. CASE FetchInputs
    BY <2>1, <2>4 DEF FetchInputs, Partition
  <2>5. CASE ResourceFetchDone
    BY <2>1, <2>5 DEF ResourceFetchDone, Partition
  <2>6. CASE RewriteDoneImpl
    BY <2>6 DEF RewriteDoneImpl
  <2> QED BY <2>2, <2>3, <2>4, <2>5, <2>6
<1>2. op \in HtmlOps \ {"Start", "DeleteRewriteContext"}
  BY DEF HtmlOps
<1>3. PageInv /\ HtmlTasks /\ Slowness
  BY DEF IInv, HtmlInv
<1>4. /\ PageInv' /\ HtmlTasks' /\ SameSets
      /\ \A d \in Contexts : phase'[d] = "new" => phase[d] = "new"
  BY <1>1, <1>2, <1>3, QueuedRuns
<1>5. Slowness'
  BY <1>1, <1>3, <1>4, SlownessKept
<1> QED BY <1>1, <1>4, <1>5, WorkStep

\* The answer of the metadata cache.
LEMMA OutputCacheDoneStep ==
  ASSUME IInv, fetch = "unused", UNCHANGED fetchVars, OutputCacheDone
  PROVE  IInv'
<1> DEFINE c == TheContext
<1>1. /\ Runs("OutputCacheDone") /\ tasks' = Tail(tasks)
      /\ \/ FinalizeRewriteForHtml(c) /\ UNCHANGED <<waitVars, slow>>
         \/ MarkSlow(c) /\ Phase(c, "revalidating") /\ Unfinished
         \/ MarkSlow(c) /\ OutputCacheMiss(c)
      /\ UNCHANGED <<RestOfDriver, pageVars, starts, num_predecessors, repeated>>
  BY DEF OutputCacheDone
<1>2. /\ \/ Unfinished /\ \E p \in AtWork : Phase(c, p)
         \/ FinalizeRewriteForHtml(c)
      /\ UNCHANGED <<waitVars, slow>> \/ MarkSlow(c)
  BY <1>1 DEF OutputCacheMiss, AtWork
<1>3. "OutputCacheDone" \in HtmlOps \ {"Start", "DeleteRewriteContext"}
  BY DEF HtmlOps
<1>4. PageInv /\ HtmlTasks /\ Slowness
  BY DEF IInv, HtmlInv
<1>5. /\ PageInv' /\ HtmlTasks' /\ SameSets
      /\ c \in Contexts /\ c \in Outstanding /\ retiring = <<>>
      /\ \A d \in Contexts : phase'[d] = "new" => phase[d] = "new"
  BY <1>1, <1>2, <1>3, <1>4, QueuedRuns
<1>6. CASE UNCHANGED <<waitVars, slow>>
  <2>1. Slowness'
    BY <1>1, <1>4, <1>5, <1>6, SlownessKept
  <2> QED BY <1>1, <1>5, <1>6, <2>1, WorkStep
<1>7. CASE MarkSlow(c)
  <2>1. \A d \in Contexts : HeldUpBy(d)' \subseteq HeldUpBy(d) \cup {c}
    BY <1>1 DEF HeldUpBy
  <2>2. PICK b \in Contexts : b = c
    BY <1>5
  <2> QED BY <1>1, <1>5, <1>7, <2>1, <2>2, SlowStep
<1> QED BY <1>2, <1>6, <1>7

\* A context starts.
LEMMA StartStep ==
  ASSUME IInv, fetch = "unused", UNCHANGED fetchVars, Start
  PROVE  IInv'
<1>1. PageInv /\ HtmlTasks /\ Slowness
  BY DEF IInv, HtmlInv
<1>2. /\ Runs("Start") /\ tasks' = Tail(tasks) /\ "Start" \in HtmlOps
      /\ UNCHANGED <<RestOfDriver, pageVars, num_predecessors, locked>>
  BY DEF Start, HtmlOps
<1>3. PICK c \in Contexts :
        /\ c = TheContext /\ retiring = <<>> /\ HasTask("Start", c)
        /\ tasks' \in Seq(HtmlOps \X Contexts) /\ OneTaskEach(tasks')
        /\ \A o, d : <<o, d>> \in ToSet(tasks') => <<o, d>> \in ToSet(tasks) /\ d # c
  BY <1>1, <1>2, TaskRuns
<1>4. phase[c] = "created" /\ c \in Outstanding /\ Ahead(c) = {}
  BY <1>1, <1>2, <1>3 DEF HtmlTasks
<1>5. /\ starts' = [starts EXCEPT ![c] = @ + 1]
      /\ \/ /\ retiring' = <<c>> /\ Phase(c, "done")
            /\ UNCHANGED <<waitVars, slow, repeated, primary>>
         \/ /\ primary[Key[c]] = None
            /\ primary' = [primary EXCEPT ![Key[c]] = c] /\ Phase(c, "lookup")
            /\ UNCHANGED <<waitVars, slow, repeated, retiring>>
         \/ /\ primary[Key[c]] # None
            /\ IF slow[primary[Key[c]]] THEN MarkSlow(c) ELSE UNCHANGED <<waitVars, slow>>
            /\ repeated' = [repeated EXCEPT ![primary[Key[c]]] = Append(@, c)]
            /\ Phase(c, "repeated")
            /\ UNCHANGED <<primary, retiring>>
  BY <1>3 DEF Start
<1>6. ASSUME PageInv', SameSets, \A d \in Contexts \ {c} : phase'[d] = phase[d]
      PROVE  HtmlTasks' /\ \A d \in Contexts : phase'[d] = "new" => phase[d] = "new"
  <2>1. \A o, d : <<o, d>> \in ToSet(tasks') =>
          <<o, d>> \in ToSet(tasks) /\ d \in Contexts /\ phase'[d] = phase[d]
    BY <1>1, <1>3, <1>6, TaskPhases
  <2>2. HtmlTasks'
    BY <1>1, <1>2, <1>3, <1>6, <2>1, TasksKept DEF SameSets, pageVars
  <2>3. phase'[c] # "new"
    BY <1>2, <1>4, <1>6 DEF PageInv, Placed, Outstanding, pageVars
  <2> QED BY <1>6, <2>2, <2>3
<1>7. CASE /\ retiring' = <<c>> /\ Phase(c, "done")
           /\ UNCHANGED <<waitVars, slow, repeated, primary>>
  <2>1. PageInv' /\ SameSets /\ \A d \in Contexts \ {c} : phase'[d] = phase[d]
    BY <1>1, <1>2, <1>3, <1>4, <1>5, <1>7, StartReports
  <2>2. HtmlTasks' /\ Slowness'
    BY <1>1, <1>6, <1>7, <2>1, SlownessKept
  <2> QED BY <1>2, <1>7, <2>1, <2>2, WorkStep
<1>8. CASE /\ primary[Key[c]] = None
           /\ primary' = [primary EXCEPT ![Key[c]] = c] /\ Phase(c, "lookup")
           /\ UNCHANGED <<waitVars, slow, repeated, retiring>>
  <2>1. PageInv' /\ SameSets /\ \A d \in Contexts \ {c} : phase'[d] = phase[d]
    BY <1>1, <1>2, <1>3, <1>4, <1>5, <1>8, StartWorks
  <2>2. HtmlTasks' /\ Slowness'
    BY <1>1, <1>6, <1>8, <2>1, SlownessKept
  <2> QED BY <1>2, <1>8, <2>1, <2>2, WorkStep
<1>9. CASE /\ primary[Key[c]] # None
           /\ IF slow[primary[Key[c]]] THEN MarkSlow(c) ELSE UNCHANGED <<waitVars, slow>>
           /\ repeated' = [repeated EXCEPT ![primary[Key[c]]] = Append(@, c)]
           /\ Phase(c, "repeated")
           /\ UNCHANGED <<primary, retiring>>
  <2>1. PageInv' /\ SameSets /\ \A d \in Contexts \ {c} : phase'[d] = phase[d]
    BY <1>1, <1>2, <1>3, <1>4, <1>5, <1>9, StartRepeats
  <2>2. HtmlTasks' /\ \A d \in Contexts : phase'[d] = "new" => phase[d] = "new"
    BY <1>6, <2>1
  <2>3. PICK p \in Contexts : p = primary[Key[c]]
    BY <1>1, <1>9, ContextAssumption DEF PageInv, PageTypes
  <2>4. ASSUME NEW d \in Contexts
        PROVE  HeldUpBy(d)' \subseteq HeldUpBy(d) \cup (IF d = p THEN {c} ELSE {})
    <3>1. repeated[d] \in Seq(Contexts) /\ repeated \in [Contexts -> Seq(Contexts)]
      BY <1>1 DEF PageInv, PageTypes
    <3>2. CASE d = p
      <4>1. repeated'[d] = Append(repeated[d], c)
        BY <1>9, <2>3, <3>1, <3>2
      <4>2. ToSet(Append(repeated[d], c)) = ToSet(repeated[d]) \cup {c}
        BY <3>1, Appended
      <4> QED BY <3>2, <4>1, <4>2 DEF HeldUpBy
    <3>3. CASE d # p
      <4>1. repeated'[d] = repeated[d]
        BY <1>9, <2>3, <3>1, <3>3
      <4> QED BY <3>3, <4>1 DEF HeldUpBy
    <3> QED BY <3>2, <3>3
  <2>5. CASE slow[p]
    <3>1. MarkSlow(c)
      BY <1>9, <2>3, <2>5
    <3>2. \A d \in Contexts : HeldUpBy(d)' \subseteq HeldUpBy(d) \cup {c}
      BY <2>4
    <3> QED BY <1>2, <1>3, <1>4, <2>1, <2>2, <3>1, <3>2, SlowStep
  <2>6. CASE ~slow[p]
    <3>1. UNCHANGED <<waitVars, slow>>
      BY <1>9, <2>3, <2>6
    <3>2. Slowness'
      BY <1>1, <2>2, <2>4, <2>6, <3>1 DEF Slowness
    <3> QED BY <1>2, <2>1, <2>2, <3>1, <3>2, WorkStep
  <2> QED BY <2>5, <2>6
<1> QED BY <1>5, <1>7, <1>8, <1>9

\* A context is reported complete, which may be what the HTML thread waits for.
LEMMA RewriteCompleteStep ==
  ASSUME IInv, fetch = "unused", UNCHANGED fetchVars, RewriteComplete
  PROVE  IInv'
<1> USE DEF IInv, DriverInv, HtmlInv
<1>1. PICK c : c = Head(retiring)
  OBVIOUS
<1> DEFINE attached == c \in initiated
           left == IF attached THEN "PendingRewrites" ELSE "DetachedRewrites"
           r == [refs EXCEPT !["DeletingRewrites"] = @ + 1, ![left] = @ - 1]
           q == IF attached /\ ~slow[c] THEN possibly_quick_rewrites - 1 ELSE possibly_quick_rewrites
<1>2. /\ retiring # <<>> /\ retiring' = Tail(retiring)
      /\ SignalIfRequired(r, q)
      /\ initiated' = initiated \ {c} /\ detached' = detached \ {c}
      /\ num_predecessors' = [d \in Contexts |-> IF d \in Successors[c] THEN num_predecessors[d] - 1
                                                 ELSE num_predecessors[d]]
      /\ tasks' = Append(tasks \o StartTasks(RunSuccessors(c)), <<"DeleteRewriteContext", c>>)
      /\ UNCHANGED <<RestOfDriver, html, window, can_rewrite_resources, rewrites,
                     phase, slow, starts, repeated, primary, locked>>
  BY <1>1 DEF RewriteComplete
<1>3. UNCHANGED <<deadline, fully_rewrite_on_flush, releasing, recycled, shutdown, purge, num_detached>>
  BY <1>2 DEF RestOfDriver, endVars
<1>4. /\ PageInv' /\ HtmlTasks' /\ c \in Contexts /\ c \in Outstanding
      /\ Unreported' = Unreported \ {c}
      /\ c \notin Retired /\ Retired' = Retired \cup {c}
  BY <1>1, <1>2, Completed
<1>5. html # "unused" /\ html' # "unused"
  BY <1>2 DEF FetchInv, FetchTypes
<1>6. FetchInv'
  BY <1>5, FetchUnused
<1>7. Slowness'
  BY <1>2, SlownessKept
<1>8. /\ Unreported \subseteq Contexts /\ detached \subseteq Contexts /\ Retired \subseteq Contexts
      /\ initiated \subseteq Contexts /\ initiated \subseteq Unreported
  BY DEF Unreported, Retired, PageInv, PageTypes
<1>9. /\ attached => c \in Unreported /\ c \notin detached
      /\ ~attached => c \in detached /\ c \notin Unreported
  BY <1>4 DEF Unreported, Outstanding, PageInv, Placed
<1> DEFINE Quick == {d \in Unreported : ~slow[d]}
<1>10. Quick \subseteq Contexts
  BY <1>8
<1>11. /\ Cardinality(Unreported') = Cardinality(Unreported) - (IF attached THEN 1 ELSE 0)
       /\ Cardinality(detached') = Cardinality(detached) - (IF attached THEN 0 ELSE 1)
       /\ Cardinality(Retired') = Cardinality(Retired) + 1
       /\ Cardinality(Quick \ {c}) = Cardinality(Quick) - (IF attached /\ ~slow[c] THEN 1 ELSE 0)
  <2>1. Cardinality(Retired \cup {c}) = Cardinality(Retired) + 1
    BY <1>4, <1>8, CountedSets
  <2>2. \A S \in SUBSET Contexts : /\ c \in S => Cardinality(S \ {c}) = Cardinality(S) - 1
                                   /\ c \notin S => Cardinality(S \ {c}) = Cardinality(S)
                                   /\ Cardinality(S) \in Nat
    <3> TAKE S \in SUBSET Contexts
    <3>1. c \notin S => S \ {c} = S
      OBVIOUS
    <3> QED BY <3>1, CountedSets
  <2>3. c \in Quick <=> attached /\ ~slow[c]
    BY <1>9
  <2>4. Cardinality(Quick \ {c}) = Cardinality(Quick) - (IF attached /\ ~slow[c] THEN 1 ELSE 0)
    <3> HIDE DEF Quick
    <3> QED BY <1>10, <2>2, <2>3
  <2>5. /\ Cardinality(Unreported \ {c}) = Cardinality(Unreported) - (IF attached THEN 1 ELSE 0)
        /\ Cardinality(detached \ {c}) = Cardinality(detached) - (IF attached THEN 0 ELSE 1)
    BY <1>8, <1>9, <2>2
  <2> QED BY <1>2, <1>4, <2>1, <2>4, <2>5
<1>12. {d \in Unreported' : ~slow'[d]} = Quick \ {c}
  BY <1>2, <1>4
<1>13. /\ Cardinality(Unreported) \in Nat /\ Cardinality(detached) \in Nat /\ Cardinality(Quick) \in Nat
       /\ attached => Cardinality(Unreported) > 0
       /\ ~attached => Cardinality(detached) > 0
       /\ attached /\ ~slow[c] => Cardinality(Quick) > 0
  <2>1. \A S \in SUBSET Contexts : Cardinality(S) \in Nat /\ (c \in S => Cardinality(S) > 0)
    BY CountedSets
  <2> QED BY <1>8, <1>9, <1>10, <2>1
<1>14. /\ refs["PendingRewrites"] = Cardinality(Unreported)
       /\ refs["DetachedRewrites"] = Cardinality(detached)
       /\ refs["DeletingRewrites"] = Cardinality(Retired)
       /\ possibly_quick_rewrites = Cardinality(Quick)
       /\ \A d \in detached : slow[d]
       /\ refs \in [Categories -> Nat]
  BY DEF RefsMatch, DriverTypes
<1>15. /\ r \in [Categories -> Nat]
       /\ r["DeletingRewrites"] = refs["DeletingRewrites"] + 1
       /\ r["PendingRewrites"] = refs["PendingRewrites"] - (IF attached THEN 1 ELSE 0)
       /\ r["DetachedRewrites"] = refs["DetachedRewrites"] - (IF attached THEN 0 ELSE 1)
       /\ \A k \in Categories \ {"DeletingRewrites", "PendingRewrites", "DetachedRewrites"} :
            r[k] = refs[k]
  <2> HIDE DEF Quick, IInv
  <2>1. CASE attached
    BY <1>13, <1>14, <2>1 DEF Categories
  <2>2. CASE ~attached
    BY <1>13, <1>14, <2>2 DEF Categories
  <2> QED BY <2>1, <2>2
<1>16. q \in Nat /\ q = Cardinality(Quick \ {c})
  BY <1>11, <1>13, <1>14
<1> HIDE DEF r, q, Quick
<1>17. Signalled(r, q) /\ WakeupNotLost'
  BY <1>2, <1>3, SignalTells
<1>18. refs' = r /\ possibly_quick_rewrites' = q
  BY <1>17 DEF Signalled
<1>19. RefsMatch'
  <2>1. \A d \in detached' : slow'[d]
    BY <1>2, <1>14
  <2> QED BY <1>11, <1>12, <1>14, <1>15, <1>16, <1>18, <2>1 DEF RefsMatch
<1>20. WaitMatches' /\ LeftBehind'
  <2>1. initiated' \subseteq initiated /\ \A d \in initiated' : slow[d] => slow'[d]
    BY <1>2
  <2>2. Unreported' \subseteq Contexts /\ initiated' \subseteq Unreported'
    BY <1>2, <1>4, <1>8
  <2>3. r["PendingRewrites"] = 0 => initiated' = {}
    BY <1>18, <1>19, <2>2, CountedSets DEF RefsMatch
  <2>4. q = 0 => \A d \in initiated' : slow'[d]
    <3>1. Quick \ {c} \subseteq Contexts
      BY <1>10
    <3>2. q = 0 => Quick \ {c} = {}
      BY <1>16, <3>1, CountedSets
    <3> QED BY <1>12, <2>2, <3>2
  <2>5. shutdown # "no" => html' \in {"unused", "finished"}
    BY <1>2 DEF WaitMatches
  <2> QED BY <1>2, <1>3, <1>17, <2>1, <2>3, <2>4, <2>5, SignalEndsWait
<1>21. DriverTypes'
  <2>1. waiting' \in {"no", waiting} /\ done' \in {done, "html", "shutdown"}
    BY <1>17 DEF Signalled
  <2> QED BY <1>3, <1>15, <1>16, <1>17, <1>18, <2>1 DEF DriverTypes, Signalled
<1>22. Released'
  <2>1. PICK k \in Categories : refs[k] > 0
    BY <1>4, OutstandingIsReferenced DEF PageInv
  <2>2. release_driver' = (release_driver \/ Total(refs') = 0)
    BY <1>17, <1>18 DEF Signalled
  <2>3. "DeletingRewrites" \in Categories /\ refs' \in [Categories -> Nat] /\ refs'["DeletingRewrites"] > 0
    BY <1>14, <1>15, <1>18 DEF Categories
  <2> QED BY <1>3, <2>1, <2>2, <2>3, StaysWhileReferenced
<1>23. Counted'
  <2>1. /\ refs["User"] = Held(HtmlUser) + Held(shutdown = "waiting")
        /\ refs["Parsing"] = Held(Parsing)
    BY <1>5, PageReferences
  <2>2. HtmlUser' = HtmlUser /\ Parsing' = Parsing
    BY <1>2 DEF HtmlUser, Parsing
  <2>3. \A k \in {"User", "Parsing", "FetchUserFacing", "FetchBackground", "AsyncEvents"} : refs'[k] = refs[k]
    BY <1>15, <1>18 DEF Categories
  <2> QED BY <1>3, <1>5, <2>1, <2>2, <2>3, CountedForPage
<1> QED BY <1>4, <1>6, <1>7, <1>17, <1>19, <1>20, <1>21, <1>22, <1>23

\* A reference of the page is dropped, in a step that leaves the outstanding contexts alone.
LEMMA PageDrops ==
  ASSUME IInv, fetch = "unused", UNCHANGED fetchVars, NEW k \in Categories, refs[k] > 0, DropReference(k),
         UNCHANGED <<deadline, fully_rewrite_on_flush, recycled, shutdown, purge, num_detached,
                     initiated, slow>>,
         html' # "unused", html' = "waiting" <=> html = "waiting",
         shutdown # "no" => html' \in {"unused", "finished"},
         PageInv', HtmlTasks', Slowness', RefsMatch',
         refs["User"] - (IF k = "User" THEN 1 ELSE 0) = Held(HtmlUser') + Held(shutdown = "waiting"),
         refs["Parsing"] - (IF k = "Parsing" THEN 1 ELSE 0) = Held(Parsing'),
         k \notin {"FetchUserFacing", "FetchBackground", "AsyncEvents"}
  PROVE  IInv'
<1> USE DEF IInv, DriverInv, HtmlInv
<1>1. /\ refs' = [refs EXCEPT ![k] = @ - 1] /\ refs' \in [Categories -> Nat]
      /\ Signalled(refs', possibly_quick_rewrites) /\ WakeupNotLost'
      /\ releasing' \in Nat /\ Released'
  BY ReferenceDropped
<1>2. html # "unused"
  BY DEF FetchInv, FetchTypes
<1>3. FetchInv'
  BY <1>2, FetchUnused
<1>4. WaitMatches' /\ LeftBehind'
  <2>1. initiated' \subseteq Unreported' /\ Unreported' \subseteq Contexts
    BY DEF Unreported, PageInv, PageTypes
  <2>2. refs'["PendingRewrites"] = 0 => initiated' = {}
    BY <2>1, CountedSets DEF RefsMatch
  <2>3. possibly_quick_rewrites = 0 => \A d \in initiated' : slow'[d]
    <3>1. {d \in Unreported' : ~slow'[d]} \subseteq Contexts
      BY <2>1
    <3>2. possibly_quick_rewrites' = possibly_quick_rewrites
      BY <1>1 DEF Signalled
    <3>3. possibly_quick_rewrites' = Cardinality({d \in Unreported' : ~slow'[d]})
      BY DEF RefsMatch
    <3>4. \A S \in SUBSET Contexts : Cardinality(S) = 0 => S = {}
      BY CountedSets
    <3> QED BY <2>1, <3>1, <3>2, <3>3, <3>4
  <2> QED BY <1>1, <2>2, <2>3, SignalEndsWait
<1>5. DriverTypes'
  <2>1. waiting' \in {"no", waiting} /\ done' \in {done, "html", "shutdown"}
    BY <1>1 DEF Signalled
  <2> QED BY <1>1, <2>1 DEF DriverTypes, Signalled
<1>6. Counted'
  <2>1. \A j \in Categories : refs'[j] = refs[j] - (IF j = k THEN 1 ELSE 0)
    BY <1>1 DEF DriverTypes
  <2>2. \A j \in Categories : refs[j] \in Nat
    BY DEF DriverTypes
  <2>3. /\ refs'["User"] = Held(HtmlUser') + Held(shutdown = "waiting")
        /\ refs'["Parsing"] = Held(Parsing')
        /\ \A j \in {"FetchUserFacing", "FetchBackground", "AsyncEvents"} : refs'[j] = refs[j]
    BY <2>1, <2>2 DEF Categories
  <2> QED BY <1>2, <2>3, CountedForPage
<1> QED BY <1>1, <1>3, <1>4, <1>5, <1>6

\* A context is deleted.
LEMMA DeleteStep ==
  ASSUME IInv, fetch = "unused", UNCHANGED fetchVars, DeleteRewriteContext
  PROVE  IInv'
<1> USE DEF IInv, DriverInv, HtmlInv
<1>1. /\ Runs("DeleteRewriteContext") /\ tasks' = Tail(tasks) /\ "DeleteRewriteContext" \in HtmlOps
      /\ DropReference("DeletingRewrites") /\ "DeletingRewrites" \in Categories
      /\ UNCHANGED <<deadline, fully_rewrite_on_flush, recycled, deferred, shutdown, purge, num_detached,
                     pageVars, slow, starts, num_predecessors, repeated, primary, locked, retiring>>
  BY DEF DeleteRewriteContext, HtmlOps, Categories
<1>2. PICK c \in Contexts :
        /\ c = TheContext /\ retiring = <<>> /\ HasTask("DeleteRewriteContext", c)
        /\ tasks' \in Seq(HtmlOps \X Contexts) /\ OneTaskEach(tasks')
        /\ \A o, d : <<o, d>> \in ToSet(tasks') => <<o, d>> \in ToSet(tasks) /\ d # c
  BY <1>1, TaskRuns
<1>3. Phase(c, "deleted")
  BY <1>2 DEF DeleteRewriteContext
<1>4. c \in Retired
  BY <1>1, <1>2 DEF HtmlTasks, Retired
<1>5. /\ PageInv' /\ Unreported' = Unreported /\ Retired' = Retired \ {c}
      /\ \A d \in Contexts : Ahead(d)' = Ahead(d)
      /\ \A d \in Contexts \ {c} : phase'[d] = phase[d]
  BY <1>1, <1>3, <1>4, Deleted
<1>6. HtmlTasks'
  <2>1. ASSUME NEW op \in HtmlOps, NEW d \in Contexts, <<op, d>> \in ToSet(tasks')
        PROVE  IF op = "Start" THEN phase'[d] = "created" /\ d \in Outstanding' /\ Ahead(d)' = {}
               ELSE IF op = "DeleteRewriteContext"
               THEN phase'[d] = "done" /\ d \notin ToSet(retiring')
               ELSE phase'[d] = "queued"
    <3>1. <<op, d>> \in ToSet(tasks) /\ phase'[d] = phase[d]
      BY <1>2, <1>5, <2>1
    <3>2. IF op = "Start" THEN phase[d] = "created" /\ d \in Outstanding /\ Ahead(d) = {}
          ELSE IF op = "DeleteRewriteContext" THEN phase[d] = "done" /\ d \notin ToSet(retiring)
          ELSE phase[d] = "queued"
      BY <3>1 DEF HtmlTasks, HasTask
    <3> QED BY <1>1, <1>5, <3>1, <3>2 DEF Outstanding, pageVars
  <2> QED BY <1>2, <2>1 DEF HtmlTasks, HasTask
<1>7. Slowness'
  <2>1. \A d \in Contexts : phase'[d] = "new" => phase[d] = "new"
    BY <1>3, <1>5 DEF Phase, PageInv, PageTypes
  <2> QED BY <1>1, <2>1, SlownessKept
<1>8. Retired \subseteq Contexts
  BY DEF Retired
<1>9. Cardinality(Retired') = Cardinality(Retired) - 1 /\ Cardinality(Retired) > 0
  BY <1>4, <1>5, <1>8, CountedSets
<1>10. refs["DeletingRewrites"] > 0
  BY <1>9 DEF RefsMatch
<1>11. /\ refs' = [refs EXCEPT !["DeletingRewrites"] = @ - 1]
       /\ possibly_quick_rewrites' = possibly_quick_rewrites
  <2>1. Signalled(refs', possibly_quick_rewrites) /\ refs' = [refs EXCEPT !["DeletingRewrites"] = @ - 1]
    BY <1>1, <1>10, ReferenceDropped
  <2> QED BY <2>1 DEF Signalled
<1>12. RefsMatch'
  <2>1. /\ refs'["DeletingRewrites"] = refs["DeletingRewrites"] - 1
        /\ refs'["PendingRewrites"] = refs["PendingRewrites"]
        /\ refs'["DetachedRewrites"] = refs["DetachedRewrites"]
    BY <1>11 DEF DriverTypes, Categories
  <2> QED BY <1>1, <1>5, <1>9, <1>11, <2>1 DEF RefsMatch, pageVars
<1>13. /\ html # "unused" /\ html' = html /\ initiated' = initiated
       /\ HtmlUser' = HtmlUser /\ Parsing' = Parsing
  BY <1>1 DEF FetchInv, FetchTypes, pageVars, HtmlUser, Parsing
<1>14. /\ refs["User"] = Held(HtmlUser) + Held(shutdown = "waiting")
       /\ refs["Parsing"] = Held(Parsing)
       /\ refs["User"] \in Nat /\ refs["Parsing"] \in Nat
  BY <1>13, PageReferences DEF DriverTypes, Categories
<1>15. shutdown # "no" => html' \in {"unused", "finished"}
  BY <1>13 DEF WaitMatches
<1>16. /\ refs["User"] - 0 = Held(HtmlUser') + Held(shutdown = "waiting")
       /\ refs["Parsing"] - 0 = Held(Parsing')
  BY <1>13, <1>14
<1> HIDE DEF IInv, DriverInv, HtmlInv
<1> QED BY <1>1, <1>5, <1>6, <1>7, <1>10, <1>12, <1>13, <1>15, <1>16, PageDrops

\* What a context waits for answers.
LEMMA AnswerStep ==
  ASSUME IInv, fetch = "unused", UNCHANGED fetchVars, Answers
  PROVE  IInv'
<1>1. PICK c \in Contexts, from \in AtWork \ {"queued"},
           op \in HtmlOps \ {"Start", "DeleteRewriteContext"} :
        Answer(c, from, op, {}) \/ Answer(c, from, op, {c})
  <2>1. PICK c \in Contexts :
          \/ OutputCacheCallbackDone(c) \/ ResourceRevalidateCallback(c) \/ CallFetchInputs(c)
          \/ CallLockFailed(c) \/ ResourceFetchCallback(c) \/ RewriteDone(c)
    BY DEF Answers
  <2>2. /\ {"lookup", "revalidating", "locking", "fetching", "rewriting"} \subseteq AtWork \ {"queued"}
        /\ {"OutputCacheDone", "ResourceRevalidateDone", "FetchInputs", "LockFailed",
            "ResourceFetchDone", "RewriteDoneImpl"} \subseteq HtmlOps \ {"Start", "DeleteRewriteContext"}
    BY DEF AtWork, HtmlOps
  <2>3. CASE OutputCacheCallbackDone(c)
    BY <2>2, <2>3 DEF OutputCacheCallbackDone
  <2>4. CASE ResourceRevalidateCallback(c)
    BY <2>2, <2>4 DEF ResourceRevalidateCallback
  <2>5. CASE CallFetchInputs(c)
    BY <2>2, <2>5 DEF CallFetchInputs
  <2>6. CASE CallLockFailed(c)
    BY <2>2, <2>6 DEF CallLockFailed
  <2>7. CASE ResourceFetchCallback(c)
    BY <2>2, <2>7 DEF ResourceFetchCallback
  <2>8. CASE RewriteDone(c)
    BY <2>2, <2>8 DEF RewriteDone
  <2> QED BY <2>1, <2>3, <2>4, <2>5, <2>6, <2>7, <2>8
<1>2. /\ phase[c] = from /\ Phase(c, "queued") /\ tasks' = Append(tasks, <<op, c>>)
      /\ locked' \subseteq locked \cup {c}
      /\ UNCHANGED <<waitVars, RestOfDriver, pageVars, slow, starts, num_predecessors, repeated, primary,
                     retiring>>
  BY <1>1 DEF Answer
<1>3. PageInv /\ HtmlTasks /\ Slowness
  BY DEF IInv, HtmlInv
<1>4. /\ PageInv' /\ SameSets
      /\ phase'[c] = "queued" /\ \A d \in Contexts \ {c} : phase'[d] = phase[d]
  BY <1>2, <1>3, WorkGoesOn DEF AtWork
<1>5. HtmlTasks'
  <2>1. phase[c] \notin {"created", "queued", "done"}
    BY <1>2 DEF AtWork
  <2>2. \A o : <<o, c>> \notin ToSet(tasks)
    BY <1>3, <2>1, TaskPhases
  <2>3. /\ tasks' \in Seq(HtmlOps \X Contexts) /\ OneTaskEach(tasks')
        /\ ToSet(tasks') = ToSet(tasks) \cup {<<op, c>>}
    BY <1>2, <1>3, <2>2, TaskAdded DEF HtmlTasks
  <2>4. \A o \in HtmlOps, d \in Contexts : <<o, d>> \in ToSet(tasks') =>
          \/ <<o, d>> \in ToSet(tasks) /\ phase'[d] = phase[d]
          \/ o \notin {"Start", "DeleteRewriteContext"} /\ phase'[d] = "queued"
    BY <1>4, <2>2, <2>3
  <2> QED BY <1>2, <1>3, <1>4, <2>3, <2>4, TasksKept DEF SameSets, pageVars
<1>6. Slowness'
  <2>1. \A d \in Contexts : phase'[d] = "new" => phase[d] = "new"
    BY <1>4
  <2> QED BY <1>2, <1>3, <2>1, SlownessKept
<1> QED BY <1>2, <1>4, <1>5, <1>6, WorkStep

-----------------------------------------------------------------------------
(* The HTML thread.                                                        *)

\* While the HTML thread works nobody waits.
LEMMA NobodyWaits ==
  ASSUME DriverTypes, WaitMatches, html \notin {"unused", "finished"}
  PROVE  /\ shutdown = "no"
         /\ html # "waiting" => waiting = "no" /\ done = "none"
         /\ done = "html" => waiting = "no"
BY DEF DriverTypes, WaitMatches

\* A step of the HTML thread, which ends with nobody waiting.
LEMMA PageGoesOn ==
  ASSUME IInv, fetch = "unused", UNCHANGED fetchVars,
         html \notin {"unused", "finished"},
         html' \in {"parsing", "flushing", "finishing"},
         waiting = "no", waiting' = "no", done' = "none",
         UNCHANGED <<deadline_reached, release_driver, deadline, fully_rewrite_on_flush, endVars>>,
         num_detached' \in BOOLEAN,
         refs' \in [Categories -> Nat],
         \A k \in {"User", "FetchUserFacing", "FetchBackground", "AsyncEvents"} : refs'[k] = refs[k],
         refs'["Parsing"] = 1,
         possibly_quick_rewrites' \in Nat,
         PageInv', HtmlTasks', Slowness', RefsMatch'
  PROVE  IInv'
<1> USE DEF IInv, DriverInv, HtmlInv
<1>1. shutdown = "no" /\ UNCHANGED <<releasing, recycled, shutdown, purge>>
  BY NobodyWaits DEF endVars
<1>2. FetchInv'
  BY FetchUnused
<1>3. WakeupNotLost'
  BY DEF WakeupNotLost
<1>4. WaitMatches' /\ LeftBehind'
  BY <1>1 DEF WaitMatches, LeftBehind
<1>5. HtmlUser /\ HtmlUser' /\ Parsing'
  BY DEF HtmlUser, Parsing
<1>6. refs["User"] = 1
  BY <1>1, <1>5, PageReferences DEF Held
<1>7. Counted'
  <2>1. refs'["User"] = Held(HtmlUser') + Held(shutdown = "waiting") /\ refs'["Parsing"] = Held(Parsing')
    BY <1>1, <1>5, <1>6 DEF Held
  <2> QED BY <1>1, <2>1, CountedForPage
<1>8. Released'
  <2>1. "User" \in Categories /\ refs["User"] > 0 /\ refs'["User"] > 0
    BY <1>6 DEF Categories
  <2> QED BY <1>1, <2>1, StaysWhileReferenced
<1>9. DriverTypes'
  BY <1>1 DEF DriverTypes
<1> HIDE DEF IInv, DriverInv, HtmlInv
<1> QED BY <1>2, <1>3, <1>4, <1>7, <1>8, <1>9 DEF IInv, DriverInv, HtmlInv

\* StartParseId.
LEMMA StartParseStep ==
  ASSUME IInv, fetch = "unused", UNCHANGED fetchVars, StartParse
  PROVE  IInv'
<1> USE DEF IInv, DriverInv, HtmlInv
<1>1. /\ html = "start" /\ html' = "parsing" /\ can_rewrite_resources' \in BOOLEAN
      /\ refs' = [refs EXCEPT !["Parsing"] = @ + 1]
      /\ UNCHANGED <<possibly_quick_rewrites, waiting, deadline_reached, done, release_driver, deadline,
                     fully_rewrite_on_flush, endVars, num_detached, tasks,
                     window, rewrites, initiated, detached, contextVars, fetch>>
  BY DEF StartParse, AddRef, fetchVars
<1>2. waiting = "no" /\ done = "none"
  BY <1>1, NobodyWaits
<1>3. initiated = {}
  BY <1>1 DEF PageInv, Windows
<1>4. PageInv' /\ HtmlTasks' /\ SameSets
  BY <1>1, <1>3, PageWaits
<1>5. Slowness'
  BY <1>1, SlownessKept DEF contextVars
<1>6. refs["Parsing"] = 0
  BY <1>1, PageReferences DEF Parsing, Held
<1>7. /\ refs' \in [Categories -> Nat] /\ refs'["Parsing"] = 1
      /\ \A k \in Categories \ {"Parsing"} : refs'[k] = refs[k]
  BY <1>1, <1>6 DEF DriverTypes, Categories
<1>8. RefsMatch'
  <2>1. \A k \in {"PendingRewrites", "DetachedRewrites", "DeletingRewrites"} : refs'[k] = refs[k]
    BY <1>7 DEF Categories
  <2> QED BY <1>1, <1>4, <2>1 DEF RefsMatch, SameSets, contextVars
<1>9. \A k \in {"User", "FetchUserFacing", "FetchBackground", "AsyncEvents"} : refs'[k] = refs[k]
  BY <1>7 DEF Categories
<1>10. num_detached' \in BOOLEAN /\ possibly_quick_rewrites' \in Nat
  BY <1>1 DEF DriverTypes
<1> HIDE DEF IInv, DriverInv, HtmlInv
<1> QED BY <1>1, <1>2, <1>4, <1>5, <1>7, <1>8, <1>9, <1>10, PageGoesOn

\* InitiateRewrite.
LEMMA InitiateRewriteStep ==
  ASSUME IInv, fetch = "unused", UNCHANGED fetchVars, InitiateRewrite
  PROVE  IInv'
<1> USE DEF IInv, DriverInv, HtmlInv
<1>1. PICK i \in DOMAIN Page[window] : phase[Page[window][i]] = "new" /\ i \in Unparsed /\
        LET c == Page[window][i]
        IN  IF can_rewrite_resources
            THEN /\ rewrites' = Append(rewrites, c) /\ Phase(c, "created")
                 /\ refs' = [refs EXCEPT !["PendingRewrites"] = @ + 1]
                 /\ possibly_quick_rewrites' = possibly_quick_rewrites + 1
            ELSE /\ Phase(c, "deleted")
                 /\ UNCHANGED <<rewrites, refs, possibly_quick_rewrites>>
  BY DEF InitiateRewrite, Unparsed
<1>2. PICK c : c = Page[window][i]
  OBVIOUS
<1>3. /\ phase[c] = "new"
      /\ IF can_rewrite_resources
         THEN /\ rewrites' = Append(rewrites, c) /\ Phase(c, "created")
              /\ refs' = [refs EXCEPT !["PendingRewrites"] = @ + 1]
              /\ possibly_quick_rewrites' = possibly_quick_rewrites + 1
         ELSE /\ Phase(c, "deleted")
              /\ UNCHANGED <<rewrites, refs, possibly_quick_rewrites>>
  BY <1>1, <1>2
<1>4. /\ html = "parsing"
      /\ UNCHANGED <<waiting, deadline_reached, done, release_driver, deadline,
                     fully_rewrite_on_flush, endVars, num_detached, tasks, html, window,
                     can_rewrite_resources, initiated, detached,
                     slow, starts, num_predecessors, repeated, primary, locked, retiring>>
  BY DEF InitiateRewrite
<1>5. c \in Contexts /\ WindowOf(c) = window
  <2>1. window \in 1..Len(Page)
    BY DEF PageInv, PageTypes
  <2> QED BY <1>1, <1>2, <2>1, WindowFacts
<1>6. /\ PageInv' /\ HtmlTasks' /\ Retired' = Retired
      /\ c \notin Unreported
      /\ Unreported' = IF can_rewrite_resources THEN Unreported \cup {c} ELSE Unreported
      /\ phase'[c] # "new" /\ \A d \in Contexts \ {c} : phase'[d] = phase[d]
  <2>1. IF can_rewrite_resources THEN rewrites' = Append(rewrites, c) /\ Phase(c, "created")
                                 ELSE rewrites' = rewrites /\ Phase(c, "deleted")
    BY <1>3
  <2> QED BY <1>3, <1>4, <1>5, <2>1, ContextParsed
<1>7. Slowness'
  <2>1. \A d \in Contexts : phase'[d] = "new" => phase[d] = "new"
    BY <1>6
  <2> QED BY <1>4, <2>1, SlownessKept
<1>8. waiting = "no" /\ done = "none"
  BY <1>4, NobodyWaits
<1>9. refs["Parsing"] = 1
  BY <1>4, PageReferences DEF Parsing, Held
<1>10. /\ refs' \in [Categories -> Nat] /\ possibly_quick_rewrites' \in Nat
       /\ \A k \in Categories \ {"PendingRewrites"} : refs'[k] = refs[k]
       /\ refs'["PendingRewrites"] = refs["PendingRewrites"] + (IF can_rewrite_resources THEN 1 ELSE 0)
       /\ possibly_quick_rewrites'
            = possibly_quick_rewrites + (IF can_rewrite_resources THEN 1 ELSE 0)
  <2>1. refs \in [Categories -> Nat] /\ possibly_quick_rewrites \in Nat
    BY DEF DriverTypes
  <2> HIDE DEF IInv
  <2> QED BY <1>3, <2>1 DEF Categories
<1>11. RefsMatch'
  <2>1. /\ refs'["DetachedRewrites"] = refs["DetachedRewrites"]
        /\ refs'["DeletingRewrites"] = refs["DeletingRewrites"]
    BY <1>10 DEF Categories
  <2> DEFINE Quick == {d \in Unreported : ~slow[d]}
  <2>2. Unreported \subseteq Contexts /\ Quick \subseteq Contexts /\ ~slow[c] /\ c \notin Quick
    BY <1>3, <1>5, <1>6 DEF Unreported, Slowness
  <2>3. /\ Cardinality(Unreported \cup {c}) = Cardinality(Unreported) + 1
        /\ Cardinality(Quick \cup {c}) = Cardinality(Quick) + 1
    BY <1>6, <2>2, CountedSets
  <2>4. /\ refs["PendingRewrites"] = Cardinality(Unreported)
        /\ refs["DetachedRewrites"] = Cardinality(detached)
        /\ refs["DeletingRewrites"] = Cardinality(Retired)
        /\ possibly_quick_rewrites = Cardinality(Quick)
        /\ \A d \in detached : slow[d]
        /\ refs["PendingRewrites"] \in Nat /\ possibly_quick_rewrites \in Nat
    BY DEF RefsMatch, DriverTypes, Categories
  <2>5. CASE can_rewrite_resources
    <3>1. Unreported' = Unreported \cup {c} /\ {d \in Unreported' : ~slow'[d]} = Quick \cup {c}
      BY <1>4, <1>6, <2>2, <2>5
    <3> HIDE DEF Quick
    <3>2. /\ refs'["PendingRewrites"] = Cardinality(Unreported')
          /\ possibly_quick_rewrites' = Cardinality({d \in Unreported' : ~slow'[d]})
      BY <1>10, <2>3, <2>4, <2>5, <3>1
    <3> QED BY <1>4, <1>6, <2>1, <2>4, <3>2 DEF RefsMatch
  <2>6. CASE ~can_rewrite_resources
    <3>1. Unreported' = Unreported /\ {d \in Unreported' : ~slow'[d]} = Quick
      BY <1>4, <1>6, <2>6
    <3> HIDE DEF Quick
    <3>2. /\ refs'["PendingRewrites"] = Cardinality(Unreported')
          /\ possibly_quick_rewrites' = Cardinality({d \in Unreported' : ~slow'[d]})
      BY <1>10, <2>4, <2>6, <3>1
    <3> QED BY <1>4, <1>6, <2>1, <2>4, <3>2 DEF RefsMatch
  <2> QED BY <2>5, <2>6
<1>12. /\ refs'["Parsing"] = 1
       /\ \A k \in {"User", "FetchUserFacing", "FetchBackground", "AsyncEvents"} : refs'[k] = refs[k]
  BY <1>9, <1>10 DEF Categories
<1>13. num_detached' \in BOOLEAN
  BY <1>4 DEF DriverTypes
<1> HIDE DEF IInv, DriverInv, HtmlInv
<1> QED BY <1>4, <1>6, <1>7, <1>8, <1>10, <1>11, <1>12, <1>13, PageGoesOn

\* FlushAsync, up to rewrites_.clear().
LEMMA FlushAsyncStep ==
  ASSUME IInv, fetch = "unused", UNCHANGED fetchVars, FlushAsync
  PROVE  IInv'
<1> USE DEF IInv, DriverInv, HtmlInv
<1>1. /\ html = "parsing" /\ html' = "flushing"
      /\ UNCHANGED <<refs, possibly_quick_rewrites, waiting, deadline_reached, done, release_driver, deadline,
                     fully_rewrite_on_flush, endVars, num_detached, detached, slow, repeated, phase>>
  BY DEF FlushAsync, waitVars, contextVars
<1>2. PageInv' /\ HtmlTasks' /\ SameSets
  BY WindowFlushed
<1>3. Slowness'
  BY <1>1, SlownessKept
<1>4. waiting = "no" /\ done = "none"
  BY <1>1, NobodyWaits
<1>5. refs["Parsing"] = 1
  BY <1>1, PageReferences DEF Parsing, Held
<1>6. RefsMatch'
  BY <1>1, <1>2 DEF RefsMatch, SameSets
<1>7. num_detached' \in BOOLEAN /\ possibly_quick_rewrites' \in Nat /\ refs' \in [Categories -> Nat]
  BY <1>1 DEF DriverTypes
<1> HIDE DEF IInv, DriverInv, HtmlInv
<1> QED BY <1>1, <1>2, <1>3, <1>4, <1>5, <1>6, <1>7, PageGoesOn

\* FlushAsync, when the wait is over: everything left behind is slow, so nothing quick is lost.
LEMMA FlushAsyncDoneStep ==
  ASSUME IInv, fetch = "unused", UNCHANGED fetchVars, FlushAsyncDone
  PROVE  IInv'
<1> USE DEF IInv, DriverInv, HtmlInv
<1>1. PICK n : n = Cardinality(initiated)
  OBVIOUS
<1>2. /\ html = "waiting" /\ done = "html" /\ done' = "none"
      /\ refs' = [refs EXCEPT !["DetachedRewrites"] = @ + n, !["PendingRewrites"] = @ - n]
      /\ detached' = detached \cup initiated /\ initiated' = {}
      /\ num_detached' = (num_detached \/ initiated # {})
      /\ IF window < Len(Page) THEN html' = "parsing" /\ window' = window + 1
                               ELSE html' = "finishing" /\ window' = window
      /\ UNCHANGED <<possibly_quick_rewrites, waiting, deadline_reached, release_driver, deadline,
                     fully_rewrite_on_flush, endVars, tasks, can_rewrite_resources, rewrites, contextVars>>
  BY <1>1 DEF FlushAsyncDone
<1>3. html' \in {"parsing", "finishing"}
  BY <1>2
<1>4. PageInv' /\ HtmlTasks' /\ Unreported' = {} /\ Retired' = Retired /\ Unreported = initiated
  BY <1>2, WindowLeft
<1>5. Slowness'
  BY <1>2, SlownessKept DEF contextVars
<1>6. waiting = "no"
  BY <1>2, NobodyWaits
<1>7. refs["Parsing"] = 1
  BY <1>2, PageReferences DEF Parsing, Held
<1>8. initiated \subseteq Contexts /\ detached \subseteq Contexts /\ initiated \cap detached = {}
  BY DEF PageInv, PageTypes, Placed
<1>9. /\ Cardinality(detached \cup initiated) = Cardinality(detached) + n
      /\ n \in Nat /\ Cardinality(detached) \in Nat
  BY <1>1, <1>8, CountedSets
<1>10. /\ refs["PendingRewrites"] = n /\ refs["DetachedRewrites"] = Cardinality(detached)
       /\ refs["DeletingRewrites"] = Cardinality(Retired)
       /\ refs \in [Categories -> Nat]
  BY <1>1, <1>4 DEF RefsMatch, DriverTypes
<1>11. /\ refs' \in [Categories -> Nat] /\ refs'["PendingRewrites"] = 0
       /\ refs'["DetachedRewrites"] = Cardinality(detached) + n
       /\ \A k \in Categories \ {"PendingRewrites", "DetachedRewrites"} : refs'[k] = refs[k]
  <2> HIDE DEF IInv
  <2> QED BY <1>2, <1>9, <1>10 DEF Categories
<1>12. \A c \in detached' : slow'[c]
  <2>1. slow' = slow
    BY <1>2 DEF contextVars
  <2> QED BY <1>2, <2>1 DEF LeftBehind, RefsMatch
<1>13. possibly_quick_rewrites' = 0
  <2>1. {c \in Unreported : ~slow[c]} = {}
    BY <1>2, <1>4 DEF LeftBehind
  <2>2. Cardinality({}) = 0
    BY FS_EmptySet
  <2> QED BY <1>2, <2>1, <2>2 DEF RefsMatch
<1>14. RefsMatch'
  <2>1. {c \in Unreported' : ~slow'[c]} = {} /\ Cardinality({}) = 0
    BY <1>4, FS_EmptySet
  <2>2. refs'["DeletingRewrites"] = refs["DeletingRewrites"]
    BY <1>11 DEF Categories
  <2>3. /\ refs'["DetachedRewrites"] = Cardinality(detached')
        /\ refs'["DeletingRewrites"] = Cardinality(Retired')
        /\ refs'["PendingRewrites"] = Cardinality(Unreported')
        /\ possibly_quick_rewrites' = Cardinality({c \in Unreported' : ~slow'[c]})
    BY <1>2, <1>4, <1>9, <1>10, <1>11, <1>13, <2>1, <2>2
  <2> QED BY <1>12, <2>3 DEF RefsMatch
<1>15. /\ refs'["Parsing"] = 1
       /\ \A k \in {"User", "FetchUserFacing", "FetchBackground", "AsyncEvents"} : refs'[k] = refs[k]
  BY <1>7, <1>11 DEF Categories
<1>16. num_detached' \in BOOLEAN /\ waiting' = "no"
  BY <1>2, <1>6 DEF DriverTypes
<1> HIDE DEF IInv, DriverInv, HtmlInv
<1> QED BY <1>2, <1>3, <1>4, <1>5, <1>6, <1>11, <1>13, <1>14, <1>15, <1>16, PageGoesOn

\* FlushAsync, from where it waits.
LEMMA FlushAsyncWaitsStep ==
  ASSUME IInv, fetch = "unused", UNCHANGED fetchVars, FlushAsyncWaits
  PROVE  IInv'
<1> USE DEF IInv, DriverInv, HtmlInv
<1>1. PICK mode, end :
        /\ mode \in {"completion", "render"} /\ (mode = "completion" => end = "none")
        /\ end \in {"none", "ahead"}
        /\ CheckForCompletionAsync(mode, end, refs)
  BY DEF FlushAsyncWaits
<1>2. /\ html = "flushing" /\ html' = "waiting"
      /\ UNCHANGED <<refs, possibly_quick_rewrites, release_driver, fully_rewrite_on_flush, endVars,
                     num_detached, tasks, window, can_rewrite_resources, rewrites, initiated, detached,
                     contextVars, fetch>>
  BY DEF FlushAsyncWaits, fetchVars
<1>3. /\ deadline' = end /\ deadline_reached' = FALSE
      /\ IF IsDone(mode, FALSE, refs, possibly_quick_rewrites)
         THEN waiting' = "no" /\ done' = "html"
         ELSE waiting' = mode /\ done' = done
  BY <1>1 DEF CheckForCompletionAsync, TryCheckForCompletion
<1>4. waiting = "no" /\ done = "none" /\ shutdown = "no"
  BY <1>2, NobodyWaits
<1>5. rewrites = <<>>
  BY <1>2 DEF PageInv, Windows
<1>6. PageInv' /\ HtmlTasks' /\ SameSets
  <2>1. can_rewrite_resources' \in BOOLEAN
    BY <1>2 DEF PageInv, PageTypes
  <2>2. PageInv /\ HtmlTasks
    OBVIOUS
  <2> HIDE DEF IInv, DriverInv, HtmlInv
  <2> QED BY <1>2, <1>5, <2>1, <2>2, PageWaits
<1>7. Slowness' /\ FetchInv'
  BY <1>2, SlownessKept, FetchUnused DEF contextVars
<1>8. RefsMatch'
  BY <1>2, <1>6 DEF RefsMatch, SameSets, contextVars
<1>9. LeftBehind'
  <2>1. ASSUME done' = "html" PROVE initiated' = {}
    <3>1. refs["PendingRewrites"] = 0
      BY <1>3, <1>4, <2>1 DEF IsDone, RewritesComplete
    <3>2. Unreported = {}
      <4>1. Unreported \subseteq Contexts
        BY DEF Unreported
      <4> QED BY <3>1, <4>1, CountedSets DEF RefsMatch
    <3> QED BY <1>2, <3>2 DEF Unreported, PageInv, PageTypes
  <2> QED BY <2>1 DEF LeftBehind
<1>10. WaitMatches'
  BY <1>1, <1>2, <1>3, <1>4 DEF WaitMatches, endVars
<1>11. WakeupNotLost'
  BY <1>1, <1>2, <1>3, <1>4 DEF WakeupNotLost, IsDone
<1>12. DriverTypes'
  BY <1>1, <1>2, <1>3, <1>4 DEF DriverTypes, endVars
<1>13. Released' /\ Counted'
  <2>1. HtmlUser /\ HtmlUser' /\ Parsing /\ Parsing'
    BY <1>2 DEF HtmlUser, Parsing
  <2>2. /\ refs["User"] = 1 /\ refs["Parsing"] = 1
        /\ refs'["User"] = Held(HtmlUser') + Held(shutdown = "waiting") /\ refs'["Parsing"] = Held(Parsing')
    BY <1>2, <1>4, <2>1, PageReferences DEF Held
  <2>3. UNCHANGED <<fetchVars, shutdown, purge, releasing, recycled>>
    BY <1>2 DEF endVars
  <2>4. Counted'
    BY <1>2, <2>2, <2>3, CountedForPage
  <2>5. "User" \in Categories /\ refs["User"] > 0 /\ refs'["User"] > 0 /\ refs' \in [Categories -> Nat]
    BY <1>2, <2>2 DEF Categories, DriverTypes
  <2>6. Released'
    BY <1>2, <2>3, <2>5, StaysWhileReferenced
  <2> QED BY <2>4, <2>6
<1> HIDE DEF IInv, DriverInv, HtmlInv
<1> QED BY <1>6, <1>7, <1>8, <1>9, <1>10, <1>11, <1>12, <1>13 DEF IInv, DriverInv, HtmlInv

\* FinishParseAfterFlush.
LEMMA FinishParseStep ==
  ASSUME IInv, fetch = "unused", UNCHANGED fetchVars, FinishParseAfterFlush
  PROVE  IInv'
<1> USE DEF IInv, DriverInv, HtmlInv
<1>1. PICK k \in {"Parsing", "User"} :
        /\ html = (IF k = "Parsing" THEN "finishing" ELSE "cleanup")
        /\ html' = (IF k = "Parsing" THEN "cleanup" ELSE "finished")
        /\ DropReference(k)
  BY DEF FinishParseAfterFlush
<1>2. UNCHANGED <<deadline, fully_rewrite_on_flush, recycled, deferred, shutdown, purge, num_detached,
                  tasks, window, can_rewrite_resources, rewrites, initiated, detached, contextVars, fetch>>
  BY DEF FinishParseAfterFlush, fetchVars
<1>3. html \in {"finishing", "cleanup"} /\ html' \in {"cleanup", "finished"}
  BY <1>1
<1>4. rewrites = <<>> /\ initiated = {} /\ window = Len(Page)
  BY <1>3 DEF PageInv, Windows
<1>5. PageInv' /\ HtmlTasks' /\ SameSets
  <2>1. can_rewrite_resources' \in BOOLEAN
    BY <1>2 DEF PageInv, PageTypes
  <2>2. PageInv /\ HtmlTasks
    OBVIOUS
  <2> HIDE DEF IInv, DriverInv, HtmlInv
  <2> QED BY <1>2, <1>3, <1>4, <2>1, <2>2, PageWaits
<1>6. Slowness'
  BY <1>2, SlownessKept DEF contextVars
<1>7. /\ refs' = [refs EXCEPT ![k] = @ - 1] /\ possibly_quick_rewrites' = possibly_quick_rewrites
  BY <1>1 DEF DropReference, SignalIfRequired
<1>8. RefsMatch'
  <2>1. \A j \in {"PendingRewrites", "DetachedRewrites", "DeletingRewrites"} : refs'[j] = refs[j]
    BY <1>7 DEF Categories, DriverTypes
  <2> QED BY <1>2, <1>5, <1>7, <2>1 DEF RefsMatch, SameSets, contextVars
<1>9. shutdown = "no"
  BY <1>3, NobodyWaits
<1>10. /\ refs["User"] = 1 /\ refs["Parsing"] = IF k = "Parsing" THEN 1 ELSE 0
       /\ k \in Categories /\ refs[k] > 0
  BY <1>1, <1>9, PageReferences DEF HtmlUser, Parsing, Held, Categories
<1>11. /\ refs["User"] - (IF k = "User" THEN 1 ELSE 0) = Held(HtmlUser') + Held(shutdown = "waiting")
       /\ refs["Parsing"] - (IF k = "Parsing" THEN 1 ELSE 0) = Held(Parsing')
  BY <1>1, <1>9, <1>10 DEF HtmlUser, Parsing, Held
<1>12. /\ html' # "unused" /\ html' # "waiting" /\ html # "waiting"
       /\ k \notin {"FetchUserFacing", "FetchBackground", "AsyncEvents"}
       /\ UNCHANGED <<initiated, slow>>
  BY <1>2, <1>3 DEF contextVars
<1> HIDE DEF IInv, DriverInv, HtmlInv
<1> QED BY <1>1, <1>2, <1>5, <1>6, <1>8, <1>9, <1>10, <1>11, <1>12, PageDrops

-----------------------------------------------------------------------------
(* The fetch.                                                              *)

\* The tasks of a fetch.
FetchTaskSet == {Alarm} \cup {<<t>> : t \in FetchTaskNames}
Apart(q) == \A i, j \in 1..Len(q) : (q[i] = Alarm <=> q[j] = Alarm) => i = j

\* Without a queued step of the fetch or of its alarm there is no task.
LEMMA NoFetchTask ==
  ASSUME FetchTasks, fetch # "queued", alarm # "queued"
  PROVE  tasks = <<>>
<1>1. tasks \in Seq(FetchTaskSet) /\ \A t \in ToSet(tasks) : FALSE
  BY DEF FetchTasks, FetchTaskSet
<1> QED BY <1>1, SomeElement

\* What is left when a task of the fetch runs.
LEMMA FetchTaskRuns ==
  ASSUME FetchTasks, NEW t, RunsFetch(t)
  PROVE  /\ drops = <<>> /\ <<t>> \in ToSet(tasks) /\ <<t>> \in FetchTaskSet
         /\ Tail(tasks) \o <<>> = Tail(tasks) /\ Tail(tasks) \in Seq(FetchTaskSet) /\ Apart(Tail(tasks))
         /\ \A e \in ToSet(Tail(tasks)) : e \in ToSet(tasks) /\ (e = Alarm <=> <<t>> # Alarm)
<1>1. /\ tasks \in Seq(FetchTaskSet) /\ Apart(tasks)
      /\ drops = <<>> /\ tasks # <<>> /\ Head(tasks)[1] = t
  BY DEF FetchTasks, FetchTaskSet, Apart, RunsFetch, HeadIs
<1>2. /\ Head(tasks) \in FetchTaskSet /\ Tail(tasks) \in Seq(FetchTaskSet)
      /\ Head(tasks) = tasks[1] /\ Len(Tail(tasks)) = Len(tasks) - 1 /\ Len(tasks) > 0
      /\ Len(tasks) \in Nat /\ Len(Tail(tasks)) \in Nat
      /\ \A i \in 1..Len(Tail(tasks)) : Tail(tasks)[i] = tasks[i + 1]
      /\ ToSet(tasks) = {Head(tasks)} \cup ToSet(Tail(tasks))
  BY <1>1, HeadAndTail, Elements
<1>3. Head(tasks) = <<t>>
  BY <1>1, <1>2 DEF FetchTaskSet, Alarm
<1>4. Apart(Tail(tasks))
  <2> SUFFICES ASSUME NEW i \in 1..Len(Tail(tasks)), NEW j \in 1..Len(Tail(tasks)),
                      Tail(tasks)[i] = Alarm <=> Tail(tasks)[j] = Alarm
               PROVE  i = j
    BY DEF Apart
  <2>1. i + 1 \in 1..Len(tasks) /\ j + 1 \in 1..Len(tasks)
    BY <1>2
  <2>2. tasks[i + 1] = Alarm <=> tasks[j + 1] = Alarm
    BY <1>2
  <2>3. i + 1 = j + 1
    BY <1>1, <2>1, <2>2 DEF Apart
  <2> QED BY <2>3
<1>5. ASSUME NEW e \in ToSet(Tail(tasks)) PROVE e = Alarm <=> <<t>> # Alarm
  <2>1. PICK i \in 1..Len(Tail(tasks)) : Tail(tasks)[i] = e
    <3>1. Tail(tasks) \in Seq(FetchTaskSet)
      BY <1>2
    <3> HIDE DEF FetchTaskSet
    <3> QED BY <3>1, Elements
  <2>2. i + 1 \in 1..Len(tasks) /\ tasks[i + 1] = e /\ 1 \in 1..Len(tasks) /\ tasks[1] = <<t>> /\ i + 1 # 1
    BY <1>2, <1>3, <2>1
  <2> QED BY <1>1, <2>2 DEF Apart
<1>6. Tail(tasks) \o <<>> = Tail(tasks)
  BY <1>2
<1> QED BY <1>1, <1>2, <1>3, <1>4, <1>5, <1>6

\* A task other than the last one of a rewrite finds the fetch before any deadline.
Early ==
  /\ fetch \notin {"unused", "over"} /\ answered = 0 /\ drops = <<>> /\ ~detached_fetch
  /\ alarm = "none" /\ ~canceled /\ ~deadline_alarm

\* Every task but RewriteDoneImpl is early, and the only one.
LEMMA EarlyTask ==
  ASSUME FetchInv, fetch # "unused", NEW t \in FetchTaskNames \ {"RewriteDoneImpl"}, RunsFetch(t)
  PROVE  Early /\ fetch = "queued" /\ \A more : Pop(more) => tasks' = <<>> \o more
<1>1. /\ FetchTasks /\ FetchTypes /\ FetchStages
      /\ drops = <<>> /\ <<t>> \in ToSet(tasks) /\ Tail(tasks) \in Seq(FetchTaskSet)
      /\ \A e \in ToSet(Tail(tasks)) : e \in ToSet(tasks) /\ (e = Alarm <=> <<t>> # Alarm)
  BY FetchTaskRuns DEF FetchInv
<1>2. <<t>> # Alarm /\ <<t>> # <<"RewriteDoneImpl">>
  BY DEF Alarm, FetchTaskNames
<1>3. fetch = "queued" /\ alarm = "none" /\ ~detached_fetch
  BY <1>1, <1>2 DEF FetchTasks
<1>4. Early
  BY <1>1, <1>3 DEF Early, FetchStages, FetchTypes
<1>5. \A e \in ToSet(Tail(tasks)) : FALSE
  BY <1>1, <1>2, <1>3 DEF FetchTasks
<1>6. Tail(tasks) = <<>>
  BY <1>1, <1>5, SomeElement
<1> QED BY <1>3, <1>4, <1>6 DEF Pop

\* The fetch is early before it has tasks.
LEMMA EarlyStage ==
  ASSUME FetchInv, fetch \in {"start", "finding"}
  PROVE  Early /\ tasks = <<>>
<1>1. Early
  BY DEF FetchInv, FetchStages, FetchTypes, Early
<1> QED BY <1>1, NoFetchTask DEF FetchInv, Early

\* What an early step may do.
EarlyMove ==
  /\ UNCHANGED <<detached_fetch, canceled>>
  /\ \/ /\ fetch' \in {"finding"} \cup FetchWaits /\ tasks' = <<>>
        /\ UNCHANGED <<answered, drops, deadline_alarm, alarm>>
     \/ /\ fetch' = "queued" /\ \E t \in FetchTaskNames : tasks' = <<<<t>>>>
        /\ UNCHANGED <<answered, drops, deadline_alarm, alarm>>
     \/ /\ fetch' = "rewriting" /\ tasks' = <<>> /\ deadline_alarm' = TRUE /\ alarm' = "set"
        /\ UNCHANGED <<answered, drops>>
     \/ /\ fetch' = "over" /\ tasks' = <<>> /\ answered' = 1 /\ drops' \in {<<"User">>, Both}
        /\ UNCHANGED <<deadline_alarm, alarm>>

\* An early step keeps the stages of the fetch in order.
LEMMA EarlyMoves ==
  ASSUME FetchInv, html = "unused", html' = "unused", Early, EarlyMove
  PROVE  /\ FetchInv' /\ fetch' \notin {"unused", "start"}
         /\ FetchUser /\ FetchUser' /\ ~Background /\ ~Background'
         /\ UserFacing' <=> drops' # <<"User">>
<1>1. fetch' \in {"finding", "queued", "over"} \cup FetchWaits /\ fetch' \notin {"unused", "start"}
  BY DEF EarlyMove, FetchWaits
<1>2. drops' \in {<<>>, <<"User">>, Both} /\ answered' \in {0, 1}
  BY DEF EarlyMove, Early
<1>3. FetchTypes'
  <2>1. /\ alarm' \in {"none", "set"} /\ deadline_alarm' \in BOOLEAN
        /\ detached_fetch' \in BOOLEAN /\ canceled' \in BOOLEAN
    BY DEF EarlyMove, Early, FetchInv, FetchTypes
  <2> QED BY <1>1, <1>2, <2>1 DEF FetchTypes
<1>4. FetchStages'
  <2>1. <<"FetchBackground">> \notin {<<>>, <<"User">>, Both}
    BY DEF Both
  <2>2. /\ ~detached_fetch' /\ ~canceled'
        /\ alarm' # "none" => fetch' = "rewriting" /\ answered' = 0 /\ deadline_alarm'
        /\ deadline_alarm' => alarm' # "none" /\ answered' = 0
        /\ answered' = 0 => drops' = <<>> /\ fetch' # "over"
        /\ answered' = 1 => fetch' = "over"
    BY <1>1 DEF EarlyMove, Early, FetchWaits
  <2> QED BY <1>1, <1>2, <2>1, <2>2 DEF FetchStages
<1>5. FetchTasks'
  <2>1. CASE tasks' = <<>>
    BY <2>1, EmptyElements DEF FetchTasks
  <2>2. CASE tasks' # <<>>
    <3>1. PICK t \in FetchTaskNames : tasks' = <<<<t>>>> /\ fetch' = "queued" /\ alarm' = alarm
      BY <2>2 DEF EarlyMove
    <3>2. <<t>> # Alarm /\ <<t>> \in FetchTaskSet
      BY DEF Alarm, FetchTaskNames, FetchTaskSet
    <3>3. tasks' \in Seq(FetchTaskSet) /\ ToSet(tasks') = {<<t>>} /\ Len(tasks') = 1
      BY <3>1, <3>2, Singleton
    <3>4. alarm' = "none" /\ ~detached_fetch'
      BY <3>1 DEF Early, EarlyMove
    <3> QED BY <3>1, <3>2, <3>3, <3>4 DEF FetchTasks, FetchTaskSet
  <2> QED BY <2>1, <2>2
<1>6. FetchUser /\ ~Background /\ ~Background'
  BY DEF FetchUser, Background, Early, EarlyMove
<1>7. FetchUser' /\ (UserFacing' <=> drops' # <<"User">>)
  <2>1. CASE answered' = 0
    <3>1. drops' = <<>>
      BY <2>1 DEF EarlyMove, Early
    <3> QED BY <1>1, <2>1, <3>1 DEF FetchUser, UserFacing
  <2>2. CASE answered' # 0
    <3>1. drops' \in {<<"User">>, Both}
      BY <2>2 DEF EarlyMove, Early
    <3>2. CASE drops' = <<"User">>
      <4>1. drops'[1] = "User" /\ DOMAIN drops' = {1}
        BY <3>2
      <4>2. /\ \E i \in DOMAIN drops' : drops'[i] = "User"
            /\ ~\E i \in DOMAIN drops' : drops'[i] = "FetchUserFacing"
        BY <4>1
      <4> QED BY <2>2, <3>2, <4>2 DEF FetchUser, UserFacing
    <3>3. CASE drops' = Both
      <4>1. /\ drops'[1] = "User" /\ drops'[2] = "FetchUserFacing"
            /\ DOMAIN drops' = {1, 2} /\ drops' # <<"User">>
        BY <3>3 DEF Both
      <4>2. /\ \E i \in DOMAIN drops' : drops'[i] = "User"
            /\ \E i \in DOMAIN drops' : drops'[i] = "FetchUserFacing"
        BY <4>1
      <4> QED BY <2>2, <4>1, <4>2 DEF FetchUser, UserFacing
    <3> QED BY <3>1, <3>2, <3>3
  <2> QED BY <2>1, <2>2
<1> QED BY <1>1, <1>3, <1>4, <1>5, <1>6, <1>7 DEF FetchInv

\* A step that leaves the page and its references as they are.
LEMMA PageSame ==
  ASSUME HtmlInv, UNCHANGED htmlVars,
         \A k \in {"PendingRewrites", "DetachedRewrites", "DeletingRewrites"} : refs'[k] = refs[k],
         possibly_quick_rewrites' = possibly_quick_rewrites
  PROVE  PageInv' /\ Slowness' /\ RefsMatch' /\ SameSets
<1>1. UNCHANGED <<html, window, can_rewrite_resources, rewrites, initiated, detached,
                  phase, slow, starts, num_predecessors, repeated, primary, locked, retiring>>
  BY DEF htmlVars, pageVars, contextVars
<1>2. Unreported' = Unreported /\ Retired' = Retired
  BY <1>1 DEF Unreported, Retired
<1>3. RefsMatch'
  BY <1>1, <1>2 DEF HtmlInv, RefsMatch
<1>4. Slowness'
  BY <1>1, SlownessKept DEF HtmlInv
<1>5. PageTypes' /\ Works' /\ Repeating'
  BY <1>1 DEF HtmlInv, PageInv, PageTypes, Works, Repeating
<1>6. \A c : Reported(c)' <=> Reported(c)
  BY <1>1 DEF Reported
<1>7. \A c : Ahead(c)' = Ahead(c)
  BY <1>6 DEF Ahead
<1>8. Started'
  BY <1>1, <1>7 DEF HtmlInv, PageInv, Started
<1>9. Outstanding' = Outstanding
  BY <1>1 DEF Outstanding
<1>10. Placed'
  <2>1. Placed
    BY DEF HtmlInv, PageInv
  <2> QED BY <1>1, <1>6, <1>9, <2>1 DEF Placed
<1>11. Windows'
  <2>1. \A c : Unflushed(c)' <=> Unflushed(c)
    BY <1>1 DEF Unflushed
  <2> QED BY <1>1, <2>1 DEF HtmlInv, PageInv, Windows
<1> QED BY <1>2, <1>3, <1>4, <1>5, <1>7, <1>8, <1>10, <1>11 DEF PageInv, SameSets

\* The page of a driver that fetches a resource stays as it is.
LEMMA PageIdle ==
  ASSUME HtmlInv, html = "unused", UNCHANGED htmlVars, fetch' # "unused",
         \A k \in {"PendingRewrites", "DetachedRewrites", "DeletingRewrites"} : refs'[k] = refs[k],
         possibly_quick_rewrites' = possibly_quick_rewrites
  PROVE  HtmlInv'
<1>1. initiated' = {}
  BY DEF HtmlInv, PageInv, Windows, htmlVars, pageVars
<1>2. LeftBehind'
  BY <1>1 DEF LeftBehind
<1> QED BY <1>2, PageSame DEF HtmlInv

\* A step of the fetch that drops no reference.
LEMMA FetchStep ==
  ASSUME IInv, html = "unused", UNCHANGED htmlVars,
         UNCHANGED <<possibly_quick_rewrites, waiting, deadline_reached, done, release_driver,
                     RestOfDriver1>>,
         FetchInv', fetch' # "unused",
         \/ refs' = refs
         \/ answered = 0 /\ \E k \in {"FetchUserFacing", "FetchBackground"} :
                              refs' = [refs EXCEPT ![k] = @ + 1],
         FetchUser' <=> FetchUser,
         refs'["FetchUserFacing"] = Held(UserFacing'), refs'["FetchBackground"] = Held(Background')
  PROVE  IInv'
<1> USE DEF IInv, DriverInv
<1>1. UNCHANGED <<html, deadline, fully_rewrite_on_flush, releasing, recycled, shutdown, purge,
                  num_detached>>
  BY DEF htmlVars, pageVars, RestOfDriver1, endVars
<1>2. refs \in [Categories -> Nat]
  BY DEF DriverTypes
<1>3. /\ refs' \in [Categories -> Nat] /\ \A k \in Categories : refs'[k] >= refs[k]
      /\ \A k \in Categories \ {"FetchUserFacing", "FetchBackground"} : refs'[k] = refs[k]
  <2>1. CASE refs' = refs
    BY <1>2, <2>1
  <2>2. CASE refs' # refs
    <3>1. PICK k \in {"FetchUserFacing", "FetchBackground"} : refs' = [refs EXCEPT ![k] = @ + 1]
      BY <2>2
    <3>2. k \in Categories
      BY DEF Categories
    <3>3. /\ refs' \in [Categories -> Nat] /\ refs'[k] = refs[k] + 1
          /\ \A j \in Categories \ {k} : refs'[j] = refs[j]
      BY <1>2, <3>1, <3>2
    <3>4. \A j \in Categories : refs[j] \in Nat
      BY <1>2
    <3> HIDE DEF IInv, DriverInv
    <3> QED BY <3>2, <3>3, <3>4
  <2> QED BY <2>1, <2>2
<1>4. /\ refs'["User"] = refs["User"] /\ refs'["Parsing"] = refs["Parsing"]
      /\ refs'["AsyncEvents"] = refs["AsyncEvents"]
      /\ refs'["PendingRewrites"] = refs["PendingRewrites"]
      /\ refs'["DetachedRewrites"] = refs["DetachedRewrites"]
      /\ refs'["DeletingRewrites"] = refs["DeletingRewrites"]
  BY <1>3 DEF Categories
<1>5. HtmlInv'
  BY <1>4, PageIdle
<1>6. DriverTypes'
  BY <1>1, <1>3 DEF DriverTypes
<1>7. Counted'
  <2>1. (HtmlUser' <=> HtmlUser) /\ (Parsing' <=> Parsing)
    BY <1>1 DEF HtmlUser, Parsing
  <2>2. /\ Held(HtmlUser') = Held(HtmlUser) /\ Held(Parsing') = Held(Parsing)
        /\ Held(FetchUser') = Held(FetchUser)
    BY <2>1 DEF Held
  <2> QED BY <1>1, <1>4, <2>2 DEF Counted
<1>8. WakeupNotLost'
  <2>1. \A k \in Categories : refs[k] \in Nat /\ refs'[k] \in Nat
    BY <1>2, <1>3
  <2>2. RewritesComplete(refs') => RewritesComplete(refs)
    BY <1>3, <2>1 DEF RewritesComplete, Categories
  <2>3. refs'["FetchBackground"] = 0 => refs["FetchBackground"] = 0
    BY <1>3, <2>1 DEF Categories
  <2> QED BY <1>1, <1>4, <2>2, <2>3 DEF WakeupNotLost, IsDone
<1>9. WaitMatches'
  BY <1>1 DEF WaitMatches
<1>10. Released'
  <2>1. CASE refs' = refs
    BY <1>1, <2>1 DEF Released, Kept, Leaving, Given, Total
  <2>2. CASE answered = 0
    <3>1. FetchUser
      BY <2>2 DEF FetchUser
    <3>2. refs["User"] > 0
      <4>1. refs["User"] = Held(HtmlUser) + Held(FetchUser) + Held(shutdown = "waiting")
        BY DEF Counted
      <4> QED BY <3>1, <4>1 DEF Held
    <3>3. "User" \in Categories /\ refs'["User"] > 0
      BY <1>4, <3>2 DEF Categories
    <3> HIDE DEF IInv
    <3> QED BY <1>1, <1>3, <3>2, <3>3, StaysWhileReferenced DEF IInv
  <2> QED BY <2>1, <2>2
<1> HIDE DEF IInv, DriverInv
<1> QED BY <1>5, <1>6, <1>7, <1>8, <1>9, <1>10 DEF IInv, DriverInv

\* An early step of the fetch that has its reference.
LEMMA EarlyStep ==
  ASSUME IInv, html = "unused", UNCHANGED htmlVars, UNCHANGED <<waitVars, RestOfDriver1>>,
         Early, fetch # "start", EarlyMove, drops' # <<"User">>
  PROVE  IInv'
<1>1. FetchInv /\ html' = "unused"
  BY DEF IInv, htmlVars, pageVars
<1>2. /\ FetchInv' /\ fetch' # "unused"
      /\ FetchUser /\ FetchUser' /\ ~Background /\ ~Background' /\ UserFacing'
  BY <1>1, EarlyMoves
<1>3. UserFacing
  BY DEF UserFacing, Early
<1>4. refs["FetchUserFacing"] = 1 /\ refs["FetchBackground"] = 0
  BY <1>2, <1>3 DEF IInv, DriverInv, Counted, Held
<1>5. /\ refs' = refs
      /\ UNCHANGED <<possibly_quick_rewrites, waiting, deadline_reached, done, release_driver>>
  BY DEF waitVars
<1>6. refs'["FetchUserFacing"] = Held(UserFacing') /\ refs'["FetchBackground"] = Held(Background')
  BY <1>2, <1>4, <1>5 DEF Held
<1> QED BY <1>2, <1>5, <1>6, FetchStep

\* The fetch reconstructs, or starts to rewrite.
LEMMA Reconstructs ==
  ASSUME Early, StartFetchReconstruction, \A more : Pop(more) => tasks' = <<>> \o more,
         UNCHANGED detached_fetch
  PROVE  EarlyMove /\ drops' # <<"User">>
<1>1. UNCHANGED <<canceled, answered, drops, detached_fetch>> /\ drops' = <<>>
  BY DEF StartFetchReconstruction, Early
<1>2. drops' # <<"User">>
  BY <1>1
<1>3. CASE fetch' = "fetching" /\ Pop(<<>>) /\ UNCHANGED <<deadline_alarm, alarm>>
  BY <1>1, <1>2, <1>3 DEF EarlyMove, FetchWaits
<1>4. CASE StartRewriteForFetch
  <2>1. CASE fetch' = "rewriting" /\ Pop(<<>>)
    <3>1. tasks' = <<>>
      BY <2>1
    <3>2. \/ deadline_alarm' = TRUE /\ alarm' = "set"
          \/ UNCHANGED <<deadline_alarm, alarm>>
      BY <1>4, <2>1 DEF StartRewriteForFetch
    <3> QED BY <1>1, <1>2, <2>1, <3>1, <3>2 DEF EarlyMove, FetchWaits
  <2>2. CASE fetch' = "queued"
    <3>1. PICK t \in {"Rewrite", "RewriteDoneImpl"} : Pop(<<<<t>>>>) /\ UNCHANGED <<deadline_alarm, alarm>>
      BY <1>4, <2>2 DEF StartRewriteForFetch
    <3>2. tasks' = <<<<t>>>> /\ t \in FetchTaskNames
      BY <3>1 DEF FetchTaskNames
    <3> QED BY <1>1, <1>2, <2>2, <3>1, <3>2 DEF EarlyMove
  <2> QED BY <1>4, <2>1, <2>2 DEF StartRewriteForFetch
<1> QED BY <1>3, <1>4 DEF StartFetchReconstruction

\* The fetch of a url is answered, or its first task queued.
LEMMA FilterFetchStarts ==
  ASSUME Early, tasks = <<>>, StartFilterFetch, UNCHANGED <<detached_fetch, alarmVars>>
  PROVE  EarlyMove /\ drops' # <<"User">>
<1>1. CASE Queue1("StartFetch") /\ UNCHANGED <<answered, drops>>
  <2>1. tasks' = <<<<"StartFetch">>>> /\ fetch' = "queued" /\ "StartFetch" \in FetchTaskNames
    BY <1>1 DEF Queue1, FetchTaskNames
  <2>2. drops' # <<"User">>
    BY <1>1 DEF Early
  <2> QED BY <1>1, <2>1, <2>2 DEF EarlyMove, alarmVars
<1>2. CASE fetch' = "over" /\ UNCHANGED tasks /\ Done(Both)
  <2>1. answered' = 1 /\ drops' = Both /\ Both # <<"User">>
    BY <1>2 DEF Done, Early, Both
  <2> QED BY <1>2, <2>1 DEF EarlyMove, alarmVars
<1> QED BY <1>1, <1>2 DEF StartFilterFetch

\* FetchResource.
LEMMA FetchResourceStep ==
  ASSUME IInv, html = "unused", UNCHANGED htmlVars, FetchResource
  PROVE  IInv'
<1>1. FetchInv /\ fetch = "start" /\ html' = "unused"
  BY DEF IInv, FetchResource, htmlVars, pageVars
<1>2. Early /\ tasks = <<>>
  BY <1>1, EarlyStage
<1>3. UNCHANGED <<RestOfDriver1, detached_fetch, alarmVars>>
  BY DEF FetchResource
<1>4. ~UserFacing /\ ~Background
  BY <1>1, <1>2 DEF UserFacing, Background, Early
<1>5. refs["FetchUserFacing"] = 0 /\ refs["FetchBackground"] = 0
  BY <1>4 DEF IInv, DriverInv, Counted, Held
<1>6. CASE fetch' = "over" /\ Done(<<"User">>) /\ UNCHANGED <<waitVars, tasks, kind>>
  <2>1. EarlyMove /\ drops' = <<"User">>
    BY <1>2, <1>3, <1>6 DEF EarlyMove, Done, Early, alarmVars
  <2>2. FetchInv' /\ fetch' # "unused" /\ FetchUser /\ FetchUser' /\ ~Background' /\ ~UserFacing'
    BY <1>1, <1>2, <2>1, EarlyMoves
  <2>3. /\ refs' = refs
        /\ UNCHANGED <<possibly_quick_rewrites, waiting, deadline_reached, done, release_driver>>
    BY <1>6 DEF waitVars
  <2>4. refs'["FetchUserFacing"] = Held(UserFacing') /\ refs'["FetchBackground"] = Held(Background')
    BY <1>5, <2>2, <2>3 DEF Held
  <2> QED BY <1>3, <2>2, <2>3, <2>4, FetchStep
<1>7. CASE /\ AddRef("FetchUserFacing")
           /\ \/ StartFilterFetch
              \/ Await("finding") /\ UNCHANGED <<answered, drops>>
  <2>1. EarlyMove /\ drops' # <<"User">>
    <3>1. CASE StartFilterFetch
      BY <1>2, <1>3, <3>1, FilterFetchStarts
    <3>2. CASE Await("finding") /\ UNCHANGED <<answered, drops>>
      <4>1. drops' # <<"User">>
        BY <1>2, <3>2 DEF Early
      <4> QED BY <1>2, <1>3, <3>2, <4>1 DEF Await, EarlyMove, alarmVars
    <3> QED BY <1>7, <3>1, <3>2
  <2>2. FetchInv' /\ fetch' # "unused" /\ FetchUser /\ FetchUser' /\ ~Background' /\ UserFacing'
    BY <1>1, <1>2, <2>1, EarlyMoves
  <2>3. /\ refs' = [refs EXCEPT !["FetchUserFacing"] = @ + 1]
        /\ UNCHANGED <<possibly_quick_rewrites, waiting, deadline_reached, done, release_driver>>
    BY <1>7 DEF AddRef
  <2>4. refs \in [Categories -> Nat]
    BY DEF IInv, DriverInv, DriverTypes
  <2>5. refs'["FetchUserFacing"] = 1 /\ refs'["FetchBackground"] = 0
    BY <1>5, <2>3, <2>4 DEF Categories
  <2>6. refs'["FetchUserFacing"] = Held(UserFacing') /\ refs'["FetchBackground"] = Held(Background')
    BY <2>2, <2>5 DEF Held
  <2>7. answered = 0
    BY <1>2 DEF Early
  <2> QED BY <1>3, <2>2, <2>3, <2>6, <2>7, FetchStep
<1> QED BY <1>6, <1>7 DEF FetchResource

\* CacheCallback::Done.
LEMMA CacheCallbackStep ==
  ASSUME IInv, html = "unused", UNCHANGED htmlVars, CacheCallbackDone
  PROVE  IInv'
<1>1. FetchInv /\ fetch = "finding"
  BY DEF IInv, CacheCallbackDone
<1>2. Early /\ tasks = <<>>
  BY <1>1, EarlyStage
<1>3. UNCHANGED <<waitVars, RestOfDriver1, detached_fetch, alarmVars>> /\ StartFilterFetch
  BY DEF CacheCallbackDone, StartFilterFetch
<1> QED BY <1>1, <1>2, <1>3, FilterFetchStarts, EarlyStep

\* A task before any deadline runs.
LEMMA EarlyTaskStep ==
  ASSUME IInv, html = "unused", UNCHANGED htmlVars,
         StartFetch \/ StartFetchImpl \/ FetchCacheDone \/ FetchFallbackCacheDone
           \/ ResourceFetchDoneForFetch \/ Rewrite
  PROVE  IInv'
<1>1. FetchInv
  BY DEF IInv
<1>2. PICK t \in FetchTaskNames \ {"RewriteDoneImpl"} : RunsFetch(t)
  BY DEF StartFetch, StartFetchImpl, FetchCacheDone, FetchFallbackCacheDone, ResourceFetchDoneForFetch,
         Rewrite, FetchTaskNames
<1>3. UNCHANGED <<waitVars, RestOfDriver1, detached_fetch>>
  BY DEF StartFetch, StartFetchImpl, FetchCacheDone, FetchFallbackCacheDone, ResourceFetchDoneForFetch,
         Rewrite, Rest
<1>4. fetch # "unused"
  BY <1>1 DEF FetchInv, FetchTypes
<1>5. Early /\ fetch = "queued" /\ \A more : Pop(more) => tasks' = <<>> \o more
  BY <1>1, <1>2, <1>4, EarlyTask
<1>6. Pop(<<>>) => tasks' = <<>>
  BY <1>5
<1>7. ASSUME fetch' \in FetchWaits, Pop(<<>>), UNCHANGED <<answered, drops, deadline_alarm, alarm, canceled>>
      PROVE  EarlyMove /\ drops' # <<"User">>
  <2>1. drops' # <<"User">>
    BY <1>5, <1>7 DEF Early
  <2> QED BY <1>3, <1>6, <1>7, <2>1 DEF EarlyMove
<1>8. ASSUME fetch' = "over", Pop(<<>>), Done(Both), UNCHANGED <<deadline_alarm, alarm, canceled>>
      PROVE  EarlyMove /\ drops' # <<"User">>
  <2>1. answered' = 1 /\ drops' = Both /\ Both # <<"User">>
    BY <1>5, <1>8 DEF Done, Early, Both
  <2> QED BY <1>3, <1>6, <1>8, <2>1 DEF EarlyMove
<1>9. EarlyMove /\ drops' # <<"User">>
  <2>1. CASE StartFetch
    <3>1. UNCHANGED alarmVars
      BY <2>1 DEF StartFetch
    <3>2. CASE fetch' = "queued" /\ Pop(<<<<"StartFetchImpl">>>>) /\ UNCHANGED <<answered, drops>>
      <4>1. tasks' = <<<<"StartFetchImpl">>>> /\ "StartFetchImpl" \in FetchTaskNames
        BY <1>5, <3>2 DEF FetchTaskNames
      <4>2. drops' # <<"User">>
        BY <1>5, <3>2 DEF Early
      <4> QED BY <1>3, <3>1, <3>2, <4>1, <4>2 DEF EarlyMove, alarmVars
    <3>3. CASE fetch' = "locking" /\ Pop(<<>>) /\ UNCHANGED <<answered, drops>>
      BY <1>7, <3>1, <3>3 DEF FetchWaits, alarmVars
    <3>4. CASE fetch' = "over" /\ Pop(<<>>) /\ Done(Both)
      BY <1>8, <3>1, <3>4 DEF alarmVars
    <3> QED BY <2>1, <3>2, <3>3, <3>4 DEF StartFetch
  <2>2. CASE StartFetchImpl
    <3>1. CASE StartFetchReconstruction
      BY <1>3, <1>5, <3>1, Reconstructs
    <3>2. CASE fetch' = "lookup" /\ Pop(<<>>) /\ UNCHANGED <<alarmVars, answered, drops>>
      BY <1>7, <3>2 DEF FetchWaits, alarmVars
    <3> QED BY <2>2, <3>1, <3>2 DEF StartFetchImpl
  <2>3. CASE FetchCacheDone
    <3>1. CASE StartFetchReconstruction
      BY <1>3, <1>5, <3>1, Reconstructs
    <3>2. CASE fetch' = "over" /\ Pop(<<>>) /\ Done(Both) /\ UNCHANGED alarmVars
      BY <1>8, <3>2 DEF alarmVars
    <3>3. CASE fetch' = "fallback" /\ Pop(<<>>) /\ UNCHANGED <<answered, drops, alarmVars>>
      BY <1>7, <3>3 DEF FetchWaits, alarmVars
    <3> QED BY <2>3, <3>1, <3>2, <3>3 DEF FetchCacheDone
  <2>4. CASE FetchFallbackCacheDone
    <3>1. CASE StartFetchReconstruction
      BY <1>3, <1>5, <3>1, Reconstructs
    <3>2. CASE FetchDone /\ Pop(<<>>)
      <4>1. fetch' = "over" /\ Done(Both) /\ UNCHANGED <<alarm, canceled>> /\ deadline_alarm' = FALSE
        BY <1>5, <3>2 DEF FetchDone, CancelDeadlineAlarm, Early
      <4>2. deadline_alarm' = deadline_alarm
        BY <1>1, <1>5, <4>1 DEF FetchInv, FetchTypes, Early
      <4> QED BY <1>8, <3>2, <4>1, <4>2
    <3> QED BY <2>4, <3>1, <3>2 DEF FetchFallbackCacheDone
  <2>5. CASE ResourceFetchDoneForFetch
    <3>1. StartFetchReconstruction
      BY <2>5 DEF ResourceFetchDoneForFetch, StartFetchReconstruction
    <3> QED BY <1>3, <1>5, <3>1, Reconstructs
  <2>6. CASE Rewrite
    BY <1>7, <2>6 DEF Rewrite, FetchWaits, alarmVars
  <2> QED BY <2>1, <2>2, <2>3, <2>4, <2>5, <2>6
<1> QED BY <1>3, <1>5, <1>9, EarlyStep

\* A step that leaves the references, and what they are held for, alone.
LEMMA FetchGoesOn ==
  ASSUME IInv, html = "unused", UNCHANGED htmlVars, UNCHANGED <<waitVars, RestOfDriver1>>,
         FetchInv', fetch' # "unused", FetchUser' <=> FetchUser, UserFacing' <=> UserFacing,
         Background' <=> Background
  PROVE  IInv'
<1>1. /\ refs["FetchUserFacing"] = Held(UserFacing) /\ refs["FetchBackground"] = Held(Background)
  BY DEF IInv, DriverInv, Counted
<1>2. /\ refs' = refs
      /\ UNCHANGED <<possibly_quick_rewrites, waiting, deadline_reached, done, release_driver>>
  BY DEF waitVars
<1>3. /\ refs'["FetchUserFacing"] = Held(UserFacing') /\ refs'["FetchBackground"] = Held(Background')
  BY <1>1, <1>2 DEF Held
<1> QED BY <1>2, <1>3, FetchStep

\* Another thread answers the fetch with a task.
LEMMA AnsweredFetchStep ==
  ASSUME IInv, html = "unused", UNCHANGED htmlVars, FetchAnswer
  PROVE  IInv'
<1>1. FetchTypes /\ FetchStages /\ FetchTasks /\ html' = html
  BY DEF IInv, FetchInv, FetchTypes, htmlVars, pageVars
<1>2. PICK t : t = TaskFor[fetch]
  OBVIOUS
<1>3. /\ fetch \in FetchWaits /\ t \in FetchTaskNames /\ (fetch = "rewriting" => t = "RewriteDoneImpl")
      /\ fetch' = "queued" /\ tasks' = Append(tasks, <<t>>)
      /\ UNCHANGED <<waitVars, RestOfDriver1, answered, drops, detached_fetch, deadline_alarm, alarm,
                     canceled>>
  BY <1>2 DEF FetchAnswer, TaskFor, Queue1, FetchWaits, FetchTaskNames, Rest, alarmVars
<1>4. /\ tasks \in Seq(FetchTaskSet) /\ <<t>> \in FetchTaskSet /\ <<t>> # Alarm
  BY <1>1, <1>3 DEF FetchTasks, FetchTaskSet, FetchTaskNames, Alarm
<1>5. \A e \in ToSet(tasks) : e = Alarm /\ alarm = "queued"
  BY <1>1, <1>3 DEF FetchTasks, FetchWaits
<1>6. FetchTypes' /\ FetchStages'
  BY <1>1, <1>3 DEF FetchTypes, FetchStages, FetchWaits
<1>7. FetchTasks'
  <2>1. /\ tasks' \in Seq(FetchTaskSet) /\ ToSet(tasks') = ToSet(tasks) \cup {<<t>>}
        /\ Len(tasks') = Len(tasks) + 1 /\ Len(tasks) \in Nat
        /\ \A i \in 1..Len(tasks) : tasks'[i] = tasks[i] /\ tasks[i] \in ToSet(tasks)
        /\ tasks'[Len(tasks) + 1] = <<t>>
    <3> HIDE DEF FetchTaskSet
    <3> QED BY <1>3, <1>4, Appended, Elements
  <2>2. ASSUME NEW i \in 1..Len(tasks'), NEW j \in 1..Len(tasks'), tasks'[i] = Alarm <=> tasks'[j] = Alarm
        PROVE  i = j
    <3>1. \A k \in 1..Len(tasks') : tasks'[k] = Alarm <=> k # Len(tasks) + 1
      BY <1>4, <1>5, <2>1
    <3>2. CASE i = Len(tasks) + 1
      BY <2>1, <2>2, <3>1, <3>2
    <3>3. CASE i # Len(tasks) + 1
      <4>1. i \in 1..Len(tasks) /\ j \in 1..Len(tasks) /\ tasks[i] = Alarm /\ tasks[j] = Alarm
        BY <1>5, <2>1, <2>2, <3>1, <3>3
      <4> QED BY <1>1, <4>1 DEF FetchTasks
    <3> QED BY <3>2, <3>3
  <2>3. alarm # "none" \/ detached_fetch => fetch = "rewriting"
    BY <1>1, <1>3 DEF FetchStages, FetchWaits
  <2>4. ASSUME NEW e \in ToSet(tasks')
        PROVE  IF e = Alarm THEN alarm' = "queued"
               ELSE fetch' = "queued" /\ (alarm' # "none" \/ detached_fetch' => e = <<"RewriteDoneImpl">>)
    BY <1>3, <1>4, <1>5, <2>1, <2>3
  <2> QED BY <2>1, <2>2, <2>4 DEF FetchTasks, FetchTaskSet
<1>8. FetchInv' /\ fetch' # "unused"
  BY <1>3, <1>6, <1>7 DEF FetchInv
<1>9. (FetchUser' <=> FetchUser) /\ (UserFacing' <=> UserFacing) /\ (Background' <=> Background)
  BY <1>1, <1>3 DEF FetchUser, UserFacing, Background, FetchWaits
<1> QED BY <1>3, <1>8, <1>9, FetchGoesOn

\* The scheduler runs the alarm.
LEMMA AlarmIsDueStep ==
  ASSUME IInv, html = "unused", UNCHANGED htmlVars, AlarmIsDue
  PROVE  IInv'
<1>1. FetchTypes /\ FetchStages /\ FetchTasks /\ html' = html
  BY DEF IInv, FetchInv, FetchTypes, htmlVars, pageVars
<1>2. /\ alarm = "set" /\ alarm' = "running"
      /\ UNCHANGED <<waitVars, RestOfDriver1, tasks, fetch, answered, detached_fetch, deadline_alarm,
                     canceled, drops>>
  BY DEF AlarmIsDue, driverVars, RestOfDriver1
<1>3. FetchTypes' /\ FetchStages' /\ FetchTasks'
  BY <1>1, <1>2 DEF FetchTypes, FetchStages, FetchTasks
<1>4. (FetchUser' <=> FetchUser) /\ (UserFacing' <=> UserFacing) /\ (Background' <=> Background)
  BY <1>1, <1>2 DEF FetchUser, UserFacing, Background
<1>5. FetchInv' /\ fetch' # "unused"
  BY <1>1, <1>2, <1>3 DEF FetchInv, FetchTypes
<1> QED BY <1>2, <1>4, <1>5, FetchGoesOn

\* QueuedAlarm::Run, which queues its second half unless it was cancelled.
LEMMA RunStep ==
  ASSUME IInv, html = "unused", UNCHANGED htmlVars, Run
  PROVE  IInv'
<1>1. FetchTypes /\ FetchStages /\ FetchTasks /\ html' = html
  BY DEF IInv, FetchInv, FetchTypes, htmlVars, pageVars
<1>2. /\ alarm = "running"
      /\ UNCHANGED <<waitVars, RestOfDriver1, fetch, answered, detached_fetch, deadline_alarm,
                     canceled, drops>>
      /\ IF canceled THEN alarm' = "none" /\ tasks' = tasks
                     ELSE alarm' = "queued" /\ tasks' = Append(tasks, Alarm)
  BY DEF Run, Alarm
<1>3. FetchTypes' /\ FetchStages'
  BY <1>1, <1>2 DEF FetchTypes, FetchStages
<1>4. FetchTasks'
  <2>1. CASE canceled
    BY <1>1, <1>2, <2>1 DEF FetchTasks
  <2>2. CASE ~canceled
    <3>1. tasks \in Seq(FetchTaskSet) /\ Alarm \in FetchTaskSet
      BY <1>1 DEF FetchTasks, FetchTaskSet
    <3>2. \A e \in ToSet(tasks) : e # Alarm /\ fetch = "queued" /\ e = <<"RewriteDoneImpl">>
      BY <1>1, <1>2 DEF FetchTasks
    <3>3. /\ tasks' \in Seq(FetchTaskSet) /\ ToSet(tasks') = ToSet(tasks) \cup {Alarm}
          /\ Len(tasks') = Len(tasks) + 1 /\ Len(tasks) \in Nat
          /\ \A i \in 1..Len(tasks) : tasks'[i] = tasks[i] /\ tasks[i] \in ToSet(tasks)
          /\ tasks'[Len(tasks) + 1] = Alarm
      <4>1. tasks' = Append(tasks, Alarm)
        BY <1>2, <2>2
      <4> HIDE DEF FetchTaskSet, Alarm
      <4> QED BY <3>1, <4>1, Appended, Elements
    <3>4. ASSUME NEW i \in 1..Len(tasks'), NEW j \in 1..Len(tasks'), tasks'[i] = Alarm <=> tasks'[j] = Alarm
          PROVE  i = j
      <4>1. \A k \in 1..Len(tasks') : tasks'[k] = Alarm <=> k = Len(tasks) + 1
        BY <3>2, <3>3
      <4>2. CASE i = Len(tasks) + 1
        BY <3>3, <3>4, <4>1, <4>2
      <4>3. CASE i # Len(tasks) + 1
        <5>1. /\ i \in 1..Len(tasks) /\ j \in 1..Len(tasks) /\ tasks[i] # Alarm /\ tasks[j] # Alarm
          BY <3>2, <3>3, <3>4, <4>1, <4>3
        <5> QED BY <1>1, <5>1 DEF FetchTasks
      <4> QED BY <4>2, <4>3
    <3>5. alarm' = "queued" /\ fetch' = fetch
      BY <1>2, <2>2
    <3>6. ASSUME NEW e \in ToSet(tasks')
          PROVE  IF e = Alarm THEN alarm' = "queued"
                 ELSE fetch' = "queued" /\ (alarm' # "none" \/ detached_fetch' => e = <<"RewriteDoneImpl">>)
      BY <3>2, <3>3, <3>5
    <3> QED BY <3>3, <3>4, <3>6 DEF FetchTasks, FetchTaskSet
  <2> QED BY <2>1, <2>2
<1>5. (FetchUser' <=> FetchUser) /\ (UserFacing' <=> UserFacing) /\ (Background' <=> Background)
  BY <1>1, <1>2 DEF FetchUser, UserFacing, Background
<1>6. FetchInv' /\ fetch' # "unused"
  BY <1>1, <1>2, <1>3, <1>4 DEF FetchInv, FetchTypes
<1> QED BY <1>2, <1>5, <1>6, FetchGoesOn

\* The rewrite thread's half of the alarm: it does nothing when it was cancelled, and
\* otherwise the fetch is still unanswered.
LEMMA AlarmStep ==
  ASSUME IInv, html = "unused", UNCHANGED htmlVars, SequencePortionOfRun
  PROVE  IInv'
<1>1. FetchTypes /\ FetchStages /\ FetchTasks /\ html' = html /\ FetchInv
  BY DEF IInv, FetchInv, FetchTypes, htmlVars, pageVars
<1>2. /\ RunsFetch("SequencePortionOfRun") /\ tasks' = Tail(tasks) \o <<>> /\ alarm' = "none"
      /\ IF canceled THEN UNCHANGED <<waitVars, deadline_alarm, detached_fetch, answered, drops>>
                     ELSE HandleDeadline
      /\ UNCHANGED <<RestOfDriver1, canceled, fetch>>
  BY DEF SequencePortionOfRun, Pop
<1>3. /\ drops = <<>> /\ Alarm \in ToSet(tasks)
      /\ tasks' = Tail(tasks) /\ tasks' \in Seq(FetchTaskSet) /\ Apart(tasks')
      /\ \A e \in ToSet(tasks') : e \in ToSet(tasks) /\ e # Alarm
  BY <1>1, <1>2, FetchTaskRuns DEF Alarm
<1>4. alarm = "queued"
  BY <1>1, <1>3 DEF FetchTasks
<1>5. FetchTasks'
  <2>1. \A e \in ToSet(tasks') : e # Alarm /\ fetch' = "queued" /\ e = <<"RewriteDoneImpl">>
    BY <1>1, <1>2, <1>3, <1>4 DEF FetchTasks
  <2>2. tasks' \in Seq({Alarm} \cup {<<t>> : t \in FetchTaskNames})
    BY <1>3 DEF FetchTaskSet
  <2>3. \A i, j \in 1..Len(tasks') : (tasks'[i] = Alarm <=> tasks'[j] = Alarm) => i = j
    BY <1>3 DEF Apart
  <2> QED BY <2>1, <2>2, <2>3 DEF FetchTasks
<1>6. CASE canceled
  <2>1. FetchTypes' /\ FetchStages'
    BY <1>1, <1>2, <1>4, <1>6 DEF FetchTypes, FetchStages
  <2>2. (FetchUser' <=> FetchUser) /\ (UserFacing' <=> UserFacing) /\ (Background' <=> Background)
    BY <1>1, <1>2, <1>6 DEF FetchUser, UserFacing, Background
  <2>3. FetchInv' /\ fetch' # "unused"
    BY <1>1, <1>2, <1>5, <2>1 DEF FetchInv, FetchTypes
  <2> QED BY <1>2, <1>6, <2>2, <2>3, FetchGoesOn
<1>7. CASE ~canceled
  <2>1. /\ deadline_alarm' = FALSE /\ detached_fetch' = TRUE
        /\ AddRef("FetchBackground") /\ answered' = answered + 1 /\ drops' = Both
    BY <1>2, <1>7 DEF HandleDeadline, Done
  <2>2. answered = 0 /\ fetch \in {"rewriting", "queued"} /\ ~detached_fetch
    BY <1>1, <1>4, <1>7 DEF FetchStages
  <2>3. Both # <<"FetchBackground">> /\ Both # <<>>
    BY DEF Both
  <2>4. FetchTypes'
    <3>1. answered' = 1 /\ alarm' = "none" /\ html' = html /\ fetch' = fetch /\ canceled' = canceled
      BY <1>1, <1>2, <2>1, <2>2
    <3> QED BY <1>1, <2>1, <3>1 DEF FetchTypes
  <2>5. FetchStages'
    BY <1>2, <1>7, <2>1, <2>2, <2>3 DEF FetchStages
  <2>6. FetchInv' /\ fetch' # "unused"
    BY <1>2, <1>5, <2>2, <2>4, <2>5 DEF FetchInv
  <2>7. drops'[1] = "User" /\ drops'[2] = "FetchUserFacing" /\ DOMAIN drops' = {1, 2}
    BY <2>1 DEF Both
  <2>8. FetchUser' /\ FetchUser
    <3>1. \E i \in DOMAIN drops' : drops'[i] = "User"
      BY <2>7
    <3> QED BY <1>1, <2>2, <3>1 DEF FetchUser
  <2>9. UserFacing' /\ UserFacing
    <3>1. \E i \in DOMAIN drops' : drops'[i] = "FetchUserFacing"
      BY <2>7
    <3> QED BY <2>1, <2>2, <3>1 DEF UserFacing
  <2>10. Background' /\ ~Background
    BY <1>2, <2>1, <2>2 DEF Background
  <2>11. refs["FetchUserFacing"] = 1 /\ refs["FetchBackground"] = 0
    BY <2>9, <2>10 DEF IInv, DriverInv, Counted, Held
  <2>12. /\ refs' = [refs EXCEPT !["FetchBackground"] = @ + 1]
         /\ UNCHANGED <<possibly_quick_rewrites, waiting, deadline_reached, done, release_driver>>
    BY <2>1 DEF AddRef
  <2>13. refs \in [Categories -> Nat]
    BY DEF IInv, DriverInv, DriverTypes
  <2>14. refs'["FetchUserFacing"] = 1 /\ refs'["FetchBackground"] = 1
    BY <2>11, <2>12, <2>13 DEF Categories
  <2>15. refs'["FetchUserFacing"] = Held(UserFacing') /\ refs'["FetchBackground"] = Held(Background')
    BY <2>9, <2>10, <2>14 DEF Held
  <2> QED BY <1>2, <2>2, <2>6, <2>8, <2>12, <2>15, FetchStep
<1> QED BY <1>6, <1>7

\* The rewrite is done, before its deadline or after.
LEMMA RewriteDoneForFetchStep ==
  ASSUME IInv, html = "unused", UNCHANGED htmlVars, RewriteDoneImplForFetch
  PROVE  IInv'
<1>1. FetchTypes /\ FetchStages /\ FetchTasks /\ html' = html
  BY DEF IInv, FetchInv, FetchTypes, htmlVars, pageVars
<1>2. /\ RunsFetch("RewriteDoneImpl") /\ tasks' = Tail(tasks) \o <<>>
      /\ fetch' = "over" /\ CancelDeadlineAlarm
      /\ IF detached_fetch THEN drops' = <<"FetchBackground">> /\ answered' = answered
                           ELSE answered' = answered + 1 /\ drops' = Both
      /\ UNCHANGED <<waitVars, RestOfDriver1, detached_fetch>>
  BY DEF RewriteDoneImplForFetch, Pop, FetchDone, Done, Rest
<1>3. <<"RewriteDoneImpl">> # Alarm
  BY DEF Alarm
<1>4. /\ drops = <<>> /\ <<"RewriteDoneImpl">> \in ToSet(tasks)
      /\ tasks' = Tail(tasks) /\ tasks' \in Seq(FetchTaskSet) /\ Apart(tasks')
      /\ \A e \in ToSet(tasks') : e \in ToSet(tasks) /\ e = Alarm
  BY <1>1, <1>2, <1>3, FetchTaskRuns
<1>5. fetch = "queued" /\ ~canceled
  BY <1>1, <1>3, <1>4 DEF FetchTasks, FetchStages
<1>6. answered = IF detached_fetch THEN 1 ELSE 0
  BY <1>1, <1>5 DEF FetchStages, FetchTypes
<1>7. /\ deadline_alarm' = FALSE /\ canceled' \in BOOLEAN /\ alarm' \in {"none", alarm}
      /\ alarm' # "none" => canceled' = TRUE
      /\ alarm = "queued" => alarm' = "queued"
  BY <1>1, <1>2, <1>5 DEF CancelDeadlineAlarm, FetchStages, FetchTypes
<1>8. FetchTasks'
  <2>1. \A e \in ToSet(tasks') : e = Alarm /\ alarm' = "queued"
    BY <1>1, <1>4, <1>7 DEF FetchTasks
  <2>2. tasks' \in Seq({Alarm} \cup {<<t>> : t \in FetchTaskNames})
    BY <1>4 DEF FetchTaskSet
  <2>3. \A i, j \in 1..Len(tasks') : (tasks'[i] = Alarm <=> tasks'[j] = Alarm) => i = j
    BY <1>4 DEF Apart
  <2> QED BY <2>1, <2>2, <2>3 DEF FetchTasks
<1>9. answered' = 1 /\ drops' = (IF detached_fetch THEN <<"FetchBackground">> ELSE Both)
  BY <1>2, <1>6
<1>10. FetchTypes'
  BY <1>1, <1>2, <1>7, <1>9 DEF FetchTypes
<1>11. FetchStages'
  <2>1. Both # <<"FetchBackground">>
    BY DEF Both
  <2> QED BY <1>2, <1>7, <1>9, <2>1 DEF FetchStages
<1>12. FetchInv' /\ fetch' # "unused"
  BY <1>2, <1>8, <1>10, <1>11 DEF FetchInv
<1>13. (FetchUser' <=> FetchUser) /\ (UserFacing' <=> UserFacing) /\ (Background' <=> Background)
  <2>1. CASE detached_fetch
    <3>1. drops' = <<"FetchBackground">> /\ drops'[1] = "FetchBackground" /\ DOMAIN drops' = {1}
      BY <1>9, <2>1
    <3>2. /\ ~\E i \in DOMAIN drops' : drops'[i] \in {"User", "FetchUserFacing"}
          /\ \E i \in DOMAIN drops' : drops'[i] = "FetchBackground"
      BY <3>1
    <3>3. DOMAIN drops = {}
      BY <1>4
    <3> QED BY <1>1, <1>2, <1>5, <1>6, <1>9, <2>1, <3>2, <3>3 DEF FetchUser, UserFacing, Background
  <2>2. CASE ~detached_fetch
    <3>1. drops'[1] = "User" /\ drops'[2] = "FetchUserFacing" /\ DOMAIN drops' = {1, 2}
      BY <1>9, <2>2 DEF Both
    <3>2. /\ \E i \in DOMAIN drops' : drops'[i] = "User"
          /\ \E i \in DOMAIN drops' : drops'[i] = "FetchUserFacing"
      BY <3>1
    <3> QED BY <1>1, <1>2, <1>5, <1>6, <1>9, <2>2, <3>2 DEF FetchUser, UserFacing, Background
  <2> QED BY <2>1, <2>2
<1> QED BY <1>2, <1>12, <1>13, FetchGoesOn

\* What is left to drop.
LEMMA Dropped ==
  ASSUME FetchTypes, drops # <<>>
  PROVE  /\ Head(drops) \in {"User", "FetchUserFacing", "FetchBackground"}
         /\ Tail(drops) \in {<<>>, <<"FetchUserFacing">>}
         /\ \E i \in DOMAIN drops : drops[i] = Head(drops)
         /\ \A k : (\E i \in DOMAIN Tail(drops) : Tail(drops)[i] = k) <=>
                   (k # Head(drops) /\ \E i \in DOMAIN drops : drops[i] = k)
<1>1. CASE drops = Both
  <2>1. /\ Head(drops) = "User" /\ Tail(drops) = <<"FetchUserFacing">>
        /\ drops[1] = "User" /\ drops[2] = "FetchUserFacing" /\ DOMAIN drops = {1, 2}
        /\ DOMAIN Tail(drops) = {1} /\ Tail(drops)[1] = "FetchUserFacing"
    BY <1>1 DEF Both
  <2>2. \A k : /\ (\E i \in DOMAIN Tail(drops) : Tail(drops)[i] = k) <=> k = "FetchUserFacing"
               /\ (\E i \in DOMAIN drops : drops[i] = k) <=> k \in {"User", "FetchUserFacing"}
    BY <2>1
  <2> QED BY <2>1, <2>2
<1>2. CASE \E k \in {"User", "FetchUserFacing", "FetchBackground"} : drops = <<k>>
  <2>1. PICK k \in {"User", "FetchUserFacing", "FetchBackground"} : drops = <<k>>
    BY <1>2
  <2>2. /\ Head(drops) = k /\ Tail(drops) = <<>> /\ drops[1] = k
        /\ DOMAIN drops = {1} /\ DOMAIN Tail(drops) = {}
    BY <2>1
  <2> QED BY <2>1, <2>2
<1> QED BY <1>1, <1>2 DEF FetchTypes

\* A thread drops a reference of the fetch.
LEMMA DropsReferenceStep ==
  ASSUME IInv, html = "unused", UNCHANGED htmlVars, DropsReference
  PROVE  IInv'
<1> USE DEF IInv, DriverInv
<1>1. FetchTypes /\ FetchStages /\ FetchTasks
  BY DEF FetchInv, FetchTypes
<1>2. PICK k : k = Head(drops)
  OBVIOUS
<1>3. /\ drops # <<>> /\ drops' = Tail(drops) /\ DropReference(k)
      /\ UNCHANGED <<deadline, fully_rewrite_on_flush, recycled, deferred, shutdown, purge, num_detached,
                     tasks, fetch, answered, detached_fetch, deadline_alarm, alarm, canceled>>
      /\ UNCHANGED <<html, initiated, slow>>
  BY <1>2 DEF DropsReference, alarmVars, htmlVars, pageVars, contextVars
<1>4. /\ k \in {"User", "FetchUserFacing", "FetchBackground"} /\ k \in Categories
      /\ drops' \in {<<>>, <<"FetchUserFacing">>}
      /\ \E i \in DOMAIN drops : drops[i] = k
      /\ \A j : (\E i \in DOMAIN drops' : drops'[i] = j) <=> (j # k /\ \E i \in DOMAIN drops : drops[i] = j)
  BY <1>1, <1>2, <1>3, Dropped DEF Categories
<1>5. answered = 1
  BY <1>1, <1>3 DEF FetchStages, FetchTypes
<1>6. k = "FetchBackground" => fetch = "over" /\ detached_fetch
  <2>1. k = "FetchBackground" => drops = <<"FetchBackground">>
    <3> HAVE k = "FetchBackground"
    <3>1. CASE drops = Both
      BY <1>2, <3>1 DEF Both
    <3>2. CASE \E j : drops = <<j>>
      BY <1>2, <3>2
    <3> QED BY <1>1, <1>3, <3>1, <3>2 DEF FetchTypes
  <2> QED BY <1>1, <2>1 DEF FetchStages
<1>7. FetchInv' /\ fetch' # "unused"
  <2>1. FetchTypes'
    BY <1>1, <1>3, <1>4 DEF FetchTypes
  <2>2. drops' # <<"FetchBackground">>
    BY <1>4
  <2>3. FetchStages'
    BY <1>1, <1>3, <1>5, <2>2 DEF FetchStages
  <2>4. FetchTasks'
    BY <1>1, <1>3 DEF FetchTasks
  <2> QED BY <1>1, <1>3, <2>1, <2>3, <2>4 DEF FetchInv, FetchTypes
<1>8. /\ FetchUser <=> \E i \in DOMAIN drops : drops[i] = "User"
      /\ FetchUser' <=> \E i \in DOMAIN drops' : drops'[i] = "User"
      /\ UserFacing <=> \E i \in DOMAIN drops : drops[i] = "FetchUserFacing"
      /\ UserFacing' <=> \E i \in DOMAIN drops' : drops'[i] = "FetchUserFacing"
  BY <1>3, <1>5 DEF FetchUser, UserFacing
<1>9. /\ FetchUser' <=> FetchUser /\ k # "User"
      /\ UserFacing' <=> UserFacing /\ k # "FetchUserFacing"
      /\ Background' <=> Background /\ k # "FetchBackground"
      /\ k = "User" => FetchUser
      /\ k = "FetchUserFacing" => UserFacing
      /\ k = "FetchBackground" => Background
  <2>1. k = "FetchBackground" => Background /\ ~Background'
    BY <1>3, <1>4, <1>6 DEF Background
  <2>2. k # "FetchBackground" => (Background' <=> Background)
    BY <1>3, <1>4 DEF Background
  <2> QED BY <1>4, <1>8, <2>1, <2>2
<1>10. refs \in [Categories -> Nat]
  BY DEF DriverTypes
<1>11. refs[k] > 0
  BY <1>4, <1>9, <1>10 DEF Counted, Held, Categories
<1>12. /\ refs' = [refs EXCEPT ![k] = @ - 1] /\ refs' \in [Categories -> Nat]
       /\ Signalled(refs', possibly_quick_rewrites) /\ WakeupNotLost'
       /\ releasing' \in Nat /\ Released'
  BY <1>3, <1>4, <1>11, ReferenceDropped
<1>13. \A j \in Categories : refs'[j] = refs[j] - (IF j = k THEN 1 ELSE 0)
  BY <1>10, <1>12
<1>14. /\ refs'["User"] = refs["User"] - (IF k = "User" THEN 1 ELSE 0)
       /\ refs'["FetchUserFacing"] = refs["FetchUserFacing"] - (IF k = "FetchUserFacing" THEN 1 ELSE 0)
       /\ refs'["FetchBackground"] = refs["FetchBackground"] - (IF k = "FetchBackground" THEN 1 ELSE 0)
       /\ \A j \in Categories \ {"User", "FetchUserFacing", "FetchBackground"} : refs'[j] = refs[j]
  <2>1. \A j \in Categories : refs[j] \in Nat
    BY <1>10
  <2> HIDE DEF IInv, DriverInv
  <2> QED BY <1>4, <1>13, <2>1 DEF Categories
<1>15. HtmlInv'
  <2>1. \A j \in {"PendingRewrites", "DetachedRewrites", "DeletingRewrites"} : refs'[j] = refs[j]
    BY <1>14 DEF Categories
  <2>2. possibly_quick_rewrites' = possibly_quick_rewrites
    BY <1>12 DEF Signalled
  <2> QED BY <1>7, <2>1, <2>2, PageIdle
<1>16. Counted'
  <2>1. (HtmlUser' <=> HtmlUser) /\ (Parsing' <=> Parsing)
    BY <1>3 DEF HtmlUser, Parsing
  <2>2. /\ Held(HtmlUser') = Held(HtmlUser) /\ Held(Parsing') = Held(Parsing)
        /\ Held(FetchUser') = Held(FetchUser) - (IF k = "User" THEN 1 ELSE 0)
        /\ Held(UserFacing') = Held(UserFacing) - (IF k = "FetchUserFacing" THEN 1 ELSE 0)
        /\ Held(Background') = Held(Background) - (IF k = "FetchBackground" THEN 1 ELSE 0)
    BY <1>9, <2>1 DEF Held
  <2>3. /\ Held(HtmlUser) \in Nat /\ Held(FetchUser) \in Nat /\ Held(shutdown = "waiting") \in Nat
        /\ Held(UserFacing) \in Nat /\ Held(Background) \in Nat
    BY DEF Held
  <2>4. refs'["Parsing"] = refs["Parsing"] /\ refs'["AsyncEvents"] = refs["AsyncEvents"]
    BY <1>14 DEF Categories
  <2>5. /\ refs["User"] = Held(HtmlUser) + Held(FetchUser) + Held(shutdown = "waiting")
        /\ refs["Parsing"] = Held(Parsing)
        /\ refs["FetchUserFacing"] = Held(UserFacing)
        /\ refs["FetchBackground"] = Held(Background)
        /\ refs["AsyncEvents"] = Held(purge = "issued")
    BY DEF Counted
  <2>6. /\ refs'["User"] = Held(HtmlUser') + Held(FetchUser') + Held(shutdown = "waiting")
        /\ refs'["FetchUserFacing"] = Held(UserFacing') /\ refs'["FetchBackground"] = Held(Background')
    <3>1. Held(FetchUser') \in Nat
      BY DEF Held
    <3> HIDE DEF IInv, DriverInv
    <3> QED BY <1>14, <2>2, <2>3, <2>5, <3>1
  <2> QED BY <1>3, <2>2, <2>4, <2>5, <2>6 DEF Counted
<1>17. WaitMatches'
  <2>1. initiated = {} /\ LeftBehind
    BY DEF HtmlInv, PageInv, Windows
  <2>2. shutdown # "no" => html' \in {"unused", "finished"}
    BY <1>3
  <2> HIDE DEF IInv, DriverInv
  <2> QED BY <1>3, <1>12, <2>1, <2>2, SignalEndsWait DEF IInv, DriverInv
<1>18. DriverTypes'
  <2>1. waiting' \in {"no", waiting} /\ done' \in {done, "html", "shutdown"}
    BY <1>12 DEF Signalled
  <2> QED BY <1>3, <1>12, <2>1 DEF DriverTypes, Signalled
<1> HIDE DEF IInv, DriverInv
<1> QED BY <1>7, <1>12, <1>15, <1>16, <1>17, <1>18 DEF IInv, DriverInv

\* Every step of the fetch.
LEMMA FetchNextStep ==
  ASSUME IInv, html = "unused", UNCHANGED htmlVars, FetchNext
  PROVE  IInv'
BY FetchResourceStep, CacheCallbackStep, DropsReferenceStep, AlarmIsDueStep, RunStep, AlarmStep,
   EarlyTaskStep, RewriteDoneForFetchStep, AnsweredFetchStep DEF FetchNext

-----------------------------------------------------------------------------
(* The driver's own steps.                                                 *)

\* A step that leaves the request alone.
LEMMA DriverStep ==
  ASSUME IInv, UNCHANGED <<htmlVars, fetchVars, tasks, possibly_quick_rewrites>>,
         \A k \in Categories \ {"User", "AsyncEvents"} : refs'[k] = refs[k],
         refs'["User"] = refs["User"] - Held(shutdown = "waiting") + Held(shutdown' = "waiting"),
         refs'["AsyncEvents"] = Held(purge' = "issued"),
         DriverTypes', WakeupNotLost', WaitMatches', Released', LeftBehind'
  PROVE  IInv'
<1>1. UNCHANGED <<html, initiated, detached, phase, retiring, tasks,
                  fetch, answered, detached_fetch, deadline_alarm, alarm, canceled, drops>>
  BY DEF htmlVars, pageVars, contextVars, fetchVars, alarmVars
<1>2. \A k \in {"Parsing", "PendingRewrites", "DetachedRewrites", "DeletingRewrites", "FetchUserFacing",
                "FetchBackground"} : refs'[k] = refs[k]
  BY DEF Categories
<1>3. PageInv' /\ Slowness' /\ RefsMatch' /\ SameSets
  BY <1>2, PageSame DEF IInv
<1>4. fetch' = "unused" => HtmlTasks'
  <2> HAVE fetch' = "unused"
  <2>1. HtmlTasks
    BY <1>1 DEF IInv, HtmlInv
  <2>2. tasks' \in Seq(HtmlOps \X Contexts) /\ OneTaskEach(tasks')
    BY <1>1, <2>1 DEF HtmlTasks
  <2>3. \A op \in HtmlOps, d \in Contexts : <<op, d>> \in ToSet(tasks') =>
          <<op, d>> \in ToSet(tasks) /\ phase'[d] = phase[d]
    BY <1>1
  <2> QED BY <1>1, <1>3, <2>1, <2>2, <2>3, TasksKept DEF SameSets
<1>5. HtmlInv'
  BY <1>3, <1>4 DEF HtmlInv
<1>6. FetchInv'
  BY <1>1 DEF IInv, FetchInv, FetchTypes, FetchStages, FetchTasks
<1>7. Counted'
  <2>1. /\ (HtmlUser' <=> HtmlUser) /\ (Parsing' <=> Parsing) /\ (FetchUser' <=> FetchUser)
        /\ (UserFacing' <=> UserFacing) /\ (Background' <=> Background)
    BY <1>1 DEF HtmlUser, Parsing, FetchUser, UserFacing, Background
  <2>2. /\ Held(HtmlUser') = Held(HtmlUser) /\ Held(Parsing') = Held(Parsing)
        /\ Held(FetchUser') = Held(FetchUser)
        /\ Held(UserFacing') = Held(UserFacing) /\ Held(Background') = Held(Background)
    BY <2>1 DEF Held
  <2>3. /\ refs["User"] = Held(HtmlUser) + Held(FetchUser) + Held(shutdown = "waiting")
        /\ refs["Parsing"] = Held(Parsing)
        /\ refs["FetchUserFacing"] = Held(UserFacing) /\ refs["FetchBackground"] = Held(Background)
    BY DEF IInv, DriverInv, Counted
  <2>4. /\ Held(HtmlUser) \in Nat /\ Held(FetchUser) \in Nat
        /\ Held(shutdown = "waiting") \in Nat /\ Held(shutdown' = "waiting") \in Nat
    BY DEF Held
  <2>5. refs'["User"] = Held(HtmlUser) + Held(FetchUser) + Held(shutdown' = "waiting")
    BY <2>3, <2>4
  <2> QED BY <1>2, <2>2, <2>3, <2>5 DEF Counted
<1> QED BY <1>5, <1>6, <1>7 DEF IInv, DriverInv

\* What a step that leaves the references alone need not look at.
LEMMA ReferencesCounted ==
  ASSUME IInv
  PROVE  /\ refs \in [Categories -> Nat] /\ refs["AsyncEvents"] = Held(purge = "issued")
         /\ refs["User"] \in Nat /\ Held(shutdown = "waiting") \in Nat
         /\ refs["User"] = refs["User"] - Held(shutdown = "waiting") + Held(shutdown = "waiting")
         /\ refs["User"] >= Held(shutdown = "waiting")
<1>1. refs \in [Categories -> Nat] /\ refs["AsyncEvents"] = Held(purge = "issued")
  BY DEF IInv, DriverInv, DriverTypes, Counted
<1>2. refs["User"] = Held(HtmlUser) + Held(FetchUser) + Held(shutdown = "waiting")
  BY DEF IInv, DriverInv, Counted
<1>3. Held(HtmlUser) \in Nat /\ Held(FetchUser) \in Nat /\ Held(shutdown = "waiting") \in Nat
  BY DEF Held
<1> QED BY <1>1, <1>2, <1>3

\* Time passes the end of a wait.
LEMMA DeadlinePassesStep ==
  ASSUME IInv, DeadlinePasses, UNCHANGED <<htmlVars, fetchVars>>
  PROVE  IInv'
<1> USE DEF IInv, DriverInv
<1>1. /\ waiting # "no" /\ deadline = "ahead" /\ deadline' = "past"
      /\ UNCHANGED <<refs, possibly_quick_rewrites, waiting, deadline_reached, done, release_driver,
                     fully_rewrite_on_flush, releasing, recycled, shutdown, purge, num_detached, tasks>>
      /\ UNCHANGED <<html, initiated, slow>>
  BY DEF DeadlinePasses, waitVars, endVars, htmlVars, pageVars, contextVars
<1>2. DriverTypes' /\ WaitMatches' /\ Released'
  BY <1>1 DEF DriverTypes, WaitMatches, Released, Kept, Leaving, Given, Total
<1>3. WakeupNotLost'
  BY <1>1 DEF WakeupNotLost, IsDone, RewritesComplete
<1>4. LeftBehind'
  BY <1>1 DEF HtmlInv, LeftBehind
<1> HIDE DEF IInv, DriverInv
<1> QED BY <1>1, <1>2, <1>3, <1>4, ReferencesCounted, DriverStep

\* The alarm of a wait runs: from here on the HTML thread waits for quick contexts only.
LEMMA WaitTimesOutStep ==
  ASSUME IInv, WaitTimesOut, UNCHANGED <<htmlVars, fetchVars>>
  PROVE  IInv'
<1> USE DEF IInv, DriverInv
<1>1. /\ waiting # "no" /\ deadline = "past"
      /\ deadline_reached' = TRUE
      /\ IF IsDone(waiting, TRUE, refs, possibly_quick_rewrites)
         THEN waiting' = "no" /\ done' = (IF waiting = "shutdown" THEN "shutdown" ELSE "html")
         ELSE waiting' = waiting /\ done' = done
      /\ UNCHANGED <<refs, possibly_quick_rewrites, release_driver, deadline,
                     fully_rewrite_on_flush, releasing, recycled, shutdown, purge, num_detached, tasks>>
      /\ UNCHANGED <<html, initiated, slow>>
  BY DEF WaitTimesOut, TryCheckForCompletion, endVars, htmlVars, pageVars, contextVars
<1>2. waiting \in {"render", "shutdown"} /\ done = "none"
  BY <1>1 DEF DriverTypes, WaitMatches
<1>3. DriverTypes' /\ WaitMatches'
  BY <1>1, <1>2 DEF DriverTypes, WaitMatches
<1>4. Released'
  BY <1>1 DEF Released, Kept, Leaving, Given, Total
<1>5. WakeupNotLost'
  BY <1>1 DEF WakeupNotLost, IsDone, RewritesComplete
<1>6. LeftBehind'
  <2>1. ASSUME done' = "html" PROVE \A c \in initiated : slow[c]
    <3>1. possibly_quick_rewrites = 0
      BY <1>1, <1>2, <2>1 DEF IsDone
    <3>2. {c \in Unreported : ~slow[c]} \subseteq Contexts
      BY DEF Unreported
    <3>3. {c \in Unreported : ~slow[c]} = {}
      <4>1. Cardinality({c \in Unreported : ~slow[c]}) = 0
        BY <3>1 DEF HtmlInv, RefsMatch
      <4>2. \A S \in SUBSET Contexts : Cardinality(S) = 0 => S = {}
        BY CountedSets
      <4> QED BY <3>2, <4>1, <4>2
    <3>4. initiated \subseteq Contexts
      BY DEF HtmlInv, PageInv, PageTypes
    <3> QED BY <3>3, <3>4 DEF Unreported
  <2> QED BY <1>1, <2>1 DEF LeftBehind
<1> HIDE DEF IInv, DriverInv
<1> QED BY <1>1, <1>3, <1>4, <1>5, <1>6, ReferencesCounted, DriverStep

\* The release of a driver: it is purged, or the server has it back.
LEMMA ReleaseStep ==
  ASSUME IInv, PossiblyPurgeCachedResponseAndReleaseDriver, UNCHANGED <<htmlVars, fetchVars>>
  PROVE  IInv'
<1> USE DEF IInv, DriverInv
<1>1. /\ releasing > 0 /\ releasing' = releasing - 1 /\ release_driver' = FALSE
      /\ MaybeIssuePurge \/ ReleaseRewriteDriver
      /\ UNCHANGED <<possibly_quick_rewrites, waiting, deadline_reached, done, deadline,
                     fully_rewrite_on_flush, shutdown, num_detached, tasks>>
      /\ UNCHANGED <<html, initiated, slow>>
  BY DEF PossiblyPurgeCachedResponseAndReleaseDriver, htmlVars, pageVars, contextVars
<1>2. recycled = 0 /\ (shutdown = "no" => Leaving)
  BY <1>1 DEF Released, Kept, Leaving, Given, DriverTypes
<1>3. WaitMatches' /\ LeftBehind'
  BY <1>1 DEF WaitMatches, HtmlInv, LeftBehind
<1>4. releasing' \in Nat
  BY <1>1 DEF DriverTypes
<1>5. refs \in [Categories -> Nat] /\ refs["AsyncEvents"] = Held(purge = "issued")
  BY ReferencesCounted
<1>6. CASE MaybeIssuePurge
  <2>1. /\ purge = "no" /\ purge' = "issued" /\ recycled' = recycled
        /\ refs' = [refs EXCEPT !["AsyncEvents"] = @ + 1]
    BY <1>6 DEF MaybeIssuePurge
  <2>2. /\ refs' \in [Categories -> Nat] /\ refs'["AsyncEvents"] = 1
        /\ \A k \in Categories \ {"AsyncEvents"} : refs'[k] = refs[k]
    BY <1>5, <2>1 DEF Categories, Held
  <2>3. DriverTypes'
    BY <1>1, <1>4, <2>1, <2>2 DEF DriverTypes
  <2>4. Total(refs') \in Nat /\ Total(refs') # 0
    <3>1. "AsyncEvents" \in Categories /\ refs'["AsyncEvents"] # 0
      BY <2>2 DEF Categories
    <3> QED BY <2>2, <3>1, Totals
  <2>5. Released'
    <3>1. shutdown = "no" => Kept'
      <4> HAVE shutdown = "no"
      <4>1. releasing' = 0 /\ ~release_driver' /\ Total(refs') > 0
        BY <1>1, <1>2, <2>4 DEF Leaving
      <4> QED BY <4>1 DEF Kept, Total
    <3> QED BY <1>1, <1>2, <2>1, <3>1 DEF Released
  <2>6. WakeupNotLost'
    <3>1. RewritesComplete(refs') <=> RewritesComplete(refs)
      BY <2>2 DEF RewritesComplete, Categories
    <3>2. refs'["FetchBackground"] = refs["FetchBackground"] /\ refs["AsyncEvents"] \in Nat
      BY <1>5, <2>2 DEF Categories
    <3>3. refs'["AsyncEvents"] > 0
      BY <2>2
    <3> QED BY <1>1, <3>1, <3>2, <3>3 DEF WakeupNotLost, IsDone
  <2>7. /\ refs'["AsyncEvents"] = Held(purge' = "issued")
        /\ refs'["User"] = refs["User"] - Held(shutdown = "waiting") + Held(shutdown' = "waiting")
        /\ \A k \in Categories \ {"User", "AsyncEvents"} : refs'[k] = refs[k]
    BY <1>1, <2>1, <2>2, ReferencesCounted DEF Held, Categories
  <2> HIDE DEF IInv, DriverInv
  <2> QED BY <1>1, <1>3, <2>3, <2>5, <2>6, <2>7, DriverStep
<1>7. CASE ReleaseRewriteDriver
  <2>1. /\ purge' = purge /\ refs' = refs
        /\ recycled' = IF shutdown # "no" THEN recycled ELSE recycled + 1
    BY <1>7 DEF ReleaseRewriteDriver
  <2>2. DriverTypes'
    <3>1. recycled' \in Nat
      BY <1>2, <2>1
    <3>2. release_driver' \in BOOLEAN
      BY <1>1
    <3> QED BY <1>1, <1>4, <2>1, <3>1, <3>2 DEF DriverTypes
  <2>3. Released'
    <3>1. CASE shutdown = "no"
      <4>1. releasing' = 0 /\ ~release_driver' /\ Total(refs) = 0 /\ recycled' = 1
        BY <1>1, <1>2, <2>1, <3>1 DEF Leaving
      <4>2. Total(refs') = 0
        BY <2>1, <4>1
      <4> QED BY <1>1, <3>1, <4>1, <4>2 DEF Released, Given, Total
    <3>2. CASE shutdown # "no"
      BY <1>1, <1>2, <2>1, <3>2 DEF Released
    <3> QED BY <3>1, <3>2
  <2>4. WakeupNotLost'
    BY <1>1, <2>1 DEF WakeupNotLost, IsDone, RewritesComplete
  <2>5. /\ refs'["AsyncEvents"] = Held(purge' = "issued")
        /\ refs'["User"] = refs["User"] - Held(shutdown = "waiting") + Held(shutdown' = "waiting")
        /\ \A k \in Categories \ {"User", "AsyncEvents"} : refs'[k] = refs[k]
    BY <1>1, <2>1, ReferencesCounted
  <2> HIDE DEF IInv, DriverInv
  <2> QED BY <1>1, <1>3, <2>2, <2>3, <2>4, <2>5, DriverStep
<1> QED BY <1>1, <1>6, <1>7

\* The purge is answered.
LEMMA PurgeAnsweredStep ==
  ASSUME IInv, PurgeAnswered, UNCHANGED <<htmlVars, fetchVars>>
  PROVE  IInv'
<1> USE DEF IInv, DriverInv
<1>1. /\ purge = "issued" /\ purge' = "over" /\ DropReference("AsyncEvents")
      /\ UNCHANGED <<deadline, fully_rewrite_on_flush, recycled, shutdown, num_detached, tasks>>
      /\ UNCHANGED <<html, initiated, slow, rewrites>>
  BY DEF PurgeAnswered, htmlVars, pageVars, contextVars
<1>2. refs["AsyncEvents"] = 1 /\ "AsyncEvents" \in Categories /\ refs \in [Categories -> Nat]
  BY <1>1, ReferencesCounted DEF Held, Categories
<1>3. /\ refs' = [refs EXCEPT !["AsyncEvents"] = @ - 1] /\ refs' \in [Categories -> Nat]
      /\ Signalled(refs', possibly_quick_rewrites) /\ WakeupNotLost'
      /\ releasing' \in Nat /\ Released'
  BY <1>1, <1>2, ReferenceDropped
<1>4. refs'["AsyncEvents"] = 0 /\ \A k \in Categories \ {"AsyncEvents"} : refs'[k] = refs[k]
  BY <1>2, <1>3
<1>5. DriverTypes'
  <2>1. waiting' \in {"no", waiting} /\ done' \in {done, "html", "shutdown"}
    BY <1>3 DEF Signalled
  <2> QED BY <1>1, <1>3, <2>1 DEF DriverTypes, Signalled
<1>6. WaitMatches' /\ LeftBehind'
  <2>1. Unreported \subseteq Contexts /\ initiated \subseteq Unreported
    BY DEF Unreported, HtmlInv, PageInv, PageTypes
  <2>2. refs'["PendingRewrites"] = 0 => initiated' = {}
    <3>1. refs'["PendingRewrites"] = Cardinality(Unreported)
      BY <1>4 DEF HtmlInv, RefsMatch, Categories
    <3> QED BY <1>1, <2>1, <3>1, CountedSets
  <2>3. possibly_quick_rewrites = 0 => \A c \in initiated' : slow'[c]
    <3>1. {c \in Unreported : ~slow[c]} \subseteq Contexts
      BY <2>1
    <3>2. possibly_quick_rewrites = Cardinality({c \in Unreported : ~slow[c]})
      BY DEF HtmlInv, RefsMatch
    <3>3. \A S \in SUBSET Contexts : Cardinality(S) = 0 => S = {}
      BY CountedSets
    <3> QED BY <1>1, <2>1, <3>1, <3>2, <3>3
  <2>4. LeftBehind /\ (shutdown # "no" => html' \in {"unused", "finished"})
    BY <1>1 DEF HtmlInv, WaitMatches
  <2> HIDE DEF IInv, DriverInv
  <2> QED BY <1>1, <1>3, <2>2, <2>3, <2>4, SignalEndsWait DEF IInv, DriverInv
<1>7. possibly_quick_rewrites' = possibly_quick_rewrites
  BY <1>3 DEF Signalled
<1>8. /\ refs'["AsyncEvents"] = Held(purge' = "issued")
      /\ refs'["User"] = refs["User"] - Held(shutdown = "waiting") + Held(shutdown' = "waiting")
      /\ \A k \in Categories \ {"User", "AsyncEvents"} : refs'[k] = refs[k]
  BY <1>1, <1>4, ReferencesCounted DEF Held, Categories
<1> HIDE DEF IInv, DriverInv
<1> QED BY <1>1, <1>3, <1>5, <1>6, <1>7, <1>8, DriverStep

\* ShutDownDrivers.
LEMMA ShutDownDriversStep ==
  ASSUME IInv, ServerShutsDown, UNCHANGED <<htmlVars, fetchVars>>
  PROVE  IInv'
<1> USE DEF IInv, DriverInv
<1>1. /\ shutdown = "no" /\ html \in {"unused", "finished"}
      /\ shutdown' = IF recycled = 0 THEN "cleaning" ELSE "over"
      /\ UNCHANGED <<refs, possibly_quick_rewrites, waiting, deadline_reached, done, release_driver, deadline,
                     fully_rewrite_on_flush, releasing, recycled, purge, num_detached, tasks>>
      /\ UNCHANGED <<html, initiated, slow>>
  BY DEF ServerShutsDown, ShutDownDrivers, waitVars, htmlVars, pageVars, contextVars
<1>2. shutdown' \in {"cleaning", "over"}
  BY <1>1
<1>3. DriverTypes' /\ WaitMatches'
  BY <1>1, <1>2 DEF DriverTypes, WaitMatches
<1>4. Released'
  BY <1>1, <1>2 DEF Released, Given, Total
<1>5. WakeupNotLost'
  BY <1>1 DEF WakeupNotLost, IsDone, RewritesComplete
<1>6. LeftBehind'
  BY <1>1 DEF HtmlInv, LeftBehind
<1>7. /\ refs'["AsyncEvents"] = Held(purge' = "issued")
      /\ refs'["User"] = refs["User"] - Held(shutdown = "waiting") + Held(shutdown' = "waiting")
  BY <1>1, <1>2, ReferencesCounted DEF Held
<1> HIDE DEF IInv, DriverInv
<1> QED BY <1>1, <1>3, <1>4, <1>5, <1>6, <1>7, DriverStep

\* BoundedWaitFor, by the server that shuts down.
LEMMA BoundedWaitForStep ==
  ASSUME IInv, BoundedWaitFor, UNCHANGED <<htmlVars, fetchVars>>
  PROVE  IInv'
<1> USE DEF IInv, DriverInv
<1>1. /\ shutdown = "cleaning" /\ shutdown' = "waiting"
      /\ refs' = [refs EXCEPT !["User"] = @ + 1]
      /\ deadline' = "ahead" /\ deadline_reached' = FALSE
      /\ IF IsDone("shutdown", FALSE, refs', possibly_quick_rewrites)
         THEN waiting' = "no" /\ done' = "shutdown" ELSE waiting' = "shutdown" /\ done' = done
      /\ UNCHANGED <<possibly_quick_rewrites, release_driver, fully_rewrite_on_flush, releasing,
                     recycled, purge, num_detached, tasks>>
      /\ UNCHANGED <<html, initiated, slow>>
  BY DEF BoundedWaitFor, CheckForCompletionAsync, TryCheckForCompletion, htmlVars, pageVars, contextVars
<1>2. html \in {"unused", "finished"} /\ waiting = "no" /\ done = "none"
  BY <1>1 DEF WaitMatches, DriverTypes
<1>3. /\ refs' \in [Categories -> Nat] /\ refs'["User"] = refs["User"] + 1
      /\ \A k \in Categories \ {"User"} : refs'[k] = refs[k]
  BY <1>1, ReferencesCounted DEF Categories
<1>4. DriverTypes'
  BY <1>1, <1>2, <1>3 DEF DriverTypes
<1>5. WaitMatches' /\ LeftBehind'
  BY <1>1, <1>2 DEF WaitMatches, LeftBehind
<1>6. Released'
  BY <1>1 DEF Released, Given
<1>7. WakeupNotLost'
  BY <1>1 DEF WakeupNotLost, IsDone
<1>8. /\ refs'["AsyncEvents"] = Held(purge' = "issued")
      /\ refs'["User"] = refs["User"] - Held(shutdown = "waiting") + Held(shutdown' = "waiting")
  BY <1>1, <1>3, ReferencesCounted DEF Held, Categories
<1>9. \A k \in Categories \ {"User", "AsyncEvents"} : refs'[k] = refs[k]
  BY <1>3
<1> HIDE DEF IInv, DriverInv
<1> QED BY <1>1, <1>4, <1>5, <1>6, <1>7, <1>8, <1>9, DriverStep

\* BoundedWaitFor returns.
LEMMA WaitReturnsStep ==
  ASSUME IInv, WaitForShutDownReturns, UNCHANGED <<htmlVars, fetchVars>>
  PROVE  IInv'
<1> USE DEF IInv, DriverInv
<1>1. /\ shutdown = "waiting" /\ done = "shutdown" /\ shutdown' = "over" /\ done' = "none"
      /\ refs' = [refs EXCEPT !["User"] = @ - 1]
      /\ release_driver' = (release_driver \/ Total(refs') = 0)
      /\ releasing' = IF release_driver' THEN releasing + 1 ELSE releasing
      /\ UNCHANGED <<possibly_quick_rewrites, waiting, deadline_reached, deadline,
                     fully_rewrite_on_flush, recycled, purge, num_detached, tasks>>
      /\ UNCHANGED <<html, initiated, slow>>
  BY DEF WaitForShutDownReturns, LastRefRemoved, htmlVars, pageVars, contextVars
<1>2. waiting = "no" /\ html \in {"unused", "finished"} /\ recycled = 0
  BY <1>1 DEF WaitMatches, Released, Given
<1>3. refs \in [Categories -> Nat] /\ refs["User"] > 0
  BY <1>1, ReferencesCounted DEF Held
<1>4. /\ refs' \in [Categories -> Nat] /\ refs'["User"] = refs["User"] - 1
      /\ \A k \in Categories \ {"User"} : refs'[k] = refs[k]
  BY <1>1, <1>3 DEF Categories
<1>5. releasing' \in Nat /\ release_driver' \in BOOLEAN
  BY <1>1 DEF DriverTypes
<1>6. DriverTypes'
  BY <1>1, <1>4, <1>5 DEF DriverTypes
<1>7. WaitMatches' /\ LeftBehind'
  BY <1>1, <1>2 DEF WaitMatches, LeftBehind
<1>8. Released' /\ WakeupNotLost'
  BY <1>1, <1>2 DEF Released, WakeupNotLost
<1>9. /\ refs'["AsyncEvents"] = Held(purge' = "issued")
      /\ refs'["User"] = refs["User"] - Held(shutdown = "waiting") + Held(shutdown' = "waiting")
  BY <1>1, <1>4, ReferencesCounted DEF Held, Categories
<1>10. \A k \in Categories \ {"User", "AsyncEvents"} : refs'[k] = refs[k]
  BY <1>4
<1> HIDE DEF IInv, DriverInv
<1> QED BY <1>1, <1>6, <1>7, <1>8, <1>9, <1>10, DriverStep

-----------------------------------------------------------------------------
(* The theorems.                                                           *)

\* A driver that the server gives out.
LEMMA InitiallyInv == Init => IInv
<1> SUFFICES ASSUME Init PROVE IInv
  OBVIOUS
<1>1. /\ refs = [c \in Categories |-> IF c = "User" THEN 1 ELSE 0]
      /\ possibly_quick_rewrites = 0
      /\ waiting = "no" /\ deadline_reached = FALSE /\ deadline = "none" /\ done = "none"
      /\ fully_rewrite_on_flush \in BOOLEAN
      /\ release_driver = FALSE /\ releasing = 0 /\ recycled = 0 /\ shutdown = "no" /\ purge = "no"
      /\ num_detached = FALSE /\ tasks = <<>>
  BY DEF Init, DriverInit
<1>2. /\ window = 1 /\ rewrites = <<>> /\ initiated = {} /\ detached = {}
      /\ phase = [c \in Contexts |-> "new"] /\ slow = [c \in Contexts |-> FALSE]
      /\ starts = [c \in Contexts |-> 0]
      /\ num_predecessors = [c \in Contexts |-> Cardinality(Predecessors(c))]
      /\ repeated = [c \in Contexts |-> <<>>] /\ primary = [k \in Keys |-> None]
      /\ locked = {} /\ retiring = <<>> /\ can_rewrite_resources = FALSE
  BY DEF Init, HtmlIdle
<1>3. /\ answered = 0 /\ detached_fetch = FALSE /\ deadline_alarm = FALSE /\ alarm = "none"
      /\ canceled = FALSE /\ drops = <<>>
      /\ \/ html = "start" /\ fetch = "unused"
         \/ html = "unused" /\ fetch = "start"
  BY DEF Init, FetchIdle
<1>4. DriverTypes /\ WakeupNotLost /\ WaitMatches
  BY <1>1, <1>3 DEF DriverTypes, WakeupNotLost, WaitMatches
<1>5. /\ refs \in [Categories -> Nat] /\ refs["User"] = 1
      /\ \A k \in Categories \ {"User"} : refs[k] = 0
      /\ "User" \in Categories
  BY <1>1 DEF Categories
<1>6. Counted
  <2>1. Held(HtmlUser) + Held(FetchUser) = 1
    BY <1>3 DEF Held, HtmlUser, FetchUser
  <2>2. /\ ~Parsing /\ ~UserFacing /\ ~Background
    BY <1>3 DEF Parsing, UserFacing, Background
  <2>3. Held(HtmlUser) \in Nat /\ Held(FetchUser) \in Nat
    BY DEF Held
  <2>4. refs["User"] = Held(HtmlUser) + Held(FetchUser) + Held(shutdown = "waiting")
    BY <1>1, <1>5, <2>1, <2>3 DEF Held
  <2>5. /\ refs["Parsing"] = 0 /\ refs["FetchUserFacing"] = 0 /\ refs["FetchBackground"] = 0
        /\ refs["AsyncEvents"] = 0
    BY <1>5 DEF Categories
  <2> QED BY <1>1, <2>2, <2>4, <2>5 DEF Counted, Held
<1>7. Released
  <2>1. Total(refs) \in Nat /\ Total(refs) # 0
    BY <1>5, Totals
  <2> QED BY <1>1, <2>1 DEF Released, Kept
<1>8. \A c \in Contexts : Predecessors(c) \subseteq Contexts /\ Ahead(c) = Predecessors(c) /\ ~Reported(c)
  BY <1>2 DEF Predecessors, Ahead, Reported
<1>9. \A c \in Contexts : Cardinality(Predecessors(c)) \in Nat
  BY <1>8, CountedSets
<1>10. PageTypes
  <2>1. 1 \in 1..Len(Page)
    BY WindowFacts
  <2>2. <<>> \in Seq(Contexts)
    OBVIOUS
  <2> QED BY <1>2, <1>3, <1>9, <2>1, <2>2 DEF PageTypes, Phases
<1>11. ToSet(<<>>) = {}
  BY EmptyElements
<1>12. Placed
  BY <1>2, <1>8, <1>11 DEF Placed, Outstanding, OnceEach
<1>13. Windows
  <2>1. \A c \in Contexts : Unflushed(c)
    <3>1. \A c \in Contexts : WindowOf(c) \in 1..Len(Page) /\ Len(Page) \in Nat
      BY WindowFacts
    <3> QED BY <1>2, <1>3, <3>1 DEF Unflushed
  <2> QED BY <1>2, <1>3, <1>11, <2>1 DEF Windows
<1>14. Started
  BY <1>2, <1>8 DEF Started
<1>15. Works /\ Repeating
  BY <1>2, <1>11, ContextAssumption DEF Works, Repeating, AtWork, OnceEach
<1>16. Slowness
  BY <1>2, <1>11 DEF Slowness, HeldUpBy
<1>17. RefsMatch
  <2>1. Unreported = {} /\ Retired = {} /\ {c \in Unreported : ~slow[c]} = {}
    BY <1>2, <1>11 DEF Unreported, Retired
  <2>2. /\ refs["PendingRewrites"] = 0 /\ refs["DetachedRewrites"] = 0 /\ refs["DeletingRewrites"] = 0
    BY <1>5 DEF Categories
  <2> QED BY <1>1, <1>2, <2>1, <2>2, FS_EmptySet DEF RefsMatch
<1>18. HtmlTasks
  <2>1. <<>> \in Seq(HtmlOps \X Contexts)
    OBVIOUS
  <2> QED BY <1>1, <1>11, <2>1 DEF HtmlTasks, OneTaskEach, HasTask
<1>19. LeftBehind
  BY <1>1 DEF LeftBehind
<1>20. FetchInv
  <2>1. <<>> \in Seq(FetchTaskSet) /\ <<>> # <<"FetchBackground">>
    OBVIOUS
  <2>2. FetchTasks
    BY <1>1, <1>11, <2>1 DEF FetchTasks, FetchTaskSet
  <2>3. FetchTypes
    BY <1>3 DEF FetchTypes
  <2>4. drops # <<"FetchBackground">>
    BY <1>3, <2>1
  <2>5. FetchStages
    BY <1>3, <2>4 DEF FetchStages
  <2> QED BY <2>2, <2>3, <2>5 DEF FetchInv
<1> QED BY <1>4, <1>6, <1>7, <1>10, <1>12, <1>13, <1>14, <1>15, <1>16, <1>17, <1>18, <1>19, <1>20
        DEF IInv, DriverInv, HtmlInv, PageInv

\* Every step for a page.
LEMMA HtmlNextStep ==
  ASSUME IInv, fetch = "unused", UNCHANGED fetchVars, HtmlNext
  PROVE  IInv'
<1>1. CASE HtmlThread
  BY <1>1, StartParseStep, InitiateRewriteStep, FlushAsyncStep, FlushAsyncWaitsStep, FlushAsyncDoneStep,
     FinishParseStep DEF HtmlThread
<1>2. CASE RewriteThread
  BY <1>2, StartStep, OutputCacheDoneStep, QueuedStep, RewriteCompleteStep, DeleteStep DEF RewriteThread
<1>3. CASE Answers
  BY <1>3, AnswerStep
<1> QED BY <1>1, <1>2, <1>3 DEF HtmlNext

\* Every step of the driver's own.
LEMMA DriverNextStep ==
  ASSUME IInv, DriverNext \/ ServerShutsDown, UNCHANGED <<htmlVars, fetchVars>>
  PROVE  IInv'
BY DeadlinePassesStep, WaitTimesOutStep, ReleaseStep, PurgeAnsweredStep, BoundedWaitForStep, WaitReturnsStep,
   ShutDownDriversStep DEF DriverNext, Waits, Releases, ShutsDown

\* The inductive invariant.
THEOREM InductiveInvariant == Spec => []IInv
<1>1. Init => IInv
  BY InitiallyInv
<1>2. IInv /\ [Next]_vars => IInv'
  <2> SUFFICES ASSUME IInv, [Next]_vars PROVE IInv'
    OBVIOUS
  <2>1. CASE fetch = "unused" /\ HtmlNext /\ UNCHANGED fetchVars
    BY <2>1, HtmlNextStep
  <2>2. CASE html = "unused" /\ FetchNext /\ UNCHANGED htmlVars
    BY <2>2, FetchNextStep
  <2>3. CASE (DriverNext \/ ServerShutsDown) /\ UNCHANGED <<htmlVars, fetchVars>>
    BY <2>3, DriverNextStep
  <2>4. CASE UNCHANGED vars
    <3>1. UNCHANGED <<htmlVars, fetchVars, waitVars, deadline, fully_rewrite_on_flush, endVars,
                      num_detached, tasks>>
      BY <2>4 DEF vars, driverVars
    <3>2. UNCHANGED <<refs, possibly_quick_rewrites, waiting, done, shutdown, purge, html, initiated, slow>>
      BY <3>1 DEF waitVars, endVars, htmlVars, pageVars, contextVars
    <3>3. DriverTypes' /\ WakeupNotLost' /\ Released'
      BY <3>1, DriverStill DEF IInv, DriverInv
    <3>4. WaitMatches' /\ LeftBehind'
      BY <3>1, <3>2 DEF IInv, DriverInv, HtmlInv, WaitMatches, LeftBehind
    <3> QED BY <3>1, <3>2, <3>3, <3>4, ReferencesCounted, DriverStep
  <2> QED BY <2>1, <2>2, <2>3, <2>4 DEF Next, Progress
<1> QED BY <1>1, <1>2, PTL DEF Spec

\* For any page and every interleaving of its threads, or of a fetch and its alarm: a
\* waiter that has not been told waits for a condition that is false.  AddRef tells
\* nobody and may not have to; every change that can make the condition true goes
\* through SignalIfRequired.
THEOREM AlwaysWakeupNotLost == Spec => []WakeupNotLost
<1>1. IInv => WakeupNotLost
  BY DEF IInv, DriverInv
<1> QED BY <1>1, InductiveInvariant, PTL

\* For any page: the counts that decide waits and the driver's life are those of the
\* contexts pending, detached, completed and not deleted, and attached and quick.
THEOREM AlwaysRefsMatch == Spec => []RefsMatch
<1>1. IInv => RefsMatch
  BY DEF IInv, HtmlInv
<1> QED BY <1>1, InductiveInvariant, PTL

\* For any page: whatever waits for a slow context, or shares its result, is slow too,
\* as the deadline of a flush relies on.
THEOREM AlwaysSlowHoldsUpSlow == Spec => []SlowHoldsUpSlow
<1>1. IInv => SlowHoldsUpSlow
  BY DEF IInv, HtmlInv, Slowness, HeldUpBy, SlowHoldsUpSlow
<1> QED BY <1>1, InductiveInvariant, PTL

\* For any page: a context starts once, after everything before it on its slots; of the
\* contexts with one key one works at a time, and creation locks are held by those at
\* work only.
THEOREM AlwaysWorksInTurn == Spec => []WorksInTurn
<1>1. IInv => WorksInTurn
  <2> SUFFICES ASSUME IInv PROVE WorksInTurn
    OBVIOUS
  <2>1. PageTypes /\ Started /\ Works
    BY DEF IInv, HtmlInv, PageInv
  <2>2. \A c \in Contexts : starts[c] \in {0, 1}
    BY <2>1 DEF Started, Held
  <2>3. \A c \in Contexts : Reported(c) => phase[c] \in {"done", "deleted"}
    BY DEF Reported
  <2>4. StartsInTurn
    <3> SUFFICES ASSUME NEW c \in Contexts, starts[c] = 1, NEW d \in Predecessors(c)
                 PROVE  phase[d] \in {"done", "deleted"}
      BY <2>2 DEF StartsInTurn
    <3>1. Ahead(c) = {} /\ d \in Contexts
      BY <2>1 DEF Started, Predecessors
    <3> QED BY <2>3, <3>1 DEF Ahead
  <2> DEFINE Working == {c \in Contexts : starts[c] = 1 /\ phase[c] \notin {"repeated", "done", "deleted"}}
  <2>5. \A c \in Contexts : c \in Working <=> phase[c] \in AtWork
    <3>1. \A c \in Contexts : phase[c] \in Phases
      BY <2>1 DEF PageTypes
    <3>2. \A c \in Contexts : starts[c] = IF phase[c] \in {"new", "created"} THEN 0
                                          ELSE IF phase[c] = "deleted" THEN Held(can_rewrite_resources) ELSE 1
      BY <2>1 DEF Started
    <3> QED BY <3>1, <3>2 DEF Phases, AtWork
  <2>6. \A c, d \in Working : Key[c] = Key[d] => c = d
    <3> SUFFICES ASSUME NEW c \in Working, NEW d \in Working, Key[c] = Key[d] PROVE c = d
      OBVIOUS
    <3>1. Key[c] \in Keys
      BY ContextAssumption
    <3>2. primary[Key[c]] = c /\ primary[Key[d]] = d
      BY <2>1, <2>5, <3>1 DEF Works
    <3> QED BY <3>2
  <2>7. locked \subseteq Working
    BY <2>1, <2>5 DEF Works, PageTypes
  <2> QED BY <2>4, <2>6, <2>7 DEF WorksInTurn, OneWorksPerKey
<1> QED BY <1>1, InductiveInvariant, PTL

\* The client of a fetch is answered once, whichever of the rewrite and the deadline
\* comes first, and a deadline about to be handled finds the fetch unanswered and not
\* in the background.
THEOREM AlwaysFetchAnsweredOnce == Spec => []FetchAnsweredOnce
<1>1. IInv => FetchAnsweredOnce
  <2> SUFFICES ASSUME IInv PROVE FetchAnsweredOnce
    OBVIOUS
  <2>1. FetchTypes /\ FetchStages
    BY DEF IInv, FetchInv
  <2>2. AnsweredOnce
    BY <2>1 DEF FetchTypes, FetchStages, AnsweredOnce
  <2>3. ASSUME alarm = "queued", ~canceled
        PROVE  answered = 0 /\ deadline_alarm /\ refs["FetchUserFacing"] = 1 /\ refs["FetchBackground"] = 0
    <3>1. answered = 0 /\ deadline_alarm /\ ~detached_fetch /\ fetch \notin {"unused", "start"}
      BY <2>1, <2>3 DEF FetchStages
    <3>2. UserFacing /\ ~Background
      BY <3>1 DEF UserFacing, Background
    <3> QED BY <3>1, <3>2 DEF IInv, DriverInv, Counted, Held
  <2>4. DeadlineFindsFetch
    BY <2>1, <2>3 DEF FetchStages, DeadlineFindsFetch
  <2> QED BY <2>2, <2>4 DEF FetchAnsweredOnce
<1> QED BY <1>1, InductiveInvariant, PTL

\* When the server has the driver back, the page is done with.
LEMMA PageDone ==
  ASSUME IInv, recycled = 1
  PROVE  /\ Total(refs) = 0 /\ releasing = 0 /\ \A k \in Categories : refs[k] = 0
         /\ html \in {"unused", "finished"}
         /\ initiated = {} /\ detached = {} /\ rewrites = <<>> /\ possibly_quick_rewrites = 0
         /\ retiring = <<>> /\ locked = {} /\ \A k \in Keys : primary[k] = None
         /\ \A c \in Contexts : phase[c] \in {"new", "deleted"}
         /\ html = "finished" => \A c \in Contexts : phase[c] = "deleted"
<1> USE DEF IInv, DriverInv, HtmlInv
<1>1. Given
  BY DEF Released
<1>2. Total(refs) = 0 /\ releasing = 0 /\ \A k \in Categories : refs[k] = 0
  BY <1>1, Totals DEF Given, DriverTypes
<1>3. /\ refs["User"] = 0 /\ refs["PendingRewrites"] = 0 /\ refs["DetachedRewrites"] = 0
      /\ refs["DeletingRewrites"] = 0
  BY <1>2 DEF Categories
<1>4. html \in {"unused", "finished"}
  <2>1. refs["User"] = Held(HtmlUser) + Held(FetchUser) + Held(shutdown = "waiting")
    BY DEF Counted
  <2>2. Held(FetchUser) \in Nat /\ Held(shutdown = "waiting") \in Nat
    BY DEF Held
  <2>3. ~HtmlUser
    BY <1>3, <2>1, <2>2 DEF Held
  <2> QED BY <2>3 DEF HtmlUser
<1>5. /\ Unreported \subseteq Contexts /\ detached \subseteq Contexts /\ Retired \subseteq Contexts
      /\ {c \in Unreported : ~slow[c]} \subseteq Contexts
  BY DEF Unreported, Retired, PageInv, PageTypes
<1>6. \A S \in SUBSET Contexts : Cardinality(S) = 0 <=> S = {}
  BY CountedSets
<1>7. Unreported = {} /\ detached = {} /\ Retired = {}
  BY <1>3, <1>5, <1>6 DEF RefsMatch
<1>8. possibly_quick_rewrites = 0
  BY <1>5, <1>6, <1>7 DEF RefsMatch
<1>9. initiated = {} /\ rewrites = <<>>
  <2>1. initiated \subseteq Contexts /\ rewrites \in Seq(Contexts)
    BY DEF PageInv, PageTypes
  <2>2. ToSet(rewrites) \subseteq Contexts
    BY <2>1, Elements
  <2>3. initiated = {} /\ ToSet(rewrites) = {}
    BY <1>7, <2>1, <2>2 DEF Unreported
  <2> QED BY <2>1, <2>3, SomeElement
<1>10. \A c \in Contexts : phase[c] \in {"new", "deleted"} \/ Reported(c)
  <2>1. Outstanding \cup ToSet(rewrites) = {}
    BY <1>7, <1>9, EmptyElements DEF Outstanding
  <2> QED BY <2>1 DEF PageInv, Placed
<1>11. \A c \in Contexts : phase[c] \in {"new", "deleted"}
  BY <1>7, <1>10 DEF Reported, Retired
<1>12. retiring = <<>>
  <2>1. retiring \in Seq(Contexts) /\ \A c \in ToSet(retiring) : phase[c] = "done"
    BY DEF PageInv, PageTypes, Placed
  <2>2. ToSet(retiring) \subseteq Contexts
    BY <2>1, Elements
  <2>3. ToSet(retiring) = {}
    BY <1>11, <2>1, <2>2
  <2> QED BY <2>1, <2>3, SomeElement
<1>13. locked = {} /\ \A k \in Keys : primary[k] = None
  <2>1. \A c \in Contexts : phase[c] \notin AtWork
    BY <1>11 DEF AtWork
  <2>2. locked \subseteq Contexts /\ primary \in [Keys -> Contexts \cup {None}]
    BY DEF PageInv, PageTypes
  <2> QED BY <2>1, <2>2 DEF PageInv, Works
<1>14. ASSUME html = "finished" PROVE \A c \in Contexts : phase[c] = "deleted"
  <2>1. window = Len(Page)
    BY <1>14 DEF PageInv, Windows
  <2>2. \A c \in Contexts : ~Unflushed(c)
    <3>1. Len(Page) \in Nat /\ \A c \in Contexts : WindowOf(c) \in 1..Len(Page)
      BY WindowFacts
    <3> QED BY <1>14, <2>1, <3>1 DEF Unflushed
  <2>3. \A c \in Contexts : phase[c] # "new"
    BY <2>2 DEF PageInv, Windows
  <2> QED BY <1>11, <2>3
<1> QED BY <1>2, <1>4, <1>7, <1>8, <1>9, <1>11, <1>12, <1>13, <1>14

\* For any page or fetch, with or without a purge and a shutdown: a working fetch has a
\* reference; the server gets the driver back at most once, and then no reference, no
\* context, no lock, no waiter and no task but a cancelled alarm is left.
THEOREM AlwaysDriverKept == Spec => []DriverKept
<1>1. IInv => DriverKept
  <2> SUFFICES ASSUME IInv PROVE DriverKept
    OBVIOUS
  <2>1. FetchTypes /\ FetchStages /\ Counted /\ Released /\ WaitMatches /\ DriverTypes
    BY DEF IInv, FetchInv, DriverInv
  <2>2. WorkKeepsDriver
    <3> SUFFICES ASSUME fetch \notin {"start", "unused", "over"}
                 PROVE  /\ refs["FetchUserFacing"] + refs["FetchBackground"] >= 1
                        /\ (detached_fetch <=> refs["FetchBackground"] = 1)
      BY DEF WorkKeepsDriver
    <3>1. refs["FetchUserFacing"] = Held(UserFacing) /\ refs["FetchBackground"] = Held(Background)
      BY <2>1 DEF Counted
    <3>2. Background <=> detached_fetch
      BY DEF Background
    <3>3. ~detached_fetch => UserFacing
      BY <2>1 DEF FetchTypes, FetchStages, UserFacing
    <3> QED BY <3>1, <3>2, <3>3 DEF Held
  <2>3. recycled <= 1
    BY <2>1 DEF Released
  <2>4. ASSUME recycled = 1
        PROVE  /\ waiting = "no" /\ fetch \in {"unused", "over"}
               /\ \A i \in DOMAIN tasks : tasks[i] = <<"SequencePortionOfRun">> /\ canceled
    <3>1. /\ \A k \in Categories : refs[k] = 0
          /\ html \in {"unused", "finished"} /\ \A c \in Contexts : phase[c] \in {"new", "deleted"}
      BY <2>4, PageDone
    <3>2. Given
      BY <2>1, <2>4 DEF Released
    <3>3. waiting = "no"
      BY <2>1, <3>1, <3>2 DEF WaitMatches, Given, DriverTypes
    <3>4. CASE fetch = "unused"
      <4>1. HtmlTasks
        BY <3>4 DEF IInv, HtmlInv
      <4>2. tasks \in Seq(HtmlOps \X Contexts)
        BY <4>1 DEF HtmlTasks
      <4>3. \A o, d : <<o, d>> \notin ToSet(tasks)
        BY <3>1, <4>1, TaskPhases
      <4>4. ToSet(tasks) \subseteq HtmlOps \X Contexts
        BY <4>2, Elements
      <4>5. ToSet(tasks) = {}
        BY <4>3, <4>4
      <4>6. tasks = <<>>
        BY <4>2, <4>5, SomeElement
      <4> QED BY <3>3, <3>4, <4>6
    <3>5. CASE fetch # "unused"
      <4>1. FetchTasks
        BY <3>5 DEF IInv, FetchInv
      <4>2. ~FetchUser /\ ~UserFacing /\ ~Background
        <5>1. refs["User"] = 0 /\ refs["FetchUserFacing"] = 0 /\ refs["FetchBackground"] = 0
          BY <3>1 DEF Categories
        <5>2. Held(HtmlUser) \in Nat /\ Held(FetchUser) \in Nat /\ Held(shutdown = "waiting") \in Nat
          BY DEF Held
        <5>3. /\ refs["User"] = Held(HtmlUser) + Held(FetchUser) + Held(shutdown = "waiting")
              /\ refs["FetchUserFacing"] = Held(UserFacing) /\ refs["FetchBackground"] = Held(Background)
          BY <2>1 DEF Counted
        <5>4. Held(FetchUser) = 0 /\ Held(UserFacing) = 0 /\ Held(Background) = 0
          BY <5>1, <5>2, <5>3
        <5> QED BY <5>4 DEF Held
      <4>3. answered = 1
        BY <2>1, <3>5, <4>2 DEF FetchUser, FetchTypes
      <4>4. fetch = "over"
        BY <2>1, <4>2, <4>3 DEF Background, FetchStages
      <4>5. ASSUME NEW i \in DOMAIN tasks PROVE tasks[i] = <<"SequencePortionOfRun">> /\ canceled
        <5>1. tasks \in Seq(FetchTaskSet)
          BY <4>1 DEF FetchTasks, FetchTaskSet
        <5>2. tasks[i] \in ToSet(tasks)
          <6> HIDE DEF FetchTaskSet
          <6> QED BY <5>1, Elements
        <5>3. tasks[i] = Alarm /\ alarm = "queued"
          BY <4>1, <4>4, <5>2 DEF FetchTasks
        <5>4. canceled
          BY <2>1, <4>3, <5>3 DEF FetchStages
        <5> QED BY <5>3, <5>4 DEF Alarm
      <4> QED BY <3>3, <4>4, <4>5
    <3> QED BY <3>4, <3>5
  <2>5. NothingLeft
    BY <2>4, PageDone DEF NothingLeft
  <2> QED BY <2>2, <2>3, <2>5 DEF DriverKept, GivenBackOnce
<1> QED BY <1>1, InductiveInvariant, PTL

\* For any page: a context propagates its result to the page only while the HTML thread
\* holds the context's own flush window open.
THEOREM AlwaysRendersWhileOpen == Spec => RendersWhileOpen
<1>1. ASSUME IInv, [Next]_vars
      PROVE  [\A c \in rendered' \ rendered :
                c \in ToSet(Page[window]) /\ html \in {"flushing", "waiting"}]_htmlVars
  <2> SUFFICES ASSUME NEW c \in rendered' \ rendered
               PROVE  c \in ToSet(Page[window]) /\ html \in {"flushing", "waiting"}
    OBVIOUS
  <2>1. c \in initiated
    <3>1. rendered' # rendered
      OBVIOUS
    <3>2. RewriteComplete
      BY <1>1, <3>1 DEF Next, Progress, HtmlNext, HtmlThread, RewriteThread, Answers,
         StartParse, InitiateRewrite, FlushAsync, FlushAsyncWaits, FlushAsyncDone, FinishParseAfterFlush,
         Start, OutputCacheDone, ResourceRevalidateDone, LockFailed, FetchInputs, ResourceFetchDone,
         RewriteDoneImpl, DeleteRewriteContext, OutputCacheCallbackDone, ResourceRevalidateCallback,
         CallFetchInputs, CallLockFailed, ResourceFetchCallback, RewriteDone, Answer,
         vars, htmlVars, contextVars
    <3> QED BY <3>2 DEF RewriteComplete, Propagate
  <2>2. PageTypes /\ Windows
    BY <1>1 DEF IInv, HtmlInv, PageInv
  <2>3. c \in Contexts /\ WindowOf(c) = window /\ html \in {"flushing", "waiting"}
    BY <2>1, <2>2 DEF PageTypes, Windows
  <2>4. PICK i \in DOMAIN Page[window] : Page[window][i] = c
    BY <2>3, WindowFacts
  <2>5. c \in ToSet(Page[window])
    BY <2>4 DEF ToSet
  <2> QED BY <2>3, <2>5
<1> QED BY <1>1, InductiveInvariant, PTL DEF Spec, RendersWhileOpen
=============================================================================
