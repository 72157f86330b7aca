--------------------------- MODULE SharedMemCache ---------------------------
(***************************************************************************)
(* One sector of SharedMemCache (pagespeed/kernel/sharedmem): a directory  *)
(* of entries and a pool of blocks in shared memory, used by processes     *)
(* that hold the sector's mutex while they touch the metadata and release  *)
(* it while they copy data and while a writer sleeps behind readers.  What *)
(* is done between a lock and the next unlock is one action; a copy is one *)
(* action per block.                                                       *)
(*                                                                         *)
(* A process may be killed wherever it does not hold the mutex; the server *)
(* forks another that attaches to what it left behind.                     *)
(*                                                                         *)
(* Abstracted: the block successor list is the sequence of an entry's      *)
(* blocks; sizes count blocks; the contents of a block name the key, the   *)
(* value and the portion they came from; statistics; checkpoints.          *)
(***************************************************************************)
EXTENDS Integers, FiniteSets, SequencesExt

CONSTANTS Hashes,        \* raw hashes
          Values,
          Size,        \* blocks a value needs: DataBlocksForSize
          Entries,
          DataBlocks,  \* data_blocks_
          Position,    \* the entries a hash may be kept in: ExtractPosition
          Procs,
          Times,       \* what timer_->NowMs() may read
          MaxBlocks,   \* MaxValueSize(), in blocks
          MaxCrashes,  \* bound on the processes killed
          Nil         \* the all-zero hash, kInvalidEntry

ASSUME GeometryAssumption ==
  /\ Size \in [Values -> Nat]
  /\ IsFiniteSet(Entries) /\ IsFiniteSet(Procs) /\ DataBlocks \in Nat
  /\ Position \in [Hashes -> Seq(Entries) \ {<<>>}]
ASSUME LimitAssumption ==
  Times \subseteq Nat \ {0} /\ MaxBlocks \in Nat /\ MaxCrashes \in Nat
ASSUME NilAssumption == Nil \notin Hashes \cup Values \cup Entries

Blocks == 0..(DataBlocks - 1)

VARIABLES
  sector,   \* the metadata: directory, LRU list (front first), free list
  data,     \* what each block holds
  proc,     \* where each process is in its operation
  lost      \* per entry: the readers and writers killed on it

sectorVars == <<sector, data, proc, lost>>

Portion(k, v, i) == <<k, v, i>>
Portions(k, v) == [i \in 1..Size[v] |-> Portion(k, v, i)]

FreeEntry ==
  [hash |-> Nil, blocks |-> <<>>, open_count |-> 0, creating |-> FALSE,
   last_use |-> 0]

Idle ==
  [op |-> "idle", key |-> Nil, value |-> Nil, entry |-> Nil, time |-> 0,
   blocks |-> <<>>, got |-> <<>>]

SectorInit ==
  /\ sector = [entry |-> [e \in Entries |-> FreeEntry], lru |-> <<>>,
                free |-> [i \in 1..DataBlocks |-> DataBlocks - i]]
  /\ data = [b \in Blocks |-> Nil]
  /\ proc = [p \in Procs |-> Idle]
  /\ lost = [e \in Entries |-> [readers |-> 0, writers |-> 0]]

-----------------------------------------------------------------------------
(* The sector's own operations: each returns the sector it leaves.         *)

\* Mutants of Writeable: it forgets one half.
WriteableWhileCreated(entry) == entry.open_count = 0
WriteableWhileRead(entry) == ~entry.creating
Writeable(entry) == entry.open_count = 0 /\ ~entry.creating

ReturnBlocks(s, blocks) == [s EXCEPT !.free = Reverse(blocks) \o @]

\* The list without e, if it is in it: UnlinkEntryFromLRU.
Unlinked(lru, e) ==
  IF e \notin ToSet(lru) THEN lru
  ELSE RemoveAt(lru, CHOOSE i \in DOMAIN lru : lru[i] = e)

MarkEntryFree(s, e) ==
  [s EXCEPT !.lru = Unlinked(@, e),
            !.entry[e] = [@ EXCEPT !.hash = Nil, !.blocks = <<>>,
                                   !.last_use = 0]]

TouchEntry(s, e, time) ==
  [s EXCEPT !.lru = <<e>> \o Unlinked(@, e), !.entry[e].last_use = time]

\* Where in the LRU list the entries are that TryAllocateBlocks may take from.
Victims(s) == {i \in DOMAIN s.lru : Writeable(s.entry[s.lru[i]])}
Oldest(s) == s.lru[Max(Victims(s))]

\* One round of its loop: what it has taken, and the sector it leaves.
TakeOldest(got) ==
  [blocks |-> got.blocks \o got.sector.entry[Oldest(got.sector)].blocks,
   sector |-> MarkEntryFree(got.sector, Oldest(got.sector))]

Rounds(start, goal) ==
  LET got[n \in 0..Cardinality(Entries)] ==
        IF n = 0 THEN start
        ELSE IF Len(got[n - 1].blocks) < goal /\ Victims(got[n - 1].sector) # {}
             THEN TakeOldest(got[n - 1]) ELSE got[n - 1]
  IN  got

\* Takes goal blocks off the free list or, when it has too few, all of it and
\* then those of the oldest writeable entries, as many as it takes.
TryAllocateBlocks(s, goal) ==
  LET listed == IF goal < Len(s.free) THEN goal ELSE Len(s.free)
      start == [blocks |-> SubSeq(s.free, 1, listed),
                sector |-> [s EXCEPT !.free = SubSeq(@, listed + 1, Len(@))]]
  IN  Rounds(start, goal)[Cardinality(Entries)]

\* Mutant of Extras: they are forgotten.
ExtrasKept(blocks, want) == <<>>
\* The blocks beyond those a value wants, last first.
Extras(blocks, want) == Reverse(SubSeq(blocks, want + 1, Len(blocks)))

\* PutIntoEntry up to its Unlock.  The entry is left without its creating bit,
\* and free, when there was no room.
PutIntoEntry(s, e, time, v) ==
  LET had == s.entry[e].blocks
      want == Size[v]
      more == IF Len(had) < want THEN TryAllocateBlocks(s, want - Len(had))
              ELSE [blocks |-> <<>>, sector |-> s]
      blocks == had \o more.blocks
  IN  IF Len(blocks) < want
      THEN MarkEntryFree([ReturnBlocks(more.sector, blocks) EXCEPT
                            !.entry[e].creating = FALSE], e)
      ELSE LET t == TouchEntry(ReturnBlocks(more.sector, Extras(blocks, want)),
                               e, time)
           IN  [t EXCEPT !.entry[e].blocks = SubSeq(blocks, 1, want)]

\* DeleteEntry after its wait.
DeleteEntry(s, e) ==
  MarkEntryFree([ReturnBlocks(s, s.entry[e].blocks) EXCEPT
                   !.entry[e].creating = FALSE], e)

-----------------------------------------------------------------------------
(* The operations.                                                         *)

KeyMatch(entry, k) == entry.hash = k

\* The entry a search for k ends at, if any.
Found(k) == {Position[k][i] : i \in
  {j \in DOMAIN Position[k] : /\ KeyMatch(sector.entry[Position[k][j]], k)
                              /\ \A h \in 1..(j - 1) :
                                   ~KeyMatch(sector.entry[Position[k][h]], k)}}

\* The entry a new key replaces: of those it may use the longest unused one,
\* the first of several.
Best(k) ==
  LET usable == {j \in DOMAIN Position[k] :
                   Writeable(sector.entry[Position[k][j]])}
      LastUse(j) == sector.entry[Position[k][j]].last_use
  IN  {Position[k][j] : j \in
         {j \in usable : \A h \in usable : \/ LastUse(j) < LastUse(h)
                                           \/ LastUse(j) = LastUse(h) /\ j <= h}}

\* EnsureReadyForWriting before its loop, and what the loop waits for.
Claimed(s, e) == [s EXCEPT !.entry[e].creating = TRUE]
Ready(e) == sector.entry[e].open_count = 0

\* The locked half of a write of v at e in sector s, by p.
Write(p, s, e, k, v, time) ==
  LET t == PutIntoEntry(s, e, time, v)
  IN  /\ sector' = t
      /\ proc' = [proc EXCEPT ![p] =
           IF t.entry[e].creating
           THEN [Idle EXCEPT !.op = "write", !.key = k, !.value = v,
                             !.entry = e, !.blocks = t.entry[e].blocks]
           ELSE Idle]

\* Put on a key that has an entry: dropped behind another writer, else the
\* entry is claimed and written at once or when its readers have left.
PutUpdate(p, k, v, time) ==
  /\ proc[p] = Idle /\ Size[v] <= MaxBlocks
  /\ \E e \in Found(k) :
       \/ /\ sector.entry[e].creating
          /\ UNCHANGED <<sector, proc>>
       \/ /\ ~sector.entry[e].creating /\ Ready(e)
          /\ Write(p, Claimed(sector, e), e, k, v, time)
       \/ /\ ~sector.entry[e].creating /\ ~Ready(e)
          /\ sector' = Claimed(sector, e)
          /\ proc' = [proc EXCEPT ![p] =
               [Idle EXCEPT !.op = "await_put", !.key = k, !.value = v,
                            !.entry = e, !.time = time]]
  /\ UNCHANGED <<data, lost>>

\* Put on a key that has none: given up when every candidate is in use.
PutReplace(p, k, v, time) ==
  /\ proc[p] = Idle /\ Size[v] <= MaxBlocks /\ Found(k) = {}
  /\ \/ /\ Best(k) = {}
        /\ UNCHANGED <<sector, proc>>
     \/ \E e \in Best(k) :
          Write(p, [Claimed(sector, e) EXCEPT !.entry[e].hash = k],
                e, k, v, time)
  /\ UNCHANGED <<data, lost>>

\* The writer wakes up and finds the readers gone.
PutReady(p) ==
  /\ proc[p].op = "await_put" /\ Ready(proc[p].entry)
  /\ Write(p, sector, proc[p].entry, proc[p].key, proc[p].value, proc[p].time)
  /\ UNCHANGED <<data, lost>>

\* One memcpy, with the lock released.
CopyIn(p) ==
  /\ proc[p].op = "write" /\ proc[p].blocks # <<>>
  /\ LET i == Size[proc[p].value] - Len(proc[p].blocks) + 1
     IN  data' = [data EXCEPT ![Head(proc[p].blocks)] =
                                Portion(proc[p].key, proc[p].value, i)]
  /\ proc' = [proc EXCEPT ![p].blocks = Tail(@)]
  /\ UNCHANGED <<sector, lost>>

PutDone(p) ==
  /\ proc[p].op = "write" /\ proc[p].blocks = <<>>
  /\ sector' = [sector EXCEPT !.entry[proc[p].entry].creating = FALSE]
  /\ proc' = [proc EXCEPT ![p] = Idle]
  /\ UNCHANGED <<data, lost>>

\* Mutant of Readable: readers join behind a waiting writer.
ReadableAnyway(entry) == entry.blocks # <<>>
Readable(entry) == ~entry.creating

Opened(entry) == [entry EXCEPT !.open_count = @ + 1]

\* Get and the locked half of GetFromEntry.
Get(p, k, time) ==
  /\ proc[p] = Idle
  /\ \/ /\ \A e \in Found(k) : ~Readable(sector.entry[e])
        /\ UNCHANGED <<sector, proc>>
     \/ \E e \in Found(k) :
          /\ Readable(sector.entry[e])
          /\ sector' = TouchEntry([sector EXCEPT !.entry[e] = Opened(@)],
                                  e, time)
          /\ proc' = [proc EXCEPT ![p] =
               [Idle EXCEPT !.op = "read", !.key = k, !.entry = e,
                            !.blocks = sector.entry[e].blocks]]
  /\ UNCHANGED <<data, lost>>

\* One WriteAt, with the lock released.
CopyOut(p) ==
  /\ proc[p].op = "read" /\ proc[p].blocks # <<>>
  /\ proc' = [proc EXCEPT ![p].blocks = Tail(@),
                          ![p].got = Append(@, data[Head(proc[p].blocks)])]
  /\ UNCHANGED <<sector, data, lost>>

GetDone(p) ==
  /\ proc[p].op = "read" /\ proc[p].blocks = <<>>
  /\ sector' = [sector EXCEPT !.entry[proc[p].entry].open_count = @ - 1]
  /\ proc' = [proc EXCEPT ![p] = Idle]
  /\ UNCHANGED <<data, lost>>

Delete(p, k) ==
  /\ proc[p] = Idle
  /\ \/ /\ \A e \in Found(k) : sector.entry[e].creating
        /\ UNCHANGED <<sector, proc>>
     \/ \E e \in Found(k) :
          /\ ~sector.entry[e].creating /\ Ready(e)
          /\ sector' = DeleteEntry(sector, e)
          /\ UNCHANGED proc
     \/ \E e \in Found(k) :
          /\ ~sector.entry[e].creating /\ ~Ready(e)
          /\ sector' = Claimed(sector, e)
          /\ proc' = [proc EXCEPT ![p] =
               [Idle EXCEPT !.op = "await_delete", !.key = k, !.entry = e]]
  /\ UNCHANGED <<data, lost>>

DeleteReady(p) ==
  /\ proc[p].op = "await_delete" /\ Ready(proc[p].entry)
  /\ sector' = DeleteEntry(sector, proc[p].entry)
  /\ proc' = [proc EXCEPT ![p] = Idle]
  /\ UNCHANGED <<data, lost>>

Killed == FoldSet(LAMBDA e, n : n + lost[e].readers + lost[e].writers,
                  0, Entries)

\* A process is killed in the middle of an operation, and another forked.
Crash(p) ==
  /\ proc[p] # Idle /\ Killed < MaxCrashes
  /\ proc' = [proc EXCEPT ![p] = Idle]
  /\ lost' = IF proc[p].op = "read"
             THEN [lost EXCEPT ![proc[p].entry].readers = @ + 1]
             ELSE [lost EXCEPT ![proc[p].entry].writers = @ + 1]
  /\ UNCHANGED <<sector, data>>

Continue(p) ==
  PutReady(p) \/ CopyIn(p) \/ PutDone(p) \/ CopyOut(p) \/ GetDone(p)
  \/ DeleteReady(p)

SectorNext == \E p \in Procs :
  \/ Continue(p)
  \/ Crash(p)
  \/ \E k \in Hashes, time \in Times :
       \/ Get(p, k, time)
       \/ \E v \in Values : PutUpdate(p, k, v, time) \/ PutReplace(p, k, v, time)
  \/ \E k \in Hashes : Delete(p, k)

\* A process that is not killed finishes its copies and keeps waking from
\* SleepUs; nobody has to start an operation.
SectorFairness == \A p \in Procs : WF_sectorVars(Continue(p))

SectorSpec == SectorInit /\ [][SectorNext]_sectorVars /\ SectorFairness

-----------------------------------------------------------------------------
(* Properties.                                                             *)

Ops == {"idle", "write", "read", "await_put", "await_delete"}
Contents == {Nil} \cup {Portion(k, v, i) : k \in Hashes, v \in Values, i \in 1..MaxBlocks}
\* Nil is neither a copy of a value nor a pair with one.
ASSUME CopyAssumption == Nil \notin Seq(Contents) \cup (Hashes \X Seq(Contents))
EntryOf == [hash : Hashes \cup {Nil}, blocks : Seq(Blocks), open_count : Nat,
            creating : BOOLEAN, last_use : Times \cup {0}]
ProcOf == [op : Ops, key : Hashes \cup {Nil}, value : Values \cup {Nil},
           entry : Entries \cup {Nil}, time : Times \cup {0},
           blocks : Seq(Blocks), got : Seq(Contents)]

SectorTypeOK ==
  /\ sector \in [entry : [Entries -> EntryOf], lru : Seq(Entries),
                 free : Seq(Blocks)]
  /\ data \in [Blocks -> Contents]
  /\ proc \in [Procs -> ProcOf]
  /\ lost \in [Entries -> [readers : Nat, writers : Nat]]

Writers(e) == {p \in Procs : /\ proc[p].entry = e
                             /\ proc[p].op \in {"write", "await_put", "await_delete"}}
Readers(e) == {p \in Procs : proc[p].entry = e /\ proc[p].op = "read"}

\* SanityCheck's CHECKs: every block is in the free list or in one entry, and
\* only once.  A value that shrinks, grows into the blocks of the least
\* recently used entries or finds no room leaks nothing, even when a process
\* is killed half way.
BlocksOf(e) == ToSet(sector.entry[e].blocks)
BlocksAccountedOnce ==
  /\ Blocks = ToSet(sector.free) \cup UNION {BlocksOf(e) : e \in Entries}
  /\ IsInjective(sector.free)
  /\ \A e \in Entries :
       /\ IsInjective(sector.entry[e].blocks)
       /\ BlocksOf(e) \cap ToSet(sector.free) = {}
       /\ \A f \in Entries : e # f => BlocksOf(e) \cap BlocksOf(f) = {}

\* PutRawHash: "always exit if the key matches, so we don't end up creating a
\* second copy": no hash is in two entries, being written or not.
NoSecondCopy ==
  \A e, f \in Entries :
    sector.entry[e].hash # Nil /\ e # f => sector.entry[e].hash # sector.entry[f].hash

\* The table of lock states at the head of shared_mem_cache.cc: the creating
\* bit is one writer (or delete) at work or killed, open_count the readers at
\* work or killed, and a writer is past its wait only where no reader is.
LockBitsCount ==
  \A e \in Entries :
    /\ Cardinality(Writers(e)) + lost[e].writers =
         IF sector.entry[e].creating THEN 1 ELSE 0
    /\ sector.entry[e].open_count = Cardinality(Readers(e)) + lost[e].readers
    /\ (\E p \in Writers(e) : proc[p].op = "write") => sector.entry[e].open_count = 0

\* What AddSectorToSnapshot would write out for each place in the LRU list: it
\* skips entries being created and takes the others as they are.
SectorDump ==
  [i \in {i \in DOMAIN sector.lru : ~sector.entry[sector.lru[i]].creating} |->
    LET entry == sector.entry[sector.lru[i]]
    IN  [key |-> entry.hash,
         value |-> [j \in DOMAIN entry.blocks |-> data[entry.blocks[j]]]]]

\* A checkpoint taken at any moment, with copies under way in other processes
\* and writers dead half way, holds whole values only, each under its own key
\* and no key twice, so that restoring it puts nothing torn into the cache.
DumpIsWhole ==
  LET dump == SectorDump
  IN  /\ \A i \in DOMAIN dump : \E v \in Values :
           dump[i].key # Nil /\ dump[i].value = Portions(dump[i].key, v)
      /\ \A i, j \in DOMAIN dump : dump[i].key = dump[j].key => i = j

\* The LRU list holds the entries in use, each once: an entry that escaped it
\* could never be evicted, one in it twice would loop TryAllocateBlocks.
LRUHoldsUsed ==
  /\ IsInjective(sector.lru)
  /\ ToSet(sector.lru) = {e \in Entries : sector.entry[e].hash # Nil}

\* What SanityCheck would find at any moment: blocks, list and directory agree.
SectorConsistent ==
  SectorTypeOK /\ BlocksAccountedOnce /\ NoSecondCopy /\ LockBitsCount /\ LRUHoldsUsed

\* EnsureReadyForWriting ends: readers cannot join behind the creating bit, so
\* a writer (or delete) waits only for those already there, and waits for ever
\* only behind one that was killed.
WriterProceeds ==
  \A p \in Procs, e \in Entries :
    (p \in Writers(e) /\ proc[p].op # "write")
      ~> (p \notin Writers(e) \/ proc[p].op = "write" \/ lost[e].readers > 0)

\* The value of the entry of k, unless it is being written.
StoredValue(k) ==
  LET live == {e \in Entries : sector.entry[e].hash = k /\ ~sector.entry[e].creating}
  IN  IF live = {} THEN Nil
      ELSE LET e == CHOOSE e \in live : TRUE
           IN  [i \in DOMAIN sector.entry[e].blocks |-> data[sector.entry[e].blocks[i]]]

\* What a process in state x is storing, and what it has copied of a value
\* with what it is yet to copy.
StoredFor(k) == {Portions(k, v) : v \in Values}
PutOf(x) ==
  IF x.op \in {"write", "await_put"} THEN <<x.key, Portions(x.key, x.value)>> ELSE Nil
FetchOf(x) ==
  IF x.op = "read"
  THEN <<x.key, x.got \o [i \in DOMAIN x.blocks |-> data[x.blocks[i]]]>> ELSE Nil

\* Processes sharing the sector see a lossy map: what a reader has copied with
\* what it is yet to copy is one whole value from the moment it looked it up
\* until it returns, whatever is put, deleted and evicted meanwhile; a value
\* shows up only when the put that writes it is done, and never comes back.
LossyCache == INSTANCE LossyCacheSpec WITH
  Keys <- Hashes,
  Stored <- StoredFor,
  Nothing <- Nil,
  store <- [k \in Hashes |-> StoredValue(k)],
  putting <- [p \in Procs |-> PutOf(proc[p])],
  fetched <- [p \in Procs |-> FetchOf(proc[p])]
IsLossyCache == LossyCache!Spec
=============================================================================
