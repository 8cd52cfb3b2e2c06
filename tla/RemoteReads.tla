---------------------------- MODULE RemoteReads ----------------------------
(***************************************************************************)
(* Reading a published dataset from an object store: Dataset::read_blob    *)
(* and read_blobs_contig over the lazy index (locate, ensure_loaded, the   *)
(* LRU of decoded shards) over CachedStorage, whose directory every        *)
(* process of the machine shares.                                          *)
(*                                                                         *)
(* Callers are threads of processes: the rayon and prefetch threads of one *)
(* process share an index, DataLoader workers share only the directory.    *)
(* What is done under a lock is one step.  A cache file is an inode of     *)
(* Chunks pieces, which is written a piece per step and read in one; names *)
(* (an entry and its .tmp) and descriptors refer to it.  One modality is   *)
(* read, and the blobs of the base, and of each layer, are in one shard.   *)
(***************************************************************************)
EXTENDS ShardLru

CONSTANTS
  Threads, Procs,
  Placements,    \* how threads are placed on processes, in [Threads -> Procs]
  Dirs,          \* index_shards: row counts of the index shards, in order
  BaseHas,       \* positions whose base row has the modality
  LayerHas,      \* per layer that declares it, in manifest order: those of its rows
  Asks,          \* the sequences of positions callers read
  Chunks,        \* pieces a file is written in
  Files,         \* inodes per key, enough for its names and descriptors
  Faults,        \* what may fail, a subset of FaultKinds
  MaxCalls,      \* bound: calls
  MaxFaults      \* bound: failures and crashes

FaultKinds == {"store", "write", "crash"}
NoFile == 0
Nothing == <<>>  \* an absent modality, a piece never written, a cache miss

ASSUME ReadsAssumption ==
  /\ Placements \subseteq [Threads -> Procs]
  /\ \A d \in Dirs : d \in Seq(Nat \ {0})
  /\ LayerHas \in Seq(SUBSET Nat)
  /\ Asks \subseteq Seq(Nat) /\ <<>> \notin Asks
  /\ Chunks \in Nat \ {0} /\ Files \subseteq Nat \ {NoFile}
  /\ IsFiniteSet(Threads) /\ IsFiniteSet(Files) /\ Cardinality(Threads) < Cardinality(Files)
  /\ Faults \subseteq FaultKinds /\ MaxCalls \in Nat /\ MaxFaults \in Nat

VARIABLES
  dir,      \* the dataset's index_shards
  proc,     \* the process of each thread
  lru,      \* per process: the ShardCache of its LazyIndex
  th,       \* per thread: its call, see Idle
  entry,    \* cache directory: the entry file of a key, or NoFile
  tmp,      \* cache directory: the key's .tmp file, or NoFile
  file,     \* per key: the contents of its inodes
  raced,    \* history: keys that two threads were writing at the same time
  cut,      \* history: those of them a writer of which did not finish
  calls, faults    \* bounded by MaxCalls and MaxFaults

vars == <<dir, proc, lru, th, entry, tmp, file, raced, cut, calls, faults>>
count == <<calls, faults>>

Idle ==
  [ pc |-> "idle",
    ask |-> <<>>,     \* the positions of the call
    plan |-> <<>>,    \* where the blobs of the first of them are, or Nothing
    out |-> <<>>,     \* the blobs read so far, in the order of plan
    want |-> <<>>,    \* keys CachedStorage is asked for
    got |-> <<>>,     \* what it has of them, or Nothing: a miss
    fd |-> NoFile, n |-> 0,   \* the .tmp file being written, and its pieces so far
    res |-> [kind |-> "none", blobs |-> <<>>] ]   \* the result of the last call
-----------------------------------------------------------------------------
(* The dataset.  An object is a byte range of a path: the index shards, read *)
(* whole (range 0), and the blobs of positions 0, 1, ... of the data shards. *)

IndexShard(k) == <<k, 0>>
Blob(source, i) == <<-source, i + 1>>
Positions == UNION {{a[p] : p \in 1 .. Len(a)} : a \in Asks}
Objects == {IndexShard(k) : k \in UNION {1 .. Len(d) : d \in Dirs}} \cup
           {Blob(s, i) : s \in 0 .. Len(LayerHas), i \in Positions}

KeyOfPath(object) == <<object[1], 0>>   \* slip: the range is not hashed

\* cache_key, a hash of path and range that is taken to be injective
CacheKey(object) == object
Keys == {CacheKey(o) : o \in Objects}

Whole(object) == [c \in 1 .. Chunks |-> object]

\* LazyIndex::new: the rows before each shard, and before the end
PrefixSum(d) ==
  LET f[k \in 1 .. Len(d) + 1] == IF k = 1 THEN 0 ELSE f[k - 1] + d[k - 1]
  IN f
Total(d) == PrefixSum(d)[Len(d) + 1]

\* binary_search over the prefix sums: a shard boundary, or the place i would go
Locate(d, i) ==
  LET at == {k \in 1 .. Len(d) + 1 : PrefixSum(d)[k] = i}
      k == IF at # {} THEN CHOOSE k \in at : TRUE
           ELSE Cardinality({k \in 1 .. Len(d) + 1 : PrefixSum(d)[k] < i})
  IN [shard |-> k, local |-> i - PrefixSum(d)[k] + 1]

\* The decoded rows of an index shard.  sample_id is dense, so it is the position.
RowsOf(d, k) == [j \in 1 .. d[k] |-> PrefixSum(d)[k] + j - 1]

\* resolve: the base row, or else the last layer that declares the modality
BlobOf(id) ==
  IF id \in BaseHas THEN Blob(0, id)
  ELSE IF LayerHas # <<>> /\ id \in LayerHas[Len(LayerHas)] THEN Blob(Len(LayerHas), id)
  ELSE Nothing

Init ==
  /\ dir \in Dirs /\ proc \in Placements
  /\ lru = [p \in Procs |-> EmptyLru]
  /\ th = [t \in Threads |-> Idle]
  /\ entry = [k \in Keys |-> NoFile] /\ tmp = [k \in Keys |-> NoFile]
  /\ file = [k \in Keys |-> [f \in Files |-> [c \in 1 .. Chunks |-> Nothing]]]
  /\ raced = {} /\ cut = {} /\ calls = 0 /\ faults = 0

Cache == <<entry, tmp, file, raced, cut>>

Return(t, kind, blobs) ==
  th' = [th EXCEPT ![t] = [Idle EXCEPT !.ask = th[t].ask, !.res = [kind |-> kind, blobs |-> blobs]]]
Fail(t, kind) == Return(t, kind, <<>>)
-----------------------------------------------------------------------------
(* LazyIndex::get for one position after the other, then the blobs.          *)

Call(t, ask) ==
  /\ th[t].pc = "idle"
  /\ calls < MaxCalls /\ calls' = calls + 1
  /\ th' = [th EXCEPT ![t] = [Idle EXCEPT !.pc = "index", !.ask = ask]]
  /\ UNCHANGED <<dir, proc, faults, lru, Cache>>

Fails(kind) ==
  /\ kind \in Faults
  /\ faults < MaxFaults /\ faults' = faults + 1
  /\ UNCHANGED <<dir, proc, calls>>

AbsentLeavesNoSlot(x, rows, local) ==   \* slip: only a blob that is there gets a slot
  [x EXCEPT !.plan = Append(@, BlobOf(rows[local])),
            !.out = IF BlobOf(rows[local]) = Nothing THEN @ ELSE Append(@, Nothing),
            !.pc = IF Len(x.plan) + 1 = Len(x.ask) THEN "blobs" ELSE "index",
            !.want = <<>>, !.got = <<>>]

\* th[t] once the row of the next position is known
Resolved(x, rows, local) ==
  [x EXCEPT !.plan = Append(@, BlobOf(rows[local])), !.out = Append(@, Nothing),
            !.pc = IF Len(x.plan) + 1 = Len(x.ask) THEN "blobs" ELSE "index",
            !.want = <<>>, !.got = <<>>]

Position(x) == x.ask[Len(x.plan) + 1]

NotFound(t) ==
  /\ th[t].pc = "index" /\ Position(th[t]) >= Total(dir)
  /\ Fail(t, "NotFound")
  /\ UNCHANGED <<dir, proc, count, lru, Cache>>

\* ensure_loaded: under the lock, a hit; on a miss the lock is released
Hit(t) ==
  /\ th[t].pc = "index" /\ Position(th[t]) < Total(dir)
  /\ LET at == Locate(dir, Position(th[t]))  c == lru[proc[t]]
     IN /\ at.shard \in Cached(c)
        /\ lru' = [lru EXCEPT ![proc[t]] = Used(c, at.shard)]
        /\ th' = [th EXCEPT ![t] = Resolved(@, c.map[at.shard], at.local)]
  /\ UNCHANGED <<dir, proc, count, Cache>>

LoadShard(t) ==
  /\ th[t].pc = "index" /\ Position(th[t]) < Total(dir)
  /\ LET k == Locate(dir, Position(th[t])).shard
     IN /\ k \notin Cached(lru[proc[t]])
        /\ th' = [th EXCEPT ![t].pc = "look", ![t].want = <<IndexShard(k)>>]
  /\ UNCHANGED <<dir, proc, count, lru, Cache>>

\* ... and taken again to insert what was loaded, whoever loaded it meanwhile.
\* A file that is not whole does not decode.
Insert(t) ==
  /\ th[t].pc = "served" /\ Len(th[t].plan) < Len(th[t].ask)
  /\ LET at == Locate(dir, Position(th[t]))
         rows == RowsOf(dir, at.shard)
     IN IF th[t].got[1] = Whole(th[t].want[1])
        THEN /\ lru' = [lru EXCEPT ![proc[t]] = Inserted(@, at.shard, rows)]
             /\ th' = [th EXCEPT ![t] = Resolved(@, rows, at.local)]
        ELSE Fail(t, "Corrupt") /\ UNCHANGED lru
  /\ UNCHANGED <<dir, proc, count, Cache>>

Pending(x) == {p \in 1 .. Len(x.plan) : x.plan[p] # Nothing /\ x.out[p] = Nothing}

\* The positions still to read of one shard, and a set of positions in the order
\* they were asked for.
InShard(x, s) == {p \in Pending(x) : x.plan[p][1] = s}
Ascending(S) == {ps \in [1 .. Cardinality(S) -> S] : \A i, j \in DOMAIN ps : i < j => ps[i] < ps[j]}

\* One get_ranges per shard, the shards in the order of a hash map.
AskBlobs(t) ==
  /\ th[t].pc = "blobs"
  /\ \E p \in Pending(th[t]) :
       \E ps \in Ascending(InShard(th[t], th[t].plan[p][1])) :
         th' = [th EXCEPT ![t].pc = "look",
                          ![t].want = [j \in 1 .. Len(ps) |-> th[t].plan[ps[j]]]]
  /\ UNCHANGED <<dir, proc, count, lru, Cache>>

\* copy_from_slice in read_blobs_contig panics when a range came back short;
\* read_blob, which reads one position, returns it as it is.
Short(content) == content[Chunks] = Nothing

TakeBlobs(t) ==
  /\ th[t].pc = "served" /\ Len(th[t].plan) = Len(th[t].ask)
  /\ LET x == th[t]
         from(p) == CHOOSE j \in 1 .. Len(x.want) : x.want[j] = x.plan[p]
         short == \E j \in 1 .. Len(x.got) : Short(x.got[j])
     IN \/ short /\ Fail(t, "Panic")
        \/ /\ short => Len(x.ask) = 1
           /\ th' = [th EXCEPT ![t].pc = "blobs", ![t].want = <<>>, ![t].got = <<>>,
                       ![t].out = [p \in 1 .. Len(x.out) |->
                                     IF \E j \in 1 .. Len(x.want) : x.want[j] = x.plan[p]
                                     THEN x.got[from(p)] ELSE x.out[p]]]
  /\ UNCHANGED <<dir, proc, count, lru, Cache>>

Answer(t) ==
  /\ th[t].pc = "blobs" /\ Pending(th[t]) = {}
  /\ Return(t, "ok", th[t].out)
  /\ UNCHANGED <<dir, proc, count, lru, Cache>>
-----------------------------------------------------------------------------
(* CachedStorage::{get, get_range, get_ranges}: look every entry up, fetch   *)
(* the misses at once ("fetch"; what it brings stays with the thread, so it  *)
(* is one step with what follows it), write each of them through.            *)

Missing(x) == {j \in 1 .. Len(x.got) : x.got[j] = Nothing}
Filling(x) == CHOOSE j \in Missing(x) : \A i \in Missing(x) : j <= i
KeyOf(x) == CacheKey(x.want[Filling(x)])

AfterLooks(got) == IF \E j \in 1 .. Len(got) : got[j] = Nothing THEN "fetch" ELSE "served"

Look(t) ==
  /\ th[t].pc = "look"
  /\ LET x == th[t]
         k == CacheKey(x.want[Len(x.got) + 1])
         got == Append(x.got, IF entry[k] = NoFile THEN Nothing ELSE file[k][entry[k]])
     IN th' = [th EXCEPT ![t].got = got,
                         ![t].pc = IF Len(got) < Len(x.want) THEN "look" ELSE AfterLooks(got)]
  /\ UNCHANGED <<dir, proc, count, lru, Cache>>

FetchFails(t) ==
  /\ th[t].pc = "fetch"
  /\ Fails("store")
  /\ Fail(t, "Unavailable")
  /\ UNCHANGED <<lru, Cache>>

\* The fetched bytes of the miss just written through, or not, are the result.
Filled(x) ==
  LET got == [x.got EXCEPT ![Filling(x)] = Whole(x.want[Filling(x)])]
  IN [x EXCEPT !.got = got, !.fd = NoFile, !.n = 0,
               !.pc = IF \E j \in 1 .. Len(got) : got[j] = Nothing THEN "create" ELSE "served"]

Writing(t) == th[t].pc \in {"write", "rename"}
Writers(k) == {t \in Threads : Writing(t) /\ KeyOf(th[t]) = k}

Unused(k) == Files \ ({entry[k], tmp[k]} \cup {th[t].fd : t \in Writers(k)})
NewFile(k) == CHOOSE f \in Unused(k) : \A g \in Unused(k) : f <= g

CreateExclusive(t) ==   \* slip: create_new, so that two writers never share a file
  /\ th[t].pc \in {"fetch", "create"} /\ tmp[KeyOf(th[t])] = NoFile
  /\ LET k == KeyOf(th[t])  f == NewFile(k)
     IN /\ tmp' = [tmp EXCEPT ![k] = f]
        /\ file' = [file EXCEPT ![k][f] = [c \in 1 .. Chunks |-> Nothing]]
        /\ th' = [th EXCEPT ![t].pc = "write", ![t].fd = f]
  /\ UNCHANGED <<dir, proc, count, lru, entry, raced, cut>>

\* std::fs::write: create or truncate the .tmp ...
CreateTmp(t) ==
  /\ th[t].pc \in {"fetch", "create"}
  /\ LET k == KeyOf(th[t])
         f == IF tmp[k] # NoFile THEN tmp[k] ELSE NewFile(k)
     IN /\ tmp' = [tmp EXCEPT ![k] = f]
        /\ file' = [file EXCEPT ![k][f] = [c \in 1 .. Chunks |-> Nothing]]
        /\ th' = [th EXCEPT ![t].pc = "write", ![t].fd = f]
        /\ raced' = IF Writers(k) = {} THEN raced ELSE raced \cup {k}
  /\ UNCHANGED <<dir, proc, count, lru, entry, cut>>

\* ... and write_all.
WritePiece(t) ==
  /\ th[t].pc = "write"
  /\ LET x == th[t]
     IN /\ file' = [file EXCEPT ![KeyOf(x)][x.fd][x.n + 1] = x.want[Filling(x)]]
        /\ th' = [th EXCEPT ![t].n = @ + 1, ![t].pc = IF x.n + 1 = Chunks THEN "rename" ELSE "write"]
  /\ UNCHANGED <<dir, proc, count, lru, entry, tmp, raced, cut>>

WriteErrorIgnored(x) == [x EXCEPT !.pc = "rename"]   \* slip: is_ok() is not asked

\* An error is not the reader's: the entry is left for another time.
AfterWriteError(x) == Filled(x)

WriteFails(t) ==
  /\ th[t].pc \in {"fetch", "create", "write"}
  /\ Fails("write")
  /\ th' = [th EXCEPT ![t] = AfterWriteError(@)]
  /\ cut' = IF Writing(t) /\ KeyOf(th[t]) \in raced THEN cut \cup {KeyOf(th[t])} ELSE cut
  /\ UNCHANGED <<lru, entry, tmp, file, raced>>

\* rename(.tmp, entry): whatever file has the name now; none is an error, ignored
Rename(t) ==
  /\ th[t].pc = "rename"
  /\ LET k == KeyOf(th[t])
     IN IF tmp[k] = NoFile THEN UNCHANGED <<entry, tmp>>
        ELSE /\ entry' = [entry EXCEPT ![k] = tmp[k]]
             /\ tmp' = [tmp EXCEPT ![k] = NoFile]
  /\ th' = [th EXCEPT ![t] = Filled(@)]
  /\ UNCHANGED <<dir, proc, count, lru, file, raced, cut>>

\* A process dies and is started again: its calls and its index are gone, the
\* directory stays.
Crash(p) ==
  /\ Fails("crash")
  /\ LET dead == {t \in Threads : proc[t] = p}
     IN /\ \E t \in dead : th[t].pc # "idle"
        /\ th' = [t \in Threads |-> IF t \in dead THEN Idle ELSE th[t]]
        /\ cut' = cut \cup (raced \cap {KeyOf(th[t]) : t \in {d \in dead : Writing(d)}})
  /\ lru' = [lru EXCEPT ![p] = EmptyLru]
  /\ UNCHANGED <<entry, tmp, file, raced>>

Step(t) ==
  \/ NotFound(t) \/ Hit(t) \/ LoadShard(t) \/ Insert(t)
  \/ AskBlobs(t) \/ TakeBlobs(t) \/ Answer(t)
  \/ Look(t) \/ CreateTmp(t) \/ WritePiece(t) \/ Rename(t)

\* Nobody need call.
Rest == (\A t \in Threads : th[t].pc = "idle") /\ UNCHANGED vars

Next ==
  \/ \E t \in Threads : Step(t) \/ FetchFails(t) \/ WriteFails(t) \/ \E a \in Asks : Call(t, a)
  \/ \E p \in Procs : Crash(p)
  \/ Rest

\* A thread in a call runs; nobody has to call.
Spec == Init /\ [][Next]_vars /\ \A t \in Threads : WF_vars(Step(t))
-----------------------------------------------------------------------------
Contents == [1 .. Chunks -> Objects \cup {Nothing}]
Pcs == {"idle", "index", "blobs", "look", "fetch", "create", "write", "rename", "served"}

TypeOK ==
  /\ dir \in Dirs /\ proc \in Placements
  /\ \A t \in Threads :
       /\ th[t].pc \in Pcs
       /\ Len(th[t].plan) = Len(th[t].out) /\ Len(th[t].plan) <= Len(th[t].ask)
       /\ \A j \in 1 .. Len(th[t].want) : th[t].want[j] \in Objects
       /\ \A j \in 1 .. Len(th[t].got) : th[t].got[j] \in Contents \cup {Nothing}
       /\ th[t].n \in 0 .. Chunks
       /\ Writing(t) = (th[t].fd # NoFile)
  /\ entry \in [Keys -> Files \cup {NoFile}] /\ tmp \in [Keys -> Files \cup {NoFile}]
  /\ file \in [Keys -> [Files -> Contents]]
  /\ cut \subseteq raced /\ raced \subseteq Keys

\* The LRU and its recency order stay consistent, and within the cap, when two
\* threads of a process load the same shard and both insert it.
LruAgrees == \A p \in Procs : Agrees(lru[p])

\* The blobs a call names, and the index shards it goes through.
Touched(ask) ==
  {CacheKey(BlobOf(ask[p])) : p \in {q \in 1 .. Len(ask) : BlobOf(ask[q]) # Nothing}} \cup
  {CacheKey(IndexShard(Locate(dir, ask[p]).shard)) : p \in {q \in 1 .. Len(ask) : ask[q] < Total(dir)}}

Right(ask) == [p \in 1 .. Len(ask) |->
                 IF BlobOf(ask[p]) = Nothing THEN Nothing ELSE Whole(BlobOf(ask[p]))]

\* A call returns, for each position in the order asked, the bytes of that very
\* sample's blob, or the store's error; cache.rs:53 "cache errors must not fail
\* the read".  The exception is a call through an entry that two threads wrote at
\* the same time.
AnswerRight ==
  \A t \in Threads :
    LET res == th[t].res
    IN res.kind # "none" /\ raced \cap Touched(th[t].ask) = {} =>
         \/ res.kind = "Unavailable" /\ "store" \in Faults
         \/ res.kind = "NotFound" /\ \E p \in 1 .. Len(th[t].ask) : th[t].ask[p] >= Total(dir)
         \/ res.kind = "ok" /\ res.blobs = Right(th[t].ask)

\* Once nobody writes it any more an entry holds its whole object, races included:
\* the thread that truncated a shared .tmp last also wrote all of it.  An entry
\* stays torn only if such a writer did not finish.
AtRestWhole ==
  \A o \in Objects :
    LET k == CacheKey(o)
    IN entry[k] # NoFile /\ Writers(k) = {} /\ k \notin cut => file[k][entry[k]] = Whole(o)

\* cache.rs:4-5: entries "are immutable and safe to share".
EntryWhole ==
  \A o \in Objects :
    LET k == CacheKey(o) IN entry[k] # NoFile => file[k][entry[k]] = Whole(o)

\* Every call returns, whatever files earlier calls and dead processes left.
EveryCallReturns == \A t \in Threads : th[t].pc # "idle" ~> th[t].pc = "idle"
=============================================================================
