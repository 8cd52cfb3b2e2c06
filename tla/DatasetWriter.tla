--------------------------- MODULE DatasetWriter ---------------------------
(***************************************************************************)
(* The base write path of ferroload-core: DatasetWriter::{create, add,     *)
(* close} over ShardWriter, with every `?` on that path that can return    *)
(* early and leave the writer in a state the caller may keep using.        *)
(*                                                                         *)
(* A sample is abstracted to two numbers, the bytes of its blobs (Payload) *)
(* and the bytes they take in a tar shard with headers and padding         *)
(* (Extent).  A shard file is the set of extents stored in it, each at the *)
(* offset where the bytes really are; an index row holds the offset the    *)
(* writer believes in.                                                     *)
(***************************************************************************)
EXTENDS Integers, Sequences

CONSTANTS
  Samples,        \* what the caller may add
  Payload,        \* [Samples -> Nat], sum of the blob lengths
  Extent,         \* [Samples -> Nat], bytes they occupy in a shard
  Target,         \* shard_bytes_target
  MaxMember,      \* max_member_bytes
  Faults,         \* which steps may fail, a subset of FaultKinds
  MaxShards,      \* bound: shard files one writer creates
  MaxRows,        \* bound: rows one writer records
  MaxTries        \* bound: failed calls and restarts

FaultKinds == {"finish", "create", "append", "torn"}

ASSUME WriterAssumption ==
  /\ Payload \in [Samples -> Nat]
  /\ Extent \in [Samples -> Nat]
  /\ \A s \in Samples : Payload[s] <= Extent[s]
  /\ Target \in Nat /\ MaxMember \in Nat
  /\ Faults \subseteq FaultKinds
  /\ MaxShards \in Nat /\ MaxRows \in Nat /\ MaxTries \in Nat

ShardIds == 0 .. MaxShards - 1

VARIABLES
  writer,     \* the fields of the Rust struct that change, see WriterType
  shards,     \* disk: shards/shard-<k>.tar, as the extents written into it
  parts,      \* disk: index/part-<k>.parquet, as its rows
  manifest,   \* disk: manifest.json, or NoManifest
  status,     \* "open", "closed" (published) or "dead" (crashed, or close failed)
  acked,      \* history: <<id, sample>> for each add that returned Ok(id)
  tries,      \* history: failures and restarts so far (bounded by MaxTries)
  stranded    \* history: did some finish_shard of this writer fail?

vars == <<writer, shards, parts, manifest, status, acked, tries, stranded>>

NoManifest == [dir |-> <<>>, rows |-> -1, count |-> -1]

\* IndexRow: sample_id, shard_id, the offset of its first member, its content.
Row == [id : Nat, shard : ShardIds, off : Nat, key : Samples]
ShardRef == [part : ShardIds, start : Nat, rows : Nat]      \* IndexShardRef
StoredExtent == [off : Nat, sample : Samples]
WriterType ==
  [ rows : Seq(Row),        \* cur_shard_rows
    dir : Seq(ShardRef),    \* index_shards
    total : Nat,            \* total_rows
    next : Nat,             \* next_id
    sid : -1 .. MaxShards - 1,  \* shard_id
    open : BOOLEAN,         \* shard.is_some()
    pos : Nat,              \* ShardWriter.pos, bytes_written()
    cursor : Nat ]          \* where the file's next byte really goes

Created ==
  [ rows |-> <<>>, dir |-> <<>>, total |-> 0, next |-> 0, sid |-> -1,
    open |-> FALSE, pos |-> 0, cursor |-> 0 ]

Init ==
  /\ writer = Created
  /\ shards = [k \in ShardIds |-> {}]
  /\ parts = [k \in ShardIds |-> <<>>]
  /\ manifest = NoManifest
  /\ status = "open"
  /\ acked = {} /\ tries = 0 /\ stranded = FALSE
-----------------------------------------------------------------------------
(* flush_index_shard and finish_shard.  Each helper comes in two halves, the *)
(* struct it returns and the index files it leaves.                          *)

Flush(w) ==
  IF w.rows = <<>> THEN w
  ELSE [w EXCEPT !.dir = Append(@, [part |-> w.rows[1].shard, start |-> w.rows[1].id,
                                    rows |-> Len(w.rows)]),
                 !.total = @ + Len(w.rows),
                 !.rows = <<>>]

FlushPartsByShard(w, p) ==   \* slip: the file is named by shard_id, not rows[0].shard_id
  IF w.rows = <<>> THEN p ELSE [p EXCEPT ![w.sid] = w.rows]

FlushParts(w, p) == IF w.rows = <<>> THEN p ELSE [p EXCEPT ![w.rows[1].shard] = w.rows]

FinishSkipsFlush(w) == [w EXCEPT !.open = FALSE]   \* slip: flush_index_shard not called

Finish(w) == IF w.open THEN Flush([w EXCEPT !.open = FALSE]) ELSE w
FinishParts(w, p) == IF w.open THEN FlushParts(w, p) ELSE p

\* finish_shard that fails: the shard was take()n first, so only `open` changes.
\* The Parquet file is untouched, or was created and not completed (<<>>).
FinishFailed(w) == [w EXCEPT !.open = FALSE]
TornParts(w, p) ==
  {p} \cup (IF w.rows = <<>> THEN {} ELSE {[p EXCEPT ![w.rows[1].shard] = <<>>]})

RollKeepsPos(w) ==    \* slip: the offset of the previous shard is carried over
  [Finish(w) EXCEPT !.sid = @ + 1, !.open = TRUE, !.cursor = 0]

\* roll_shard: finish the open shard, create (truncate) the next file.
Roll(w) == [Finish(w) EXCEPT !.sid = @ + 1, !.open = TRUE, !.pos = 0, !.cursor = 0]

Dedicated(s) == Payload[s] > MaxMember

NeedNewOnlyDedicatedAfter(w, s) ==   \* slip: `dedicated ||` dropped from ensure_shard
  \/ ~w.open
  \/ w.pos + Payload[s] >= Target

NeedNewForgetsNone(w, s) ==   \* slip: the first sample finds no shard to go to
  \/ Dedicated(s)
  \/ w.pos + Payload[s] >= Target

\* ensure_shard's need_new
NeedNew(w, s) ==
  \/ ~w.open
  \/ Dedicated(s)
  \/ w.pos + Payload[s] >= Target

Ensured(w, s) == IF NeedNew(w, s) THEN Roll(w) ELSE w
EnsuredParts(w, s, p) == IF NeedNew(w, s) THEN FinishParts(w, p) ELSE p

EnsuredShardsEarly(w, s, d) ==   \* slip: the path is formed before shard_id += 1
  IF NeedNew(w, s) THEN [d EXCEPT ![w.sid] = {}] ELSE d

EnsuredShards(w, s, d) == IF NeedNew(w, s) THEN [d EXCEPT ![w.sid + 1] = {}] ELSE d

\* ShardWriter::append for each blob, then cur_shard_rows.push and next_id += 1.
Recorded(w, s) ==
  [w EXCEPT !.rows = Append(@, [id |-> w.next, shard |-> w.sid, off |-> w.pos, key |-> s]),
            !.next = @ + 1,
            !.pos = @ + Extent[s],
            !.cursor = @ + Extent[s]]
Stored(w, s, d) ==
  IF Extent[s] = 0 THEN d
  ELSE [d EXCEPT ![w.sid] = @ \cup {[off |-> w.cursor, sample |-> s]}]

Returned(w) == w.next - 1

CanAdd(s) ==
  /\ status = "open"
  /\ writer.next < MaxRows
  /\ NeedNew(writer, s) => writer.sid + 1 \in ShardIds

Fails(kind) == /\ kind \in Faults
               /\ tries < MaxTries
               /\ tries' = tries + 1
-----------------------------------------------------------------------------
(* DatasetWriter::add, when it succeeds and at each place where it returns   *)
(* Err and leaves a writer the caller can go on using.                       *)

Add(s) ==
  /\ CanAdd(s)
  /\ LET w == Recorded(Ensured(writer, s), s)
         p == EnsuredParts(writer, s, parts)
     IN /\ writer' = IF Dedicated(s) THEN Finish(w) ELSE w
        /\ parts' = IF Dedicated(s) THEN FinishParts(w, p) ELSE p
        /\ shards' = Stored(Ensured(writer, s), s, EnsuredShards(writer, s, shards))
  /\ acked' = acked \cup {<<Returned(writer'), s>>}
  /\ UNCHANGED <<manifest, status, tries, stranded>>

\* roll_shard's finish_shard()? fails: nothing of this sample was written.
AddRollFails(s) ==
  /\ CanAdd(s) /\ NeedNew(writer, s) /\ writer.open
  /\ Fails("finish")
  /\ writer' = FinishFailed(writer)
  /\ parts' \in TornParts(writer, parts)
  /\ stranded' = TRUE
  /\ UNCHANGED <<shards, manifest, status, acked>>

\* roll_shard's ShardWriter::create()? fails: shard_id has already moved on.
AddCreateFails(s) ==
  /\ CanAdd(s) /\ NeedNew(writer, s)
  /\ Fails("create")
  /\ writer' = [Finish(writer) EXCEPT !.sid = @ + 1]
  /\ parts' = FinishParts(writer, parts)
  /\ UNCHANGED <<shards, manifest, status, acked, stranded>>

\* an append()? fails after n whole write_all calls' worth of bytes: they stay in
\* the shard and no row is pushed.  A write_all that wrote some bytes before it
\* failed ("torn") leaves the file's cursor ahead of ShardWriter.pos.
AddAppendFails(s) ==
  /\ CanAdd(s)
  /\ Fails("append")
  /\ \E n \in 0 .. Extent[s] - 1, t \in IF "torn" \in Faults THEN {0, 1} ELSE {0} :
       writer' = [Ensured(writer, s) EXCEPT !.pos = @ + n, !.cursor = @ + n + t]
  /\ parts' = EnsuredParts(writer, s, parts)
  /\ shards' = EnsuredShards(writer, s, shards)
  /\ UNCHANGED <<manifest, status, acked, stranded>>

\* the finish_shard()? after a dedicated sample fails: its row is already recorded.
AddTailFails(s) ==
  /\ CanAdd(s) /\ Dedicated(s)
  /\ Fails("finish")
  /\ LET w == Recorded(Ensured(writer, s), s)
         p == EnsuredParts(writer, s, parts)
     IN /\ writer' = FinishFailed(w)
        /\ parts' \in TornParts(w, p)
        /\ shards' = Stored(Ensured(writer, s), s, EnsuredShards(writer, s, shards))
  /\ stranded' = TRUE
  /\ UNCHANGED <<manifest, status, acked>>
-----------------------------------------------------------------------------
(* DatasetWriter::close(mut self), which ends with commit_manifest's rename. *)

Close ==
  /\ status = "open"
  /\ LET w == Finish(writer)
     IN /\ writer' = w
        /\ manifest' = [dir |-> w.dir, rows |-> w.total, count |-> w.sid + 1]
  /\ parts' = FinishParts(writer, parts)
  /\ status' = "closed"
  /\ UNCHANGED <<shards, acked, tries, stranded>>

\* What a writer that goes away without publishing leaves in memory: nothing.
Dropped ==
  /\ writer' = Created
  /\ acked' = {} /\ stranded' = FALSE
  /\ status' = "dead"
  /\ UNCHANGED <<shards, manifest>>

\* close consumes the writer, so an Err on the way (finish_shard or a file of
\* commit_manifest before the rename) leaves nothing but orphan files.
CloseFails ==
  /\ status = "open"
  /\ Fails("finish")
  /\ parts' \in TornParts(writer, parts) \cup {FinishParts(writer, parts)}
  /\ Dropped

\* The process dies; files stay.
Crash ==
  /\ status = "open"
  /\ tries < MaxTries
  /\ tries' = tries + 1
  /\ UNCHANGED parts
  /\ Dropped

\* DatasetWriter::create on the same root: the rerun starts from nothing, over
\* the files the dead writer left.
Create ==
  /\ status = "dead"
  /\ writer' = Created
  /\ status' = "open"
  /\ UNCHANGED <<shards, parts, manifest, acked, tries, stranded>>

Done == status = "closed" /\ UNCHANGED vars

Next ==
  \/ \E s \in Samples :
       \/ Add(s) \/ AddRollFails(s) \/ AddCreateFails(s)
       \/ AddAppendFails(s) \/ AddTailFails(s)
  \/ Close \/ CloseFails \/ Crash \/ Create \/ Done

Spec == Init /\ [][Next]_vars
-----------------------------------------------------------------------------
TypeOK ==
  /\ writer \in WriterType
  /\ shards \in [ShardIds -> SUBSET StoredExtent]
  /\ parts \in [ShardIds -> Seq(Row)]
  /\ manifest \in [dir : Seq(ShardRef), rows : Nat \cup {-1}, count : Int]
  /\ status \in {"open", "closed", "dead"}
  /\ acked \subseteq Nat \X Samples
  /\ tries \in Nat
  /\ stranded \in BOOLEAN

Published == manifest # NoManifest

\* What LazyIndex and Dataset::get see of the published dataset.
RowsOf(p) == {p[j] : j \in 1 .. Len(p)}
RowsIn(dir) == UNION {RowsOf(parts[dir[i].part]) : i \in 1 .. Len(dir)}
PublishedRows == RowsIn(manifest.dir)
Bytes(k, off) == {e.sample : e \in {x \in shards[k] : x.off = off}}
ReadsBack(r) == Extent[r.key] > 0 => Bytes(r.shard, r.off) = {r.key}

\* The index-shard directory is contiguous and gapless from 0 and adds up to
\* index.rows (manifest.rs IndexShardRef): LazyIndex::locate depends on it.
ContiguousDir(d, total) ==
  /\ (d = <<>>) = (total = 0)
  /\ d # <<>> => d[1].start = 0 /\ d[Len(d)].start + d[Len(d)].rows = total
  /\ \A i \in 1 .. Len(d) : d[i].rows > 0
  /\ \A i \in 1 .. Len(d) - 1 : d[i].start + d[i].rows = d[i + 1].start
PartHolds(ref, p) ==
  /\ Len(p) = ref.rows
  /\ \A j \in 1 .. Len(p) : p[j].id = ref.start + j - 1

\* The published directory is contiguous, and every index shard it names is the file
\* that was written for it: its length and its first id are the directory's, and row
\* j of it is sample start + j - 1.  No two entries share a file, whatever failed
\* between the flushes.  sample_id is therefore the position (the layer join).
DirectorySound ==
  Published =>
    /\ ContiguousDir(manifest.dir, manifest.rows)
    /\ \A i \in 1 .. Len(manifest.dir) : PartHolds(manifest.dir[i], parts[manifest.dir[i].part])
    /\ \A i, j \in 1 .. Len(manifest.dir) :
         i # j => manifest.dir[i].part # manifest.dir[j].part

\* Every published row reads back the bytes of its own sample (random access by
\* the recorded offset), after any failed call, crash and rerun over old files.
ReadBack == \A r \in PublishedRows : ReadsBack(r)

\* What close is documented to do (dataset.rs:187 "flush the final partial index
\* shard"): every sample that add accepted is in the published dataset.
AckedDurable == Published => \A a \in acked : a[1] < manifest.rows

\* What holds of a sample that add accepted, whatever calls failed before and after:
\* no other sample is published under the id add returned for it, and it is in the
\* published dataset, as long as no finish_shard of this writer has failed.
AckedHonoured ==
  Published =>
    \A a \in acked :
      /\ \A r \in PublishedRows : r.id = a[1] => r.key = a[2]
      /\ stranded \/ a[1] < manifest.rows

\* max_member_bytes and shard_bytes_target: an oversized sample shares its shard with
\* no other row, and a row joins a shard that already holds another one only while
\* its blobs still fit under the target.
LimitsRespected ==
  \A r, q \in PublishedRows :
    q.shard = r.shard =>
      /\ Dedicated(r.key) => q.id = r.id
      /\ q.id < r.id => r.off + Payload[r.key] < Target
-----------------------------------------------------------------------------
(* Refinement of SampleLog.  The log is what the rows recorded so far, flushed *)
(* or not, read back from the shards; once published, what the dataset reads.  *)

LiveRows ==
  IF Published THEN PublishedRows ELSE RowsIn(writer.dir) \cup RowsOf(writer.rows)
RowOf(id) == CHOOSE r \in LiveRows : r.id = id
Content(r) == IF Extent[r.key] = 0 THEN {r.key} ELSE Bytes(r.shard, r.off)
Recording == IF Published THEN manifest.rows ELSE writer.next
LogBar == IF status = "dead" THEN <<>> ELSE [n \in 1 .. Recording |-> Content(RowOf(n - 1))]

Log == INSTANCE SampleLog WITH
         Samples <- {{s} : s \in Samples}, log <- LogBar, published <- Published

\* The base write path implements the abstract log.
RefinesLog == Log!Spec
=============================================================================
