----------------------------- MODULE LayerFiles -----------------------------
(***************************************************************************)
(* LayerWriter's struct and files, as operators shared by the modules that *)
(* run it: LocalMap (one writer) and DistMap (one per rank and a commit).  *)
(*                                                                         *)
(* A blob takes one unit of a shard.  What is stored for a sample is the   *)
(* number of the run whose fn returned it; NoBlob means fn returned None.  *)
(* An index row keeps what add was given next to where the writer put it,  *)
(* so that a property can compare it with what a reader finds there.       *)
(***************************************************************************)
EXTENDS Integers, Sequences

CONSTANTS
  Samples,   \* sample_ids
  Parts,     \* partition numbers
  Target,    \* shard_bytes_target
  Single,    \* the part of LayerWriter::create, partition = None
  Absent,    \* no such index file
  Torn       \* an index file created and not completed: reading it fails

NoBlob == 0

ASSUME LayerAssumption ==
  /\ Samples \subseteq Nat /\ Parts \subseteq Nat
  /\ Single \notin Parts /\ Absent # Torn
  /\ Target \in Nat

Complete(file) == file # Absent /\ file # Torn
RowsIn(file) == IF Complete(file) THEN file ELSE <<>>
RowSet(rows) == {rows[k] : k \in 1 .. Len(rows)}
Ids(rows) == {rows[k].id : k \in 1 .. Len(rows)}

\* shard-<n>.tar, or shard-<part>-<n>.tar for a partitioned writer
ShardNames == (Parts \cup {Single}) \X Nat
ShardOf(w) == <<w.part, w.sid>>

ShardNumbers(rows) == {rows[k].shard[2] : k \in 1 .. Len(rows)}
LastShard(rows) ==
  IF rows = <<>> THEN -1
  ELSE CHOOSE n \in ShardNumbers(rows) : \A m \in ShardNumbers(rows) : m <= n

OpenedFromZero(part, file) ==   \* slip: shard numbering starts again on a resume
  [part |-> part, rows |-> RowsIn(file), sid |-> -1, open |-> FALSE]

\* open_internal: the existing rows, and shard numbers after theirs
Opened(part, file) ==
  [part |-> part, rows |-> RowsIn(file), sid |-> LastShard(RowsIn(file)), open |-> FALSE]

\* ensure_shard: finish the full shard, create (truncate) the next one
NeedNew(w, d) == ~w.open \/ Len(d[ShardOf(w)]) + 1 >= Target
Ensured(w, d) == IF NeedNew(w, d) THEN [w EXCEPT !.sid = @ + 1, !.open = TRUE] ELSE w
EnsuredShards(w, d) ==
  IF NeedNew(w, d) THEN [d EXCEPT ![<<w.part, w.sid + 1>>] = <<>>] ELSE d

\* add: a sample with a blob is appended to the open shard; one without leaves
\* only a row, with the last shard's number
RowUnclamped(w, s, at, v) ==   \* slip: shard_id.max(0) dropped
  [id |-> s, shard |-> ShardOf(w), at |-> at, val |-> v]

Row(w, s, at, v) ==
  [id |-> s, shard |-> <<w.part, IF w.sid < 0 THEN 0 ELSE w.sid>>, at |-> at, val |-> v]
Added(w, d, s, v) ==
  IF v = NoBlob THEN [w EXCEPT !.rows = Append(@, Row(w, s, 0, v))]
  ELSE LET e == Ensured(w, d)
           at == Len(EnsuredShards(w, d)[ShardOf(e)]) + 1
       IN [e EXCEPT !.rows = Append(@, Row(e, s, at, v))]
AddedShards(w, d, s, v) ==
  IF v = NoBlob THEN d
  ELSE [EnsuredShards(w, d) EXCEPT ![ShardOf(Ensured(w, d))] = Append(@, <<s, v>>)]

ReadsBack(r, d) ==
  r.val # NoBlob => /\ r.at \in 1 .. Len(d[r.shard])
                    /\ d[r.shard][r.at] = <<r.id, r.val>>

\* push_layer's join: the last row of a sample is the one a reader sees.
Visible(rows, s) ==
  LET at == {k \in 1 .. Len(rows) : rows[k].id = s}
  IN rows[CHOOSE k \in at : \A j \in at : j <= k]
=============================================================================
