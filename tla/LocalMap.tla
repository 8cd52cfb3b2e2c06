------------------------------ MODULE LocalMap ------------------------------
(***************************************************************************)
(* Dataset.map on one process (LocalExecutor): open the layer, run fn over *)
(* the samples of a view that have no row yet, close: finish the shard,    *)
(* write the layer index in place, register.  Runs follow one another; a   *)
(* run may die anywhere, and a reader may open the dataset at any time.    *)
(*                                                                         *)
(* Registering is one step here: ManifestCommit shows that the manifest    *)
(* changes atomically as long as no other process commits.                 *)
(***************************************************************************)
EXTENDS LayerFiles, FiniteSets

CONSTANTS
  Views,        \* the sample sequences map is called on (datasets and subsets)
  Resumes,      \* values of the resume argument
  NoneAllowed,  \* may fn return None?
  CrashPoints,  \* where a run may die, a subset of Phases \ {"idle"}
  MaxRuns,      \* bound: calls of map
  MaxCrashes,   \* bound: runs that die
  MaxShards     \* bound: shard files of the layer

Phases == {"idle", "map", "index", "write", "register"}
Unregistered == -1

ASSUME LocalAssumption ==
  /\ Views \subseteq Seq(Samples)
  /\ Resumes \subseteq BOOLEAN /\ NoneAllowed \in BOOLEAN
  /\ CrashPoints \subseteq Phases \ {"idle"}
  /\ MaxRuns \in Nat /\ MaxCrashes \in Nat /\ MaxShards \in Nat

VARIABLES
  pc,           \* where the current run is
  w,            \* its LayerWriter
  todo,         \* positions of the view still to process
  index,        \* index/<layer>.parquet: Absent, Torn or its rows
  shards,       \* shards/<layer>/shard-<n>.tar
  registered,   \* rows of the manifest's LayerRef, or Unregistered
  run,          \* history: the current or last run: its samples tried, those without a result
  returned,     \* history: has that run returned without an exception?
  saved,        \* history: the rows of the last completed index file
  crashes,      \* history, bounded by MaxCrashes
  late          \* history: has a run died after it created the index?

vars == <<pc, w, todo, index, shards, registered, run, returned, saved, crashes, late>>

Names == {Single} \X (0 .. MaxShards - 1)

Init ==
  /\ pc = "idle"
  /\ w = Opened(Single, Absent)
  /\ todo = {}
  /\ index = Absent
  /\ shards = [n \in Names |-> <<>>]
  /\ registered = Unregistered
  /\ run = [n |-> 0, view |-> <<>>, tried |-> {}, none |-> {},
            forced |-> FALSE, anyForced |-> FALSE]
  /\ returned = FALSE
  /\ saved = <<>>
  /\ crashes = 0 /\ late = FALSE
-----------------------------------------------------------------------------
DoneForgotten(rows, resume) == {}   \* slip: existing_ids is not consulted

\* process: done = set(writer.existing_ids()) if resume else set()
DoneIds(rows, resume) == IF resume THEN Ids(rows) ELSE {}

TodoByPosition(view, rows, resume) ==   \* slip: p not in done
  {k \in 1 .. Len(view) : k - 1 \notin DoneIds(rows, resume)}

\* process: the positions whose sample is not done
Todo(view, rows, resume) == {k \in 1 .. Len(view) : view[k] \notin DoneIds(rows, resume)}

\* LayerWriter::create and the start of process.  On a torn index create returns
\* Err and map raises with nothing changed.
Start(view, resume) ==
  /\ pc = "idle" /\ run.n < MaxRuns
  /\ index # Torn
  /\ w' = Opened(Single, index)
  /\ todo' = Todo(view, RowsIn(index), resume)
  /\ run' = [n |-> run.n + 1, view |-> view, tried |-> {}, none |-> {},
             forced |-> ~resume, anyForced |-> run.anyForced \/ ~resume]
  /\ returned' = FALSE
  /\ pc' = "map"
  /\ UNCHANGED <<index, shards, registered, saved, crashes, late>>

\* fn on the next sample, then writer.add
Process(k, v) ==
  /\ pc = "map" /\ k \in todo /\ \A j \in todo : k <= j
  /\ w.sid + 1 < MaxShards
  /\ w' = Added(w, shards, run.view[k], v)
  /\ shards' = AddedShards(w, shards, run.view[k], v)
  /\ todo' = todo \ {k}
  /\ run' = [run EXCEPT !.tried = @ \cup {run.view[k]},
                        !.none = IF v = NoBlob THEN @ \cup {run.view[k]} ELSE @]
  /\ UNCHANGED <<pc, index, registered, returned, saved, crashes, late>>

CloseOnce == registered = Unregistered   \* slip: a layer that is registered is taken for complete

\* LocalExecutor.run closes the writer only if process wrote a row.
NeedsClose == run.tried # {}

ReturnEarly ==
  /\ pc = "map" /\ todo = {} /\ ~NeedsClose
  /\ returned' = TRUE
  /\ pc' = "idle"
  /\ UNCHANGED <<w, todo, index, shards, registered, run, saved, crashes, late>>

\* close: finish_shard
CloseShard ==
  /\ pc = "map" /\ todo = {} /\ NeedsClose
  /\ w' = [w EXCEPT !.open = FALSE]
  /\ pc' = "index"
  /\ UNCHANGED <<todo, index, shards, registered, run, returned, saved, crashes, late>>

\* close: ParquetIndex.write creates the file in place ...
CreateIndex ==
  /\ pc = "index"
  /\ index' = Torn
  /\ pc' = "write"
  /\ UNCHANGED <<w, todo, shards, registered, run, returned, saved, crashes, late>>

IndexRows == w.rows

\* ... and writes its rows
WriteIndex ==
  /\ pc = "write"
  /\ index' = IndexRows
  /\ saved' = IndexRows
  /\ pc' = "register"
  /\ UNCHANGED <<w, todo, shards, registered, run, returned, crashes, late>>

RegisterNew == Cardinality(run.tried)   \* slip: rows counts what this run added
RegisteredRows == Len(w.rows)

\* close: register, and map returns
Register ==
  /\ pc = "register"
  /\ registered' = RegisteredRows
  /\ returned' = TRUE
  /\ pc' = "idle"
  /\ UNCHANGED <<w, todo, index, shards, run, saved, crashes, late>>

\* The process dies, or fn or an I/O call raises and the writer is dropped.  Files
\* stay as they are: ShardWriter does not buffer.
Crash ==
  /\ pc \in CrashPoints
  /\ crashes < MaxCrashes
  /\ crashes' = crashes + 1
  /\ late' = (late \/ pc \in {"write", "register"})
  /\ w' = [w EXCEPT !.open = FALSE]
  /\ todo' = {}
  /\ pc' = "idle"
  /\ UNCHANGED <<index, shards, registered, run, returned, saved>>

\* No run is under way and none need start.
Rest == pc = "idle" /\ UNCHANGED vars

Next ==
  \/ \E view \in Views, resume \in Resumes : Start(view, resume)
  \/ \E k \in todo, v \in {run.n} \cup (IF NoneAllowed THEN {NoBlob} ELSE {}) : Process(k, v)
  \/ ReturnEarly \/ CloseShard \/ CreateIndex \/ WriteIndex \/ Register
  \/ Crash \/ Rest

Spec == Init /\ [][Next]_vars
-----------------------------------------------------------------------------
RowType(r) ==
  /\ r.id \in Samples /\ r.shard \in Names
  /\ r.at \in Nat /\ r.val \in 0 .. MaxRuns

TypeOK ==
  /\ pc \in Phases
  /\ w.sid \in -1 .. MaxShards - 1 /\ w.open \in BOOLEAN
  /\ \A k \in 1 .. Len(w.rows) : RowType(w.rows[k])
  /\ todo \subseteq 1 .. Len(run.view)
  /\ index \in {Absent, Torn} \/ \A k \in 1 .. Len(index) : RowType(index[k])
  /\ DOMAIN shards = Names
  /\ registered \in Nat \cup {Unregistered}
  /\ run.n \in 0 .. MaxRuns /\ run.tried \subseteq Samples /\ run.none \subseteq Samples
  /\ returned \in BOOLEAN /\ crashes \in Nat /\ late \in BOOLEAN

\* A reader of the layer index finds the bytes each row was added with, in every
\* state: while a later run writes new shards, and after runs that died.
IndexReadsBack == \A r \in RowSet(RowsIn(index)) : ReadsBack(r, shards)

\* Resuming never processes a sample twice: without resume=False no sample has
\* two rows.
OneRowPerSample ==
  ~run.anyForced =>
    \A j, k \in 1 .. Len(RowsIn(index)) : index[j].id = index[k].id => j = k

\* Between runs the manifest and the layer index agree: neither exists, or the
\* LayerRef counts the rows of a complete index.  A run that dies after it created
\* the index may undo that.
ManifestMatchesIndex ==
  pc = "idle" /\ ~late =>
    \/ registered = Unregistered /\ index = Absent
    \/ Complete(index) /\ registered = Len(index)

\* A map that returned has a row for every sample of its view that fn gave a result
\* for, and the layer is registered (dataset.py:203 "the outputs read back as
\* ordinary modalities/metadata").  A sample fn returned None for in this run may
\* have a row or not.
ReturnedIsRegistered ==
  returned => \A k \in 1 .. Len(run.view) :
                \/ run.view[k] \in run.none
                \/ run.view[k] \in Ids(RowsIn(index)) /\ registered # Unregistered

\* ... which holds as long as no run has died after it created the index.
ReturnedUnlessLate == ~late => ReturnedIsRegistered

\* What a reader of the layer gets for a sample that has a row: the bytes at the
\* place the row tells, or None.
Seen(rows, d, s) ==
  LET r == Visible(rows, s)
  IN IF r.val = NoBlob THEN NoBlob ELSE d[r.shard][r.at][2]

SeenTable == [s \in Ids(saved) |-> Seen(saved, shards, s)]
Asked == [n |-> run.n, view |-> run.view, forced |-> run.forced]
Stage ==
  CASE pc \in {"map", "index"} -> "mapping"
    [] pc = "write" -> "rewriting"
    [] pc = "register" -> "stored"
    [] pc = "idle" /\ returned -> "returned"
    [] pc = "idle" /\ ~returned /\ index = Torn -> "broken"
    [] pc = "idle" /\ ~returned /\ index # Torn -> "rest"

Table == INSTANCE LayerTable WITH
  NoResult <- NoBlob, table <- SeenTable, asked <- Asked, stage <- Stage,
  listed <- (registered # Unregistered)

\* Wherever runs die, what readers get of the layer changes by whole maps only: each
\* brings its own result to the samples it had to, and no sample that has a result
\* loses or changes it otherwise.
RefinesTable == Table!Spec

\* USAGE.md:164-165: a crash before the rename leaves the previous version intact.
PreviousVersionIntact == pc = "idle" /\ registered # Unregistered => Complete(index)
=============================================================================
