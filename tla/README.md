# A TLA+ development of ferroload

ferroload stores multimodal samples in tar shards behind a Parquet index and a
JSON manifest, lets a dataset be enriched by *layers* that a user function
computes (`Dataset.map`, on one process or many), and reads samples at random,
filtered, sampled and prefetched, locally or from an object store. This
directory holds TLA+ models of its state-changing parts, the TLC runs that check
them, and the theorems TLAPS proves about them. Names in the modules are those
of the source where TLA+ allows it. Paths below are relative to the repository;
`core`, `io`, `codec`, `py` are the crates `src/crates/ferroload-*`.

    tlc -workers 2 -config writer.cfg MCDatasetWriter.tla     # model-check
    tlapm DatasetWriterProofs.tla                             # prove

## 1. Inventory

| Component | State | Operations | Correct when |
|---|---|---|---|
| Base writer (`core/dataset.rs` `DatasetWriter`, `core/shard.rs`) | the struct (rows buffered for the open shard, directory of index shards, counters, open shard and its position), shard files, index part files | `create`, `add`, `close`, drop | the directory is gapless and matches its part files; a published row reads back its own sample's bytes; an id is for ever that sample; nothing accepted is lost; size limits hold |
| Manifest commit (`commit_manifest`) | `manifest.json`, `.manifest.json.tmp`, `versions/v<N>.json` | create, register a layer, commit a layer | readers see the old or the new document, never a torn one; a registered layer stays; `versions/` is the history |
| Layer writer and local map (`LayerWriter`, `py dataset.py map`, `LocalExecutor`) | layer rows, shard number, layer index, shard files, `LayerRef` | `create`, `existing_ids`, `add`, `close`, resume | one row per sample, rows read back, reruns complete what died, a forced run wins |
| Distributed map (`executor.py StaticPartitionExecutor`, `create_partition`, `LayerWriter::commit`) | per-rank writers and fragments, merged index, barrier progress | map a partition, barriers, merge, register, consume fragments, manual commit | no completed row is lost, a committed layer is complete, ranks do not overlap, no rank waits for ever |
| Parquet index (`core/index_parquet.rs`) | index files | write in place, read, subset by row group | a file is absent, torn or complete; row groups that are skipped, and columns that are not read, hold nothing that would have changed the answer |
| Lazy base index (`core/index.rs LazyIndex`) | LRU of loaded shards under a lock, load count | `locate`, `ensure_loaded`, `get`, streaming subset | id → row agrees with the eager index; the cache stays within its capacity |
| Dataset reader (`core/dataset.rs Dataset`) | manifest, layer rows joined by id, file handles by path | `open`, `push_layer`, `get`, `resolve`, `read_blobs_contig`, `subset`, `verify` | each position asked for gets the bytes of its own sample's blob, or the store's error |
| Remote storage and cache (`io`) | cache directory shared by processes | `get`, `get_range(s)`, fill | an entry holds the bytes of its object and range |
| Sampler (`core/sampler.rs`) | seed, epoch, rank, worker | `indices` | an epoch is covered exactly once, resumably |
| Subset queries (`core/subset.rs`) | none | parse, evaluate, prune | pruning is sound for the row filter |
| Python loaders (`py loader.py`) | queue, worker thread, shuffle buffer | iterate, prefetch, stop | every item once, errors delivered, threads end |
| Codecs (`codec`) | per process a file counter, temporary files in a shared directory | frame sampling, video decoding; image and array decoding | the right frames of the right clip, whatever the container says; no file and no thread left behind |
| Python bindings (`py lib.rs`) | a batch under way | `decode_video` and the other batch reads on rayon threads | a list has every position, or an exception is raised |
| Command line, catalog, benchmarks, scripts | thin callers | | |

How they interact. A base writer ends in a manifest commit. `map` reads a
`Dataset`, opens a `LayerWriter` on the same root, reads back its own index to
know what is done, and ends in a manifest commit; in a distributed map each rank
leaves a fragment and rank 0 merges them between two `torch.distributed`
barriers. Everything is joined by `sample_id`, which is a position in the base
dataset. Processes share only files: there is no lock between them and no `fsync`
anywhere, and the atomic steps are the renames of the manifest and of cache
entries. Readers may open the dataset while any of this happens.

The hard behaviours are therefore: early returns (`?`) that leave a struct the
caller goes on using; processes that die between two file operations, and reruns
over what they left; files rewritten in place under names a published manifest
already uses; ranks and commits that interleave; errors swallowed around
barriers; ids that must stay positions through all of it. `PROJECT.json` lists
each of these hazards at its line, with the properties that cover it or the
reason why none does. On the reading side they are: one thread that releases a
lock while another loads the same shard; a cache directory that all processes of
a machine fill at once; statistics that stand in for rows; slices that have to
add up to an epoch whatever divides what; a queue whose consumer may go away; a decoder that
gives frames late, after a choice of frames made from a count that may be wrong.

## 2. Modules

| Module | Models | Role |
|---|---|---|
| `SampleLog` | what the base write path promises | abstract specification: a growing log, published once |
| `DatasetWriter` | `DatasetWriter::{create, add, close}` over `ShardWriter` | refines `SampleLog` |
| `ManifestRegistry` | what `manifest.json` promises | abstract specification: versions and named layers |
| `ManifestCommit` | `commit_manifest` and its callers, file step by file step | refines `ManifestRegistry` |
| `LayerFiles` | `LayerWriter`'s struct, index rows and shards, as operators | used by the two below |
| `LayerTable` | what a map promises the readers of its layer | abstract specification: a table of results, changed by whole maps |
| `LocalMap` | `Dataset.map` with `LocalExecutor`, run after run | refines `LayerTable` |
| `DistMap` | `StaticPartitionExecutor`, `LayerWriter::commit`, jobs after jobs | |
| `ShardLru` | the decoded index shards a process keeps, as operators | used by `RemoteReads` |
| `RemoteReads` | `LazyIndex`, `read_blobs_contig` and `CachedStorage` in many threads and processes | |
| `SubsetQuery` | predicates, row-group statistics, the streamed and the eager subset | used by `EpochLoader` |
| `Sampler` | `Sampler::indices` and the order of `FerroIterableDataset` | used by `EpochLoader` |
| `EpochLoader` | subset, then an epoch by ranks, workers, prefetch threads and loops | composes the two above |
| `FrameSampling` | `frame_indices` | used by `VideoDecode` |
| `VideoDecode` | `decode_video` and `VideoCodec::decode`, in many threads and processes | |
| `DatasetWriterProofs` | theorems about `DatasetWriter` | |
| `ManifestCommitProofs` | theorems about `ManifestCommit` | |
| `LayerFilesProofs` | lemmas about the operators of `LayerFiles` | used by the next two |
| `LocalMapProofs`, `DistMapProofs` | theorems about the two ways to map | |
| `RemoteReadsProofs`, `EpochLoaderProofs`, `VideoDecodeProofs` | theorems about the reading side | |
| `MC*` | the constants of the runs | |

An operator whose comment begins with `slip:` is no part of a model. It is the
definition below it with one plausible mistake, and `PROJECT.json` names, under
`mutants`, the property that mistake breaks.

### DatasetWriter
A sample is two numbers: the bytes of its blobs, which the size limits look at
(`Payload`), and the bytes they occupy in a tar shard with headers and padding
(`Extent`). A shard file is the set of extents stored in it, each at its real
offset, while an index row holds the offset the writer believes in
(`ShardWriter.pos`), so that the two can be compared. The record `writer` holds
the changing fields of the Rust struct; `Flush`, `Finish`, `Roll`, `NeedNew`,
`Recorded` are `flush_index_shard`, `finish_shard`, `roll_shard`, the condition
in `ensure_shard` and the tail of `add`. `Add` is the whole call, the finish
after a dedicated sample included. Every `?` on the path is an action of its own
(`AddRollFails`, `AddCreateFails`, `AddAppendFails`, `AddTailFails`,
`CloseFails`), and the caller may go on after each of them except after `close`,
which consumes the writer. `ShardWriter` does not buffer, so a crash leaves
files as they are. `Create` is a rerun on the same root over those files.

### ManifestCommit
`fs::write` is two steps, open-with-truncate and write; a death in the second
leaves part of the document (`Torn`), one between them an empty file (`Empty`).
Inodes are kept apart from names, because a file opened under the shared
temporary name is still the same file after another process renamed it. There is
no lock around load, change and commit, and the model has none: processes
(several `LocalExecutor`s of one `torchrun`, say) begin a commit whenever they
like, write into one temporary file, and rename what another one has half
written. So the manifest can be torn and a registration can be lost to one that
overlapped it; no document of the repository promises otherwise. What holds all
the same is stated with history variables that no guard and no file depends on:
* `met` collects the inodes that were opened while another process was between
  its own opening of the temporary file and its rename. `NeverTorn` excepts a
  manifest that is such a file, and no other.
* `alone` holds the process whose commit no other has overlapped, `acked` the
  layers such commits registered and `published` the documents they published.
  `AckedKept` and `SnapshotsAreHistory` say that these stay, in every later
  manifest and in `versions/`, also through later commits that do overlap.
* `before` freezes what readers saw when two commits first overlapped. Up to that
  moment the files implement `ManifestRegistry`; after it the mapping stands still.

A power failure that reorders writes is outside the model. `Without` removes one entry
where the code's `retain` removes every one of that name; `RefinesRegistry`,
whose abstract side filters the whole list, checks that the two agree on every
list the code can build, and `CommitRefinesRegistry` proves it.

### LayerFiles, LocalMap
What is stored for a sample is the number of the run that computed it, `NoBlob`
when the function returned `None`: enough to tell whose bytes a reader gets. One
blob is one unit of a shard and `Target` is in those units. `LocalMap` runs
`Start` (open the layer, skip ids already present), `Process`, `CloseShard`,
`CreateIndex`/`WriteIndex` (the index file is created in place, then written),
`Register`; `ReturnEarly` is `LocalExecutor`'s path that skips `close` when
nothing was written (`NeedsClose`). A sample whose function returned `None` gets a
row and counts as done, so a resumed run does not try it again, although
`PYTHON_API.md:253-254` says that rerunning fetches those "that errored to
`None`" and line 247 calls them skipped. That is a disagreement of document and
code; the model does what the code does, and no property takes a side:
`LayerTable` lets a resumed map try such a sample again or not, and
`ReturnedIsRegistered` asks for no row of a sample whose function returned
`None` in that run. `RefinesTable` maps all of it to `LayerTable`: the table is
what a reader gets by following each visible row of the last completed index to
its bytes (`Seen`), a map stores its results in one step, and one that dies
before that has changed nothing. The registration is one step, which
`RefinesRegistry` justifies as long as no other process commits meanwhile.

### DistMap
One writer per rank, its fragment written in place, `torch.distributed` barriers
as an external object (they let go when all have entered, and raise in a rank
whose peer has gone), and the commit as a process of its own, run by rank 0 or
by the user (`commit_layer`). `RankZeroRaises` is `except Exception: pass`
around the barriers, with the second attempt a lone rank makes. The `.done`
markers are written by the code, read by nothing, and left out.

### ShardLru, RemoteReads
One modality is read through the lazy index and the disk cache. What is done
under the `Mutex` of the index is one step (`Hit`, `Insert`); between a miss and
the insert the lock is free, and another thread of the process may load and
insert the same shard. Threads of one process share an LRU, DataLoader workers
and other processes share only the cache directory, and a constant gives both
placements. A cache entry is a name for an inode of `Chunks` pieces: `CreateTmp`
truncates or creates the `.tmp` name, `WritePiece` goes through the descriptor
of the thread, `Rename` publishes whatever file then has the name. A reader
opens the entry and reads it in one step. `FetchFails`, `WriteFails` and `Crash`
are the store's error, the write error the code ignores on purpose, and a
process that dies in a call. The contents of a file are pieces of objects, so
that bytes of a wrong object and a short file can be told from the right one.
`Short` and `Insert` are what the code does with a file that is not whole: a
panic in `copy_from_slice`, short bytes from a read of one sample, and a decoding error
that stays until a user deletes the entry.

`resolve` prefers the base row and then the *last* layer that declares the
modality, and looks no further when that layer has no row for the sample.
`cache_key` is taken to be injective in path and range, and there is one store:
the key lacks the store's URL (`io/lib.rs:210-218`), so a cache directory shared
by datasets of two stores, as the default one is, is outside what `cache.rs`
assumes and outside the model.

### SubsetQuery
A predicate is a node of a table of syntax trees (`Ast`), evaluated by recursive
functions, so that the modules stay free of `RECURSIVE`. A row's metadata is
what was given to `add`; `Cell` is what the Parquet column of the shard holds
(one type for a column, a text when kinds are mixed) and `Decoded` what is read
back (a text that looks like a JSON array comes back as one). `SubsetShard` is
the streamed path: statistics per row group, then the filter over the projected
columns. `EagerIds` is the path over all columns and all groups, `GivenIds` the
filter over the metadata as they were given. Integers and floats are one kind.

Where the streamed and the eager path are known to differ, the property says so
by a premise (`Comparable`) and this file says it here: `x != '[1]'` over a text
column of which a row group holds that text alone (statistics compare the text,
the filter the parsed array, so the group is dropped, although
`subset.rs:270-272` says "Never a false negative"), and a key named like
`<m>_present` or `<m>_off`. `Faithful` is the premise under which metadata
survive being stored at all: one kind per column of a shard and no text that
starts like a JSON value.

### Sampler, EpochLoader
A generator seeded with `(seed, epoch)` is a choice among the orders it may
give: `permuted` gives the blocks in any order and any order within each. What
every rank computes from one seed is chosen once. The shuffle buffer of the
iterable dataset is characterised by what may come out of it when. `EpochLoader`
narrows a view by `Subset`, opens a loader (`Open` deals the plan out to the
readers), and then runs one prefetch thread and one loop per (rank, worker):
`Read`, `ReadRaises` (of a stream also while it reads the samples `drop_last` will
drop), `Put`, `Take`, `Leave`, `Resume`. The thread holds an item
while the queue is full. An exception is put before the end of the queue; a
`BaseException`, as pyo3's `PanicException` is, only runs the `finally`
(`loader.py:421`), so that the epoch ends early and silently: `EndsWhole` and
`DeliveredOnce` except it. `Resume` goes on in the same epoch with `resume_from`
set to the samples of the delivered batches, which `Sampler.indices` supports;
`FerroSampler.__iter__` does not pass one on. A DataLoader worker process is a
reader too, with torch's own queue.

### FrameSampling, VideoDecode
A clip is two numbers: the frames its container reports, which may be none or
wrong, and those it has; a frame is its number. `Call` and `Return` are
`decode_video`, whose items go to rayon's threads in any order (`ReadNone`,
`ReadBlob`, `ReadFails`) and whose `collect` turns one error into the result of
the batch. `Stage` writes the bytes to a temporary file named by process and
counter (`Path`), `Open`, `Send`, `Receive`, `DrainEnds`, `PacketsEnd` and
`Select` are `decode_path`, and `Remove` deletes the file, after an error too.
The decoder is external: it gives no frame before its packet and all of them at
the end, and in between as many as it likes. `StageFails`, `CodecFails` and
`Die` are the faults. A process that follows a dead one may get its pid and so
its names; a process runs one batch at a time. An error of `receive_frame`,
which the code takes for "no frame now" (`video.rs:138`), is left out: the clip
then comes back short, and no text says otherwise. `RoundDiv` is the `f64`
rounding, exact below 2^53 frames.

## 3. Runs

| Run | Expect | Shows |
|---|---|---|
| `writer` | pass | with failing finishes, creates and appends, crashes and a rerun: the directory invariants, read-back, stable ids, dedicated shards, the target, and refinement of `SampleLog` |
| `writer_lost` | violation | an accepted sample is not in the dataset `close` publishes, after a failed finish |
| `commit` | pass | commits that overlap at will, deaths at every step and inside writes: a manifest is torn only if two processes met at its file, what a lone commit registered or published stays for ever, refinement of `ManifestRegistry` until the first overlap |
| `map_local` | pass | three runs, resumed or forced, over the dataset and a reordered subset, with two deaths anywhere, also inside the write of the index: refinement of `LayerTable`, read-back, one row per sample, an index the manifest counts until a run dies late |
| `map_torn` | violation | a death while the layer index is rewritten destroys the version the manifest names |
| `map_unregistered` | violation | a death between index and manifest leaves a layer no rerun registers |
| `map_dist` | pass | two jobs of one or two ranks with deaths anywhere, a manual commit: nothing is lost, commits are complete, and every rank ends |
| `map_overwrite` | violation | a second distributed map over other samples truncates shards the committed layer reads, with no failure at all |
| `reads` | pass | two callers in one process or two, store errors, failed writes, deaths: the LRU agrees with its order, calls get the right blobs or the store's error, races of two writers heal, every call returns |
| `cache_torn` | violation | two callers that miss one entry publish half of it, with no failure at all |
| `loader` | pass | subsets by every kind of predicate agree with the eager filter; an epoch over the result is delivered once, in order, whole, through errors, leavers and resumes, and it ends |
| `video` | pass | two batches on two threads, in one process or two, with one fault of any kind: the right frames of the right clip, spread as promised, whole lists, bounded memory, no file left, and every batch ends |

The five violations are quoted against the text they contradict under `findings`
in `PROJECT.json`. Passing and violating runs of a module share its
specification. In `map_dist` a constant leaves out exactly the steps whose
consequence a violating run shows (`Remap = FALSE`, no `write` in
`CommitStopsAt`), so that the other properties can be checked at all. In `writer`,
`map_local` and `reads` the steps of the violation are there, and the properties
say what holds beside it: `AckedHonoured` until a `finish_shard` has failed; the
agreement of index and manifest (`ManifestMatchesIndex`, `ReturnedUnlessLate`)
until a run has died between creating the index and registering (the history
variable `late`); `AnswerRight` beside the race of two writers, and `AtRestWhole`
after it. In `commit` the torn manifest and the lost registration occur too, and
`NeverTorn`, `AckedKept` and the two after them say which commits they cannot
touch. `writer` leaves out a `write_all` that fails half way, for the reason in
section 4.

Properties worth a word. `AckedHonoured` contains what remains of the durable
promise: it holds until some `finish_shard` has failed. `RefinesTable` is what a
map promises its readers in one sentence. `AckedKept` under overlaps rests on
every commit beginning from the manifest it loads: one that loaded an older
document is one the acknowledged commit met. `SnapshotsAreHistory` needs the
order of the two files in `commit_manifest`, and that no later commit, dead or
overlapped, takes a version again. `NoRowLost` relates three places a row can be in, through every death of a commit but one inside the write
of the index. `CommittedIsComplete` is checked at the moment rank 0 enters the
second barrier: it is the meaning of the first one. `AtRestWhole` is why the
shared temporary file does little harm when nobody dies: the thread that
truncated the file last also writes all of it, into the inode the other one
published. `DeliveredOnce` goes from metadata given to `add` to batches given to
a training loop, through storage, statistics, projection, permutation, slices,
batches, queue and resume.

### Bounds, and why they are enough
* `writer`: three rows, four shard files and two failed calls or restarts; four
  kinds of sample (one that fits, one that nearly fills a shard, one over
  `max_member_bytes`, one without a blob). Two shards with a flush between and a
  retry after a failure are enough to collide a part file, an id or an offset;
  the bounds leave room for one more of each.
* `commit`: two processes, two layers, three versions, two deaths, three inodes.
  Processes alternate or overlap anywhere, so a stale temporary file and a stale
  snapshot of one meet the next commit of the other, two hold one file open, and
  a lone commit is followed by overlapping ones; a layer is registered again,
  which moves it. Processes, layers and inodes are symmetric.
* `map_local`, `map_torn`, `map_unregistered`: three samples, a target that rolls
  on the third blob, three runs, two deaths. A resume over a partial index, a
  second resume, and a forced run all fit.
* `map_dist`, `map_overwrite`: two partitions, two jobs, two deaths, one manual
  commit, three samples. Fewer partitions would have no second fragment; a
  second job meets fragments of the first, also with another world size.
* `reads`, `cache_torn`: two threads in one process or in two, two calls in all,
  of one position or several, two faults, four samples in two index shards, a base
  and layers of which none has every blob, an LRU of one shard. Two calls are
  enough for two writers of one `.tmp`, for a shard evicted between two positions
  of one call, and for a call that
  meets what a dead one left. A file is one piece in `reads` (absent, empty,
  whole) and two in `cache_torn` (also half).
* `loader`: three rows in two row groups of one shard and one row in another; a
  key of every kind, absent and mixed; twenty-one predicates, two of them in a
  row; seven loader setups with one or two ranks or workers, batches that do and
  do not divide, queues of one and two; one failure and one resume. Two readers
  and one more sample than they have batches for is where a slice can be wrong.
* `video`: clips of up to three frames, one with a true count, one with none, one
  that reports too many and one that reports too few; batches of one and two
  positions, one of them absent; one or two frames asked for; two batches and one
  fault, so that a batch meets what another one or a dead process left. Two
  threads are enough for two decodes at once, with one counter or in two
  processes. That the choice of frames is right for longer clips is proved
  (`PicksAlwaysSpread`).

`CHECK_DEADLOCK` is on everywhere. The places where the system rests (nobody
commits, no run is under way, the writer has published, nobody calls, no batch
runs, the epoch is over) are stuttering actions of their own (`Quiet`, `Rest`, `Done`,
`AtRest`), so that any other stop is an error.

### Fairness
`DistMap`: weak fairness on each rank's steps: a live process keeps running, and
a barrier its peers have entered, or one that a gone peer can no longer enter,
ends (the latter is the timeout of the process group, which is external). Weak
fairness on the commit: its process keeps running. Deaths, launches and manual
commits are not fair. `JobEnds` then says that swallowed exceptions and skipped
barriers leave no rank waiting longer than that timeout. In the code rank 0
itself skips the second barrier when its commit fails, so without the timeout
the other ranks would wait.

`RemoteReads`: weak fairness on the steps of each thread that is in a call;
calls, faults and deaths are not fair. A thread in a call runs, and no step
waits for another thread, since the lock of the index is released within a step.
`EpochLoader`: weak fairness on each prefetch thread and on a loop that takes; a
loop that leaves is not made to come back, and `EpochEnds` says nothing of the
thread it left behind, which waits in `put` for ever if the queue is full.
`VideoDecode`: weak fairness on each thread's steps and on the return of a
batch; faults are not fair. Rayon's threads run, and no step waits for another
thread but the return, which waits for all.

## 4. Proofs

Forty-five listed theorems in seven modules, over the lemmas of an eighth. Every
property of the passing runs is proved for all values of the constants but those
named at the end.

`DatasetWriterProofs`, for every set of samples, all sizes, limits, bounds and
faults (assumption `WriterAssumption`):
* `TypeCorrect`, `DirectoryAlwaysSound`. `DirectorySound` is not inductive: the published directory is only as good as the one the
  writer carries, and a flush is only right if the buffered rows continue the
  flushed ones. The invariant `IInv` therefore speaks of the live struct:
  `RowsContinue` (ids of buffered rows), `ContiguousDir` of the current
  directory, `DirOrdered` (part ids increase and stay below any shard that can
  still be flushed, so no two flushes share a file), and each part holding what
  the directory says. It is stated over a writer `w` and files `p`, with one
  lemma per helper of the code, so an action is a chain of lemmas.
* `PublishedReadsBack`, if no `write_all` fails half way (`"torn" \notin
  Faults`): `ReadInv` adds that the believed offset is the real one, that every
  extent of the open shard lies below it, and that no row points into a shard
  about to be truncated. With a torn write the conclusion is false (`ReadBack`
  in a run with `"torn"` shows it), so the assumption is needed.

On top of `IInv`, the contract with callers. The rows *held* (flushed or buffered)
are what a flush, also a failed one, leaves alone, and an `add` extends by one:
that gives `AckedAlwaysHonoured`. `LimitInv` adds what `ensure_shard` leaves room
for, and gives `LimitsAlwaysRespected`. `WriterRefinesLog` is the refinement of `SampleLog`,
step by step: ids number the held rows, so the log they map to is well defined,
and a row once recorded keeps its bytes (again if `"torn" \notin Faults`).

`ManifestCommitProofs`, for any number of processes, layers, versions and
deaths, and commits that overlap as they like; no theorem has a premise. The
invariant `CInv` is about what overlapping cannot spoil. `Whole` and `OwnTmp`: an
inode at which no two processes met has at most one process at it while it is the
temporary file, holds that one's document when it is renamed, and is written by
nobody once it is the manifest; that gives `ManifestNeverTorn`. `GoesOn`: every
document under way, in a process, in the temporary file or behind an open
descriptor, comes after what lone commits have published (`Later`) and holds
every layer they acknowledged, so whatever is renamed next, torn files aside,
keeps both; that gives `AckedLayersKept`, and, since a later document has a later
version and so another snapshot, `SnapshotsRecordHistory`. `AloneOnly`, `LoneTmp`
and `SnapTaken` say what a lone commit finds: nobody else, its own temporary file,
its own snapshot. `Apart` adds what holds until the first overlap: nobody has met
and the document under way is the manifest with one registration (`Planned`),
which with a name being once in a list gives `CommitRefinesRegistry`: only the
rename changes what readers see. `CommitTypeCorrect` is the type invariant.

`LayerFilesProofs` holds the facts both maps rest on: what `added` does to rows
and shards, that an opened layer numbers its shards above every one its rows
point into (the highest such number exists by well-founded induction), and what
a resumed writer finds.

`LocalMapProofs`, if a missing or torn file is not a list of rows
(`FilesDiffer`, true of any choice of the two markers that makes sense).
`MapInv` says that the rows of the run under way are the saved ones followed by
its own, all of them in shards up to the current one, and read back; an index
written in place is the saved one, torn or complete. From it:
`IndexAlwaysReadsBack`, `IndexOnlyGrows`, `MapTypeCorrect`; with what the run
has handled so far `ForcedRunAlwaysWins`; with `NoRepeats` (a view names a
sample once) `OneRowAlways`. `ManifestAgrees` and `ReturnedAlwaysRegistered`
hold until a run dies between creating the index and registering; `map_torn` and
`map_unregistered` show what such a death does. The second asks for the row of
every sample the function gave a result for; the proof shows one for the others
too, as the code gives them. `MapRefinesTable` holds through every death. Its invariant (`RunInv`) splits the samples of the view: until the
index is written, those the run has tried show its own result, the others show
what was saved, and what is still to try is what the table lacks; so when nothing
is left the tried samples are those the map must bring (`AllTried`,
`MustIsToBring`), none of them one it may not, and the write is one `Store`.
That a row's value is what a reader finds behind it is `MapInv`'s part.

`DistMapProofs`, for any number of ranks, jobs, deaths and manual commits.
`Control` says who may be where (nobody maps while a commit runs), `Stored` the
types of the files. `DistTypeCorrect`, `ConsumedAlwaysRegistered` and
`RanksAlwaysDisjoint` have no premise; the last one rests on `Sharded`: the job
of a row tells the world size it was mapped in, so two ranks of one job differ
in a residue. `CommittedAlwaysReadsBack` takes `Remap = FALSE` (`map_overwrite`
shows why): `Nested` says a fragment is still part of what its rank opened, so
new shards lie above. `NoRowEverLost` and `CommittedAlwaysComplete` take commits
that do not die inside the write of the index: the commit under way holds what
was completed, and the merged rows are one ascending list of all ids.

`RemoteReadsProofs`: `LruStaysConsistent`, for any threads, placements,
capacities and faults. The cap and the recency order are not inductive alone:
`GoodLru` says the order lists the cached shards, each once, which makes one
eviction per insert enough even when two threads insert the same shard.
`LocateFindsRow` is the arithmetic of the lazy index: the binary search over the
prefix sums finds the row, at a boundary, at the last row, over one-row shards.
`TypesKept`, `AnswersRight` and `EntriesRestWhole` come from one invariant,
`RInv`. `TInv` says of each thread what its place in the call means for what it
has in hand: the slots of its plan are those of its positions, what it asks the
cache for is its next index shard or blobs of its plan, and what it got is whole
if nobody raced for the keys it touches. `KeyInv` says who vouches for the files
of a key: an entry, and a `.tmp` with a writer, is whole or *covered* by a
thread that truncated it and has written every piece since; a key that was never
raced for has one writer at a time, and that one writes the file called `.tmp`,
which is never the entry. A truncation makes its author cover the file, a rename
publishes a covered file, and a writer that stops half way either had no rival
(then the entry is not its file) or leaves the key in `cut`. A new file needs an
inode no name and no descriptor refers to: `ReadsAssumption` asks for more inodes
per key than threads.

`EpochLoaderProofs` proves every safety property of the reading epoch, in four
layers. *Slices*: `SlicesComplete` and `SlicesDisjoint` are the exactly-once
partition over ranks and workers for every length, divisible or not, and any
permutation. *Readers*: `BatchesInOrder` and `EpochEndsWhole` hold for any depth,
batch size, failures and resumes, from `EInv`: per reader, what was delivered,
what is queued and what the thread holds are consecutive batches of the plan,
and what is left to read is the rest of it. *Subsets*: `PruningSound` says that
a row group the statistics rule out has no row the predicate keeps, by the
smallest subtree for which they would disagree; `SubsetAlwaysEager` adds that
the columns left out are not looked at, and that the shards, in order, give the
same ids. The predicates are those `Comparable` admits; the others are where
pruning is known to change an answer (section 2). *The epoch*: `OnceInv` says
that the plans of an open loader deal the view out, each sample to one place of
one reader (`Dealt`, of the core sampler's permutation and of the stream's
blocks and buffer), and that the view is what the predicates select of the
metadata as they were given, if these survive being stored. With the whole
batches of `EInv` that gives `EachDeliveredOnce`, by a bijection of the
deliveries with the view, and `LenAlwaysHonest`. `TypeAlwaysOK` is the type
invariant, with the bounds of the queue and the batches. The proofs use of a
dataset that its shards are finite lists of rows, whose metadata are the values
`add` stores (`RowsOK` in `LoaderAssumption`), and of a predicate that operands
come before their operator (`QueryAssumption`).

`VideoDecodeProofs`, for any threads, placements, clips, counts, batches and
faults. `PicksAlwaysSpread` is arithmetic: rounding moves a frame by at most half
a step, and a step is at least one, so no two of the chosen frames meet. The
frames a thread holds are never compared with the future: `KeptOK` says they are
the chosen ones below the number of frames it has seen, and `AllIn` that behind
the loop nothing that was chosen and exists is missing, since the loop only ends
with the packets or past the last choice. `FileOK` and `Apart` say whose bytes a
temporary file holds: two live decodes of one process have different numbers
below the counter, so the file a thread opens is the one it wrote. `ItemsOK`
follows an item through the batch: not begun, with one thread, done, or failed.
These give `ClipsAreRight`, `NoLitterLeft` and `VideoTypeCorrect`, which includes
the bound on the frames in memory.

No rule of induction is usable here, since it takes the formula as a parameter.
What the recursive functions compute (the prefix sums, the evaluation of a
syntax tree, its leaves, what the statistics decide) is derived from a least
counterexample: there is a function that satisfies the recursive equation
(`FixedPoint` in `EpochLoaderProofs`), so its equation may be used, and a least
node or shard at which a statement fails contradicts it.

Only model-checked: liveness under fairness (`JobEnds`, `EveryCallReturns`,
`EpochEnds`, `BatchEnds`), which like `ENABLED` is out of the prover's reach. The violation
runs are counterexamples and need no proof. No module declares a `RECURSIVE`
operator.

## 5. Not modelled

* Base writer: `create` over a root that already has a published manifest. Its
  old shards are truncated one by one while the old manifest names them; no text
  promises otherwise, and the model stops at the first publication.
* Executor selection: `detect_topology` and `select_executor` read the
  environment. `torchrun` on one node gives every process a `LocalExecutor`, N
  writers of the same files; `LocalMap` is one process.
* Reader: `verify`, file handles kept by path over a map that rewrites the file,
  the schema.
* Cache: two stores in one directory (see above), the size of the directory,
  which nothing bounds.
* Subset: the lexer and the parser; numbers beyond one ordered kind (NaN, 64-bit
  integers compared as floats).
* Loaders: collation and decoding of a batch; torch's worker processes, but for
  their share of the epoch.
* Content of manifests beyond version and layer names, schema and dtype data,
  Arrow encoding, tar headers: data no property tells apart.
* Codecs: the decoders themselves, pixels and sizes of frames, the image and
  array codecs, which keep no state, and errors of `receive_frame`.
* The command line, the catalog, benchmarks and scripts have no state machine of
  their own or are third-party I/O.
* A power failure that reorders or loses writes: there is no `fsync` anywhere,
  and the models keep what was written.

## 6. Order of the work, and what could follow

Written in this order: `DatasetWriter` with its abstraction, `ManifestCommit`
with its abstraction, `LayerFiles`, `LocalMap`, `DistMap`; then the reading
side, `ShardLru` and `RemoteReads`, `SubsetQuery`, `Sampler` and `EpochLoader`,
`FrameSampling` and `VideoDecode`; the proofs follow the models, and `LayerTable`
followed the proofs of `LocalMap`. What could follow:

1. `LayerTable` for a distributed map, whose commit may bring results of several
   jobs at once.
2. A second generation of files in `DatasetWriter`, for republishing, and
   several local executors in `LocalMap`; a reader that stays open over either.
