---------------------------- MODULE EpochLoader ----------------------------
(***************************************************************************)
(* One epoch over a dataset view: Dataset.subset narrows the view, a       *)
(* loader is opened over it on every rank and worker, a prefetch thread    *)
(* reads batches ahead into a bounded queue, and the training loop takes   *)
(* them.  Each reader (rank, worker) is one thread of PrefetchLoader, or   *)
(* of _prefetch, and its consumer; a DataLoader's worker process is one,   *)
(* too, with torch's own queue.                                            *)
(*                                                                         *)
(* A reader of the core Sampler may be started again in the same epoch,    *)
(* with resume_from the samples it has already consumed.                   *)
(***************************************************************************)
EXTENDS SubsetQuery, Sampler

CONSTANTS
  Datasets,      \* the index shards of datasets, see SubsetQuery
  Wheres,        \* the nodes of Ast that are asked as predicates
  Setups,        \* loader configurations, see SetupOK
  MaxSubsets,    \* bound: subset calls
  MaxFailures,   \* bound: reads that raise
  MaxResumes     \* bound: readers started again

SetupOK(s) ==
  /\ s.mode \in {"sampler", "stream"} /\ s.shuffle \in BOOLEAN /\ s.drop_last \in BOOLEAN
  /\ {s.ranks, s.workers, s.batch_size, s.depth, s.block, s.buffer} \subseteq Nat \ {0}

ASSUME LoaderAssumption ==
  /\ Wheres \subseteq DOMAIN Ast
  /\ \A s \in Setups : SetupOK(s)
  /\ \A ds \in Datasets : /\ Len(ds) \in Nat /\ IsFiniteSet(IdsAt(ds, Places(ds)))
                         /\ \A k \in 1 .. Len(ds) : RowsOK(ds[k])
  /\ {MaxSubsets, MaxFailures, MaxResumes} \subseteq Nat

VARIABLES
  shards,     \* the dataset; forgotten once the loader is open
  view,       \* the sample_ids of the Dataset handle
  asked,      \* history: see Unasked
  setup,      \* the loader's configuration
  rd,         \* per reader, once the loader is open: see Started
  failures, resumes    \* bounded by MaxFailures and MaxResumes

vars == <<shards, view, asked, setup, rd, failures, resumes>>

\* What the subset calls should have left: by the eager filter, and by the
\* metadata as it was given; and whether they can be compared to these.  Once the
\* loader is open, `given` is what its epoch should deliver.
Unasked(ids) == [n |-> 0, eager |-> ids, given |-> ids, comparable |-> TRUE, faithful |-> TRUE]

NotOpen == [mode |-> "none"]

AllIds(ds) == IdsAt(ds, Places(ds))

Init ==
  /\ shards \in Datasets
  /\ view = AllIds(shards) /\ asked = Unasked(view)
  /\ setup = NotOpen /\ rd = <<>> /\ failures = 0 /\ resumes = 0
-----------------------------------------------------------------------------
(* Subsetting.                                                               *)

\* Not where pruning and projection are known to change the answer: `!=` with a
\* text that reads like JSON, a key that is named like a flag or an offset column.
Comparable(ds, expr) ==
  /\ \A i \in Leaves(expr) :
       Ast[i].k = "cmp" /\ Ast[i].op = "!=" /\ Ast[i].val.t = "str" => ~Structured(Ast[i].val.v)
  /\ \A c \in Columns(expr) : /\ c \notin DOMAIN OffsetOf
                              /\ c \in DOMAIN FlagOf => \A k \in 1 .. Len(ds) : c \notin Keys(ds[k])

\* The metadata survive being stored: one type per column of a shard, and no
\* string that reads like JSON.
Faithful(ds, expr) ==
  \A c \in Columns(expr) : \A k \in 1 .. Len(ds) :
    LET vs == Values(ds[k], c)
    IN /\ \A x, y \in vs : x.t = y.t
       /\ \A x \in vs : x.t = "str" => ~Structured(x.v)

\* Dataset.subset: the ids that match, of those that were in the view
Subset(expr) ==
  /\ rd = <<>> /\ asked.n < MaxSubsets
  /\ view' = StreamedIds(shards, expr) \cap view
  /\ asked' = [n |-> asked.n + 1,
               eager |-> asked.eager \cap EagerIds(shards, expr),
               given |-> asked.given \cap GivenIds(shards, expr),
               comparable |-> asked.comparable /\ Comparable(shards, expr),
               faithful |-> asked.faithful /\ Comparable(shards, expr) /\ Faithful(shards, expr)]
  /\ UNCHANGED <<shards, setup, rd, failures, resumes>>
-----------------------------------------------------------------------------
(* Opening the loader: positions of the view, then sample_ids (_gl).         *)

ToIds(positions) == [k \in 1 .. Len(positions) |-> Sorted(view)[positions[k] + 1]]
Size == Cardinality(view)

Readers(s) == (0 .. s.ranks - 1) \X (0 .. s.workers - 1)

SamplerPlans(s) ==
  {[a \in Readers(s) |-> ToIds(Indices(order, a[1], a[2], s.ranks, s.workers, 0))]
   : order \in Orders(Size, s.block, s.shuffle)}

StreamPlans(s) ==
  LET orders(a) == StreamOrders(Size, s.block, s.shuffle, s.buffer, a[1], a[2], s.ranks, s.workers)
      choices == {f \in [Readers(s) -> UNION {orders(a) : a \in Readers(s)}] :
                    \A a \in Readers(s) : f[a] \in orders(a)}
  IN {[a \in Readers(s) |-> ToIds(f[a])] : f \in choices}

Entry(tag, items) == [tag |-> tag, items |-> items]
Nothing == Entry("none", <<>>)

\* A prefetch thread and its consumer over what is left of the plan.
Started(plan, todo, got) ==
  [ plan |-> plan,        \* the reader's samples of this epoch, in order
    todo |-> todo,        \* those the thread has not taken yet
    hold |-> Nothing,     \* what the thread is about to put
    w |-> "run",          \* the thread
    queue |-> <<>>,
    c |-> "run",          \* the consumer
    got |-> got,          \* the batches delivered in this epoch
    bad |-> "none" ]      \* history: what the thread's read raised

Open ==
  /\ rd = <<>>
  /\ \E s \in Setups :
       \E plans \in IF s.mode = "sampler" THEN SamplerPlans(s) ELSE StreamPlans(s) :
         /\ setup' = s
         /\ rd' = [a \in Readers(s) |-> Started(plans[a], plans[a], <<>>)]
  /\ shards' = <<>>
  /\ asked' = [Unasked(view) EXCEPT !.given = IF asked.faithful THEN asked.given ELSE view]
  /\ UNCHANGED <<view, failures, resumes>>

\* FerroLoader.__len__
LoaderLen(s, rank) ==
  LET positions == [k \in 1 .. Size |-> k - 1]
      blocks == RankBlocks(Size, s.block, rank, s.ranks)
  IN IF s.mode = "sampler" THEN Len(Indices(positions, rank, 0, s.ranks, 1, 0))
     ELSE Cardinality(PositionsOf(blocks))

NumBatchesDown(s, len) == len \div s.batch_size   \* slip: as if drop_last always

NumBatches(s, len) ==
  IF s.drop_last THEN len \div s.batch_size ELSE (len + s.batch_size - 1) \div s.batch_size
-----------------------------------------------------------------------------
(* The prefetch thread.                                                      *)

Opened(a) == a \in DOMAIN rd
Rest == UNCHANGED <<shards, view, asked, setup>>

\* batched, and _iter_streaming: full batches, then what is left
HasBatch(todo) == Len(todo) >= setup.batch_size \/ (todo # <<>> /\ ~setup.drop_last)
BatchSize(todo) == IF Len(todo) >= setup.batch_size THEN setup.batch_size ELSE Len(todo)

Reading(x) == x.w = "run" /\ x.hold = Nothing

\* The next batch, read and collated; or the end of the epoch.
AfterRead(x) ==
  LET n == BatchSize(x.todo)
  IN IF HasBatch(x.todo)
     THEN [x EXCEPT !.hold = Entry("ok", SubSeq(x.todo, 1, n)), !.todo = Drop(x.todo, n)]
     ELSE [x EXCEPT !.hold = Entry("done", <<>>)]

Read(a) ==
  /\ Opened(a) /\ Reading(rd[a])
  /\ rd' = [rd EXCEPT ![a] = AfterRead(@)]
  /\ Rest /\ UNCHANGED <<failures, resumes>>

ErrSwallowed(x) == [x EXCEPT !.hold = Entry("done", <<>>), !.bad = "err"]   \* slip: no except

\* except Exception
Raised(x) == [x EXCEPT !.hold = Entry("err", <<>>), !.bad = "err"]

\* A BaseException, as pyo3's PanicException is, only runs the finally.
Panicked(x) == [x EXCEPT !.hold = Entry("done", <<>>), !.bad = "panic"]

ReadRaises(a) ==
  /\ Opened(a) /\ Reading(rd[a])
  /\ IF setup.mode = "stream" THEN rd[a].todo # <<>> ELSE HasBatch(rd[a].todo)
  /\ failures < MaxFailures /\ failures' = failures + 1
  /\ \E y \in {Raised(rd[a]), Panicked(rd[a])} : rd' = [rd EXCEPT ![a] = y]
  /\ Rest /\ UNCHANGED resumes

NoFinally(x) ==   \* slip: no "done" at the end
  [x EXCEPT !.queue = IF x.hold.tag = "done" THEN @ ELSE Append(@, x.hold),
            !.hold = IF x.hold.tag = "err" THEN Entry("done", <<>>) ELSE Nothing,
            !.w = IF x.hold.tag = "done" THEN "ended" ELSE "run"]

Unbounded(x) == TRUE   \* slip: Queue() without maxsize

HasRoom(x) == Len(x.queue) < setup.depth

\* put: after an error, and at the end, comes "done"
AfterPut(x) ==
  [x EXCEPT !.queue = Append(@, x.hold),
            !.hold = IF x.hold.tag = "err" THEN Entry("done", <<>>) ELSE Nothing,
            !.w = IF x.hold.tag = "done" THEN "ended" ELSE "run"]

Put(a) ==
  /\ Opened(a) /\ rd[a].hold # Nothing /\ HasRoom(rd[a])
  /\ rd' = [rd EXCEPT ![a] = AfterPut(@)]
  /\ Rest /\ UNCHANGED <<failures, resumes>>
-----------------------------------------------------------------------------
(* The training loop.                                                        *)

AfterTake(x) ==
  LET e == Head(x.queue)
  IN [x EXCEPT !.queue = Tail(@),
               !.got = IF e.tag = "ok" THEN Append(@, e.items) ELSE @,
               !.c = CASE e.tag = "ok" -> "run" [] e.tag = "err" -> "raised" [] e.tag = "done" -> "ended"]

Take(a) ==
  /\ Opened(a) /\ rd[a].c = "run" /\ rd[a].queue # <<>>
  /\ rd' = [rd EXCEPT ![a] = AfterTake(@)]
  /\ Rest /\ UNCHANGED <<failures, resumes>>

\* break, or an exception of the loop's own: nobody takes from the queue again
Leave(a) ==
  /\ Opened(a) /\ rd[a].c = "run"
  /\ rd' = [rd EXCEPT ![a].c = "left"]
  /\ Rest /\ UNCHANGED <<failures, resumes>>

ConsumedBatches(x) == Len(x.got)   \* slip: resume_from counts batches

\* The samples of the delivered batches: every batch but the last one is full.
Consumed(x) ==
  IF Len(x.got) * setup.batch_size < Len(x.plan) THEN Len(x.got) * setup.batch_size ELSE Len(x.plan)

\* Sampler.indices(epoch, resume_from) and a new loop over it
Resume(a) ==
  /\ Opened(a) /\ rd[a].c \in {"left", "raised"} /\ setup.mode = "sampler"
  /\ resumes < MaxResumes /\ resumes' = resumes + 1
  /\ rd' = [rd EXCEPT ![a] = Started(@.plan, Drop(@.plan, Consumed(@)), @.got)]
  /\ Rest /\ UNCHANGED failures

Worker(a) == Read(a) \/ Put(a)

\* Nothing is left to do; a thread whose consumer has left may wait for ever.
AtRest ==
  /\ rd # <<>>
  /\ \A a \in DOMAIN rd : /\ rd[a].c # "run"
                          /\ rd[a].w = "ended" \/ (rd[a].hold # Nothing /\ ~HasRoom(rd[a]))
  /\ UNCHANGED vars

AllReaders == UNION {Readers(s) : s \in Setups}

Next ==
  \/ \E w \in Wheres : Subset(w)
  \/ Open
  \/ \E a \in AllReaders : \/ Worker(a) \/ ReadRaises(a) \/ Take(a) \/ Leave(a) \/ Resume(a)
  \/ AtRest

\* The thread runs, and a loop that does not leave takes the next batch.
Spec == Init /\ [][Next]_vars /\ \A a \in AllReaders : WF_vars(Worker(a)) /\ WF_vars(Take(a))
-----------------------------------------------------------------------------
EntryOK(e) ==
  e.tag \in {"none", "ok", "err", "done"} /\ Len(e.items) <= setup.batch_size /\ (e.tag = "ok") = (e.items # <<>>)

TypeOK ==
  /\ rd = <<>> => setup = NotOpen
  /\ failures \in 0 .. MaxFailures /\ resumes \in 0 .. MaxResumes
  /\ asked.n \in 0 .. MaxSubsets
  /\ rd # <<>> => setup \in Setups /\ DOMAIN rd = Readers(setup)
  /\ \A a \in DOMAIN rd :
       LET x == rd[a]
       IN /\ Range(x.plan) \subseteq view /\ Range(x.todo) \subseteq view
          /\ x.w \in {"run", "ended"} /\ x.c \in {"run", "ended", "raised", "left"}
          /\ x.bad \in {"none", "err", "panic"}
          /\ EntryOK(x.hold) /\ \A i \in 1 .. Len(x.queue) : EntryOK(x.queue[i])
          /\ Len(x.queue) <= setup.depth

\* index.rs:274-275: subset gives "Same result as the eager subset_ids on the same
\* data", whatever it prunes and does not read, also when it narrows a subset.
SubsetIsEager == asked.comparable => view = asked.eager

\* The samples of the delivered batches.
Deliveries ==
  {d \in (DOMAIN rd) \X (1 .. Size) \X (1 .. Size) :
     d[2] <= Len(rd[d[1]].got) /\ d[3] <= Len(rd[d[1]].got[d[2]])}

EndedWell(x) == x.c = "ended" /\ x.bad # "panic"

\* When every rank and worker has ended its epoch, resumed or not, the samples
\* that satisfy the predicates, by the metadata they were added with, have been
\* delivered, each of them once, and no other.
DeliveredOnce ==
  rd # <<>> /\ ~setup.drop_last /\ (\A a \in DOMAIN rd : EndedWell(rd[a])) =>
    /\ {rd[d[1]].got[d[2]][d[3]] : d \in Deliveries} = asked.given
    /\ Cardinality(Deliveries) = Cardinality(asked.given)

BatchAt(plan, k) ==
  LET to == k * setup.batch_size
  IN SubSeq(plan, to - setup.batch_size + 1, IF to < Len(plan) THEN to ELSE Len(plan))

\* What the loop gets are the batches of its slice of the epoch, in their order,
\* none skipped or repeated, whatever is in flight and wherever it was resumed.
InOrder ==
  \A a \in DOMAIN rd : \A k \in 1 .. Len(rd[a].got) : rd[a].got[k] = BatchAt(rd[a].plan, k)

\* loader.py:421 "surface to the consumer": an epoch that ends without an
\* exception was the whole epoch.  The exception is a panic: see README.
EndsWhole ==
  \A a \in DOMAIN rd : EndedWell(rd[a]) => Len(rd[a].got) = NumBatches(setup, Len(rd[a].plan))

\* len(loader) is the number of batches of every epoch, resumed or not.
LenHonest ==
  \A a \in DOMAIN rd :
    setup.workers = 1 /\ EndedWell(rd[a]) => Len(rd[a].got) = NumBatches(setup, LoaderLen(setup, a[1]))

\* An epoch ends, for the thread and for the loop, unless the loop leaves: then the
\* thread waits for ever in put, when the queue is full.
EpochEnds ==
  \A a \in AllReaders :
    Opened(a) /\ rd[a].c = "run" ~>
      Opened(a) /\ (rd[a].c = "left" \/ (rd[a].c # "run" /\ rd[a].w = "ended"))
=============================================================================
