------------------------------ MODULE Sampler ------------------------------
(***************************************************************************)
(* Which sample a rank and worker reads when: the core Sampler, a          *)
(* deterministic permutation of 0 .. n-1 dealt out to the workers, and the *)
(* order of FerroIterableDataset, contiguous blocks dealt out to the       *)
(* workers and read through a shuffle buffer.  A generator seeded with     *)
(* (seed, epoch) is a choice of one of the orders it may give; what the    *)
(* code computes from one seed twice is chosen once.                       *)
(***************************************************************************)
EXTENDS Integers, Sequences, FiniteSets, Functions

\* xs[from::step] of Python, skip(from).step_by(step) of Rust
EveryNth(xs, from, step) ==
  [k \in 1 .. IF from < Len(xs) THEN (Len(xs) - from - 1) \div step + 1 ELSE 0 |->
     xs[from + (k - 1) * step + 1]]

Drop(xs, k) == SubSeq(xs, k + 1, Len(xs))

\* The elements of a set of numbers in ascending order.
Sorted(S) == [k \in 1 .. Cardinality(S) |-> CHOOSE x \in S : Cardinality({y \in S : y < x}) = k - 1]

\* The orders in which the positions P can be read block by block: position i is
\* in the block i \div bs, and nothing of another block comes between two of one.
BlockWise(P, bs) ==
  {o \in Bijection(1 .. Cardinality(P), P) :
     \A i, j, k \in DOMAIN o :
       i < j /\ j < k /\ o[i] \div bs = o[k] \div bs => o[j] \div bs = o[i] \div bs}
-----------------------------------------------------------------------------
(* Sampler of ferroload-core.                                                *)

\* permuted: the blocks in any order, and any order within each of them
Orders(n, bs, shuffle) ==
  IF ~shuffle \/ n < 2 THEN {[k \in 1 .. n |-> k - 1]} ELSE BlockWise(0 .. n - 1, bs)

GlobalWorkerByWorker(rank, worker, ranks, workers) ==   \* slip: rank and worker exchanged
  worker * workers + rank

GlobalWorker(rank, worker, ranks, workers) == rank * workers + worker
NumBuckets(ranks, workers) == ranks * workers

Indices(order, rank, worker, ranks, workers, resume_from) ==
  Drop(EveryNth(order, GlobalWorker(rank, worker, ranks, workers), NumBuckets(ranks, workers)),
       resume_from)
-----------------------------------------------------------------------------
(* FerroIterableDataset.                                                     *)

\* 0 .. n-1 cut into blocks of bs positions, the last one shorter
Blocks(n, bs) ==
  [b \in 1 .. (n + bs - 1) \div bs |-> (b - 1) * bs .. (IF b * bs < n THEN b * bs ELSE n) - 1]

RankBlocks(n, bs, rank, ranks) == EveryNth(Blocks(n, bs), rank, ranks)
WorkerBlocks(n, bs, rank, worker, ranks, workers) ==
  EveryNth(RankBlocks(n, bs, rank, ranks), worker, workers)
PositionsOf(blocks) == UNION {blocks[k] : k \in 1 .. Len(blocks)}

\* The blocks in any order, each of them read in ascending order.
BlocksInAnyOrder(P, bs) ==
  {o \in BlockWise(P, bs) :
     \A i, j \in DOMAIN o : i < j /\ o[i] \div bs = o[j] \div bs => o[i] < o[j]}

\* What may come out of a shuffle buffer of `size` samples: a sample that finds it
\* full replaces one of those in it, which is yielded, so that the i-th to come
\* out is among the first i + size - 1 that went in; the rest comes last.
ThroughBuffer(o, out, size) ==
  \A i \in DOMAIN out : \E j \in DOMAIN o : j <= i + size - 1 /\ o[j] = out[i]

StreamOrders(n, bs, shuffle, size, rank, worker, ranks, workers) ==
  LET P == PositionsOf(WorkerBlocks(n, bs, rank, worker, ranks, workers))
  IN IF ~shuffle THEN {Sorted(P)}
     ELSE {out \in Bijection(1 .. Cardinality(P), P) :
             \E o \in BlocksInAnyOrder(P, bs) : ThroughBuffer(o, out, size)}
=============================================================================
