------------------------- MODULE EpochLoaderProofs -------------------------
(***************************************************************************)
(* The epoch as a whole, for any dataset, predicates, number of ranks and  *)
(* workers, order, batch size, queue depth, failures and resumed loops:    *)
(*                                                                         *)
(*   - Sampler deals the epoch out: the slices are disjoint and complete;  *)
(*   - prefetching neither reorders, repeats nor loses a batch, and an     *)
(*     epoch that ends without an exception was whole;                     *)
(*   - pruning by statistics and projection change no answer of subset;    *)
(*   - so the samples that satisfy the predicates are delivered, each of   *)
(*     them once, in as many batches as len(loader) says.                  *)
(*                                                                         *)
(* Eval, Leaves, CanMatch and RowsBefore are recursive functions.  No      *)
(* induction rule is used: that they are defined is FixedPoint, which      *)
(* rests on the least counterexample of LeastOf.                           *)
(***************************************************************************)
EXTENDS EpochLoader, FiniteSetTheorems, SequenceTheorems, NaturalsInduction, WellFoundedInduction,
        TLAPS
-----------------------------------------------------------------------------
(* The slices of an epoch.                                                   *)

LEMMA DivFacts ==
  ASSUME NEW x \in Nat, NEW y \in Nat \ {0}
  PROVE  /\ x \div y \in Nat
         /\ (x \div y) * y <= x /\ x < (x \div y + 1) * y
OBVIOUS

LEMMA TimesLess ==
  ASSUME NEW i \in Int, NEW j \in Int, NEW b \in Nat \ {0}, i * b < j * b
  PROVE  i < j
OBVIOUS

LEMMA TimesMonotone ==
  ASSUME NEW i \in Int, NEW j \in Int, NEW b \in Nat, i <= j
  PROVE  i * b <= j * b
OBVIOUS

LEMMA TimesInt ==
  ASSUME NEW i \in Nat, NEW j \in Nat
  PROVE  i * j \in Nat /\ (i # 0 /\ j # 0 => i * j # 0) /\ (i + 1) * j = i * j + j
OBVIOUS

LEMMA Sums ==
  ASSUME NEW g \in Nat, NEW q \in Nat
  PROVE  /\ g + q \in Nat
         /\ g + (q + 1) = g + q + 1 /\ g + (q + 1) - 1 = g + q
         /\ g + 1 + q = g + (q + 1) /\ g + 1 + q = g + q + 1
OBVIOUS

LEMMA EveryNthIn ==
  ASSUME NEW xs, Len(xs) \in Nat, NEW from \in Nat, NEW step \in Nat \ {0}
  PROVE  LET e == EveryNth(xs, from, step)
         IN \E n \in Nat :
              /\ e = [k \in 1 .. n |-> xs[from + (k - 1) * step + 1]]
              /\ \A k \in 1 .. n : from + (k - 1) * step + 1 \in 1 .. Len(xs)
<1> DEFINE q == (Len(xs) - from - 1) \div step
<1>1. CASE from >= Len(xs)
  BY <1>1 DEF EveryNth
<1>2. CASE from < Len(xs)
  <2>1. q \in Nat /\ q * step <= Len(xs) - from - 1
    <3>1. Len(xs) - from - 1 \in Nat
      BY <1>2
    <3> QED
      BY <3>1, DivFacts
  <2>2. EveryNth(xs, from, step) = [k \in 1 .. q + 1 |-> xs[from + (k - 1) * step + 1]]
    BY <1>2 DEF EveryNth
  <2> HIDE DEF q
  <2>3. ASSUME NEW k \in 1 .. q + 1
        PROVE  from + (k - 1) * step + 1 \in 1 .. Len(xs)
    <3>1. (k - 1) * step <= q * step /\ (k - 1) * step \in Nat
      BY <2>1, TimesMonotone, TimesInt
    <3> QED
      BY <2>1, <3>1
  <2> QED
    BY <2>1, <2>2, <2>3
<1> QED
  BY <1>1, <1>2

LEMMA ListIsSeq ==
  ASSUME NEW n \in Nat, NEW f, f = [k \in 1 .. n |-> f[k]]
  PROVE  f \in Seq(Range(f)) /\ Len(f) = n
<1>1. DOMAIN f = 1 .. n
  OBVIOUS
<1>2. f \in [1 .. n -> Range(f)]
  BY <1>1 DEF Range
<1>3. f \in Seq(Range(f))
  BY <1>2, SeqDef
<1>4. Len(f) \in Nat /\ DOMAIN f = 1 .. Len(f)
  BY <1>3, LenProperties
<1>5. \A m \in Nat : 1 .. m = 1 .. n => m = n
  OBVIOUS
<1> QED
  BY <1>1, <1>3, <1>4, <1>5

LEMMA EveryNthAt ==
  ASSUME NEW xs, Len(xs) \in Nat, NEW from \in Nat, NEW step \in Nat \ {0},
         NEW i \in Nat, from + i * step + 1 <= Len(xs)
  PROVE  LET e == EveryNth(xs, from, step)
         IN i + 1 \in DOMAIN e /\ e[i + 1] = xs[from + i * step + 1]
<1> DEFINE q == (Len(xs) - from - 1) \div step
           last == Len(xs) - from - 1
           is == i * step
           next == (q + 1) * step
           j == i + 1
<1>1. is \in Nat /\ from + is + 1 <= Len(xs)
  BY TimesInt
<1> HIDE DEF is
<1>2. from < Len(xs) /\ last \in Nat /\ is <= last
  BY <1>1
<1>3. q \in Nat /\ last < next /\ next \in Int
  BY <1>2, DivFacts
<1> HIDE DEF last, next
<1>4. is < next
  BY <1>1, <1>2, <1>3 DEF last
<1>5. i < q + 1
  BY <1>3, <1>4, TimesLess DEF is, next
<1>6. EveryNth(xs, from, step) = [m \in 1 .. q + 1 |-> xs[from + (m - 1) * step + 1]]
  BY <1>2 DEF EveryNth
<1> HIDE DEF q
<1>7. j \in 1 .. q + 1 /\ j - 1 = i
  BY <1>3, <1>5
<1> HIDE DEF j
<1>8. EveryNth(xs, from, step)[j] = xs[from + (j - 1) * step + 1]
  BY <1>6, <1>7
<1>9. EveryNth(xs, from, step)[j] = xs[from + i * step + 1]
  BY <1>7, <1>8, Zenon
<1> QED
  BY <1>6, <1>7, <1>9 DEF j

\* skip(from).step_by(step) is a sequence.
LEMMA EveryNthIsSeq ==
  ASSUME NEW xs, Len(xs) \in Nat, NEW from \in Nat, NEW step \in Nat \ {0}
  PROVE  LET e == EveryNth(xs, from, step)
         IN e \in Seq(Range(e)) /\ Len(e) \in Nat
<1> DEFINE e == EveryNth(xs, from, step)
<1>1. PICK n \in Nat :
        /\ e = [k \in 1 .. n |-> xs[from + (k - 1) * step + 1]]
        /\ \A k \in 1 .. n : from + (k - 1) * step + 1 \in 1 .. Len(xs)
  BY EveryNthIn
<1>2. e = [k \in 1 .. n |-> e[k]]
  BY <1>1
<1> HIDE DEF e
<1>3. e \in Seq(Range(e)) /\ Len(e) = n
  BY <1>2, ListIsSeq
<1> QED
  BY <1>3 DEF e
-----------------------------------------------------------------------------
(* Dealing out.                                                              *)

\* A number has one quotient and one remainder.
LEMMA DivUnique ==
  ASSUME NEW b \in Nat \ {0}, NEW i \in Int, NEW j \in Int,
         NEW r \in 0 .. b - 1, NEW s \in 0 .. b - 1, i * b + r = j * b + s
  PROVE  i = j /\ r = s
<1> DEFINE ib == i * b
           jb == j * b
<1>1. (i + 1) * b = i * b + b /\ (j + 1) * b = j * b + b /\ ib \in Int /\ jb \in Int
  OBVIOUS
<1>2. i * b < (j + 1) * b /\ j * b < (i + 1) * b
  <2> HIDE DEF ib, jb
  <2>1. ib < jb + b /\ jb < ib + b
    BY <1>1 DEF ib, jb
  <2> QED
    BY <1>1, <2>1 DEF ib, jb
<1>3. i < j + 1 /\ j < i + 1
  BY <1>2, TimesLess
<1>4. i = j
  BY <1>3
<1> QED
  BY <1>1, <1>4

LEMMA SumUnique ==
  ASSUME NEW b \in Nat \ {0}, NEW i \in Int, NEW j \in Int,
         NEW r \in 0 .. b - 1, NEW s \in 0 .. b - 1, r + i * b + 1 = s + j * b + 1
  PROVE  i = j /\ r = s
<1>1. i * b \in Int /\ j * b \in Int
  OBVIOUS
<1>2. i * b + r = j * b + s
  <2> DEFINE ib == i * b
             jb == j * b
  <2>1. ib \in Int /\ jb \in Int /\ r + ib + 1 = s + jb + 1
    BY <1>1
  <2> HIDE DEF ib, jb
  <2>2. ib + r = jb + s
    BY <2>1
  <2> QED
    BY <2>2 DEF ib, jb
<1> QED
  BY <1>2, DivUnique

LEMMA BucketFacts ==
  ASSUME NEW ranks \in Nat \ {0}, NEW workers \in Nat \ {0}
  PROVE  /\ NumBuckets(ranks, workers) \in Nat \ {0}
         /\ \A rank \in 0 .. ranks - 1, worker \in 0 .. workers - 1 :
              GlobalWorker(rank, worker, ranks, workers) \in 0 .. NumBuckets(ranks, workers) - 1
<1>1. ranks * workers \in Nat \ {0}
  BY TimesInt
<1>2. ASSUME NEW rank \in 0 .. ranks - 1, NEW worker \in 0 .. workers - 1
      PROVE  rank * workers + worker \in 0 .. ranks * workers - 1
  <2>1. rank * workers \in Nat /\ (rank + 1) * workers = rank * workers + workers
    BY TimesInt
  <2>2. (rank + 1) * workers <= ranks * workers
    BY TimesMonotone
  <2> DEFINE rw == rank * workers
             all == ranks * workers
  <2>3. rw \in Nat /\ all \in Nat /\ rw + workers <= all
    BY <1>1, <2>1, <2>2
  <2> HIDE DEF rw, all
  <2>4. rw + worker \in 0 .. all - 1
    BY <2>3
  <2> QED
    BY <2>4 DEF rw, all
<1> QED
  BY <1>1, <1>2 DEF NumBuckets, GlobalWorker

\* Indices of a slice, from its start.
LEMMA SliceFacts ==
  ASSUME NEW ranks \in Nat \ {0}, NEW workers \in Nat \ {0},
         NEW rank \in 0 .. ranks - 1, NEW worker \in 0 .. workers - 1,
         NEW order, Len(order) \in Nat
  PROVE  Indices(order, rank, worker, ranks, workers, 0) =
           EveryNth(order, GlobalWorker(rank, worker, ranks, workers), NumBuckets(ranks, workers))
<1> DEFINE e == EveryNth(order, GlobalWorker(rank, worker, ranks, workers), NumBuckets(ranks, workers))
<1>1. GlobalWorker(rank, worker, ranks, workers) \in Nat /\ NumBuckets(ranks, workers) \in Nat \ {0}
  <2>1. /\ NumBuckets(ranks, workers) \in Nat \ {0}
        /\ GlobalWorker(rank, worker, ranks, workers) \in 0 .. NumBuckets(ranks, workers) - 1
    BY BucketFacts
  <2> QED
    BY <2>1
<1>2. e \in Seq(Range(e))
  BY <1>1, EveryNthIsSeq
<1> HIDE DEF e
<1>3. SubSeq(e, 0 + 1, Len(e)) = e
  BY <1>2, SubSeqFull
<1> QED
  BY <1>3 DEF Indices, Drop, e

\* x is in the slice of some rank and worker.
InASlice(order, ranks, workers, x) ==
  \E rank \in 0 .. ranks - 1, worker \in 0 .. workers - 1 :
    LET slice == Indices(order, rank, worker, ranks, workers, 0)
    IN \E k \in DOMAIN slice : slice[k] = x

LEMMA SliceOf ==
  ASSUME NEW ranks \in Nat \ {0}, NEW workers \in Nat \ {0},
         NEW order, Len(order) \in Nat, NEW p \in 1 .. Len(order)
  PROVE  InASlice(order, ranks, workers, order[p])
<1> DEFINE step == NumBuckets(ranks, workers)
           k == (p - 1) \div step
           g == p - 1 - k * step
           rank == g \div workers
           worker == g - rank * workers
           e == EveryNth(order, g, step)
<1>1. step \in Nat \ {0} /\ step = ranks * workers
  BY BucketFacts DEF NumBuckets
<1>2. p - 1 \in Nat
  OBVIOUS
<1> HIDE DEF step
<1>3. k \in Nat /\ k * step <= p - 1 /\ p - 1 < (k + 1) * step
  BY <1>1, <1>2, DivFacts
<1> HIDE DEF k
<1>4. k * step \in Nat /\ (k + 1) * step = k * step + step
  BY <1>1, <1>3, TimesInt
<1>5. g \in Nat /\ g < step
  BY <1>1, <1>2, <1>3, <1>4
<1>6. g + k * step + 1 = p
  BY <1>2, <1>4
<1> HIDE DEF g
<1>7. rank \in Nat /\ rank * workers <= g /\ g < (rank + 1) * workers
  BY <1>5, DivFacts
<1> HIDE DEF rank
<1>8. rank * workers \in Nat /\ (rank + 1) * workers = rank * workers + workers
  BY <1>7, TimesInt
<1>9. worker \in 0 .. workers - 1 /\ rank * workers + worker = g
  BY <1>5, <1>7, <1>8
<1> HIDE DEF worker
<1>10. rank \in 0 .. ranks - 1
  <2>1. rank * workers < ranks * workers
    BY <1>1, <1>5, <1>7, <1>8
  <2> QED
    BY <1>7, <2>1, TimesLess
<1>11. Indices(order, rank, worker, ranks, workers, 0) = e
  BY <1>9, <1>10, SliceFacts DEF GlobalWorker, step
<1>12. k + 1 \in DOMAIN e /\ e[k + 1] = order[p]
  <2>1. g + k * step + 1 <= Len(order)
    BY <1>6
  <2>2. k + 1 \in DOMAIN e /\ e[k + 1] = order[g + k * step + 1]
    BY <1>1, <1>3, <1>5, <2>1, EveryNthAt
  <2> HIDE DEF e
  <2> QED
    BY <1>6, <2>2
<1> QED
  BY <1>9, <1>10, <1>11, <1>12 DEF InASlice

\* The test sampler.rs:149 partition_is_disjoint_and_complete, for every number of
\* ranks and workers and every length of the epoch, also when they do not divide it:
\* each sample of the permutation is in the slice of some rank and worker, ...
THEOREM SlicesComplete ==
  ASSUME NEW ranks \in Nat \ {0}, NEW workers \in Nat \ {0},
         NEW order, Len(order) \in Nat, NEW p \in 1 .. Len(order)
  PROVE  \E rank \in 0 .. ranks - 1, worker \in 0 .. workers - 1 :
           LET slice == Indices(order, rank, worker, ranks, workers, 0)
           IN \E k \in DOMAIN slice : slice[k] = order[p]
<1>1. InASlice(order, ranks, workers, order[p])
  BY SliceOf
<1> QED
  BY <1>1 DEF InASlice

\* ... and in no other, and once there.
THEOREM SlicesDisjoint ==
  ASSUME NEW ranks \in Nat \ {0}, NEW workers \in Nat \ {0},
         NEW order, Len(order) \in Nat, IsInjective(order), DOMAIN order = 1 .. Len(order),
         NEW rank1 \in 0 .. ranks - 1, NEW worker1 \in 0 .. workers - 1,
         NEW rank2 \in 0 .. ranks - 1, NEW worker2 \in 0 .. workers - 1,
         NEW i \in DOMAIN Indices(order, rank1, worker1, ranks, workers, 0),
         NEW j \in DOMAIN Indices(order, rank2, worker2, ranks, workers, 0),
         Indices(order, rank1, worker1, ranks, workers, 0)[i] =
           Indices(order, rank2, worker2, ranks, workers, 0)[j]
  PROVE  rank1 = rank2 /\ worker1 = worker2 /\ i = j
<1> DEFINE step == NumBuckets(ranks, workers)
           g1 == GlobalWorker(rank1, worker1, ranks, workers)
           g2 == GlobalWorker(rank2, worker2, ranks, workers)
           p1 == g1 + (i - 1) * step + 1
           p2 == g2 + (j - 1) * step + 1
<1>1. step \in Nat \ {0} /\ g1 \in 0 .. step - 1 /\ g2 \in 0 .. step - 1
  BY BucketFacts
<1>2. g1 \in Nat /\ g2 \in Nat
  BY <1>1
<1>3. /\ i \in Nat /\ p1 \in 1 .. Len(order)
      /\ Indices(order, rank1, worker1, ranks, workers, 0)[i] = order[p1]
  <2>1. Indices(order, rank1, worker1, ranks, workers, 0) = EveryNth(order, g1, step)
    BY SliceFacts
  <2> HIDE DEF g1, step
  <2>2. PICK n \in Nat :
          /\ EveryNth(order, g1, step) = [k \in 1 .. n |-> order[g1 + (k - 1) * step + 1]]
          /\ \A k \in 1 .. n : g1 + (k - 1) * step + 1 \in 1 .. Len(order)
    BY <1>1, <1>2, EveryNthIn
  <2> QED
    BY <2>1, <2>2
<1>4. /\ j \in Nat /\ p2 \in 1 .. Len(order)
      /\ Indices(order, rank2, worker2, ranks, workers, 0)[j] = order[p2]
  <2>1. Indices(order, rank2, worker2, ranks, workers, 0) = EveryNth(order, g2, step)
    BY SliceFacts
  <2> HIDE DEF g2, step
  <2>2. PICK n \in Nat :
          /\ EveryNth(order, g2, step) = [k \in 1 .. n |-> order[g2 + (k - 1) * step + 1]]
          /\ \A k \in 1 .. n : g2 + (k - 1) * step + 1 \in 1 .. Len(order)
    BY <1>1, <1>2, EveryNthIn
  <2> QED
    BY <2>1, <2>2
<1>5. p1 = p2
  BY <1>3, <1>4 DEF IsInjective
<1>6. i - 1 = j - 1 /\ g1 = g2
  <2> DEFINE i1 == i - 1
             j1 == j - 1
  <2>1. i1 \in Int /\ j1 \in Int /\ g1 + i1 * step + 1 = g2 + j1 * step + 1
    BY <1>3, <1>4, <1>5
  <2> HIDE DEF g1, g2, step, i1, j1
  <2>2. i1 = j1 /\ g1 = g2
    BY <1>1, <2>1, SumUnique
  <2> QED
    BY <2>2 DEF i1, j1
<1>7. i = j
  BY <1>3, <1>4, <1>6
<1>8. rank1 * workers + worker1 = rank2 * workers + worker2
  BY <1>6 DEF GlobalWorker
<1>9. rank1 = rank2 /\ worker1 = worker2
  BY <1>8, DivUnique
<1> QED
  BY <1>7, <1>9
-----------------------------------------------------------------------------
(* The batches of an epoch, from the prefetch thread to the loop.            *)

Entries(S) == [tag : {"none", "ok", "err", "done"}, items : Seq(S)]

ReaderOf(S) ==
  [ plan : Seq(S), todo : Seq(S), hold : Entries(S), w : {"run", "ended"},
    queue : Seq(Entries(S)), c : {"run", "ended", "raised", "left"},
    got : Seq(Seq(S)), bad : {"none", "err", "panic"} ]

Batches(x) == NumBatches(setup, Len(x.plan))

\* The plan after its first t batches.
After(plan, t) == SubSeq(plan, t * setup.batch_size + 1, Len(plan))

AllOk(x) == \A j \in 1 .. Len(x.queue) : x.queue[j].tag = "ok"

\* The j-th entry from now is the t-th batch of the epoch.
IsBatch(x, items, t) == items = BatchAt(x.plan, t) /\ t <= Batches(x)

\* A "done" in place j ends a whole epoch, or comes after an error the loop gets,
\* or has got, before it.
DoneRight(x, j) ==
  \/ x.bad = "panic"
  \/ x.bad = "none" /\ Len(x.got) + j - 1 = Batches(x)
  \/ x.bad = "err" /\ (x.c = "raised" \/ \E i \in 1 .. j - 1 : x.queue[i].tag = "err")

Delivered(x) ==
  /\ Len(x.got) <= Batches(x)
  /\ \A k \in 1 .. Len(x.got) : x.got[k] = BatchAt(x.plan, k)
  /\ EndedWell(x) => Len(x.got) = Batches(x)

Queued(x) ==
  \A j \in 1 .. Len(x.queue) :
    /\ x.queue[j].tag # "none"
    /\ x.queue[j].tag = "ok" => IsBatch(x, x.queue[j].items, Len(x.got) + j)
    /\ x.queue[j].tag = "err" =>
         x.bad = "err" /\ \A i \in j .. Len(x.queue) : x.queue[i].tag # "ok"
    /\ x.queue[j].tag = "done" =>
         j = Len(x.queue) /\ x.w = "ended" /\ x.hold = Nothing /\ DoneRight(x, j)

\* What the thread has in hand, and what it will read next.
InHand(x) ==
  LET t == Len(x.got) + Len(x.queue)
  IN /\ x.hold.tag = "none" => x.hold = Nothing
     /\ Reading(x) =>
          AllOk(x) /\ x.bad = "none" /\ t <= Batches(x) /\ x.todo = After(x.plan, t)
     /\ x.hold.tag = "ok" =>
          /\ AllOk(x) /\ x.bad = "none"
          /\ IsBatch(x, x.hold.items, t + 1) /\ x.todo = After(x.plan, t + 1)
     /\ x.hold.tag = "err" => x.bad = "err"
     /\ x.hold.tag = "done" => DoneRight(x, Len(x.queue) + 1)

ReaderInv(x) ==
  /\ x \in ReaderOf(Range(x.plan))
  /\ Delivered(x) /\ Queued(x) /\ InHand(x)

EInv ==
  /\ IsFiniteSet(view)
  /\ rd = [a \in DOMAIN rd |-> rd[a]]
  /\ DOMAIN rd # {} => setup \in Setups
  /\ \A a \in DOMAIN rd : ReaderInv(rd[a])
-----------------------------------------------------------------------------
(* A plan is a sequence of samples.                                          *)

LEMMA ToIdsIsSeq ==
  ASSUME NEW p, Len(p) \in Nat
  PROVE  ToIds(p) \in Seq(Range(ToIds(p)))
<1>1. ToIds(p) = [k \in 1 .. Len(p) |-> ToIds(p)[k]]
  BY DEF ToIds
<1> QED
  BY <1>1, ListIsSeq
LEMMA SetupFacts ==
  ASSUME NEW s \in Setups
  PROVE  /\ s.ranks \in Nat \ {0} /\ s.workers \in Nat \ {0} /\ s.batch_size \in Nat \ {0}
         /\ s.block \in Nat \ {0} /\ s.drop_last \in BOOLEAN
BY LoaderAssumption DEF SetupOK

LEMMA SamplerPlanIsSeq ==
  ASSUME NEW s \in Setups, NEW a \in Readers(s), Size \in Nat,
         NEW order \in Orders(Size, s.block, s.shuffle)
  PROVE  Len(Indices(order, a[1], a[2], s.ranks, s.workers, 0)) \in Nat
<1>1. Len(order) \in Nat
  <2>1. Cardinality(0 .. Size - 1) = Size
    BY FS_Interval
  <2>2. DOMAIN order = 1 .. Size
    BY <2>1 DEF Orders, BlockWise, Bijection, Injection
  <2>3. order = [k \in 1 .. Size |-> order[k]]
    BY <2>1, <2>2 DEF Orders, BlockWise, Bijection, Injection
  <2> QED
    BY <2>3, ListIsSeq
<1> DEFINE from == GlobalWorker(a[1], a[2], s.ranks, s.workers)
           step == NumBuckets(s.ranks, s.workers)
           e == EveryNth(order, from, step)
<1>2. from \in Nat /\ step \in Nat \ {0}
  <2>1. a[1] \in Nat /\ a[2] \in Nat
    BY SetupFacts DEF Readers
  <2>2. a[1] * s.workers \in Nat
    BY <2>1, SetupFacts, TimesInt
  <2>3. s.ranks * s.workers \in Nat \ {0}
    BY SetupFacts, TimesInt
  <2> QED
    BY <2>1, <2>2, <2>3 DEF GlobalWorker, NumBuckets
<1> HIDE DEF from, step
<1>3. PICK n \in Nat :
        /\ e = [k \in 1 .. n |-> order[from + (k - 1) * step + 1]]
        /\ \A k \in 1 .. n : from + (k - 1) * step + 1 \in 1 .. Len(order)
  BY <1>1, <1>2, EveryNthIn
<1>4. e \in Seq(Range(e)) /\ Len(e) \in Nat
  <2>1. e = [k \in 1 .. n |-> e[k]]
    BY <1>3
  <2> QED
    BY <2>1, ListIsSeq
<1> HIDE DEF e
<1>5. SubSeq(e, 0 + 1, Len(e)) \in Seq(Range(e))
  BY <1>4, SubSeqProperties
<1>6. Len(SubSeq(e, 0 + 1, Len(e))) \in Nat
  BY <1>5, LenProperties
<1> QED
  BY <1>6 DEF Indices, Drop, e, from, step

\* The positions of a worker's blocks are positions of the view.
LEMMA WorkerPositionsFinite ==
  ASSUME NEW n \in Nat, NEW bs \in Nat \ {0}, NEW rank \in Nat, NEW worker \in Nat,
         NEW ranks \in Nat \ {0}, NEW workers \in Nat \ {0}
  PROVE  IsFiniteSet(PositionsOf(WorkerBlocks(n, bs, rank, worker, ranks, workers)))
<1> DEFINE all == Blocks(n, bs)
           mine == RankBlocks(n, bs, rank, ranks)
           blocks == WorkerBlocks(n, bs, rank, worker, ranks, workers)
<1>1. Len(all) \in Nat /\ \A b \in 1 .. Len(all) : all[b] \subseteq 0 .. n - 1
  <2> DEFINE m == (n + bs - 1) \div bs
  <2>1. m \in Nat
    BY DivFacts
  <2>2. all = [b \in 1 .. m |-> all[b]]
    BY DEF Blocks
  <2>3. Len(all) = m
    BY <2>1, <2>2, ListIsSeq
  <2>4. ASSUME NEW b \in 1 .. m
        PROVE  all[b] \subseteq 0 .. n - 1
    <3> DEFINE to == IF b * bs < n THEN b * bs ELSE n
    <3>1. (b - 1) * bs \in Nat /\ b * bs \in Nat
      BY <2>1, TimesInt
    <3>2. all[b] = (b - 1) * bs .. to - 1
      BY DEF Blocks
    <3>3. to \in Nat /\ to <= n
      BY <3>1
    <3> HIDE DEF to
    <3> QED
      BY <3>1, <3>2, <3>3
  <2> QED
    BY <2>3, <2>4
<1> HIDE DEF all
<1>2. Len(mine) \in Nat /\ \A b \in 1 .. Len(mine) : mine[b] \subseteq 0 .. n - 1
  <2>1. PICK m \in Nat :
          /\ mine = [k \in 1 .. m |-> all[rank + (k - 1) * ranks + 1]]
          /\ \A k \in 1 .. m : rank + (k - 1) * ranks + 1 \in 1 .. Len(all)
    BY <1>1, EveryNthIn DEF RankBlocks, all
  <2>2. mine = [k \in 1 .. m |-> mine[k]]
    BY <2>1
  <2>3. Len(mine) = m
    BY <2>2, ListIsSeq
  <2> QED
    BY <1>1, <2>1, <2>3
<1> HIDE DEF mine
<1>3. Len(blocks) \in Nat /\ \A b \in 1 .. Len(blocks) : blocks[b] \subseteq 0 .. n - 1
  <2>1. PICK m \in Nat :
          /\ blocks = [k \in 1 .. m |-> mine[worker + (k - 1) * workers + 1]]
          /\ \A k \in 1 .. m : worker + (k - 1) * workers + 1 \in 1 .. Len(mine)
    BY <1>2, EveryNthIn DEF WorkerBlocks, mine
  <2>2. blocks = [k \in 1 .. m |-> blocks[k]]
    BY <2>1
  <2>3. Len(blocks) = m
    BY <2>2, ListIsSeq
  <2> QED
    BY <1>2, <2>1, <2>3
<1> HIDE DEF blocks
<1>4. PositionsOf(blocks) \subseteq 0 .. n - 1
  BY <1>3 DEF PositionsOf
<1>5. IsFiniteSet(PositionsOf(blocks))
  <2>1. IsFiniteSet(0 .. n - 1)
    BY FS_Interval
  <2> QED
    BY <1>4, <2>1, FS_Subset
<1> QED
  BY <1>5 DEF blocks

LEMMA StreamPlanIsSeq ==
  ASSUME NEW s \in Setups, NEW a \in Readers(s), Size \in Nat,
         NEW out \in StreamOrders(Size, s.block, s.shuffle, s.buffer, a[1], a[2], s.ranks, s.workers)
  PROVE  Len(out) \in Nat
<1> DEFINE P == PositionsOf(WorkerBlocks(Size, s.block, a[1], a[2], s.ranks, s.workers))
           n == Cardinality(P)
<1>1. a[1] \in Nat /\ a[2] \in Nat
  BY SetupFacts DEF Readers
<1>2. n \in Nat
  BY <1>1, SetupFacts, WorkerPositionsFinite, FS_CardinalityType
<1>3. out = [k \in 1 .. n |-> out[k]]
  BY DEF StreamOrders, Sorted, Bijection, Injection
<1> HIDE DEF n
<1> QED
  BY <1>2, <1>3, ListIsSeq
-----------------------------------------------------------------------------
(* Batches of a plan.                                                        *)

\* What is left of n samples after tb of them.
LEMMA Remaining ==
  ASSUME NEW n \in Nat, NEW b \in Nat \ {0}, NEW tb \in Nat, NEW left,
         left = IF tb < n THEN n - tb ELSE 0
  PROVE  /\ left >= b => tb + b <= n
         /\ ~(left >= b) => n < tb + b
         /\ left # 0 => tb + b <= n + b - 1
         /\ left = 0 => n + b - 1 < tb + b
OBVIOUS

\* t of the q batches whose bounds m names are taken: another one fits, or none does.
LEMMA OneMore ==
  ASSUME NEW t \in Nat, NEW q \in Nat, NEW b \in Nat \ {0}, NEW m \in Nat, t <= q,
         q * b <= m, m < (q + 1) * b
  PROVE  /\ t * b + b <= m => t + 1 <= q
         /\ m < t * b + b => t = q
<1> DEFINE t1 == (t + 1) * b
           q0 == q * b
           q1 == (q + 1) * b
<1>1. t1 = t * b + b /\ t1 \in Nat /\ q0 \in Nat /\ q1 \in Nat
  BY TimesInt
<1>2. (t1 < q1 => t + 1 < q + 1) /\ (q0 < t1 => q < t + 1)
  BY TimesLess
<1> HIDE DEF t1, q0, q1
<1>3. q0 <= m /\ m < q1
  BY DEF q0, q1
<1>4. ASSUME t1 <= m PROVE t + 1 <= q
  <2>1. t1 < q1
    BY <1>1, <1>3, <1>4
  <2> QED
    BY <1>2, <2>1
<1>5. ASSUME m < t1 PROVE t = q
  <2>1. q0 < t1
    BY <1>1, <1>3, <1>5
  <2> QED
    BY <1>2, <2>1
<1> QED
  BY <1>1, <1>4, <1>5

\* There is another batch exactly when not all of them have been taken.
LEMMA BatchesLeft ==
  ASSUME NEW plan, Len(plan) \in Nat, NEW t \in Nat, setup \in Setups,
         t <= NumBatches(setup, Len(plan)), NEW todo, todo = <<>> <=> Len(todo) = 0,
         Len(todo) = IF t * setup.batch_size < Len(plan)
                     THEN Len(plan) - t * setup.batch_size ELSE 0
  PROVE  IF HasBatch(todo) THEN t + 1 <= NumBatches(setup, Len(plan))
         ELSE t = NumBatches(setup, Len(plan))
<1> DEFINE b == setup.batch_size
           n == Len(plan)
           tb == t * b
           left == Len(todo)
           total == NumBatches(setup, n)
<1>1. b \in Nat \ {0} /\ n \in Nat /\ setup.drop_last \in BOOLEAN
  BY SetupFacts
<1>2. tb \in Nat
  BY <1>1, TimesInt
<1>3. left = IF tb < n THEN n - tb ELSE 0
  OBVIOUS
<1>4. t <= total
  OBVIOUS
<1> HIDE DEF b, n, tb, left
<1>5. /\ left >= b => tb + b <= n
      /\ ~(left >= b) => n < tb + b
      /\ left # 0 => tb + b <= n + b - 1
      /\ left = 0 => n + b - 1 < tb + b
  BY <1>1, <1>2, <1>3, Remaining
<1>6. CASE setup.drop_last
  <2> DEFINE q == n \div b
  <2>1. q \in Nat /\ q * b <= n /\ n < (q + 1) * b
    BY <1>1, DivFacts
  <2>2. HasBatch(todo) <=> left >= b
    BY <1>6 DEF HasBatch, left, b
  <2>3. total = q
    BY <1>6 DEF NumBatches, b
  <2> HIDE DEF q, total
  <2>4. (t * b + b <= n => t + 1 <= q) /\ (n < t * b + b => t = q)
    BY <1>1, <1>4, <2>1, <2>3, OneMore
  <2>5. (tb + b <= n => t + 1 <= total) /\ (n < tb + b => t = total)
    BY <2>3, <2>4 DEF tb
  <2>6. IF HasBatch(todo) THEN t + 1 <= total ELSE t = total
    BY <1>5, <2>2, <2>5, Zenon
  <2> QED
    BY <2>6 DEF total, n
<1>7. CASE ~setup.drop_last
  <2> DEFINE m == n + b - 1
             q == m \div b
  <2>1. m \in Nat
    BY <1>1
  <2> HIDE DEF m
  <2>2. q \in Nat /\ q * b <= m /\ m < (q + 1) * b
    BY <1>1, <2>1, DivFacts
  <2>3. HasBatch(todo) <=> left # 0
    <3>1. left >= b => left # 0
      BY <1>1
    <3>2. todo = <<>> <=> left = 0
      BY DEF left
    <3>3. HasBatch(todo) <=> left >= b \/ todo # <<>>
      BY <1>7 DEF HasBatch, left, b
    <3> QED
      BY <3>1, <3>2, <3>3, Zenon
  <2>4. total = q
    BY <1>7 DEF NumBatches, b, m
  <2> HIDE DEF q, total
  <2>5. (t * b + b <= m => t + 1 <= q) /\ (m < t * b + b => t = q)
    BY <1>1, <1>4, <2>1, <2>2, <2>4, OneMore
  <2>6. (tb + b <= m => t + 1 <= total) /\ (m < tb + b => t = total)
    BY <2>4, <2>5 DEF tb
  <2>7. IF HasBatch(todo) THEN t + 1 <= total ELSE t = total
    BY <1>5, <2>3, <2>6, Zenon DEF m
  <2> QED
    BY <2>7 DEF total, n
<1> QED
  BY <1>6, <1>7

LEMMA AfterFacts ==
  ASSUME NEW S, NEW plan \in Seq(S), NEW t \in Nat, setup \in Setups
  PROVE  /\ After(plan, t) \in Seq(S)
         /\ Len(After(plan, t)) = IF t * setup.batch_size < Len(plan)
                                  THEN Len(plan) - t * setup.batch_size ELSE 0
         /\ \A i \in 1 .. Len(After(plan, t)) :
              After(plan, t)[i] = plan[t * setup.batch_size + i]
         /\ After(plan, t) = <<>> <=> Len(After(plan, t)) = 0
<1> DEFINE at == t * setup.batch_size
           L == Len(plan)
           s == SubSeq(plan, at + 1, L)
<1>1. at \in Nat /\ L \in Nat /\ plan \in [1 .. L -> S]
  BY SetupFacts, TimesInt, LenProperties
<1> HIDE DEF at, L
<1>2. \A i \in at + 1 .. L : plan[i] \in S
  BY <1>1
<1>3. /\ s \in Seq(S)
      /\ Len(s) = IF at + 1 <= L THEN L - (at + 1) + 1 ELSE 0
      /\ \A i \in 1 .. L - (at + 1) + 1 : s[i] = plan[at + 1 + i - 1]
  BY <1>1, <1>2, SubSeqProperties
<1>4. s = <<>> <=> Len(s) = 0
  BY <1>3, EmptySeq
<1>5. Len(s) = IF at < L THEN L - at ELSE 0
  BY <1>1, <1>3
<1>6. \A i \in 1 .. Len(s) : s[i] = plan[at + i]
  BY <1>1, <1>3, <1>5
<1>7. After(plan, t) = s
  BY DEF After, at, L
<1> HIDE DEF s
<1> QED
  BY <1>3, <1>4, <1>5, <1>6, <1>7 DEF at, L

\* Read takes the next batch off what is left.
LEMMA TakesBatch ==
  ASSUME NEW S, NEW plan \in Seq(S), NEW t \in Nat, setup \in Setups,
         HasBatch(After(plan, t))
  PROVE  LET todo == After(plan, t)  n == BatchSize(todo)
         IN /\ SubSeq(todo, 1, n) = BatchAt(plan, t + 1)
            /\ SubSeq(todo, 1, n) \in Seq(S)
            /\ Drop(todo, n) = After(plan, t + 1)
            /\ Drop(todo, n) \in Seq(S)
<1> DEFINE b == setup.batch_size
           L == Len(plan)
           at == t * setup.batch_size
           next == (t + 1) * setup.batch_size
           todo == After(plan, t)
           n == BatchSize(todo)
           to == IF next < L THEN next ELSE L
           batch == SubSeq(todo, 1, n)
           rest == SubSeq(todo, n + 1, Len(todo))
           left == After(plan, t + 1)
<1>1. /\ b \in Nat \ {0} /\ L \in Nat /\ at \in Nat /\ next = at + b
      /\ plan \in [1 .. L -> S]
  BY SetupFacts, TimesInt, LenProperties
<1>2. /\ todo \in Seq(S) /\ (todo = <<>> <=> Len(todo) = 0)
      /\ Len(todo) = IF at < L THEN L - at ELSE 0
      /\ \A i \in 1 .. Len(todo) : todo[i] = plan[at + i]
  BY AfterFacts
<1>3. /\ left \in Seq(S)
      /\ Len(left) = IF next < L THEN L - next ELSE 0
      /\ \A i \in 1 .. Len(left) : left[i] = plan[next + i]
  <2> DEFINE u == t + 1
  <2>1. u \in Nat
    OBVIOUS
  <2> HIDE DEF u
  <2>2. /\ After(plan, u) \in Seq(S)
        /\ Len(After(plan, u)) = IF u * b < L THEN L - u * b ELSE 0
        /\ \A i \in 1 .. Len(After(plan, u)) : After(plan, u)[i] = plan[u * b + i]
    BY <2>1, AfterFacts
  <2> QED
    BY <2>2 DEF u
<1>4. HasBatch(todo) => Len(todo) > 0
  BY <1>1, <1>2 DEF HasBatch
<1>5. n = (IF Len(todo) >= b THEN b ELSE Len(todo))
  BY DEF BatchSize
<1>6. BatchAt(plan, t + 1) = SubSeq(plan, next - b + 1, to)
  BY DEF BatchAt
<1>7. HasBatch(todo)
  OBVIOUS
<1> HIDE DEF b, L, at, next, todo, n, left, rest, batch
<1>8. Len(todo) = L - at /\ at < L
  BY <1>1, <1>2, <1>4, <1>7
<1>9. n \in Nat /\ n > 0 /\ n <= Len(todo) /\ to = at + n
  BY <1>1, <1>5, <1>8
<1> HIDE DEF to
<1>10. batch \in Seq(S) /\ Len(batch) = n /\ \A i \in 1 .. n : batch[i] = plan[at + i]
  <2>1. \A i \in 1 .. n : todo[i] \in S
    BY <1>1, <1>2, <1>8, <1>9
  <2>2. /\ batch \in Seq(S) /\ Len(batch) = (IF 1 <= n THEN n - 1 + 1 ELSE 0)
        /\ \A i \in 1 .. n - 1 + 1 : batch[i] = todo[1 + i - 1]
    BY <1>9, <2>1, SubSeqProperties DEF batch
  <2>3. Len(batch) = n
    BY <1>9, <2>2
  <2>4. \A i \in 1 .. n : i \in 1 .. n - 1 + 1 /\ 1 + i - 1 = i /\ i \in 1 .. Len(todo)
    BY <1>1, <1>8, <1>9
  <2> QED
    BY <1>2, <2>2, <2>3, <2>4
<1>11. LET s == SubSeq(plan, at + 1, to)
       IN s \in Seq(S) /\ Len(s) = n /\ \A i \in 1 .. n : s[i] = plan[at + i]
  <2> DEFINE s == SubSeq(plan, at + 1, to)
  <2>1. \A i \in at + 1 .. to : plan[i] \in S
    BY <1>1, <1>8, <1>9
  <2>2. /\ s \in Seq(S) /\ Len(s) = (IF at + 1 <= to THEN to - (at + 1) + 1 ELSE 0)
        /\ \A i \in 1 .. to - (at + 1) + 1 : s[i] = plan[at + 1 + i - 1]
    BY <1>1, <1>9, <2>1, SubSeqProperties
  <2>3. Len(s) = n
    BY <1>1, <1>9, <2>2
  <2>4. \A i \in 1 .. n : i \in 1 .. to - (at + 1) + 1 /\ at + 1 + i - 1 = at + i
    BY <1>1, <1>9
  <2> QED
    BY <2>2, <2>3, <2>4
<1>12. batch = BatchAt(plan, t + 1)
  <2>1. batch = SubSeq(plan, at + 1, to)
    BY <1>10, <1>11, SeqEqual
  <2>2. next - b + 1 = at + 1
    BY <1>1
  <2> QED
    BY <1>6, <2>1, <2>2
<1>13. /\ rest \in Seq(S) /\ Len(rest) = Len(todo) - n
       /\ \A i \in 1 .. Len(todo) - n : rest[i] = plan[at + n + i]
  <2>1. \A i \in n + 1 .. Len(todo) : todo[i] \in S
    BY <1>1, <1>2, <1>8, <1>9
  <2>2. Len(todo) \in Int /\ n + 1 \in Int
    BY <1>1, <1>8, <1>9
  <2>3. /\ rest \in Seq(S)
        /\ Len(rest) = (IF n + 1 <= Len(todo) THEN Len(todo) - (n + 1) + 1 ELSE 0)
        /\ \A i \in 1 .. Len(todo) - (n + 1) + 1 : rest[i] = todo[n + 1 + i - 1]
    BY <2>1, <2>2, SubSeqProperties DEF rest
  <2>4. Len(rest) = Len(todo) - n
    BY <1>1, <1>8, <1>9, <2>3
  <2>5. \A i \in 1 .. Len(todo) - n :
          /\ i \in 1 .. Len(todo) - (n + 1) + 1 /\ n + 1 + i - 1 = n + i
          /\ n + i \in 1 .. Len(todo) /\ at + (n + i) = at + n + i
    BY <1>1, <1>8, <1>9
  <2> QED
    BY <1>2, <2>3, <2>4, <2>5
<1>14. rest = left
  <2>1. Len(rest) = Len(left) /\ Len(rest) \in Nat
    <3>1. Len(rest) = L - (at + n) /\ Len(rest) \in Nat
      BY <1>1, <1>8, <1>9, <1>13
    <3>2. CASE next < L
      <4>1. n = b
        BY <1>1, <1>5, <1>8, <3>2
      <4> QED
        BY <1>1, <1>3, <3>1, <3>2, <4>1
    <3>3. CASE ~(next < L)
      <4>1. n = Len(todo)
        BY <1>1, <1>5, <1>8, <3>3
      <4> QED
        BY <1>1, <1>3, <1>8, <3>1, <3>3, <4>1
    <3> QED
      BY <3>2, <3>3
  <2>2. CASE n = b
    <3>1. \A i \in 1 .. Len(rest) : rest[i] = left[i]
      BY <1>1, <1>3, <1>13, <2>1, <2>2
    <3> QED
      BY <1>3, <1>13, <2>1, <3>1, SeqEqual
  <2>3. CASE n = Len(todo)
    <3>1. Len(rest) = 0
      BY <1>1, <1>8, <1>13, <2>3
    <3> QED
      BY <1>3, <1>13, <2>1, <3>1, EmptySeq
  <2> QED
    BY <1>5, <2>2, <2>3
<1> QED
  BY <1>3, <1>10, <1>12, <1>14 DEF n, todo, Drop, left, rest, batch
-----------------------------------------------------------------------------
(* One reader.                                                               *)

LEMMA ReaderFacts ==
  ASSUME NEW x, x \in ReaderOf(Range(x.plan)), setup \in Setups
  PROVE  /\ Len(x.plan) \in Nat /\ x.plan \in Seq(Range(x.plan))
         /\ Len(x.got) \in Nat /\ Len(x.queue) \in Nat
         /\ Batches(x) \in Nat
<1>1. Len(x.plan) \in Nat /\ x.plan \in Seq(Range(x.plan))
      /\ Len(x.got) \in Nat /\ Len(x.queue) \in Nat
  BY LenProperties DEF ReaderOf
<1>2. Batches(x) \in Nat
  <2>1. setup.batch_size \in Nat \ {0}
    BY SetupFacts
  <2>2. Len(x.plan) + setup.batch_size - 1 \in Nat
    BY <1>1, <2>1
  <2> QED
    BY <1>1, <2>1, <2>2, DivFacts DEF Batches, NumBatches
<1> QED
  BY <1>1, <1>2

LEMMA InHandIsNotReading ==
  ASSUME NEW y, y.hold.tag \in {"ok", "err", "done"}
  PROVE  ~Reading(y)
BY DEF Reading, Nothing, Entry

LEMMA ReadKeeps ==
  ASSUME setup \in Setups, NEW x, ReaderInv(x), Reading(x)
  PROVE  ReaderInv(AfterRead(x))
<1> DEFINE S == Range(x.plan)
           t == Len(x.got) + Len(x.queue)
           n == BatchSize(x.todo)
           y == AfterRead(x)
<1>1. /\ x \in ReaderOf(S) /\ Delivered(x) /\ Queued(x)
      /\ AllOk(x) /\ x.bad = "none" /\ t <= Batches(x) /\ x.todo = After(x.plan, t)
  BY DEF ReaderInv, InHand
<1>2. x.plan \in Seq(S) /\ Len(x.plan) \in Nat /\ t \in Nat /\ Len(x.queue) \in Nat
      /\ Len(x.got) \in Nat
  <2>1. x \in ReaderOf(Range(x.plan))
    BY <1>1
  <2>2. /\ x.plan \in Seq(S) /\ Len(x.plan) \in Nat /\ Len(x.queue) \in Nat
        /\ Len(x.got) \in Nat
    BY <2>1, ReaderFacts
  <2> QED
    BY <2>2, Sums, Zenon
<1>3. IF HasBatch(x.todo) THEN t + 1 <= Batches(x) ELSE t = Batches(x)
  <2> DEFINE todo == After(x.plan, t)
  <2> HIDE DEF t
  <2>1. /\ todo = <<>> <=> Len(todo) = 0
        /\ Len(todo) = IF t * setup.batch_size < Len(x.plan)
                       THEN Len(x.plan) - t * setup.batch_size ELSE 0
    <3>1. x.plan \in Seq(S) /\ t \in Nat
      BY <1>2
    <3> HIDE DEF S
    <3> QED
      BY <3>1, AfterFacts, Zenon
  <2> HIDE DEF todo
  <2>2. t <= NumBatches(setup, Len(x.plan))
    BY <1>1 DEF Batches
  <2>3. IF HasBatch(todo) THEN t + 1 <= NumBatches(setup, Len(x.plan))
        ELSE t = NumBatches(setup, Len(x.plan))
    BY <1>2, <2>1, <2>2, BatchesLeft
  <2> QED
    BY <1>1, <2>3 DEF todo, Batches
<1>4. CASE HasBatch(x.todo)
  <2> DEFINE batch == SubSeq(x.todo, 1, n)
             rest == Drop(x.todo, n)
  <2>1. /\ batch = BatchAt(x.plan, t + 1) /\ batch \in Seq(S)
        /\ rest = After(x.plan, t + 1) /\ rest \in Seq(S)
    <3> HIDE DEF t
    <3> QED
      BY <1>1, <1>2, <1>4, TakesBatch
  <2>2. y = [x EXCEPT !.hold = Entry("ok", batch), !.todo = rest]
    BY <1>4 DEF AfterRead
  <2> HIDE DEF y, batch, rest, S
  <2>3. Entry("ok", batch) \in Entries(S) /\ Entry("ok", batch).tag = "ok"
        /\ Entry("ok", batch).items = batch
    BY <2>1 DEF Entries, Entry
  <2>4. /\ y \in ReaderOf(S) /\ y.plan = x.plan /\ y.got = x.got /\ y.queue = x.queue
        /\ y.bad = x.bad /\ y.c = x.c /\ y.w = x.w
        /\ y.hold = Entry("ok", batch) /\ y.todo = rest
    BY <1>1, <2>1, <2>2, <2>3 DEF ReaderOf
  <2>5. Delivered(y)
    BY <1>1, <2>4 DEF Delivered, EndedWell, Batches
  <2>6. Queued(y)
    BY <1>1, <2>4 DEF Queued, AllOk, IsBatch, Batches
  <2>7. InHand(y)
    <3>1. y.hold.tag = "ok" /\ y.hold.items = batch /\ ~Reading(y)
      BY <2>3, <2>4, InHandIsNotReading
    <3>2. AllOk(y) /\ y.bad = "none"
      BY <1>1, <2>4 DEF AllOk
    <3>3. IsBatch(y, batch, t + 1) /\ y.todo = After(y.plan, t + 1)
      BY <1>3, <1>4, <2>1, <2>4 DEF IsBatch, Batches
    <3>4. Len(y.got) + Len(y.queue) = t
      BY <2>4
    <3> HIDE DEF t
    <3> QED
      BY <3>1, <3>2, <3>3, <3>4 DEF InHand
  <2>8. ReaderInv(y)
    BY <2>4, <2>5, <2>6, <2>7 DEF ReaderInv, S
  <2> QED
    BY <2>8 DEF y
<1>5. CASE ~HasBatch(x.todo)
  <2>1. y = [x EXCEPT !.hold = Entry("done", <<>>)]
    BY <1>5 DEF AfterRead
  <2> HIDE DEF y, S
  <2>2. Entry("done", <<>>) \in Entries(S) /\ Entry("done", <<>>).tag = "done"
    BY EmptySeq DEF Entries, Entry
  <2>3. /\ y \in ReaderOf(S) /\ y.plan = x.plan /\ y.got = x.got /\ y.queue = x.queue
        /\ y.bad = x.bad /\ y.c = x.c /\ y.w = x.w /\ y.hold = Entry("done", <<>>)
    BY <1>1, <2>1, <2>2 DEF ReaderOf
  <2>4. Delivered(y)
    BY <1>1, <2>3 DEF Delivered, EndedWell, Batches
  <2>5. Queued(y)
    BY <1>1, <2>3 DEF Queued, AllOk, IsBatch, Batches
  <2>6. DoneRight(y, Len(y.queue) + 1)
    <3>1. Len(y.got) + (Len(y.queue) + 1) - 1 = Batches(y)
      <4>1. Len(x.got) + (Len(x.queue) + 1) - 1 = Len(x.got) + Len(x.queue)
        BY <1>2, Sums, Zenon
      <4> QED
        BY <1>3, <1>5, <2>3, <4>1, Zenon DEF Batches
    <3> QED
      BY <1>1, <2>3, <3>1 DEF DoneRight
  <2>7. InHand(y)
    <3>1. y.hold.tag = "done" /\ ~Reading(y)
      BY <2>2, <2>3, InHandIsNotReading
    <3> QED
      BY <2>6, <3>1 DEF InHand
  <2>8. ReaderInv(y)
    BY <2>3, <2>4, <2>5, <2>7 DEF ReaderInv, S
  <2> QED
    BY <2>8 DEF y
<1> QED
  BY <1>4, <1>5

LEMMA RaiseKeeps ==
  ASSUME setup \in Setups, NEW x, ReaderInv(x), Reading(x), NEW y \in {Raised(x), Panicked(x)}
  PROVE  ReaderInv(y)
<1> DEFINE S == Range(x.plan)
<1>1. /\ x \in ReaderOf(S) /\ Delivered(x) /\ Queued(x) /\ AllOk(x) /\ x.bad = "none"
  BY DEF ReaderInv, InHand
<1> HIDE DEF S
<1>2. \A tag \in {"err", "done"} : Entry(tag, <<>>) \in Entries(S) /\ Entry(tag, <<>>).tag = tag
  BY EmptySeq DEF Entries, Entry
<1>3. /\ y \in ReaderOf(S) /\ y.plan = x.plan /\ y.got = x.got /\ y.queue = x.queue
      /\ y.c = x.c /\ y.w = x.w
      /\ \/ y.bad = "err" /\ y.hold = Entry("err", <<>>)
         \/ y.bad = "panic" /\ y.hold = Entry("done", <<>>)
  BY <1>1, <1>2 DEF ReaderOf, Raised, Panicked
<1>4. Delivered(y)
  BY <1>1, <1>3 DEF Delivered, EndedWell, Batches
<1>5. Queued(y)
  BY <1>1, <1>3 DEF Queued, AllOk, IsBatch, Batches
<1>6. InHand(y)
  <2>1. y.hold.tag \in {"err", "done"} /\ ~Reading(y)
    BY <1>2, <1>3, InHandIsNotReading
  <2>2. y.hold.tag = "err" => y.bad = "err"
    BY <1>2, <1>3
  <2>3. y.hold.tag = "done" => DoneRight(y, Len(y.queue) + 1)
    BY <1>2, <1>3 DEF DoneRight
  <2> QED
    BY <2>1, <2>2, <2>3 DEF InHand
<1> QED
  BY <1>3, <1>4, <1>5, <1>6 DEF ReaderInv, S

LEMMA PutKeeps ==
  ASSUME setup \in Setups, NEW x, ReaderInv(x), x.hold # Nothing
  PROVE  ReaderInv(AfterPut(x))
<1> DEFINE S == Range(x.plan)
           y == AfterPut(x)
           next == IF x.hold.tag = "err" THEN Entry("done", <<>>) ELSE Nothing
           q == Len(x.queue)
<1>1. x \in ReaderOf(S) /\ Delivered(x) /\ Queued(x) /\ InHand(x)
  BY DEF ReaderInv
<1>2. q \in Nat /\ Len(x.got) \in Nat /\ x.queue \in Seq(Entries(S)) /\ x.hold \in Entries(S)
  BY <1>1, ReaderFacts DEF ReaderOf
<1>3. y = [x EXCEPT !.queue = Append(@, x.hold), !.hold = next,
                    !.w = IF x.hold.tag = "done" THEN "ended" ELSE "run"]
  BY DEF AfterPut
<1>4. x.hold.tag \in {"ok", "err", "done"}
  BY <1>1, <1>2 DEF InHand, Entries
<1> HIDE DEF S, y
<1>5. next \in Entries(S) /\ next.tag = (IF x.hold.tag = "err" THEN "done" ELSE "none")
  BY EmptySeq DEF Entries, Entry, Nothing
<1> HIDE DEF next
<1>6. /\ y \in ReaderOf(S) /\ y.plan = x.plan /\ y.got = x.got /\ y.bad = x.bad /\ y.c = x.c
      /\ y.todo = x.todo /\ y.hold = next /\ y.queue = Append(x.queue, x.hold)
      /\ y.w = IF x.hold.tag = "done" THEN "ended" ELSE "run"
  BY <1>1, <1>2, <1>3, <1>5, AppendProperties DEF ReaderOf
<1>7. /\ Len(y.queue) = q + 1 /\ y.queue[q + 1] = x.hold
      /\ \A j \in 1 .. q : y.queue[j] = x.queue[j]
  BY <1>2, <1>6, AppendProperties
<1>8. \A j \in 1 .. q : x.queue[j].tag # "done"
  BY <1>1 DEF Queued
<1> HIDE DEF q
<1>9. Delivered(y)
  BY <1>1, <1>6 DEF Delivered, EndedWell, Batches
<1>10. CASE x.hold.tag = "ok"
  <2>1. /\ AllOk(x) /\ x.bad = "none" /\ next = Nothing
        /\ IsBatch(x, x.hold.items, Len(x.got) + q + 1) /\ x.todo = After(x.plan, Len(x.got) + q + 1)
    BY <1>1, <1>10 DEF InHand, q, next
  <2>2. AllOk(y)
    <3>1. \A j \in 1 .. q + 1 : j \in 1 .. q \/ j = q + 1
      BY <1>2
    <3>2. \A j \in 1 .. q : y.queue[j].tag = "ok"
      BY <1>7, <2>1 DEF AllOk, q
    <3> QED
      BY <1>7, <1>10, <3>1, <3>2 DEF AllOk
  <2>3. Queued(y)
    <3>1. \A j \in 1 .. q : IsBatch(y, y.queue[j].items, Len(y.got) + j)
      BY <1>1, <1>6, <1>7, <2>1 DEF Queued, AllOk, IsBatch, Batches, q
    <3>2. IsBatch(y, y.queue[q + 1].items, Len(y.got) + (q + 1))
      <4>1. Len(x.got) + (q + 1) = Len(x.got) + q + 1
        BY <1>2, Sums, Zenon
      <4> QED
        BY <1>6, <1>7, <2>1, <4>1 DEF IsBatch, Batches
    <3>3. \A j \in 1 .. q + 1 : j \in 1 .. q \/ j = q + 1
      BY <1>2 DEF q
    <3>4. \A j \in 1 .. q + 1 : y.queue[j].tag = "ok"
      BY <1>7, <2>2 DEF AllOk
    <3> QED
      BY <1>7, <3>1, <3>2, <3>3, <3>4 DEF Queued
  <2>4. InHand(y)
    <3>1. Len(y.got) + Len(y.queue) = Len(x.got) + q + 1
      <4>1. Len(x.got) + (q + 1) = Len(x.got) + q + 1
        BY <1>2, Sums, Zenon
      <4> QED
        BY <1>6, <1>7, <4>1, Zenon
    <3>2. y.hold = Nothing /\ y.hold.tag = "none"
      BY <1>5, <1>6, <1>10, <2>1
    <3>3. Len(x.got) + q + 1 <= Batches(y) /\ y.todo = After(y.plan, Len(x.got) + q + 1)
      BY <1>6, <2>1 DEF IsBatch, Batches
    <3> QED
      BY <1>6, <2>1, <2>2, <3>1, <3>2, <3>3 DEF InHand
  <2> QED
    BY <1>6, <1>9, <2>3, <2>4 DEF ReaderInv, S, y
<1>11. CASE x.hold.tag = "err"
  <2>1. x.bad = "err"
    BY <1>1, <1>11 DEF InHand
  <2>2. Queued(y)
    <3>1. \A j \in 1 .. q : /\ y.queue[j].tag # "none" /\ y.queue[j].tag # "done"
                            /\ y.queue[j].tag = "ok" =>
                                 IsBatch(y, y.queue[j].items, Len(y.got) + j)
                            /\ y.queue[j].tag = "err" =>
                                 \A i \in j .. q : y.queue[i].tag # "ok"
      BY <1>1, <1>2, <1>6, <1>7, <1>8 DEF Queued, IsBatch, Batches, q
    <3> QED
      BY <1>2, <1>6, <1>7, <1>11, <2>1, <3>1 DEF Queued
  <2>3. DoneRight(y, Len(y.queue) + 1)
    BY <1>2, <1>6, <1>7, <1>11, <2>1 DEF DoneRight
  <2>4. InHand(y)
    <3>1. y.hold.tag = "done" /\ ~Reading(y)
      BY <1>5, <1>6, <1>11, InHandIsNotReading
    <3> QED
      BY <2>3, <3>1 DEF InHand
  <2> QED
    BY <1>6, <1>9, <2>2, <2>4 DEF ReaderInv, S, y
<1>12. CASE x.hold.tag = "done"
  <2>1. DoneRight(x, q + 1) /\ next = Nothing
    BY <1>1, <1>12 DEF InHand, q, next
  <2>2. DoneRight(y, q + 1)
    BY <1>2, <1>6, <1>7, <2>1 DEF DoneRight, Batches
  <2>3. Queued(y)
    <3>1. \A j \in 1 .. q : /\ y.queue[j].tag # "none" /\ y.queue[j].tag # "done"
                            /\ y.queue[j].tag = "ok" =>
                                 IsBatch(y, y.queue[j].items, Len(y.got) + j)
                            /\ y.queue[j].tag = "err" =>
                                 y.bad = "err" /\ \A i \in j .. q : y.queue[i].tag # "ok"
      BY <1>1, <1>2, <1>6, <1>7, <1>8 DEF Queued, IsBatch, Batches, q
    <3> QED
      BY <1>2, <1>6, <1>7, <1>12, <2>1, <2>2, <3>1 DEF Queued
  <2>4. InHand(y)
    BY <1>5, <1>6, <1>12, <2>1 DEF InHand, Reading, Nothing, Entry
  <2> QED
    BY <1>6, <1>9, <2>3, <2>4 DEF ReaderInv, S, y
<1> QED
  BY <1>4, <1>10, <1>11, <1>12

LEMMA TakeKeeps ==
  ASSUME setup \in Setups, NEW x, ReaderInv(x), x.c = "run", x.queue # <<>>
  PROVE  ReaderInv(AfterTake(x))
<1> DEFINE S == Range(x.plan)
           e == Head(x.queue)
           y == AfterTake(x)
           q == Len(x.queue)
           g == Len(x.got)
<1>1. x \in ReaderOf(S) /\ Delivered(x) /\ Queued(x) /\ InHand(x)
  BY DEF ReaderInv
<1>2. q \in Nat /\ g \in Nat /\ x.queue \in Seq(Entries(S)) /\ x.got \in Seq(Seq(S))
  BY <1>1, ReaderFacts DEF ReaderOf
<1>3. /\ Tail(x.queue) \in Seq(Entries(S)) /\ Len(Tail(x.queue)) = q - 1
      /\ \A i \in 1 .. q - 1 : Tail(x.queue)[i] = x.queue[i + 1]
      /\ e = x.queue[1] /\ e \in Entries(S) /\ q > 0
  <2> DEFINE s == x.queue
  <2>1. s \in Seq(Entries(S)) /\ s # <<>>
    BY <1>2
  <2> HIDE DEF s, S
  <2>2. /\ Tail(s) \in Seq(Entries(S)) /\ Len(Tail(s)) = Len(s) - 1
        /\ \A i \in 1 .. Len(Tail(s)) : Tail(s)[i] = s[i + 1]
        /\ Head(s) = s[1] /\ Head(s) \in Entries(S) /\ Len(s) > 0
    BY <2>1, HeadTailProperties, EmptySeq, LenProperties
  <2> QED
    BY <2>2 DEF s
<1>4. e.tag \in {"ok", "err", "done"} /\ e.items \in Seq(S)
  <2>1. 1 \in 1 .. q
    BY <1>2, <1>3
  <2>2. e.tag # "none"
    BY <1>1, <1>3, <2>1 DEF Queued
  <2> QED
    BY <1>3, <2>2 DEF Entries
<1>5. y = [x EXCEPT !.queue = Tail(x.queue),
                    !.got = IF e.tag = "ok" THEN Append(x.got, e.items) ELSE x.got,
                    !.c = CASE e.tag = "ok" -> "run" [] e.tag = "err" -> "raised"
                            [] e.tag = "done" -> "ended"]
  BY DEF AfterTake
<1> HIDE DEF S, e, y
<1>6. /\ y \in ReaderOf(S) /\ y.plan = x.plan /\ y.bad = x.bad /\ y.w = x.w
      /\ y.todo = x.todo /\ y.hold = x.hold /\ y.queue = Tail(x.queue)
      /\ y.got = (IF e.tag = "ok" THEN Append(x.got, e.items) ELSE x.got)
      /\ e.tag = "ok" => y.c = "run"
      /\ e.tag = "err" => y.c = "raised"
      /\ e.tag = "done" => y.c = "ended"
  <2>1. Append(x.got, e.items) \in Seq(Seq(S))
    BY <1>2, <1>4, AppendProperties
  <2> QED
    BY <1>1, <1>3, <1>4, <1>5, <2>1 DEF ReaderOf
<1>7. Len(y.queue) = q - 1 /\ \A j \in 1 .. q - 1 : y.queue[j] = x.queue[j + 1]
  BY <1>3, <1>6
<1>8. /\ 1 \in 1 .. q
      /\ \A j \in 1 .. q - 1 : j \in Nat /\ j + 1 \in 1 .. q
      /\ \A j \in 1 .. q - 1 : \A i \in j .. q - 1 : i \in 1 .. q - 1 /\ i + 1 \in j + 1 .. q
      /\ \A j \in 1 .. q - 1 : j + 1 = q => j = q - 1
      /\ q - 1 \in Nat /\ (q - 1) + 1 = q /\ q - 1 + 1 = q
  BY <1>2, <1>3
<1>9. /\ \A j \in 1 .. q : x.queue[j].tag = "ok" => IsBatch(x, x.queue[j].items, g + j)
      /\ \A j \in 1 .. q : x.queue[j].tag = "err" =>
           x.bad = "err" /\ \A i \in j .. q : x.queue[i].tag # "ok"
      /\ \A j \in 1 .. q : x.queue[j].tag = "done" =>
           j = q /\ x.w = "ended" /\ x.hold = Nothing /\ DoneRight(x, j)
      /\ \A j \in 1 .. q : x.queue[j].tag # "none"
  BY <1>1 DEF Queued
<1>10. CASE e.tag = "ok"
  <2>1. y.got = Append(x.got, e.items) /\ y.c = "run"
    BY <1>6, <1>10
  <2>2. /\ Len(y.got) = g + 1 /\ y.got[g + 1] = e.items
        /\ \A k \in 1 .. g : y.got[k] = x.got[k]
    BY <1>2, <1>4, <2>1, AppendProperties
  <2>3. IsBatch(x, e.items, g + 1)
    BY <1>3, <1>8, <1>9, <1>10
  <2>4. Delivered(y)
    <3>1. \A k \in 1 .. g + 1 : k \in 1 .. g \/ k = g + 1
      BY <1>2
    <3>2. ~EndedWell(y)
      BY <2>1 DEF EndedWell
    <3>3. \A k \in 1 .. g : x.got[k] = BatchAt(x.plan, k)
      BY <1>1 DEF Delivered
    <3> HIDE DEF g
    <3> QED
      BY <1>6, <2>2, <2>3, <3>1, <3>2, <3>3 DEF Delivered, IsBatch, Batches
  <2>5. ASSUME NEW j \in Nat, j <= q - 1 \/ j = q, j # 0, DoneRight(x, j + 1)
        PROVE  DoneRight(y, j)
    <3>1. CASE x.bad = "panic"
      BY <1>6, <3>1 DEF DoneRight
    <3>2. CASE x.bad = "none" /\ Len(x.got) + (j + 1) - 1 = Batches(x)
      <4>1. Len(y.got) + j - 1 = Batches(y)
        <5>1. g + 1 + j - 1 = g + (j + 1) - 1
          <6> HIDE DEF g
          <6> QED
            BY <1>2
        <5> QED
          BY <1>6, <2>2, <3>2, <5>1, Zenon DEF Batches
      <4> QED
        BY <1>6, <3>2, <4>1 DEF DoneRight
    <3>3. CASE x.bad = "err" /\ \E i \in 1 .. (j + 1) - 1 : x.queue[i].tag = "err"
      <4>1. PICK i \in 1 .. (j + 1) - 1 : x.queue[i].tag = "err"
        BY <3>3
      <4>2. i # 1
        BY <1>3, <1>10, <4>1
      <4>3. i - 1 \in 1 .. j - 1 /\ i - 1 \in 1 .. q - 1 /\ i - 1 + 1 = i
        <5> HIDE DEF q
        <5> QED
          BY <1>2, <2>5, <4>1, <4>2
      <4>4. y.queue[i - 1].tag = "err"
        BY <1>7, <4>1, <4>3
      <4> QED
        BY <1>6, <3>3, <4>3, <4>4 DEF DoneRight
    <3>4. x.c # "raised"
      OBVIOUS
    <3> QED
      BY <2>5, <3>1, <3>2, <3>3, <3>4 DEF DoneRight
  <2>6. Queued(y)
    <3>1. SUFFICES ASSUME NEW j \in 1 .. q - 1
                   PROVE  /\ y.queue[j].tag # "none"
                          /\ y.queue[j].tag = "ok" => IsBatch(y, y.queue[j].items, Len(y.got) + j)
                          /\ y.queue[j].tag = "err" =>
                               y.bad = "err" /\ \A i \in j .. q - 1 : y.queue[i].tag # "ok"
                          /\ y.queue[j].tag = "done" =>
                               j = q - 1 /\ y.w = "ended" /\ y.hold = Nothing /\ DoneRight(y, j)
      BY <1>7 DEF Queued
    <3>2. y.queue[j] = x.queue[j + 1] /\ j \in Nat /\ j + 1 \in 1 .. q
      BY <1>7, <1>8
    <3>3. y.queue[j].tag = "ok" => IsBatch(y, y.queue[j].items, Len(y.got) + j)
      <4>1. Len(y.got) + j = g + (j + 1)
        <5>1. g + 1 + j = g + (j + 1)
          BY <1>2, <3>2, Sums, Zenon
        <5> QED
          BY <2>2, <5>1, Zenon
      <4> QED
        BY <1>6, <1>9, <3>2, <4>1 DEF IsBatch, Batches
    <3>4. y.queue[j].tag = "err" => y.bad = "err" /\ \A i \in j .. q - 1 : y.queue[i].tag # "ok"
      BY <1>6, <1>7, <1>8, <1>9, <3>2
    <3>5. y.queue[j].tag = "done" =>
            j = q - 1 /\ y.w = "ended" /\ y.hold = Nothing /\ DoneRight(y, j)
      <4>1. j <= q - 1 /\ j # 0
        BY <1>8
      <4> HIDE DEF q
      <4> QED
        BY <1>6, <1>8, <1>9, <2>5, <3>2, <4>1
    <3> QED
      BY <1>9, <3>2, <3>3, <3>4, <3>5
  <2>7. InHand(y)
    <3>1. Len(y.got) + Len(y.queue) = g + q
      <4> HIDE DEF g, q
      <4>1. g + 1 + (q - 1) = g + q
        BY <1>2, <1>3
      <4> QED
        BY <1>7, <2>2, <4>1
    <3>2. Reading(y) = Reading(x)
      BY <1>6 DEF Reading
    <3>3. AllOk(x) => AllOk(y)
      BY <1>7, <1>8 DEF AllOk
    <3>4. x.hold.tag = "done" => DoneRight(y, Len(y.queue) + 1)
      <4>1. x.hold.tag = "done" => DoneRight(x, q + 1)
        BY <1>1 DEF InHand
      <4>2. Len(y.queue) + 1 = q
        BY <1>7, <1>8
      <4>3. q # 0
        BY <1>8
      <4> QED
        BY <1>2, <2>5, <4>1, <4>2, <4>3
    <3>5. /\ x.hold.tag = "none" => x.hold = Nothing
          /\ Reading(x) =>
               AllOk(x) /\ x.bad = "none" /\ g + q <= Batches(x) /\ x.todo = After(x.plan, g + q)
          /\ x.hold.tag = "ok" =>
               /\ AllOk(x) /\ x.bad = "none"
               /\ IsBatch(x, x.hold.items, g + q + 1) /\ x.todo = After(x.plan, g + q + 1)
          /\ x.hold.tag = "err" => x.bad = "err"
      BY <1>1 DEF InHand
    <3> HIDE DEF g, q
    <3> QED
      BY <1>6, <3>1, <3>2, <3>3, <3>4, <3>5 DEF InHand, IsBatch, Batches
  <2> QED
    BY <1>6, <2>4, <2>6, <2>7 DEF ReaderInv, S, y
<1>11. CASE e.tag = "err"
  <2>1. y.got = x.got /\ y.c = "raised" /\ x.bad = "err" /\ \A i \in 1 .. q : x.queue[i].tag # "ok"
    BY <1>3, <1>6, <1>8, <1>9, <1>11
  <2>2. Delivered(y)
    BY <1>1, <1>6, <2>1 DEF Delivered, EndedWell, Batches
  <2>3. \A j : DoneRight(y, j)
    BY <1>6, <2>1 DEF DoneRight
  <2>4. Queued(y)
    <3>1. SUFFICES ASSUME NEW j \in 1 .. q - 1
                   PROVE  /\ y.queue[j].tag # "none"
                          /\ y.queue[j].tag # "ok"
                          /\ \A i \in j .. q - 1 : y.queue[i].tag # "ok"
                          /\ y.queue[j].tag = "done" =>
                               j = q - 1 /\ y.w = "ended" /\ y.hold = Nothing
      BY <1>6, <1>7, <2>1, <2>3 DEF Queued
    <3>2. y.queue[j] = x.queue[j + 1] /\ j + 1 \in 1 .. q
      BY <1>7, <1>8
    <3>3. \A i \in j .. q - 1 : y.queue[i].tag # "ok"
      <4>1. ASSUME NEW i \in j .. q - 1
            PROVE  y.queue[i].tag # "ok"
        <5>1. i \in 1 .. q - 1 /\ i + 1 \in 1 .. q
          BY <1>8
        <5> QED
          BY <1>7, <2>1, <5>1
      <4> QED
        BY <4>1
    <3> QED
      BY <1>6, <1>8, <1>9, <2>1, <3>2, <3>3
  <2>5. InHand(y)
    <3>1. ~AllOk(x)
      BY <1>3, <1>8, <1>11 DEF AllOk
    <3>2. Reading(y) = Reading(x)
      BY <1>6 DEF Reading
    <3> QED
      BY <1>1, <1>6, <2>1, <2>3, <3>1, <3>2 DEF InHand
  <2> QED
    BY <1>6, <2>2, <2>4, <2>5 DEF ReaderInv, S, y
<1>12. CASE e.tag = "done"
  <2>1. /\ y.got = x.got /\ y.c = "ended" /\ q = 1 /\ x.w = "ended" /\ x.hold = Nothing
        /\ DoneRight(x, 1)
    BY <1>3, <1>6, <1>8, <1>9, <1>12
  <2>2. x.bad # "panic" => Len(x.got) = Batches(x)
    <3>1. x.bad = "none" => Len(x.got) + 1 - 1 = Batches(x)
      BY <2>1 DEF DoneRight
    <3>2. Len(x.got) + 1 - 1 = Len(x.got)
      <4> HIDE DEF g
      <4>1. g + 1 - 1 = g
        BY <1>2
      <4> QED
        BY <4>1 DEF g
    <3>3. x.bad # "err"
      BY <2>1 DEF DoneRight
    <3>4. x.bad \in {"none", "err", "panic"}
      BY <1>1 DEF ReaderOf
    <3> QED
      BY <3>1, <3>2, <3>3, <3>4, Zenon
  <2>3. Delivered(y)
    BY <1>1, <1>6, <2>1, <2>2 DEF Delivered, EndedWell, Batches
  <2>4. Queued(y)
    BY <1>7, <2>1 DEF Queued
  <2>5. InHand(y)
    <3>1. y.hold = Nothing /\ y.hold.tag = "none" /\ ~Reading(y)
      BY <1>6, <2>1 DEF Nothing, Entry, Reading
    <3> QED
      BY <3>1 DEF InHand
  <2> QED
    BY <1>6, <2>3, <2>4, <2>5 DEF ReaderInv, S, y
<1> QED
  BY <1>4, <1>10, <1>11, <1>12

LEMMA LeaveKeeps ==
  ASSUME NEW x, ReaderInv(x), x.c = "run"
  PROVE  ReaderInv([x EXCEPT !.c = "left"])
<1> DEFINE S == Range(x.plan)
           y == [x EXCEPT !.c = "left"]
<1>1. x \in ReaderOf(S) /\ Delivered(x) /\ Queued(x) /\ InHand(x)
  BY DEF ReaderInv
<1> HIDE DEF S
<1>2. /\ y \in ReaderOf(S) /\ y.plan = x.plan /\ y.got = x.got /\ y.queue = x.queue
      /\ y.bad = x.bad /\ y.c = "left" /\ y.w = x.w /\ y.hold = x.hold /\ y.todo = x.todo
  BY <1>1 DEF ReaderOf
<1> HIDE DEF y
<1>3. \A j : DoneRight(x, j) => DoneRight(y, j)
  BY <1>2 DEF DoneRight, Batches
<1>4. Delivered(y)
  BY <1>1, <1>2 DEF Delivered, EndedWell, Batches
<1>5. Queued(y)
  BY <1>1, <1>2, <1>3 DEF Queued, IsBatch, Batches
<1>6. InHand(y)
  BY <1>1, <1>2, <1>3 DEF InHand, Reading, AllOk, IsBatch, Batches
<1> QED
  BY <1>2, <1>4, <1>5, <1>6 DEF ReaderInv, S, y

\* A thread that starts where a loop got to, at the start or later in the epoch.
LEMMA StartedKeeps ==
  ASSUME setup \in Setups, NEW plan, plan \in Seq(Range(plan)),
         NEW got, got \in Seq(Seq(Range(plan))),
         Len(got) <= NumBatches(setup, Len(plan)),
         \A k \in 1 .. Len(got) : got[k] = BatchAt(plan, k)
  PROVE  ReaderInv(Started(plan, After(plan, Len(got)), got))
<1> DEFINE S == Range(plan)
           y == Started(plan, After(plan, Len(got)), got)
<1>1. Len(got) \in Nat /\ After(plan, Len(got)) \in Seq(S)
  BY LenProperties, AfterFacts
<1>2. Nothing \in Entries(S) /\ Nothing.tag = "none" /\ <<>> \in Seq(Entries(S)) /\ Len(<<>>) = 0
  BY EmptySeq DEF Entries, Entry, Nothing
<1> HIDE DEF S
<1>3. /\ y \in ReaderOf(S) /\ y.plan = plan /\ y.got = got /\ y.queue = <<>>
      /\ y.bad = "none" /\ y.c = "run" /\ y.hold = Nothing /\ y.todo = After(plan, Len(got))
  BY <1>1, <1>2 DEF ReaderOf, Started, S
<1> HIDE DEF y
<1>4. Delivered(y)
  BY <1>3 DEF Delivered, EndedWell, Batches
<1>5. Queued(y)
  BY <1>2, <1>3 DEF Queued
<1>6. InHand(y)
  <2>1. Len(y.got) + Len(y.queue) = Len(got)
    <3> DEFINE g == Len(got)
    <3>1. g + 0 = g
      BY <1>1
    <3> QED
      BY <1>2, <1>3, <3>1
  <2>2. AllOk(y)
    BY <1>2, <1>3 DEF AllOk
  <2> QED
    BY <1>2, <1>3, <2>1, <2>2 DEF InHand, Batches
<1> QED
  BY <1>3, <1>4, <1>5, <1>6 DEF ReaderInv, S, y

StartsWell ==
  \A plan, got :
    /\ setup \in Setups /\ plan \in Seq(Range(plan)) /\ got \in Seq(Seq(Range(plan)))
    /\ Len(got) <= NumBatches(setup, Len(plan))
    /\ \A k \in 1 .. Len(got) : got[k] = BatchAt(plan, k)
    => ReaderInv(Started(plan, After(plan, Len(got)), got))

LEMMA StartedAlways == StartsWell
BY StartedKeeps DEF StartsWell

LEMMA ResumeKeeps ==
  ASSUME setup \in Setups, NEW x, ReaderInv(x)
  PROVE  ReaderInv(Started(x.plan, Drop(x.plan, Consumed(x)), x.got))
<1>1. /\ x \in ReaderOf(Range(x.plan)) /\ x.plan \in Seq(Range(x.plan))
      /\ Len(x.plan) \in Nat /\ Len(x.got) \in Nat /\ Delivered(x)
  BY ReaderFacts DEF ReaderInv
<1>2. Drop(x.plan, Consumed(x)) = After(x.plan, Len(x.got))
  <2> DEFINE at == Len(x.got) * setup.batch_size
             L == Len(x.plan)
             S == Range(x.plan)
  <2>1. at \in Nat /\ L \in Nat /\ x.plan \in Seq(S)
    BY <1>1, SetupFacts, TimesInt
  <2>2. Drop(x.plan, Consumed(x)) = SubSeq(x.plan, (IF at < L THEN at ELSE L) + 1, L)
    BY DEF Drop, Consumed
  <2>3. After(x.plan, Len(x.got)) = SubSeq(x.plan, at + 1, L)
    BY DEF After
  <2> HIDE DEF at, L, S
  <2>4. CASE at < L
    BY <2>2, <2>3, <2>4
  <2>5. CASE ~(at < L)
    <3>1. \A m \in Int : m > L => SubSeq(x.plan, m, L) = <<>>
      <4>1. ASSUME NEW m \in Int, m > L
            PROVE  SubSeq(x.plan, m, L) = <<>>
        <5>1. \A i \in m .. L : x.plan[i] \in S
          BY <2>1, <4>1
        <5>2. SubSeq(x.plan, m, L) \in Seq(S) /\ Len(SubSeq(x.plan, m, L)) = 0
          BY <2>1, <4>1, <5>1, SubSeqProperties
        <5> QED
          BY <5>2, EmptySeq
      <4> QED
        BY <4>1
    <3>2. at + 1 \in Int /\ at + 1 > L /\ L + 1 \in Int /\ L + 1 > L
      BY <2>1, <2>5
    <3> QED
      BY <2>2, <2>3, <2>5, <3>1, <3>2
  <2> QED
    BY <2>4, <2>5
<1>3. x.got \in Seq(Seq(Range(x.plan)))
  BY <1>1 DEF ReaderOf
<1>4. Len(x.got) <= NumBatches(setup, Len(x.plan)) /\ \A k \in 1 .. Len(x.got) : x.got[k] = BatchAt(x.plan, k)
  BY <1>1 DEF Delivered, Batches
<1> QED
  BY <1>1, <1>2, <1>3, <1>4, StartedKeeps
-----------------------------------------------------------------------------
(* The system.                                                               *)

LEMMA InitHolds == Init => EInv
<1> SUFFICES ASSUME Init
             PROVE  EInv
  OBVIOUS
<1>1. IsFiniteSet(view)
  BY LoaderAssumption DEF Init, AllIds
<1>2. rd = <<>> /\ DOMAIN <<>> = {} /\ <<>> = [a \in {} |-> <<>>[a]]
  BY DEF Init
<1> QED
  BY <1>1, <1>2 DEF EInv

LEMMA OpenKeeps == EInv /\ Open => EInv'
<1> SUFFICES ASSUME EInv, Open
             PROVE  EInv'
  OBVIOUS
<1>1. PICK s \in Setups :
        \E plans \in IF s.mode = "sampler" THEN SamplerPlans(s) ELSE StreamPlans(s) :
          /\ setup' = s
          /\ rd' = [a \in Readers(s) |-> Started(plans[a], plans[a], <<>>)]
  BY DEF Open
<1>2. PICK plans \in IF s.mode = "sampler" THEN SamplerPlans(s) ELSE StreamPlans(s) :
        /\ setup' = s
        /\ rd' = [a \in Readers(s) |-> Started(plans[a], plans[a], <<>>)]
  BY <1>1
<1>3. IsFiniteSet(view) /\ view' = view /\ Size \in Nat
  BY FS_CardinalityType DEF EInv, Open, Size
<1>4. ASSUME NEW a \in Readers(s)
      PROVE  plans[a] \in Seq(Range(plans[a]))
  <2>1. CASE s.mode = "sampler"
    <3>1. PICK order \in Orders(Size, s.block, s.shuffle) :
            plans = [b \in Readers(s) |-> ToIds(Indices(order, b[1], b[2], s.ranks, s.workers, 0))]
      BY <1>2, <2>1 DEF SamplerPlans
    <3>2. plans[a] = ToIds(Indices(order, a[1], a[2], s.ranks, s.workers, 0))
      BY <3>1
    <3> QED
      BY <1>3, <3>2, SamplerPlanIsSeq, ToIdsIsSeq
  <2>2. CASE s.mode # "sampler"
    <3>1. PICK f : /\ plans = [b \in Readers(s) |-> ToIds(f[b])]
                   /\ \A b \in Readers(s) :
                        f[b] \in StreamOrders(Size, s.block, s.shuffle, s.buffer, b[1], b[2], s.ranks, s.workers)
      BY <1>2, <2>2 DEF StreamPlans
    <3>2. plans[a] = ToIds(f[a]) /\ Len(f[a]) \in Nat
      BY <1>3, <3>1, StreamPlanIsSeq
    <3> QED
      BY <3>2, ToIdsIsSeq
  <2> QED
    BY <2>1, <2>2
<1>5. ASSUME NEW a \in Readers(s)
      PROVE  ReaderInv(rd[a])'
  <2> DEFINE plan == plans[a]
  <2>1. plan \in Seq(Range(plan)) /\ Len(plan) \in Nat
    BY <1>4, LenProperties
  <2>2. rd'[a] = Started(plan, plan, <<>>)
    BY <1>2
  <2>3. <<>> \in Seq(Seq(Range(plan))) /\ Len(<<>>) = 0
    BY EmptySeq
  <2>4. setup' \in Setups
    BY <1>2
  <2> HIDE DEF plan
  <2>5. After(plan, 0)' = plan
    <3>1. 0 * setup'.batch_size + 1 = 1
      BY <2>4, SetupFacts
    <3>2. SubSeq(plan, 1, Len(plan)) = plan
      BY <2>1, SubSeqFull
    <3> QED
      BY <3>1, <3>2 DEF After
  <2>6. (0 <= NumBatches(setup, Len(plan)))'
    <3>1. setup'.batch_size \in Nat \ {0}
      BY <2>4, SetupFacts
    <3>2. Len(plan) + setup'.batch_size - 1 \in Nat
      BY <2>1, <3>1
    <3>3. /\ Len(plan) \div setup'.batch_size \in Nat
          /\ (Len(plan) + setup'.batch_size - 1) \div setup'.batch_size \in Nat
      BY <2>1, <3>1, <3>2, DivFacts
    <3> QED
      BY <3>3 DEF NumBatches
  <2>7. StartsWell'
    BY StartedAlways, PTL
  <2>8. ReaderInv(Started(plan, After(plan, Len(<<>>)), <<>>))'
    <3>1. \A k \in 1 .. Len(<<>>) : (<<>>[k] = BatchAt(plan, k))'
      BY <2>3
    <3> QED
      BY <2>1, <2>3, <2>4, <2>6, <2>7, <3>1 DEF StartsWell
  <2> QED
    BY <2>2, <2>3, <2>5, <2>8
<1>6. rd' = [a \in DOMAIN rd' |-> rd'[a]] /\ DOMAIN rd' = Readers(s)
  BY <1>2
<1> QED
  BY <1>2, <1>3, <1>5, <1>6 DEF EInv

\* What is said of a reader depends on the loader's configuration only.
LEMMA SetupOnly ==
  ASSUME setup' = setup, NEW x
  PROVE  ReaderInv(x)' <=> ReaderInv(x)
BY DEF ReaderInv, Delivered, Queued, InHand, IsBatch, DoneRight, EndedWell, AllOk, Reading, Batches,
       BatchAt, After, NumBatches

LEMMA ReplacedReader ==
  ASSUME EInv, NEW a \in DOMAIN rd, NEW y, ReaderInv(y),
         rd' = [rd EXCEPT ![a] = y], setup' = setup, view' = view
  PROVE  EInv'
<1>1. /\ rd' = [b \in DOMAIN rd' |-> rd'[b]] /\ DOMAIN rd' = DOMAIN rd
      /\ \A b \in DOMAIN rd : rd'[b] = IF b = a THEN y ELSE rd[b]
  BY DEF EInv
<1>2. ASSUME NEW b \in DOMAIN rd
      PROVE  ReaderInv(rd[b])'
  <2>1. ReaderInv(rd'[b])
    BY <1>1 DEF EInv
  <2>2. PICK z : z = rd'[b]
    OBVIOUS
  <2>3. ReaderInv(z)
    BY <2>1, <2>2
  <2>4. ReaderInv(z)'
    BY <2>3, SetupOnly
  <2> QED
    BY <2>2, <2>4
<1> QED
  BY <1>1, <1>2 DEF EInv

LEMMA NextHolds == EInv /\ [Next]_vars => EInv'
<1> SUFFICES ASSUME EInv, [Next]_vars
             PROVE  EInv'
  OBVIOUS
<1>1. \A a : Opened(a) => a \in DOMAIN rd /\ setup \in Setups /\ ReaderInv(rd[a])
  BY DEF EInv, Opened
<1>2. ASSUME NEW expr, Subset(expr)
      PROVE  EInv'
  <2>1. IsFiniteSet(view')
    <3>1. view' \subseteq view /\ IsFiniteSet(view)
      BY <1>2 DEF Subset, EInv
    <3> QED
      BY <3>1, FS_Subset
  <2>2. rd = <<>> /\ rd' = <<>> /\ DOMAIN <<>> = {}
    BY <1>2 DEF Subset
  <2>3. rd' = [a \in DOMAIN rd' |-> rd'[a]]
    BY <2>2
  <2> QED
    BY <2>1, <2>2, <2>3 DEF EInv
<1>3. CASE Open
  BY <1>3, OpenKeeps
<1>4. ASSUME NEW a, Read(a)
      PROVE  EInv'
  <2>1. /\ Opened(a) /\ Reading(rd[a]) /\ rd' = [rd EXCEPT ![a] = AfterRead(rd[a])]
        /\ setup' = setup /\ view' = view
    BY <1>4 DEF Read, Rest
  <2>2. ReaderInv(AfterRead(rd[a]))
    BY <1>1, <2>1, ReadKeeps
  <2> QED
    BY <1>1, <2>1, <2>2, ReplacedReader
<1>5. ASSUME NEW a, Put(a)
      PROVE  EInv'
  <2>1. /\ Opened(a) /\ rd[a].hold # Nothing /\ rd' = [rd EXCEPT ![a] = AfterPut(rd[a])]
        /\ setup' = setup /\ view' = view
    BY <1>5 DEF Put, Rest
  <2>2. ReaderInv(AfterPut(rd[a]))
    BY <1>1, <2>1, PutKeeps
  <2> QED
    BY <1>1, <2>1, <2>2, ReplacedReader
<1>6. ASSUME NEW a, ReadRaises(a)
      PROVE  EInv'
  <2>1. /\ Opened(a) /\ Reading(rd[a]) /\ setup' = setup /\ view' = view
        /\ \E y \in {Raised(rd[a]), Panicked(rd[a])} : rd' = [rd EXCEPT ![a] = y]
    BY <1>6 DEF ReadRaises, Rest
  <2>2. PICK y \in {Raised(rd[a]), Panicked(rd[a])} : rd' = [rd EXCEPT ![a] = y]
    BY <2>1
  <2>3. ReaderInv(y)
    BY <1>1, <2>1, RaiseKeeps
  <2> QED
    BY <1>1, <2>1, <2>2, <2>3, ReplacedReader
<1>7. ASSUME NEW a, Take(a)
      PROVE  EInv'
  <2>1. /\ Opened(a) /\ rd[a].c = "run" /\ rd[a].queue # <<>>
        /\ rd' = [rd EXCEPT ![a] = AfterTake(rd[a])] /\ setup' = setup /\ view' = view
    BY <1>7 DEF Take, Rest
  <2>2. ReaderInv(AfterTake(rd[a]))
    BY <1>1, <2>1, TakeKeeps
  <2> QED
    BY <1>1, <2>1, <2>2, ReplacedReader
<1>8. ASSUME NEW a, Leave(a)
      PROVE  EInv'
  <2> DEFINE y == [rd[a] EXCEPT !.c = "left"]
  <2>1. /\ Opened(a) /\ rd[a].c = "run" /\ rd' = [rd EXCEPT ![a] = y]
        /\ setup' = setup /\ view' = view
    BY <1>8 DEF Leave, Rest
  <2>2. ReaderInv(y)
    BY <1>1, <2>1, LeaveKeeps
  <2> HIDE DEF y
  <2> QED
    BY <1>1, <2>1, <2>2, ReplacedReader
<1>9. ASSUME NEW a, Resume(a)
      PROVE  EInv'
  <2> DEFINE y == Started(rd[a].plan, Drop(rd[a].plan, Consumed(rd[a])), rd[a].got)
  <2>1. Opened(a) /\ rd' = [rd EXCEPT ![a] = y] /\ setup' = setup /\ view' = view
    BY <1>9 DEF Resume, Rest
  <2>2. ReaderInv(y)
    BY <1>1, <2>1, ResumeKeeps
  <2> HIDE DEF y
  <2> QED
    BY <1>1, <2>1, <2>2, ReplacedReader
<1>10. CASE UNCHANGED vars
  <2>1. rd' = rd /\ setup' = setup /\ view' = view
    BY <1>10 DEF vars
  <2>2. ASSUME NEW a \in DOMAIN rd
        PROVE  ReaderInv(rd[a])'
    <3>1. PICK z : z = rd[a]
      OBVIOUS
    <3>2. ReaderInv(z)'
      BY <2>1, <3>1, SetupOnly DEF EInv
    <3> QED
      BY <2>1, <3>1, <3>2
  <2> QED
    BY <2>1, <2>2 DEF EInv
<1>11. AtRest => UNCHANGED vars
  BY DEF AtRest
<1> QED
  BY <1>2, <1>3, <1>4, <1>5, <1>6, <1>7, <1>8, <1>9, <1>10, <1>11 DEF Next, Worker

\* Whatever the readers and their worker threads do, a reader's batches are those the
\* plan still owes it, split between delivered, queued and in hand.
THEOREM InvariantHolds == Spec => []EInv
  BY InitHolds, NextHolds, PTL DEF Spec

\* InOrder, for every number of readers, batch size, queue depth, plan and
\* dataset, and any number of failures and resumed loops: the batches come in the
\* order of the epoch, none skipped, repeated or mixed.
THEOREM BatchesInOrder == Spec => []InOrder
<1>1. EInv => InOrder
  BY DEF EInv, ReaderInv, Delivered, InOrder
<1> QED
  BY <1>1, InvariantHolds, PTL

\* EndsWhole likewise: a loop that ends without an exception got every batch.
THEOREM EpochEndsWhole == Spec => []EndsWhole
<1>1. EInv => EndsWhole
  BY DEF EInv, ReaderInv, Delivered, EndsWhole, Batches
<1> QED
  BY <1>1, InvariantHolds, PTL
-----------------------------------------------------------------------------
(* What the recursive functions of SubsetQuery compute.                      *)

\* A set of naturals has a least element.
LEMMA LeastOf ==
  ASSUME NEW T, T \subseteq Nat, T # {}
  PROVE  \E n \in T : \A m \in T : n <= m
<1>1. PICK x \in T : \A y \in T : ~(<<y, x>> \in OpToRel(<, Nat))
  BY NatLessThanWellFounded, WFMin
<1>2. ASSUME NEW m \in T PROVE x <= m
  <2>1. ~(m < x)
    BY <1>1 DEF OpToRel
  <2> QED
    BY <2>1
<1> QED
  BY <1>2

\* The value of B[f] at i depends on the values of f below i only.
DependsBelow(D, V, B) ==
  /\ \E n \in Nat : D = 1 .. n
  /\ V # {} /\ B \in [[D -> V] -> [D -> V]]
  /\ \A f, g \in [D -> V] : \A i \in D :
       (\A j \in 1 .. i - 1 : f[j] = g[j]) => B[f][i] = B[g][i]

\* Such a step has a fixed point: what a recursive definition over Ast rests on.
LEMMA FixedPoint ==
  ASSUME NEW D, NEW V, NEW B, DependsBelow(D, V, B)
  PROVE  \E f \in [D -> V] : f = B[f]
<1> PICK n \in Nat : D = 1 .. n
  BY DEF DependsBelow
<1> PICK v0 : v0 \in V
  BY DEF DependsBelow
<1> USE DEF DependsBelow
<1> DEFINE Upto(m) == \E f \in [D -> V] : \A i \in 1 .. m : f[i] = B[f][i]
           Bad == {m \in 0 .. n : ~Upto(m)}
<1>1. Bad = {}
  <2> SUFFICES ASSUME Bad # {} PROVE FALSE
    OBVIOUS
  <2>1. Bad \subseteq Nat
    OBVIOUS
  <2> HIDE DEF Bad
  <2>2. PICK m \in Bad : \A k \in Bad : m <= k
    BY <2>1, LeastOf
  <2>3. m \in 0 .. n /\ ~Upto(m) /\ m \in Nat
    BY <2>2 DEF Bad
  <2>4. CASE m = 0
    <3>1. [i \in D |-> v0] \in [D -> V] /\ 1 .. m = {}
      BY <2>4
    <3>2. Upto(m)
      BY <3>1
    <3> QED
      BY <2>3, <3>2
  <2>5. CASE m # 0
    <3>1. m - 1 \in 0 .. n /\ ~(m <= m - 1) /\ m \in D
      BY <2>3, <2>5
    <3>2. Upto(m - 1)
      <4> HIDE DEF Upto
      <4> QED
        BY <2>2, <3>1 DEF Bad
    <3>3. PICK f \in [D -> V] : \A i \in 1 .. m - 1 : f[i] = B[f][i]
      BY <3>2
    <3> DEFINE g == [f EXCEPT ![m] = B[f][m]]
    <3>4. g \in [D -> V] /\ g[m] = B[f][m] /\ \A i \in D : i # m => g[i] = f[i]
      BY <3>1, <3>3
    <3> HIDE DEF g
    <3>5. ASSUME NEW i \in 1 .. m
          PROVE  g[i] = B[g][i]
      <4>1. i \in D
        BY <2>3
      <4>2. \A j \in 1 .. i - 1 : f[j] = g[j]
        BY <2>3, <3>4
      <4>3. B[f][i] = B[g][i]
        BY <3>3, <3>4, <4>1, <4>2
      <4>4. i = m \/ i \in 1 .. m - 1
        BY <2>3
      <4> QED
        BY <3>3, <3>4, <4>1, <4>3, <4>4
    <3> QED
      BY <2>3, <3>4, <3>5
  <2> QED
    BY <2>4, <2>5
<1>2. Upto(n)
  <2> HIDE DEF Upto
  <2>1. n \in 0 .. n
    OBVIOUS
  <2> QED
    BY <1>1, <2>1
<1>3. PICK f \in [D -> V] : \A i \in D : f[i] = B[f][i]
  BY <1>2
<1>4. f = B[f]
  BY <1>3
<1> QED
  BY <1>4

Nodes == DOMAIN Ast

LEMMA NodeFacts ==
  ASSUME NEW i \in Nodes
  PROVE  /\ i \in Nat
         /\ Ast[i].k \in {"and", "or", "not", "const", "truthy", "cmp"}
         /\ Ast[i].k \in {"and", "or"} => /\ Ast[i].a \in Nodes /\ Ast[i].a \in 1 .. i - 1
                                          /\ Ast[i].b \in Nodes /\ Ast[i].b \in 1 .. i - 1
         /\ Ast[i].k = "not" => Ast[i].a \in Nodes /\ Ast[i].a \in 1 .. i - 1
         /\ Ast[i].k = "cmp" => /\ Ast[i].op \in Ops
                                /\ Ast[i].val \in [t : {"bool", "num", "str"}, v : Int]
<1>1. /\ Nodes = 1 .. Len(Ast) /\ Len(Ast) \in Nat
      /\ Ast[i].k \in {"and", "or", "not", "const", "truthy", "cmp"}
      /\ Ast[i].k \in {"and", "or"} => Ast[i].a \in 1 .. i - 1 /\ Ast[i].b \in 1 .. i - 1
      /\ Ast[i].k = "not" => Ast[i].a \in 1 .. i - 1
      /\ Ast[i].k = "cmp" => /\ Ast[i].op \in Ops
                             /\ Ast[i].val \in [t : {"bool", "num", "str"}, v : Int]
  BY QueryAssumption DEF Nodes
<1>2. i \in 1 .. Len(Ast)
  BY <1>1
<1>3. \A j \in 1 .. i - 1 : j \in 1 .. Len(Ast)
  BY <1>1, <1>2
<1> QED
  BY <1>1, <1>2, <1>3

\* A node is true by the metadata as its operands are.
LEMMA EvalFacts ==
  ASSUME NEW meta, NEW i \in Nodes
  PROVE  /\ Eval(i, meta) \in BOOLEAN
         /\ Ast[i].k = "and" => (Eval(i, meta) = (Eval(Ast[i].a, meta) /\ Eval(Ast[i].b, meta)))
         /\ Ast[i].k = "or" => (Eval(i, meta) = (Eval(Ast[i].a, meta) \/ Eval(Ast[i].b, meta)))
         /\ Ast[i].k = "not" => (Eval(i, meta) = ~Eval(Ast[i].a, meta))
         /\ Ast[i].k = "const" => (Eval(i, meta) = (Ast[i].val.v = 1))
         /\ Ast[i].k = "truthy" =>
              (Eval(i, meta) = (Ast[i].col \in DOMAIN meta /\ meta[Ast[i].col] = Value("bool", 1)))
         /\ Ast[i].k = "cmp" =>
              (Eval(i, meta) = (Ast[i].col \in DOMAIN meta /\ Compare(meta[Ast[i].col], Ast[i].op, Ast[i].val)))
<1> DEFINE F(f, j) ==
             LET e == Ast[j]
             IN CASE e.k = "and" -> f[e.a] /\ f[e.b]
                  [] e.k = "or" -> f[e.a] \/ f[e.b]
                  [] e.k = "not" -> ~f[e.a]
                  [] e.k = "const" -> e.val.v = 1
                  [] e.k = "truthy" -> e.col \in DOMAIN meta /\ meta[e.col] = Value("bool", 1)
                  [] e.k = "cmp" -> e.col \in DOMAIN meta /\ Compare(meta[e.col], e.op, e.val)
           Is(f) == f = [j \in DOMAIN Ast |-> F(f, j)]
           eval == CHOOSE f : Is(f)
           V == BOOLEAN
           B == [f \in [Nodes -> V] |-> [j \in Nodes |-> F(f, j)]]
<1>1. \A e : Eval(e, meta) = eval[e]
  BY DEF Eval
<1>2. Nodes = 1 .. Len(Ast) /\ Len(Ast) \in Nat
  BY QueryAssumption DEF Nodes
<1>3. ASSUME NEW f, NEW j \in Nodes
      PROVE  F(f, j) \in BOOLEAN
  BY NodeFacts
<1>4. ASSUME NEW f, NEW g, NEW j \in Nodes, \A k \in 1 .. j - 1 : f[k] = g[k]
      PROVE  F(f, j) = F(g, j)
  <2>1. /\ Ast[j].k \in {"and", "or"} => f[Ast[j].a] = g[Ast[j].a] /\ f[Ast[j].b] = g[Ast[j].b]
        /\ Ast[j].k = "not" => f[Ast[j].a] = g[Ast[j].a]
    BY <1>4, NodeFacts
  <2> QED
    BY <2>1, NodeFacts
<1> HIDE DEF F, V
<1>5. B \in [[Nodes -> V] -> [Nodes -> V]]
  BY <1>3 DEF V
<1>6. \A f, g \in [Nodes -> V] : \A j \in Nodes :
        (\A k \in 1 .. j - 1 : f[k] = g[k]) => B[f][j] = B[g][j]
  BY <1>4
<1>7. \E f \in [Nodes -> V] : f = B[f]
  <2> HIDE DEF B
  <2>1. V # {}
    BY DEF V
  <2>2. DependsBelow(Nodes, V, B)
    BY <1>2, <1>5, <1>6, <2>1 DEF DependsBelow
  <2> QED
    BY <2>2, FixedPoint
<1>8. \E f : Is(f)
  BY <1>7 DEF Nodes
<1>9. Is(eval)
  BY <1>8
<1> HIDE DEF eval
<1>10. eval[i] = F(eval, i)
  BY <1>9 DEF Nodes
<1> QED
  BY <1>1, <1>3, <1>10, NodeFacts DEF F

\* The leaves of a node are those of its operands.
LEMMA LeavesFacts ==
  ASSUME NEW i \in Nodes
  PROVE  /\ Ast[i].k \in {"and", "or"} => Leaves(i) = Leaves(Ast[i].a) \cup Leaves(Ast[i].b)
         /\ Ast[i].k = "not" => Leaves(i) = Leaves(Ast[i].a)
         /\ Ast[i].k \in {"const", "truthy", "cmp"} => Leaves(i) = {i}
<1> DEFINE F(f, j) ==
             CASE Ast[j].k \in {"and", "or"} -> f[Ast[j].a] \cup f[Ast[j].b]
               [] Ast[j].k = "not" -> f[Ast[j].a]
               [] OTHER -> {j}
           Is(f) == f = [j \in DOMAIN Ast |-> F(f, j)]
           fun == CHOOSE f : Is(f)
           V == SUBSET Nodes
           B == [f \in [Nodes -> V] |-> [j \in Nodes |-> F(f, j)]]
<1>1. \A e : Leaves(e) = fun[e]
  BY DEF Leaves
<1>2. Nodes = 1 .. Len(Ast) /\ Len(Ast) \in Nat
  BY QueryAssumption DEF Nodes
<1>3. ASSUME NEW f \in [Nodes -> V], NEW j \in Nodes
      PROVE  F(f, j) \in V
  BY NodeFacts
<1>4. ASSUME NEW f, NEW g, NEW j \in Nodes, \A k \in 1 .. j - 1 : f[k] = g[k]
      PROVE  F(f, j) = F(g, j)
  <2>1. /\ Ast[j].k \in {"and", "or"} => f[Ast[j].a] = g[Ast[j].a] /\ f[Ast[j].b] = g[Ast[j].b]
        /\ Ast[j].k = "not" => f[Ast[j].a] = g[Ast[j].a]
    BY <1>4, NodeFacts
  <2> QED
    BY <2>1, NodeFacts
<1> HIDE DEF F, V
<1>5. B \in [[Nodes -> V] -> [Nodes -> V]]
  BY <1>3
<1>6. \A f, g \in [Nodes -> V] : \A j \in Nodes :
        (\A k \in 1 .. j - 1 : f[k] = g[k]) => B[f][j] = B[g][j]
  BY <1>4
<1>7. \E f \in [Nodes -> V] : f = B[f]
  <2> HIDE DEF B
  <2>1. V # {}
    BY DEF V
  <2>2. DependsBelow(Nodes, V, B)
    BY <1>2, <1>5, <1>6, <2>1 DEF DependsBelow
  <2> QED
    BY <2>2, FixedPoint
<1>8. \E f : Is(f)
  BY <1>7 DEF Nodes
<1>9. Is(fun)
  BY <1>8
<1> HIDE DEF fun
<1>10. fun[i] = F(fun, i)
  BY <1>9 DEF Nodes
<1> QED
  BY <1>1, <1>10, NodeFacts DEF F

\* A group of rows can match a node as it can match its operands.
LEMMA CanFacts ==
  ASSUME NEW rows, NEW at, NEW i \in Nodes
  PROVE  /\ Ast[i].k = "and" =>
              (CanMatch(i, rows, at) = (CanMatch(Ast[i].a, rows, at) /\ CanMatch(Ast[i].b, rows, at)))
         /\ Ast[i].k = "or" =>
              (CanMatch(i, rows, at) = (CanMatch(Ast[i].a, rows, at) \/ CanMatch(Ast[i].b, rows, at)))
         /\ Ast[i].k \in {"not", "truthy"} => (CanMatch(i, rows, at) = TRUE)
         /\ Ast[i].k = "const" => (CanMatch(i, rows, at) = (Ast[i].val.v = 1))
         /\ Ast[i].k = "cmp" =>
              (CanMatch(i, rows, at) =
                 (Stats(rows, at, Ast[i].col).t = Ast[i].val.t =>
                    OrdCanMatch(Stats(rows, at, Ast[i].col).min, Stats(rows, at, Ast[i].col).max,
                                Ast[i].op, Ast[i].val.v)))
<1> DEFINE F(f, j) ==
             LET e == Ast[j]
             IN CASE e.k = "and" -> f[e.a] /\ f[e.b]
                  [] e.k = "or" -> f[e.a] \/ f[e.b]
                  [] e.k \in {"not", "truthy"} -> TRUE
                  [] e.k = "const" -> e.val.v = 1
                  [] e.k = "cmp" -> LET s == Stats(rows, at, e.col)
                                    IN s.t = e.val.t => OrdCanMatch(s.min, s.max, e.op, e.val.v)
           Is(f) == f = [j \in DOMAIN Ast |-> F(f, j)]
           fun == CHOOSE f : Is(f)
           V == BOOLEAN
           B == [f \in [Nodes -> V] |-> [j \in Nodes |-> F(f, j)]]
<1>1. \A e : CanMatch(e, rows, at) = fun[e]
  BY DEF CanMatch
<1>2. Nodes = 1 .. Len(Ast) /\ Len(Ast) \in Nat
  BY QueryAssumption DEF Nodes
<1>3. ASSUME NEW f \in [Nodes -> V], NEW j \in Nodes
      PROVE  F(f, j) \in V
  BY NodeFacts
<1>4. ASSUME NEW f, NEW g, NEW j \in Nodes, \A k \in 1 .. j - 1 : f[k] = g[k]
      PROVE  F(f, j) = F(g, j)
  <2>1. /\ Ast[j].k \in {"and", "or"} => f[Ast[j].a] = g[Ast[j].a] /\ f[Ast[j].b] = g[Ast[j].b]
        /\ Ast[j].k = "not" => f[Ast[j].a] = g[Ast[j].a]
    BY <1>4, NodeFacts
  <2> QED
    BY <2>1, NodeFacts
<1> HIDE DEF F, V
<1>5. B \in [[Nodes -> V] -> [Nodes -> V]]
  BY <1>3
<1>6. \A f, g \in [Nodes -> V] : \A j \in Nodes :
        (\A k \in 1 .. j - 1 : f[k] = g[k]) => B[f][j] = B[g][j]
  BY <1>4
<1>7. \E f \in [Nodes -> V] : f = B[f]
  <2> HIDE DEF B
  <2>1. V # {}
    BY DEF V
  <2>2. DependsBelow(Nodes, V, B)
    BY <1>2, <1>5, <1>6, <2>1 DEF DependsBelow
  <2> QED
    BY <2>2, FixedPoint
<1>8. \E f : Is(f)
  BY <1>7 DEF Nodes
<1>9. Is(fun)
  BY <1>8
<1> HIDE DEF fun
<1>10. fun[i] = F(fun, i)
  BY <1>9 DEF Nodes
<1> QED
  BY <1>1, <1>10, NodeFacts DEF F

\* Induction over Ast: operands come before their operators.
LEMMA NodeInduction ==
  ASSUME NEW S, S \subseteq Nodes, \A i \in Nodes : (\A j \in Nodes : j < i => j \in S) => i \in S
  PROVE  S = Nodes
<1> SUFFICES ASSUME Nodes \ S # {} PROVE FALSE
  OBVIOUS
<1>1. Nodes \subseteq Nat
  BY QueryAssumption DEF Nodes
<1>2. PICK i \in Nodes \ S : \A m \in Nodes \ S : i <= m
  BY <1>1, LeastOf
<1>3. \A j \in Nodes : j < i => j \in S
  BY <1>1, <1>2
<1> QED
  BY <1>2, <1>3

\* Agreement of two metadata on a set of columns.
AgreeOn(C, m1, m2) ==
  \A c \in C : (c \in DOMAIN m1 <=> c \in DOMAIN m2) /\ (c \in DOMAIN m1 => m1[c] = m2[c])

LEMMA ColumnsFacts ==
  ASSUME NEW i \in Nodes
  PROVE  /\ Ast[i].k \in {"and", "or"} =>
              /\ Columns(Ast[i].a) \subseteq Columns(i) /\ Columns(Ast[i].b) \subseteq Columns(i)
              /\ Leaves(Ast[i].a) \subseteq Leaves(i) /\ Leaves(Ast[i].b) \subseteq Leaves(i)
         /\ Ast[i].k = "not" => Columns(Ast[i].a) \subseteq Columns(i) /\ Leaves(Ast[i].a) \subseteq Leaves(i)
         /\ Ast[i].k \in {"truthy", "cmp"} => Ast[i].col \in Columns(i) /\ i \in Leaves(i)
<1>1. CASE Ast[i].k \in {"and", "or"}
  <2>1. Leaves(i) = Leaves(Ast[i].a) \cup Leaves(Ast[i].b)
    BY <1>1, LeavesFacts
  <2> QED
    BY <1>1, <2>1 DEF Columns
<1>2. CASE Ast[i].k = "not"
  BY <1>2, LeavesFacts DEF Columns
<1>3. CASE Ast[i].k \in {"const", "truthy", "cmp"}
  <2>1. Leaves(i) = {i}
    BY <1>3, LeavesFacts
  <2> QED
    BY <1>3, <2>1 DEF Columns
<1> QED
  BY <1>1, <1>2, <1>3, NodeFacts

\* The columns a predicate names are all it depends on.
LEMMA EvalSame ==
  ASSUME NEW m1, NEW m2, NEW e \in Nodes, AgreeOn(Columns(e), m1, m2)
  PROVE  Eval(e, m1) = Eval(e, m2)
<1> DEFINE S == {i \in Nodes : AgreeOn(Columns(i), m1, m2) => Eval(i, m1) = Eval(i, m2)}
<1>1. ASSUME NEW i \in Nodes, \A j \in Nodes : j < i => j \in S, AgreeOn(Columns(i), m1, m2)
      PROVE  Eval(i, m1) = Eval(i, m2)
  <2>1. /\ i \in Nat
        /\ \A j \in 1 .. i - 1 : j < i
    BY NodeFacts
  <2>2. \A j \in Nodes : j < i /\ Columns(j) \subseteq Columns(i) => Eval(j, m1) = Eval(j, m2)
    BY <1>1 DEF AgreeOn
  <2>3. CASE Ast[i].k \in {"and", "or"}
    <3>1. Eval(Ast[i].a, m1) = Eval(Ast[i].a, m2) /\ Eval(Ast[i].b, m1) = Eval(Ast[i].b, m2)
      BY <2>1, <2>2, <2>3, NodeFacts, ColumnsFacts
    <3>2. CASE Ast[i].k = "and"
      BY <3>1, <3>2, EvalFacts
    <3>3. CASE Ast[i].k = "or"
      BY <3>1, <3>3, EvalFacts
    <3> QED
      BY <2>3, <3>2, <3>3
  <2>4. CASE Ast[i].k = "not"
    <3>1. Eval(Ast[i].a, m1) = Eval(Ast[i].a, m2)
      BY <2>1, <2>2, <2>4, NodeFacts, ColumnsFacts
    <3> QED
      BY <2>4, <3>1, EvalFacts
  <2>5. CASE Ast[i].k = "const"
    BY <2>5, EvalFacts
  <2>6. CASE Ast[i].k \in {"truthy", "cmp"}
    <3>1. /\ Ast[i].col \in DOMAIN m1 <=> Ast[i].col \in DOMAIN m2
          /\ Ast[i].col \in DOMAIN m1 => m1[Ast[i].col] = m2[Ast[i].col]
      BY <1>1, <2>6, ColumnsFacts DEF AgreeOn
    <3> QED
      BY <2>6, <3>1, EvalFacts
  <2> QED
    BY <2>3, <2>4, <2>5, <2>6, NodeFacts
<1>2. S \subseteq Nodes /\ \A i \in Nodes : (\A j \in Nodes : j < i => j \in S) => i \in S
  BY <1>1
<1>3. S = Nodes
  <2> HIDE DEF S
  <2> QED
    BY <1>2, NodeInduction
<1> QED
  BY <1>3

\* Of finitely many integers one is the smallest and one the largest.
LEMMA SmallestOf ==
  ASSUME NEW n \in Nat, NEW T, T \subseteq 1 .. n, T # {}, NEW f, \A i \in T : f[i] \in Int
  PROVE  \E a \in T : \A b \in T : f[a] <= f[b]
<1> DEFINE Has(U) == \E a \in U : \A b \in U : f[a] <= f[b]
           Bad == {m \in 0 .. n : \E U : U \subseteq T /\ U \subseteq 1 .. m /\ U # {} /\ ~Has(U)}
<1>1. Bad = {}
  <2> SUFFICES ASSUME Bad # {} PROVE FALSE
    OBVIOUS
  <2>1. Bad \subseteq Nat
    OBVIOUS
  <2> HIDE DEF Bad
  <2>2. PICK m \in Bad : \A k \in Bad : m <= k
    BY <2>1, LeastOf
  <2>3. PICK U : U \subseteq T /\ U \subseteq 1 .. m /\ U # {} /\ ~Has(U)
    BY <2>2 DEF Bad
  <2>4. m \in 1 .. n /\ m - 1 \in 0 .. n /\ m - 1 \notin Bad
    <3> HIDE DEF Has
    <3>1. m \in 0 .. n
      BY <2>2 DEF Bad
    <3>2. m # 0
      <4>1. 1 .. 0 = {}
        OBVIOUS
      <4> QED
        BY <2>3, <4>1
    <3>3. m \in 1 .. n /\ m - 1 \in 0 .. n /\ ~(m <= m - 1)
      BY <3>1, <3>2
    <3> QED
      BY <2>2, <3>3
  <2>5. \A W : W \subseteq T /\ W \subseteq 1 .. m - 1 /\ W # {} => Has(W)
    <3> HIDE DEF Has
    <3> QED
      BY <2>4 DEF Bad
  <2>6. m \in U
    <3>1. m \notin U => U \subseteq 1 .. m - 1
      BY <2>3, <2>4
    <3> HIDE DEF Has
    <3> QED
      BY <2>3, <2>5, <3>1
  <2>7. CASE U = {m}
    <3>1. Has(U)
      BY <2>3, <2>6, <2>7
    <3> QED
      BY <2>3, <3>1
  <2>8. CASE U # {m}
    <3> DEFINE W == U \ {m}
    <3>1. W \subseteq T /\ W \subseteq 1 .. m - 1 /\ W # {}
      BY <2>3, <2>4, <2>6, <2>8
    <3>2. PICK a \in W : \A b \in W : f[a] <= f[b]
      BY <2>5, <3>1
    <3>3. f[a] \in Int /\ f[m] \in Int /\ \A b \in U : f[b] \in Int
      BY <2>3, <2>6, <3>2
    <3>4. CASE f[a] <= f[m]
      <4>1. \A b \in U : f[a] <= f[b]
        BY <3>2, <3>4
      <4> QED
        BY <2>3, <3>2, <4>1
    <3>5. CASE f[m] <= f[a]
      <4>1. \A b \in U : f[m] <= f[b]
        BY <3>2, <3>3, <3>5
      <4> QED
        BY <2>3, <2>6, <4>1
    <3> QED
      BY <3>3, <3>4, <3>5
  <2> QED
    BY <2>7, <2>8
<1>2. n \notin Bad /\ n \in 0 .. n
  <2> HIDE DEF Bad
  <2> QED
    BY <1>1
<1>3. Has(T)
  <2> HIDE DEF Has
  <2> QED
    BY <1>2
<1> QED
  BY <1>3

LEMMA LargestOf ==
  ASSUME NEW n \in Nat, NEW T, T \subseteq 1 .. n, T # {}, NEW f, \A i \in T : f[i] \in Int
  PROVE  \E a \in T : \A b \in T : f[a] >= f[b]
<1> DEFINE g == [i \in T |-> -f[i]]
<1>1. \A i \in T : g[i] \in Int /\ g[i] = -f[i]
  OBVIOUS
<1> HIDE DEF g
<1>2. PICK a \in T : \A b \in T : g[a] <= g[b]
  BY <1>1, SmallestOf
<1> QED
  BY <1>1, <1>2
-----------------------------------------------------------------------------
(* Pruning and projection lose nothing.                                      *)

\* The cells of a metadata column have one type.
LEMMA CellFacts ==
  ASSUME NEW rows, RowsOK(rows), NEW c, c \notin DOMAIN OffsetOf
  PROVE  LET kind == InferKind(rows, c)
         IN /\ kind \in {"bool", "num", "str"}
            /\ \A i \in 1 .. Len(rows) :
                 \/ Cell(rows, c, i) = Absent
                 \/ /\ Cell(rows, c, i) \in [t : {"bool", "num", "str"}, v : Int]
                    /\ Cell(rows, c, i).t = kind
<1> DEFINE kind == InferKind(rows, c)
<1>1. kind \in {"bool", "num", "str"}
  BY DEF InferKind
<1>2. ASSUME NEW i \in 1 .. Len(rows), Cell(rows, c, i) # Absent
      PROVE  /\ Cell(rows, c, i) \in [t : {"bool", "num", "str"}, v : Int]
             /\ Cell(rows, c, i).t = kind
  <2> DEFINE x == Written(rows[i], c)
  <2>1. x # Absent
    BY <1>2 DEF Cell
  <2>2. x \in [t : {"bool", "num", "str", "list"}, v : Int] /\ x \in Values(rows, c)
    BY <2>1 DEF Written, RowsOK, RowOK, Values
  <2>3. Cell(rows, c, i) = IF kind = "str" THEN Value("str", TextOf(x)) ELSE x
    BY <2>1 DEF Cell
  <2>4. CASE kind = "str"
    <3>1. TextOf(x) \in Int
      <4> HIDE DEF x
      <4>1. x.v \in Int /\ x.t \in {"bool", "num", "str", "list"}
        BY <2>2
      <4> QED
        BY <4>1 DEF TextOf
    <3> QED
      BY <2>3, <2>4, <3>1 DEF Value
  <2>5. CASE kind # "str"
    <3>1. \A y \in Values(rows, c) : y.t = kind
      BY <2>5 DEF InferKind
    <3> QED
      BY <1>1, <2>2, <2>3, <2>5, <3>1
  <2> QED
    BY <2>4, <2>5
<1> QED
  BY <1>1, <1>2

\* The statistics of a group bound the cells of a column of numbers or texts; of
\* others there are none.
LEMMA StatsFacts ==
  ASSUME NEW rows, RowsOK(rows), NEW c, c \notin DOMAIN OffsetOf,
         NEW at, at \subseteq 1 .. Len(rows)
  PROVE  LET s == Stats(rows, at, c)
         IN s.t # "unknown" =>
              /\ s.t \in {"num", "str"} /\ s.min \in Int /\ s.max \in Int
              /\ \A i \in at : Cell(rows, c, i) # Absent =>
                   /\ Cell(rows, c, i).t = s.t
                   /\ s.min <= Cell(rows, c, i).v /\ Cell(rows, c, i).v <= s.max
<1> DEFINE s == Stats(rows, at, c)
           cell(i) == Cell(rows, c, i)
           full == {i \in at : cell(i) # Absent}
           cells == {cell(i) : i \in at} \ {Absent}
           vs == {x.v : x \in cells}
           kind == InferKind(rows, c)
<1>1. kind \in {"bool", "num", "str"}
      /\ \A i \in full : cell(i) \in [t : {"bool", "num", "str"}, v : Int] /\ cell(i).t = kind
  BY CellFacts
<1>2. s = IF \E x \in cells : x.t \in {"num", "str"}
          THEN [t |-> (CHOOSE x \in cells : TRUE).t,
                min |-> CHOOSE v \in vs : \A u \in vs : v <= u,
                max |-> CHOOSE v \in vs : \A u \in vs : v >= u]
          ELSE [t |-> "unknown", min |-> 0, max |-> 0]
  BY DEF Stats
<1>3. Len(rows) \in Nat
  BY DEF RowsOK
<1> HIDE DEF s, kind
<1>4. SUFFICES ASSUME s.t # "unknown"
               PROVE  /\ s.t \in {"num", "str"} /\ s.min \in Int /\ s.max \in Int
                      /\ \A i \in full : /\ cell(i).t = s.t
                                         /\ s.min <= cell(i).v /\ cell(i).v <= s.max
  BY DEF s
<1>5. \E x \in cells : x.t \in {"num", "str"}
  BY <1>2, <1>4
<1>6. /\ s.t = (CHOOSE x \in cells : TRUE).t
      /\ s.min = CHOOSE v \in vs : \A u \in vs : v <= u
      /\ s.max = CHOOSE v \in vs : \A u \in vs : v >= u
  BY <1>2, <1>5
<1>7. cells = {cell(i) : i \in full} /\ cells # {}
  BY <1>5
<1>8. vs = {cell(i).v : i \in full} /\ full # {} /\ \A v \in vs : v \in Int
  BY <1>1, <1>7
<1>9. \A x \in cells : x.t = kind
  BY <1>1, <1>7
<1> HIDE DEF cells, vs
<1>10. s.t = kind /\ kind \in {"num", "str"}
  BY <1>5, <1>6, <1>7, <1>9
<1> DEFINE f == [i \in full |-> cell(i).v]
<1>11. full \subseteq 1 .. Len(rows) /\ \A i \in full : f[i] \in Int /\ f[i] = cell(i).v
  BY <1>1
<1> HIDE DEF full, f
<1>12. PICK a \in full : \A b \in full : f[a] <= f[b]
  BY <1>3, <1>8, <1>11, SmallestOf
<1>13. PICK z \in full : \A b \in full : f[z] >= f[b]
  BY <1>3, <1>8, <1>11, LargestOf
<1>14. s.min \in vs /\ \A u \in vs : s.min <= u
  <2>1. f[a] \in vs /\ \A u \in vs : f[a] <= u
    BY <1>8, <1>11, <1>12
  <2> QED
    BY <1>6, <2>1
<1>15. s.max \in vs /\ \A u \in vs : s.max >= u
  <2>1. f[z] \in vs /\ \A u \in vs : f[z] >= u
    BY <1>8, <1>11, <1>13
  <2> QED
    BY <1>6, <2>1
<1>16. \A i \in full : cell(i).v \in vs
  BY <1>8
<1> QED
  BY <1>1, <1>8, <1>10, <1>14, <1>15, <1>16

\* What Comparable asks of one shard's rows and one leaf.
PlainLeaf(i) == Ast[i].k = "cmp" /\ Ast[i].op = "!=" /\ Ast[i].val.t = "str" => ~Structured(Ast[i].val.v)
PlainColumn(rows, c) == c \notin DOMAIN OffsetOf /\ (c \in DOMAIN FlagOf => c \notin Keys(rows))

\* A column of the metadata: a flag, or a cell of the shard.
LEMMA MetaFacts ==
  ASSUME NEW rows, NEW want, NEW i \in 1 .. Len(rows), NEW c, PlainColumn(rows, c),
         (IF c \in DOMAIN FlagOf THEN FlagOf[c] ELSE c) \in want \/ (c \notin DOMAIN FlagOf /\ c \notin Keys(rows))
  PROVE  LET m == ReadMeta(rows, want, i)
         IN /\ c \in DOMAIN FlagOf => /\ c \in DOMAIN m <=> FlagOf[c] \in rows[i].has
                                      /\ c \in DOMAIN m => m[c] = Value("bool", 1)
                                      /\ \A j \in 1 .. Len(rows) : Cell(rows, c, j) = Absent
            /\ c \notin DOMAIN FlagOf => /\ c \in DOMAIN m <=> c \in Keys(rows) /\ Cell(rows, c, i) # Absent
                                         /\ c \in DOMAIN m => m[c] = Decoded(Cell(rows, c, i))
<1> DEFINE m == ReadMeta(rows, want, i)
           flags == {f \in DOMAIN FlagOf : FlagOf[f] \in rows[i].has /\ FlagOf[f] \in want}
           offs == {o \in DOMAIN OffsetOf : OffsetOf[o] \notin want}
           cols == {d \in (Keys(rows) \cup offs) \cap want : Cell(rows, d, i) # Absent}
<1>1. m = [d \in cols \cup flags |-> IF d \in flags THEN Value("bool", 1) ELSE Decoded(Cell(rows, d, i))]
  BY DEF ReadMeta
<1> HIDE DEF m
<1>2. CASE c \in DOMAIN FlagOf
  <2>1. c \notin cols /\ (c \in flags <=> FlagOf[c] \in rows[i].has)
    BY <1>2 DEF PlainColumn
  <2>2. ASSUME NEW j \in 1 .. Len(rows)
        PROVE  Cell(rows, c, j) = Absent
    <3>1. c \notin DOMAIN rows[j].meta
      BY <1>2 DEF PlainColumn, Keys
    <3> QED
      BY <3>1 DEF PlainColumn, Cell, Written
  <2> HIDE DEF cols, flags
  <2>3. c \in DOMAIN m <=> FlagOf[c] \in rows[i].has
    BY <1>1, <2>1
  <2>4. c \in DOMAIN m => m[c] = Value("bool", 1)
    BY <1>1, <2>1, <2>3
  <2> QED
    BY <1>2, <2>2, <2>3, <2>4 DEF m
<1>3. CASE c \notin DOMAIN FlagOf
  <2>1. c \notin flags /\ (c \in cols <=> c \in Keys(rows) /\ Cell(rows, c, i) # Absent)
    BY <1>3 DEF PlainColumn
  <2> HIDE DEF cols, flags
  <2>2. c \in DOMAIN m <=> c \in Keys(rows) /\ Cell(rows, c, i) # Absent
    BY <1>1, <2>1
  <2>3. c \in DOMAIN m => m[c] = Decoded(Cell(rows, c, i))
    BY <1>1, <2>1
  <2> QED
    BY <1>3, <2>2, <2>3 DEF m
<1> QED
  BY <1>2, <1>3

LEMMA WithinBounds ==
  ASSUME NEW min \in Int, NEW max \in Int, NEW u \in Int, NEW v \in Int, NEW op \in Ops,
         min <= u, u <= max, CmpNum(u, op, v)
  PROVE  OrdCanMatch(min, max, op, v)
<1>1. CASE op = "="
  BY <1>1 DEF CmpNum, OrdCanMatch
<1>2. CASE op = "!="
  BY <1>2 DEF CmpNum, OrdCanMatch
<1>3. CASE op = "<"
  BY <1>3 DEF CmpNum, OrdCanMatch
<1>4. CASE op = "<="
  BY <1>4 DEF CmpNum, OrdCanMatch
<1>5. CASE op = ">"
  BY <1>5 DEF CmpNum, OrdCanMatch
<1>6. CASE op = ">="
  BY <1>6 DEF CmpNum, OrdCanMatch
<1> QED
  BY <1>1, <1>2, <1>3, <1>4, <1>5, <1>6 DEF Ops

\* A comparison that holds of a row holds of a value within its group's bounds.
LEMMA LeafCanMatch ==
  ASSUME NEW rows, RowsOK(rows), NEW at, at \subseteq 1 .. Len(rows), NEW i \in at,
         NEW e \in Nodes, Ast[e].k = "cmp", PlainLeaf(e), PlainColumn(rows, Ast[e].col),
         Eval(e, ReadMeta(rows, AllColumns(rows), i))
  PROVE  CanMatch(e, rows, at)
<1> DEFINE c == Ast[e].col
           op == Ast[e].op
           val == Ast[e].val
           s == Stats(rows, at, c)
           cell == Cell(rows, c, i)
           m == ReadMeta(rows, AllColumns(rows), i)
<1>1. CanMatch(e, rows, at) = (s.t = val.t => OrdCanMatch(s.min, s.max, op, val.v))
  BY CanFacts
<1>2. c \in DOMAIN m /\ Compare(m[c], op, val)
  BY EvalFacts
<1>3. op \in Ops /\ val \in [t : {"bool", "num", "str"}, v : Int]
  BY NodeFacts
<1>4. (op = "!=" /\ val.t = "str") => ~Structured(val.v)
  BY DEF PlainLeaf
<1>5. c \notin DOMAIN OffsetOf
  BY DEF PlainColumn
<1>6. i \in 1 .. Len(rows)
  OBVIOUS
<1>7. /\ c \in DOMAIN FlagOf => \A j \in 1 .. Len(rows) : Cell(rows, c, j) = Absent
      /\ c \notin DOMAIN FlagOf => cell # Absent /\ m[c] = Decoded(cell)
  <2>1. (IF c \in DOMAIN FlagOf THEN FlagOf[c] ELSE c) \in AllColumns(rows)
          \/ (c \notin DOMAIN FlagOf /\ c \notin Keys(rows))
    BY DEF AllColumns
  <2> HIDE DEF c, m
  <2> QED
    BY <1>2, <1>6, <2>1, MetaFacts DEF m, c
<1> HIDE DEF c, op, val, s, cell, m
<1>8. SUFFICES ASSUME s.t = val.t
               PROVE  OrdCanMatch(s.min, s.max, op, val.v)
  BY <1>1
<1>9. s.t # "unknown"
  BY <1>3, <1>8
<1>10. /\ s.t \in {"num", "str"} /\ s.min \in Int /\ s.max \in Int
       /\ \A j \in at : Cell(rows, c, j) # Absent =>
            /\ Cell(rows, c, j).t = s.t
            /\ s.min <= Cell(rows, c, j).v /\ Cell(rows, c, j).v <= s.max
  BY <1>5, <1>9, StatsFacts DEF s
<1>11. c \notin DOMAIN FlagOf
  <2>1. ASSUME c \in DOMAIN FlagOf PROVE FALSE
    <3>1. {Cell(rows, c, j) : j \in at} \ {Absent} = {}
      BY <1>7, <2>1
    <3>2. s = [t |-> "unknown", min |-> 0, max |-> 0]
      BY <3>1 DEF s, Stats
    <3> QED
      BY <1>9, <3>2
  <2> QED
    BY <2>1
<1>12. /\ m[c] = Decoded(cell) /\ cell.t = s.t
       /\ s.min <= cell.v /\ cell.v <= s.max
       /\ cell \in [t : {"bool", "num", "str"}, v : Int]
  BY <1>5, <1>6, <1>7, <1>10, <1>11, CellFacts DEF cell
<1>13. CASE val.t = "num"
  <2>1. m[c] = cell /\ cell.t = "num"
    BY <1>8, <1>12, <1>13 DEF Decoded
  <2>2. CmpNum(cell.v, op, val.v)
    BY <1>2, <1>13, <2>1 DEF Compare
  <2> QED
    BY <1>3, <1>10, <1>12, <2>2, WithinBounds
<1>14. CASE val.t = "str"
  <2>1. cell.t = "str" /\ cell.v \in Int
    BY <1>8, <1>12, <1>14
  <2>2. (op = "=" /\ Decoded(cell) = val) \/ (op = "!=" /\ Decoded(cell) # val)
    BY <1>2, <1>12, <1>14 DEF Compare
  <2>3. CASE Structured(cell.v)
    <3>1. Decoded(cell).t = "list"
      BY <2>1, <2>3 DEF Decoded, Value
    <3>2. op = "!=" /\ cell.v # val.v
      BY <1>4, <1>14, <2>2, <2>3, <3>1
    <3> QED
      BY <1>3, <1>10, <1>12, <3>2 DEF OrdCanMatch
  <2>4. CASE ~Structured(cell.v)
    <3>1. Decoded(cell) = cell
      BY <2>4 DEF Decoded
    <3>2. (op = "=" /\ cell.v = val.v) \/ (op = "!=" /\ cell.v # val.v)
      BY <1>3, <1>12, <1>14, <2>1, <2>2, <3>1
    <3>3. CmpNum(cell.v, op, val.v)
      BY <3>2 DEF CmpNum
    <3> QED
      BY <1>3, <1>10, <1>12, <3>3, WithinBounds
  <2> QED
    BY <2>3, <2>4
<1> QED
  BY <1>3, <1>8, <1>10, <1>13, <1>14

\* Row-group pruning is sound: a group with a row that satisfies the predicate is read.
THEOREM PruningSound ==
  ASSUME NEW rows, RowsOK(rows), NEW at, at \subseteq 1 .. Len(rows), NEW i \in at,
         NEW expr \in Nodes,
         \A j \in Leaves(expr) : PlainLeaf(j), \A c \in Columns(expr) : PlainColumn(rows, c),
         Eval(expr, ReadMeta(rows, AllColumns(rows), i))
  PROVE  CanMatch(expr, rows, at)
<1> DEFINE m == ReadMeta(rows, AllColumns(rows), i)
           Plain(e) == /\ \A j \in Leaves(e) : PlainLeaf(j)
                       /\ \A c \in Columns(e) : PlainColumn(rows, c)
           S == {e \in Nodes : Plain(e) /\ Eval(e, m) => CanMatch(e, rows, at)}
<1>1. ASSUME NEW e \in Nodes, \A j \in Nodes : j < e => j \in S, Plain(e), Eval(e, m)
      PROVE  CanMatch(e, rows, at)
  <2>1. e \in Nat /\ \A j \in 1 .. e - 1 : j < e
    BY NodeFacts
  <2>2. \A j \in Nodes : /\ j < e /\ Columns(j) \subseteq Columns(e) /\ Leaves(j) \subseteq Leaves(e)
                         /\ Eval(j, m)
                         => CanMatch(j, rows, at)
    BY <1>1
  <2> HIDE DEF m
  <2>3. CASE Ast[e].k = "and"
    <3>1. Eval(Ast[e].a, m) /\ Eval(Ast[e].b, m)
      BY <1>1, <2>3, EvalFacts
    <3>2. CanMatch(Ast[e].a, rows, at) /\ CanMatch(Ast[e].b, rows, at)
      BY <2>1, <2>2, <2>3, <3>1, NodeFacts, ColumnsFacts
    <3> QED
      BY <2>3, <3>2, CanFacts
  <2>4. CASE Ast[e].k = "or"
    <3>1. Eval(Ast[e].a, m) \/ Eval(Ast[e].b, m)
      BY <1>1, <2>4, EvalFacts
    <3>2. CanMatch(Ast[e].a, rows, at) \/ CanMatch(Ast[e].b, rows, at)
      BY <2>1, <2>2, <2>4, <3>1, NodeFacts, ColumnsFacts
    <3> QED
      BY <2>4, <3>2, CanFacts
  <2>5. CASE Ast[e].k \in {"not", "truthy"}
    BY <2>5, CanFacts
  <2>6. CASE Ast[e].k = "const"
    BY <1>1, <2>6, EvalFacts, CanFacts
  <2>7. CASE Ast[e].k = "cmp"
    <3>1. PlainLeaf(e) /\ PlainColumn(rows, Ast[e].col)
      BY <1>1, <2>7, ColumnsFacts
    <3> QED
      BY <1>1, <2>7, <3>1, LeafCanMatch DEF m
  <2> QED
    BY <2>3, <2>4, <2>5, <2>6, <2>7, NodeFacts
<1>2. S \subseteq Nodes /\ \A e \in Nodes : (\A j \in Nodes : j < e => j \in S) => e \in S
  BY <1>1
<1>3. S = Nodes
  <2> HIDE DEF S
  <2> QED
    BY <1>2, NodeInduction
<1> QED
  BY <1>3

\* The projected read of a group that can match and the whole read agree.
LEMMA ShardSame ==
  ASSUME NEW rows, RowsOK(rows), NEW expr \in Nodes, NEW i \in 1 .. Len(rows),
         \A j \in Leaves(expr) : PlainLeaf(j), \A c \in Columns(expr) : PlainColumn(rows, c)
  PROVE  i \in SubsetShard(rows, expr) <=> Eval(expr, ReadMeta(rows, AllColumns(rows), i))
<1> DEFINE m1 == ReadMeta(rows, Want(expr), i)
           m2 == ReadMeta(rows, AllColumns(rows), i)
           asks(c, want) == (IF c \in DOMAIN FlagOf THEN FlagOf[c] ELSE c) \in want
                              \/ (c \notin DOMAIN FlagOf /\ c \notin Keys(rows))
<1>1. ASSUME NEW c \in Columns(expr)
      PROVE  (c \in DOMAIN m1 <=> c \in DOMAIN m2) /\ (c \in DOMAIN m1 => m1[c] = m2[c])
  <2>1. asks(c, Want(expr)) /\ asks(c, AllColumns(rows))
    BY DEF Want, AllColumns
  <2>2. PlainColumn(rows, c)
    OBVIOUS
  <2>3. CASE c \in DOMAIN FlagOf
    <3>1. (c \in DOMAIN m1 <=> FlagOf[c] \in rows[i].has) /\ (c \in DOMAIN m1 => m1[c] = Value("bool", 1))
      BY <2>1, <2>2, <2>3, MetaFacts
    <3>2. (c \in DOMAIN m2 <=> FlagOf[c] \in rows[i].has) /\ (c \in DOMAIN m2 => m2[c] = Value("bool", 1))
      BY <2>1, <2>2, <2>3, MetaFacts
    <3> QED
      BY <3>1, <3>2
  <2>4. CASE c \notin DOMAIN FlagOf
    <3>1. /\ c \in DOMAIN m1 <=> c \in Keys(rows) /\ Cell(rows, c, i) # Absent
          /\ c \in DOMAIN m1 => m1[c] = Decoded(Cell(rows, c, i))
      BY <2>1, <2>2, <2>4, MetaFacts
    <3>2. /\ c \in DOMAIN m2 <=> c \in Keys(rows) /\ Cell(rows, c, i) # Absent
          /\ c \in DOMAIN m2 => m2[c] = Decoded(Cell(rows, c, i))
      BY <2>1, <2>2, <2>4, MetaFacts
    <3> QED
      BY <3>1, <3>2
  <2> QED
    BY <2>3, <2>4
<1>2. AgreeOn(Columns(expr), m1, m2)
  BY <1>1 DEF AgreeOn
<1>3. Eval(expr, m1) = Eval(expr, m2)
  <2> HIDE DEF m1, m2
  <2> QED
    BY <1>2, EvalSame
<1>4. Group(rows, i) \subseteq 1 .. Len(rows) /\ i \in Group(rows, i)
  BY DEF Group
<1>5. Eval(expr, m2) => CanMatch(expr, rows, Group(rows, i))
  BY <1>4, PruningSound
<1> QED
  BY <1>3, <1>5 DEF SubsetShard

LEMMA StreamedIsEager ==
  ASSUME NEW ds, \A k \in 1 .. Len(ds) : RowsOK(ds[k]), NEW expr \in Nodes, Comparable(ds, expr)
  PROVE  StreamedIds(ds, expr) = EagerIds(ds, expr)
<1> DEFINE found == UNION {{<<k, i>> : i \in SubsetShard(ds[k], expr)} : k \in 1 .. Len(ds)}
           kept == {p \in Places(ds) : Eval(expr, ReadMeta(ds[p[1]], AllColumns(ds[p[1]]), p[2]))}
<1>1. ASSUME NEW k \in 1 .. Len(ds)
      PROVE  /\ \A j \in Leaves(expr) : PlainLeaf(j)
             /\ \A c \in Columns(expr) : PlainColumn(ds[k], c)
  BY DEF Comparable, PlainLeaf, PlainColumn
<1>2. ASSUME NEW k \in 1 .. Len(ds), NEW i \in 1 .. Len(ds[k])
      PROVE  i \in SubsetShard(ds[k], expr) <=> Eval(expr, ReadMeta(ds[k], AllColumns(ds[k]), i))
  <2>1. RowsOK(ds[k])
    OBVIOUS
  <2>2. PICK rows : rows = ds[k]
    OBVIOUS
  <2> QED
    BY <1>1, <2>1, <2>2, ShardSame
<1>3. \A k : SubsetShard(ds[k], expr) \subseteq 1 .. Len(ds[k])
  BY DEF SubsetShard
<1>4. found \subseteq kept
  <2>1. ASSUME NEW p \in found
        PROVE  p \in kept
    <3>1. PICK k \in 1 .. Len(ds) : \E i \in SubsetShard(ds[k], expr) : p = <<k, i>>
      OBVIOUS
    <3>2. PICK i \in SubsetShard(ds[k], expr) : p = <<k, i>>
      BY <3>1
    <3>3. i \in 1 .. Len(ds[k])
      BY <1>3, <3>2
    <3>4. p \in Places(ds)
      BY <3>2, <3>3 DEF Places
    <3>5. Eval(expr, ReadMeta(ds[k], AllColumns(ds[k]), i))
      BY <1>2, <3>2, <3>3
    <3>6. p[1] = k /\ p[2] = i
      BY <3>2
    <3> QED
      BY <3>4, <3>5, <3>6
  <2> QED
    BY <2>1
<1>5. kept \subseteq found
  <2>1. ASSUME NEW p \in kept
        PROVE  p \in found
    <3>1. PICK k \in 1 .. Len(ds) : \E i \in 1 .. Len(ds[k]) : p = <<k, i>>
      BY DEF Places
    <3>2. PICK i \in 1 .. Len(ds[k]) : p = <<k, i>>
      BY <3>1
    <3>3. i \in SubsetShard(ds[k], expr)
      BY <1>2, <3>2
    <3> QED
      BY <3>2, <3>3
  <2> QED
    BY <2>1
<1> QED
  BY <1>4, <1>5 DEF StreamedIds, EagerIds

SubsetInv ==
  /\ \A k \in 1 .. Len(shards) : RowsOK(shards[k])
  /\ SubsetIsEager

\* SubsetIsEager, for every dataset, every predicate, row groups of any size, and
\* subsets of subsets: what a shard's statistics and the projection leave out
\* changes no answer.
THEOREM SubsetAlwaysEager == Spec => []SubsetIsEager
<1>1. Init => SubsetInv
  <2> SUFFICES ASSUME Init PROVE SubsetInv
    OBVIOUS
  <2>1. view = asked.eager
    BY DEF Init, Unasked
  <2>2. \A k \in 1 .. Len(shards) : RowsOK(shards[k])
    BY LoaderAssumption DEF Init
  <2> QED
    BY <2>1, <2>2 DEF SubsetInv, SubsetIsEager
<1>2. SubsetInv /\ [Next]_vars => SubsetInv'
  <2> SUFFICES ASSUME SubsetInv, [Next]_vars PROVE SubsetInv'
    OBVIOUS
  <2>1. ASSUME NEW expr \in Wheres, Subset(expr)
        PROVE  SubsetInv'
    <3>1. /\ view' = StreamedIds(shards, expr) \cap view /\ shards' = shards
          /\ asked'.eager = asked.eager \cap EagerIds(shards, expr)
          /\ asked'.comparable = (asked.comparable /\ Comparable(shards, expr))
      BY <2>1 DEF Subset
    <3>2. expr \in Nodes
      BY LoaderAssumption DEF Nodes
    <3>3. \A k \in 1 .. Len(shards) : RowsOK(shards[k])
      BY DEF SubsetInv
    <3>4. asked'.comparable => asked.comparable /\ Comparable(shards, expr)
      BY <3>1
    <3>5. asked'.comparable => view' = asked'.eager
      BY <3>1, <3>2, <3>3, <3>4, StreamedIsEager DEF SubsetInv, SubsetIsEager
    <3> QED
      BY <3>1, <3>3, <3>5 DEF SubsetInv, SubsetIsEager
  <2>2. CASE Open
    <3>1. view' = view /\ shards' = <<>> /\ asked'.eager = view
      BY <2>2 DEF Open, Unasked
    <3> QED
      BY <3>1, EmptySeq DEF SubsetInv, SubsetIsEager
  <2>3. CASE UNCHANGED <<shards, view, asked>>
    BY <2>3 DEF SubsetInv, SubsetIsEager
  <2> QED
    BY <2>1, <2>2, <2>3
       DEF Next, vars, Worker, Read, Put, ReadRaises, Take, Leave, Resume, AtRest, Rest
<1>3. SubsetInv => SubsetIsEager
  BY DEF SubsetInv
<1> QED
  BY <1>1, <1>2, <1>3, PTL DEF Spec
-----------------------------------------------------------------------------
(* Storing the metadata keeps them.                                          *)

\* A value that can be told from its text is read as it was given.
LEMMA CellSurvives ==
  ASSUME NEW rows, RowsOK(rows), NEW c, c \notin DOMAIN OffsetOf, NEW i \in 1 .. Len(rows),
         c \in DOMAIN rows[i].meta,
         \A x, y \in Values(rows, c) : x.t = y.t,
         \A x \in Values(rows, c) : x.t = "str" => ~Structured(x.v)
  PROVE  Cell(rows, c, i) # Absent /\ Decoded(Cell(rows, c, i)) = rows[i].meta[c]
<1> DEFINE x == rows[i].meta[c]
           kind == InferKind(rows, c)
           cell == Cell(rows, c, i)
<1>1. /\ x \in [t : {"bool", "num", "str", "list"}, v : Int]
      /\ x.t = "list" => Structured(TextOf(x))
  BY DEF RowsOK, RowOK
<1>2. x # Absent /\ x \in Values(rows, c)
  <2>1. x.t # "absent"
    BY <1>1
  <2>2. x # Absent
    BY <2>1 DEF Absent, Value
  <2> QED
    BY <2>2 DEF Values, Written
<1>3. cell = IF kind = "str" THEN Value("str", TextOf(x)) ELSE x
  BY <1>2 DEF Cell, Written
<1>4. kind # "str" => x.t \in {"bool", "num"}
  BY <1>2 DEF InferKind
<1>5. kind = "str" => x.t \in {"str", "list"}
  <2>1. ASSUME kind = "str"
        PROVE  ~(\A y \in Values(rows, c) : y.t = "bool") /\ ~(\A y \in Values(rows, c) : y.t = "num")
    BY <2>1 DEF InferKind
  <2> QED
    BY <1>1, <1>2, <2>1
<1>6. \A y \in Values(rows, c) : y.t = "str" => ~Structured(y.v)
  OBVIOUS
<1> HIDE DEF x, kind, cell
<1>7. x = Value(x.t, x.v) /\ x.v \in Int
  BY <1>1 DEF Value
<1>8. CASE kind # "str"
  <2>1. cell = x /\ x.t # "str"
    BY <1>3, <1>4, <1>8
  <2> QED
    BY <1>2, <2>1 DEF Decoded, x, cell
<1>9. CASE kind = "str" /\ x.t = "str"
  <2>1. TextOf(x) = x.v /\ ~Structured(x.v)
    BY <1>2, <1>6, <1>9 DEF TextOf
  <2>2. cell = x
    BY <1>3, <1>7, <1>9, <2>1
  <2> QED
    BY <1>2, <1>9, <2>1, <2>2 DEF Decoded, x, cell
<1>10. CASE kind = "str" /\ x.t = "list"
  <2>1. TextOf(x) = 2 + x.v /\ Structured(TextOf(x))
    BY <1>1, <1>10 DEF TextOf
  <2>2. cell = Value("str", 2 + x.v) /\ Structured(2 + x.v)
    BY <1>3, <1>10, <2>1
  <2>3. cell.t = "str" /\ cell.v = 2 + x.v /\ cell # Absent
    BY <2>2 DEF Value, Absent
  <2>4. Decoded(cell) = Value("list", x.v)
    <3>1. Decoded(cell) = Value("list", cell.v - 2)
      BY <2>2, <2>3 DEF Decoded
    <3>2. cell.v - 2 = x.v
      BY <1>7, <2>3
    <3> QED
      BY <3>1, <3>2
  <2> QED
    BY <1>7, <1>10, <2>3, <2>4 DEF x, cell
<1> QED
  BY <1>5, <1>8, <1>9, <1>10

\* By the stored metadata a row satisfies what it did by those it was given.
LEMMA GivenSame ==
  ASSUME NEW rows, RowsOK(rows), NEW expr \in Nodes, NEW i \in 1 .. Len(rows),
         \A c \in Columns(expr) : /\ PlainColumn(rows, c)
                                  /\ \A x, y \in Values(rows, c) : x.t = y.t
                                  /\ \A x \in Values(rows, c) : x.t = "str" => ~Structured(x.v)
  PROVE  Eval(expr, ReadMeta(rows, AllColumns(rows), i)) = Eval(expr, GivenMeta(rows[i]))
<1> DEFINE m1 == ReadMeta(rows, AllColumns(rows), i)
           m2 == GivenMeta(rows[i])
           flags == {f \in DOMAIN FlagOf : FlagOf[f] \in rows[i].has}
<1>1. m2 = [c \in DOMAIN rows[i].meta \cup flags |-> IF c \in flags THEN Value("bool", 1) ELSE rows[i].meta[c]]
  BY DEF GivenMeta
<1>2. DOMAIN rows[i].meta \subseteq Keys(rows)
  BY DEF Keys
<1> HIDE DEF m2
<1>3. ASSUME NEW c \in Columns(expr)
      PROVE  (c \in DOMAIN m1 <=> c \in DOMAIN m2) /\ (c \in DOMAIN m1 => m1[c] = m2[c])
  <2>1. (IF c \in DOMAIN FlagOf THEN FlagOf[c] ELSE c) \in AllColumns(rows)
          \/ (c \notin DOMAIN FlagOf /\ c \notin Keys(rows))
    BY DEF AllColumns
  <2>2. PlainColumn(rows, c)
    OBVIOUS
  <2>3. CASE c \in DOMAIN FlagOf
    <3>1. (c \in DOMAIN m1 <=> FlagOf[c] \in rows[i].has) /\ (c \in DOMAIN m1 => m1[c] = Value("bool", 1))
      BY <2>1, <2>2, <2>3, MetaFacts
    <3>2. c \notin DOMAIN rows[i].meta /\ (c \in flags <=> FlagOf[c] \in rows[i].has)
      BY <1>2, <2>2, <2>3 DEF PlainColumn
    <3> HIDE DEF flags
    <3>3. (c \in DOMAIN m2 <=> FlagOf[c] \in rows[i].has) /\ (c \in DOMAIN m2 => m2[c] = Value("bool", 1))
      BY <1>1, <3>2
    <3> QED
      BY <3>1, <3>3
  <2>4. CASE c \notin DOMAIN FlagOf
    <3>1. /\ c \in DOMAIN m1 <=> c \in Keys(rows) /\ Cell(rows, c, i) # Absent
          /\ c \in DOMAIN m1 => m1[c] = Decoded(Cell(rows, c, i))
      BY <2>1, <2>2, <2>4, MetaFacts
    <3>2. c \in DOMAIN m2 <=> c \in DOMAIN rows[i].meta
      BY <1>1, <2>4
    <3>3. c \in DOMAIN m2 => m2[c] = rows[i].meta[c]
      BY <1>1, <2>4, <3>2
    <3>4. c \notin DOMAIN OffsetOf
      BY <2>2 DEF PlainColumn
    <3>5. c \notin DOMAIN rows[i].meta => Cell(rows, c, i) = Absent
      BY <3>4 DEF Cell, Written
    <3>6. c \in DOMAIN rows[i].meta =>
            Cell(rows, c, i) # Absent /\ Decoded(Cell(rows, c, i)) = rows[i].meta[c]
      BY <3>4, CellSurvives
    <3> HIDE DEF m1
    <3> QED
      BY <1>2, <3>1, <3>2, <3>3, <3>5, <3>6
  <2> QED
    BY <2>3, <2>4
<1>4. AgreeOn(Columns(expr), m1, m2)
  BY <1>3 DEF AgreeOn
<1> QED
  <2> HIDE DEF m1
  <2>1. Eval(expr, m1) = Eval(expr, m2)
    BY <1>4, EvalSame
  <2> QED
    BY <2>1 DEF m1, m2

LEMMA EagerIsGiven ==
  ASSUME NEW ds, \A k \in 1 .. Len(ds) : RowsOK(ds[k]), NEW expr \in Nodes,
         Comparable(ds, expr), Faithful(ds, expr)
  PROVE  EagerIds(ds, expr) = GivenIds(ds, expr)
<1>1. ASSUME NEW k \in 1 .. Len(ds), NEW i \in 1 .. Len(ds[k])
      PROVE  Eval(expr, ReadMeta(ds[k], AllColumns(ds[k]), i)) = Eval(expr, GivenMeta(ds[k][i]))
  <2>1. PICK rows : rows = ds[k]
    OBVIOUS
  <2>2. \A c \in Columns(expr) : /\ PlainColumn(rows, c)
                                 /\ \A x, y \in Values(rows, c) : x.t = y.t
                                 /\ \A x \in Values(rows, c) : x.t = "str" => ~Structured(x.v)
    BY <2>1 DEF Comparable, Faithful, PlainColumn
  <2> QED
    BY <2>1, <2>2, GivenSame
<1>2. \A p \in Places(ds) : Eval(expr, ReadMeta(ds[p[1]], AllColumns(ds[p[1]]), p[2]))
                              = Eval(expr, GivenMeta(ds[p[1]][p[2]]))
  <2>1. ASSUME NEW p \in Places(ds)
        PROVE  Eval(expr, ReadMeta(ds[p[1]], AllColumns(ds[p[1]]), p[2])) = Eval(expr, GivenMeta(ds[p[1]][p[2]]))
    <3>1. PICK k \in 1 .. Len(ds) : \E i \in 1 .. Len(ds[k]) : p = <<k, i>>
      BY DEF Places
    <3>2. PICK i \in 1 .. Len(ds[k]) : p = <<k, i>>
      BY <3>1
    <3>3. p[1] = k /\ p[2] = i
      BY <3>2
    <3> QED
      BY <1>1, <3>3
  <2> QED
    BY <2>1
<1> QED
  BY <1>2 DEF EagerIds, GivenIds

\* sample_ids are natural numbers.
LEMMA IdsAreNat ==
  ASSUME NEW ds, \A k \in 1 .. Len(ds) : RowsOK(ds[k]), Len(ds) \in Nat
  PROVE  AllIds(ds) \subseteq Nat
<1>1. ASSUME NEW k \in 1 .. Len(ds)
      PROVE  RowsBefore(ds, k) \in Nat
  <2> DEFINE F(f, j) == IF j = 1 THEN 0 ELSE f[j - 1] + Len(ds[j - 1])
             Is(f) == f = [j \in 1 .. k |-> F(f, j)]
             n == CHOOSE f : Is(f)
             B == [f \in [1 .. k -> Nat] |-> [j \in 1 .. k |-> F(f, j)]]
  <2>1. RowsBefore(ds, k) = n[k]
    BY DEF RowsBefore
  <2>2. \A j \in 1 .. k : j # 1 => j - 1 \in 1 .. k /\ j - 1 \in 1 .. j - 1 /\ Len(ds[j - 1]) \in Nat
    BY DEF RowsOK
  <2>3. \A f \in [1 .. k -> Nat] : \A j \in 1 .. k : F(f, j) \in Nat
    BY <2>2
  <2>4. \A f, g \in [1 .. k -> Nat] : \A j \in 1 .. k :
          (\A i \in 1 .. j - 1 : f[i] = g[i]) => F(f, j) = F(g, j)
    BY <2>2
  <2> HIDE DEF F
  <2>5. B \in [[1 .. k -> Nat] -> [1 .. k -> Nat]]
    BY <2>3
  <2>6. \A f, g \in [1 .. k -> Nat] : \A j \in 1 .. k :
          (\A i \in 1 .. j - 1 : f[i] = g[i]) => B[f][j] = B[g][j]
    BY <2>4
  <2>7. \E f \in [1 .. k -> Nat] : f = B[f]
    <3> HIDE DEF B
    <3>1. PICK D : D = 1 .. k
      OBVIOUS
    <3>2. (\E m \in Nat : D = 1 .. m) /\ Nat # {}
      BY <3>1
    <3>3. DependsBelow(D, Nat, B)
      <4>1. B \in [[D -> Nat] -> [D -> Nat]]
        BY <2>5, <3>1
      <4>2. \A f, g \in [D -> Nat] : \A j \in D :
              (\A i \in 1 .. j - 1 : f[i] = g[i]) => B[f][j] = B[g][j]
        <5> SUFFICES ASSUME NEW f \in [D -> Nat], NEW g \in [D -> Nat], NEW j \in D,
                            \A i \in 1 .. j - 1 : f[i] = g[i]
                     PROVE  B[f][j] = B[g][j]
          OBVIOUS
        <5>1. f \in [1 .. k -> Nat] /\ g \in [1 .. k -> Nat] /\ j \in 1 .. k
          BY <3>1
        <5> QED
          BY <2>6, <5>1
      <4> QED
        BY <3>2, <4>1, <4>2 DEF DependsBelow
    <3>4. \E f \in [D -> Nat] : f = B[f]
      BY <3>3, FixedPoint
    <3> QED
      BY <3>1, <3>4
  <2>8. Is(n)
    BY <2>7
  <2> HIDE DEF n
  <2> DEFINE Bad == {j \in 1 .. k : n[j] \notin Nat}
  <2>9. Bad = {}
    <3> SUFFICES ASSUME Bad # {} PROVE FALSE
      OBVIOUS
    <3>1. PICK j \in Bad : \A i \in Bad : j <= i
      <4>1. Bad \subseteq Nat
        OBVIOUS
      <4> HIDE DEF Bad
      <4> QED
        BY <4>1, LeastOf
    <3>2. j # 1 => n[j - 1] \in Nat
      BY <3>1, <2>2
    <3>3. n[j] = F(n, j)
      BY <2>8, <3>1
    <3>4. n[j] \in Nat
      BY <2>2, <3>1, <3>2, <3>3 DEF F
    <3> QED
      BY <3>1, <3>4
  <2> QED
    BY <2>1, <2>9
<1>2. ASSUME NEW p \in Places(ds)
      PROVE  RowsBefore(ds, p[1]) + p[2] - 1 \in Nat
  <2>1. PICK k \in 1 .. Len(ds) : \E i \in 1 .. Len(ds[k]) : p = <<k, i>>
    BY DEF Places
  <2>2. PICK i \in 1 .. Len(ds[k]) : p = <<k, i>>
    BY <2>1
  <2>3. p[1] = k /\ p[2] = i /\ i \in Nat /\ i >= 1
    BY <2>2 DEF RowsOK
  <2> QED
    BY <1>1, <2>3
<1> QED
  BY <1>2 DEF AllIds, IdsAt
-----------------------------------------------------------------------------
(* Positions and sample_ids.                                                 *)

\* Sorted lists the elements of a set, each once.
LEMMA SortedIsBijection ==
  ASSUME NEW S, S \subseteq Int, IsFiniteSet(S)
  PROVE  Sorted(S) \in Bijection(1 .. Cardinality(S), S)
<1> DEFINE n == Cardinality(S)
           below(x) == {y \in S : y < x}
           r == [x \in S |-> Cardinality(below(x)) + 1]
<1>1. n \in Nat
  BY FS_CardinalityType
<1>2. ASSUME NEW x \in S
      PROVE  Cardinality(below(x)) \in 0 .. n - 1 /\ IsFiniteSet(below(x))
  <2>1. below(x) \in SUBSET S /\ below(x) # S
    <3>1. x \in S \ below(x)
      OBVIOUS
    <3> QED
      BY <3>1
  <2> HIDE DEF below
  <2>2. /\ IsFiniteSet(below(x)) /\ Cardinality(below(x)) <= n
        /\ n = Cardinality(below(x)) => S = below(x)
    BY <2>1, FS_Subset
  <2>3. Cardinality(below(x)) \in Nat
    BY <2>2, FS_CardinalityType
  <2> QED
    BY <1>1, <2>1, <2>2, <2>3
<1>3. ASSUME NEW x \in S, NEW y \in S, x < y
      PROVE  Cardinality(below(x)) < Cardinality(below(y))
  <2>1. below(x) \in SUBSET below(y) /\ x \in below(y) \ below(x)
    <3>1. x \in Int /\ y \in Int /\ \A z \in S : z \in Int
      OBVIOUS
    <3>2. ~(x < x) /\ \A z \in S : z < x => z < y
      BY <1>3, <3>1
    <3>3. \A z \in below(x) : z \in below(y)
      BY <3>2
    <3>4. x \in below(y)
      BY <1>3
    <3>5. x \notin below(x)
      BY <3>2
    <3> QED
      BY <3>3, <3>4, <3>5
  <2>2. below(x) # below(y)
    BY <2>1
  <2> HIDE DEF below
  <2>3. /\ Cardinality(below(x)) <= Cardinality(below(y))
        /\ Cardinality(below(y)) = Cardinality(below(x)) => below(y) = below(x)
    BY <1>2, <2>1, FS_Subset
  <2> QED
    BY <1>2, <2>2, <2>3
<1>4. \A x \in S : r[x] = Cardinality(below(x)) + 1 /\ r[x] \in 1 .. n
  BY <1>1, <1>2
<1>5. r \in [S -> 1 .. n]
  BY <1>1, <1>2
<1> HIDE DEF r, below
<1>6. \A x, y \in S : r[x] = r[y] => x = y
  <2>1. ASSUME NEW x \in S, NEW y \in S, r[x] = r[y]
        PROVE  x = y
    <3>1. Cardinality(below(x)) = Cardinality(below(y))
      BY <1>2, <1>4, <2>1
    <3>2. Cardinality(below(x)) \in Int /\ x \in Int /\ y \in Int
      BY <1>2
    <3> QED
      BY <1>3, <3>1, <3>2
  <2> QED
    BY <2>1
<1>7. r \in Injection(S, 1 .. n)
  BY <1>5, <1>6 DEF Injection, IsInjective
<1>8. r \in Surjection(S, 1 .. n)
  <2>1. IsFiniteSet(1 .. n) /\ Cardinality(1 .. n) = n
    BY <1>1, FS_Interval
  <2>2. Cardinality(S) = Cardinality(1 .. n)
    BY <2>1
  <2> HIDE DEF n
  <2> QED
    BY <1>7, <2>1, <2>2, FS_Injection
<1>9. ASSUME NEW k \in 1 .. n
      PROVE  Sorted(S)[k] \in S /\ r[Sorted(S)[k]] = k
  <2>1. PICK x \in S : r[x] = k
    BY <1>8 DEF Surjection
  <2>2. Cardinality({y \in S : y < x}) = k - 1
    BY <1>2, <1>4, <2>1 DEF below
  <2>3. Sorted(S)[k] = CHOOSE z \in S : Cardinality({y \in S : y < z}) = k - 1
    BY DEF Sorted
  <2>4. Sorted(S)[k] \in S /\ Cardinality({y \in S : y < Sorted(S)[k]}) = k - 1
    BY <2>2, <2>3
  <2>5. PICK z : z = Sorted(S)[k]
    OBVIOUS
  <2>6. z \in S /\ Cardinality(below(z)) = k - 1
    BY <2>4, <2>5 DEF below
  <2>7. r[z] = k
    BY <1>1, <1>4, <2>6
  <2> QED
    BY <2>5, <2>6, <2>7
<1>10. Sorted(S) \in [1 .. n -> S]
  <2>1. DOMAIN Sorted(S) = 1 .. n /\ Sorted(S) = [k \in 1 .. n |-> Sorted(S)[k]]
    <3> DEFINE nth(k) == CHOOSE x \in S : Cardinality({y \in S : y < x}) = k - 1
    <3>1. Sorted(S) = [k \in 1 .. n |-> nth(k)]
      BY DEF Sorted
    <3> HIDE DEF nth
    <3> QED
      BY <3>1
  <2> QED
    BY <1>9, <2>1
<1>11. Sorted(S) \in Injection(1 .. n, S)
  <2>1. ASSUME NEW k \in 1 .. n, NEW l \in 1 .. n, Sorted(S)[k] = Sorted(S)[l]
        PROVE  k = l
    BY <1>9, <2>1
  <2> QED
    BY <1>10, <2>1 DEF Injection, IsInjective
<1>12. Sorted(S) \in Surjection(1 .. n, S)
  <2>1. ASSUME NEW x \in S
        PROVE  \E k \in 1 .. n : Sorted(S)[k] = x
    <3>1. r[x] \in 1 .. n
      BY <1>4
    <3>2. Sorted(S)[r[x]] \in S /\ r[Sorted(S)[r[x]]] = r[x]
      BY <1>9, <3>1
    <3> QED
      BY <1>6, <3>1, <3>2
  <2> QED
    BY <1>10, <2>1 DEF Surjection
<1> QED
  BY <1>11, <1>12 DEF Bijection, n

\* Lists, one per reader, that deal out the elements of V: each to one reader, once.
Dealt(plans, V) ==
  /\ \A a \in DOMAIN plans : \A k \in 1 .. Len(plans[a]) : plans[a][k] \in V
  /\ \A x \in V : \E a \in DOMAIN plans : \E k \in 1 .. Len(plans[a]) : plans[a][k] = x
  /\ \A a, b \in DOMAIN plans : \A k \in 1 .. Len(plans[a]), l \in 1 .. Len(plans[b]) :
       plans[a][k] = plans[b][l] => a = b /\ k = l

LEMMA ToIdsLen ==
  ASSUME NEW p, Len(p) \in Nat
  PROVE  Len(ToIds(p)) = Len(p) /\ \A k \in 1 .. Len(p) : ToIds(p)[k] = Sorted(view)[p[k] + 1]
<1>1. ToIds(p) = [k \in 1 .. Len(p) |-> ToIds(p)[k]] /\ \A k \in 1 .. Len(p) : ToIds(p)[k] = Sorted(view)[p[k] + 1]
  BY DEF ToIds
<1>2. Len(ToIds(p)) = Len(p)
  BY <1>1, ListIsSeq
<1> QED
  BY <1>1, <1>2

\* Dealing out the positions of the view deals out its samples.
LEMMA IdsDealt ==
  ASSUME view \subseteq Int, IsFiniteSet(view), NEW lists, Dealt(lists, 0 .. Size - 1),
         \A a \in DOMAIN lists : Len(lists[a]) \in Nat,
         NEW plans, DOMAIN plans = DOMAIN lists, \A a \in DOMAIN lists : plans[a] = ToIds(lists[a])
  PROVE  Dealt(plans, view)
<1>1. Size \in Nat
  BY FS_CardinalityType DEF Size
<1>2. Sorted(view) \in Bijection(1 .. Size, view)
  BY SortedIsBijection DEF Size
<1>3. /\ \A k \in 1 .. Size : Sorted(view)[k] \in view
      /\ \A k, l \in 1 .. Size : Sorted(view)[k] = Sorted(view)[l] => k = l
      /\ \A x \in view : \E k \in 1 .. Size : Sorted(view)[k] = x
  BY <1>2 DEF Bijection, Injection, Surjection, IsInjective
<1>4. \A a \in DOMAIN lists : /\ Len(plans[a]) = Len(lists[a])
                              /\ \A k \in 1 .. Len(lists[a]) : plans[a][k] = Sorted(view)[lists[a][k] + 1]
  BY ToIdsLen
<1>5. \A i \in 0 .. Size - 1 : i + 1 \in 1 .. Size
  BY <1>1
<1>6. ASSUME NEW a \in DOMAIN plans, NEW k \in 1 .. Len(plans[a])
      PROVE  /\ lists[a][k] \in 0 .. Size - 1
             /\ plans[a][k] \in view
  <2>1. a \in DOMAIN lists /\ k \in 1 .. Len(lists[a])
    BY <1>4
  <2>2. lists[a][k] \in 0 .. Size - 1
    BY <2>1 DEF Dealt
  <2>3. plans[a][k] = Sorted(view)[lists[a][k] + 1]
    BY <1>4, <2>1
  <2> QED
    BY <1>3, <1>5, <2>2, <2>3
<1>7. ASSUME NEW x \in view
      PROVE  \E a \in DOMAIN plans : \E k \in 1 .. Len(plans[a]) : plans[a][k] = x
  <2>1. PICK j \in 1 .. Size : Sorted(view)[j] = x
    BY <1>3
  <2>2. j - 1 \in 0 .. Size - 1 /\ j - 1 + 1 = j
    BY <1>1
  <2>3. PICK a \in DOMAIN lists : \E k \in 1 .. Len(lists[a]) : lists[a][k] = j - 1
    BY <2>2 DEF Dealt
  <2> QED
    BY <1>4, <2>1, <2>2, <2>3
<1>8. ASSUME NEW a \in DOMAIN plans, NEW b \in DOMAIN plans,
             NEW k \in 1 .. Len(plans[a]), NEW l \in 1 .. Len(plans[b]), plans[a][k] = plans[b][l]
      PROVE  a = b /\ k = l
  <2>1. PICK i, j : i = lists[a][k] /\ j = lists[b][l]
    OBVIOUS
  <2>2. i \in 0 .. Size - 1 /\ j \in 0 .. Size - 1
    BY <1>6, <2>1
  <2>3. Sorted(view)[i + 1] = Sorted(view)[j + 1]
    BY <1>4, <1>8, <2>1
  <2>4. i + 1 = j + 1
    BY <1>3, <1>5, <2>2, <2>3
  <2>5. lists[a][k] = lists[b][l]
    BY <2>1, <2>2, <2>4
  <2> QED
    BY <1>4, <2>5 DEF Dealt
<1> QED
  BY <1>6, <1>7, <1>8 DEF Dealt

LEMMA EveryNthDomain ==
  ASSUME NEW xs, Len(xs) \in Nat, NEW from \in Nat, NEW step \in Nat \ {0}
  PROVE  LET e == EveryNth(xs, from, step)
         IN /\ Len(e) \in Nat /\ DOMAIN e = 1 .. Len(e)
            /\ Len(e) = IF from < Len(xs) THEN (Len(xs) - from - 1) \div step + 1 ELSE 0
            /\ \A k \in 1 .. Len(e) : /\ from + (k - 1) * step + 1 \in 1 .. Len(xs)
                                      /\ e[k] = xs[from + (k - 1) * step + 1]
<1> DEFINE e == EveryNth(xs, from, step)
           m == IF from < Len(xs) THEN (Len(xs) - from - 1) \div step + 1 ELSE 0
<1>1. PICK n \in Nat :
        /\ e = [k \in 1 .. n |-> xs[from + (k - 1) * step + 1]]
        /\ \A k \in 1 .. n : from + (k - 1) * step + 1 \in 1 .. Len(xs)
  BY EveryNthIn
<1>2. e = [k \in 1 .. m |-> xs[from + (k - 1) * step + 1]]
  BY DEF EveryNth
<1>3. m \in Nat
  <2>1. CASE from < Len(xs)
    <3>1. Len(xs) - from - 1 \in Nat
      BY <2>1
    <3>2. (Len(xs) - from - 1) \div step \in Nat
      BY <3>1, DivFacts
    <3> QED
      BY <2>1, <3>2
  <2>2. CASE ~(from < Len(xs))
    BY <2>2
  <2> QED
    BY <2>1, <2>2
<1> HIDE DEF m
<1>4. e = [k \in 1 .. n |-> e[k]] /\ e = [k \in 1 .. m |-> e[k]]
  BY <1>1, <1>2
<1>5. \A k \in 1 .. n : e[k] = xs[from + (k - 1) * step + 1]
  BY <1>1
<1> HIDE DEF e
<1>6. Len(e) = n /\ DOMAIN e = 1 .. n /\ Len(e) = m
  <2>1. Len(e) = n
    BY <1>4, ListIsSeq
  <2>2. Len(e) = m
    BY <1>3, <1>4, ListIsSeq
  <2> QED
    BY <1>4, <2>1, <2>2
<1> QED
  BY <1>1, <1>5, <1>6 DEF e, m

LEMMA OrderFacts ==
  ASSUME NEW n \in Nat, NEW bs, NEW shuffle, NEW order \in Orders(n, bs, shuffle)
  PROVE  /\ Len(order) = n /\ DOMAIN order = 1 .. n /\ IsInjective(order)
         /\ \A p \in 1 .. n : order[p] \in 0 .. n - 1
         /\ \A i \in 0 .. n - 1 : \E p \in 1 .. n : order[p] = i
<1>1. Cardinality(0 .. n - 1) = n
  BY FS_Interval
<1>2. CASE order = [k \in 1 .. n |-> k - 1]
  <2>1. DOMAIN order = 1 .. n /\ \A p \in 1 .. n : order[p] = p - 1
    BY <1>2
  <2>2. Len(order) = n
    BY <1>2, <2>1, ListIsSeq
  <2>3. \A i \in 0 .. n - 1 : i + 1 \in 1 .. n /\ i + 1 - 1 = i
    OBVIOUS
  <2>4. \A p \in 1 .. n : p - 1 \in 0 .. n - 1
    OBVIOUS
  <2>5. \A p, q \in 1 .. n : p - 1 = q - 1 => p = q
    OBVIOUS
  <2>6. IsInjective(order)
    BY <2>1, <2>5 DEF IsInjective
  <2>7. \A i \in 0 .. n - 1 : order[i + 1] = i
    BY <2>1, <2>3
  <2> QED
    BY <2>1, <2>2, <2>3, <2>4, <2>6, <2>7
<1>3. CASE order \in BlockWise(0 .. n - 1, bs)
  <2>1. order \in Bijection(1 .. n, 0 .. n - 1)
    BY <1>1, <1>3 DEF BlockWise
  <2>2. order = [k \in 1 .. n |-> order[k]] /\ DOMAIN order = 1 .. n
    BY <2>1 DEF Bijection, Injection
  <2>3. Len(order) = n
    BY <2>2, ListIsSeq
  <2> QED
    BY <2>1, <2>2, <2>3 DEF Bijection, Injection, Surjection
<1> QED
  BY <1>2, <1>3 DEF Orders

LEMMA SliceIsList ==
  ASSUME NEW ranks \in Nat \ {0}, NEW workers \in Nat \ {0},
         NEW rank \in 0 .. ranks - 1, NEW worker \in 0 .. workers - 1,
         NEW order, Len(order) \in Nat
  PROVE  LET e == Indices(order, rank, worker, ranks, workers, 0)
             from == GlobalWorker(rank, worker, ranks, workers)
             step == NumBuckets(ranks, workers)
         IN /\ Len(e) \in Nat /\ DOMAIN e = 1 .. Len(e)
            /\ Len(e) = IF from < Len(order) THEN (Len(order) - from - 1) \div step + 1 ELSE 0
            /\ DOMAIN order = 1 .. Len(order) => \A k \in 1 .. Len(e) : e[k] \in Range(order)
<1> DEFINE from == GlobalWorker(rank, worker, ranks, workers)
           step == NumBuckets(ranks, workers)
<1>1. Indices(order, rank, worker, ranks, workers, 0) = EveryNth(order, from, step)
  BY SliceFacts
<1>2. from \in 0 .. step - 1 /\ step \in Nat \ {0}
  BY BucketFacts
<1>3. from \in Nat
  BY <1>2
<1> HIDE DEF from, step
<1>4. LET e == EveryNth(order, from, step)
      IN /\ Len(e) \in Nat /\ DOMAIN e = 1 .. Len(e)
         /\ Len(e) = IF from < Len(order) THEN (Len(order) - from - 1) \div step + 1 ELSE 0
         /\ \A k \in 1 .. Len(e) : /\ from + (k - 1) * step + 1 \in 1 .. Len(order)
                                   /\ e[k] = order[from + (k - 1) * step + 1]
  BY <1>2, <1>3, EveryNthDomain
<1>5. ASSUME DOMAIN order = 1 .. Len(order), NEW k \in 1 .. Len(EveryNth(order, from, step))
      PROVE  EveryNth(order, from, step)[k] \in Range(order)
  BY <1>4, <1>5 DEF Range
<1> QED
  BY <1>1, <1>4, <1>5 DEF from, step

\* Two places of two slices that hold the same sample.
SameSample(order, ranks, workers, r1, w1, p, r2, w2, q) ==
  /\ p \in DOMAIN Indices(order, r1, w1, ranks, workers, 0)
  /\ q \in DOMAIN Indices(order, r2, w2, ranks, workers, 0)
  /\ Indices(order, r1, w1, ranks, workers, 0)[p] = Indices(order, r2, w2, ranks, workers, 0)[q]

LEMMA OnePlace ==
  ASSUME NEW ranks \in Nat \ {0}, NEW workers \in Nat \ {0},
         NEW order, Len(order) \in Nat, IsInjective(order), DOMAIN order = 1 .. Len(order),
         NEW r1 \in 0 .. ranks - 1, NEW w1 \in 0 .. workers - 1,
         NEW r2 \in 0 .. ranks - 1, NEW w2 \in 0 .. workers - 1,
         NEW p, NEW q, SameSample(order, ranks, workers, r1, w1, p, r2, w2, q)
  PROVE  r1 = r2 /\ w1 = w2 /\ p = q
BY SlicesDisjoint DEF SameSample

\* The slices of an order, as lists.
AreSlices(lists, order, ranks, workers) ==
  \A rank \in 0 .. ranks - 1, worker \in 0 .. workers - 1 :
    lists[<<rank, worker>>] = Indices(order, rank, worker, ranks, workers, 0)

\* The core sampler deals out the positions.
LEMMA SamplerDealt ==
  ASSUME NEW ranks \in Nat \ {0}, NEW workers \in Nat \ {0}, NEW n \in Nat, NEW bs, NEW shuffle,
         NEW order \in Orders(n, bs, shuffle),
         NEW lists, DOMAIN lists = (0 .. ranks - 1) \X (0 .. workers - 1),
         AreSlices(lists, order, ranks, workers)
  PROVE  Dealt(lists, 0 .. n - 1) /\ \A a \in DOMAIN lists : Len(lists[a]) \in Nat
<1>1. /\ Len(order) = n /\ DOMAIN order = 1 .. n /\ IsInjective(order)
      /\ \A p \in 1 .. n : order[p] \in 0 .. n - 1
      /\ \A i \in 0 .. n - 1 : \E p \in 1 .. n : order[p] = i
  BY OrderFacts
<1>2. Len(order) \in Nat /\ DOMAIN order = 1 .. Len(order)
  BY <1>1
<1>3. ASSUME NEW rank \in 0 .. ranks - 1, NEW worker \in 0 .. workers - 1
      PROVE  LET e == lists[<<rank, worker>>]
             IN /\ e = Indices(order, rank, worker, ranks, workers, 0)
                /\ Len(e) \in Nat /\ DOMAIN e = 1 .. Len(e)
                /\ \A k \in 1 .. Len(e) : e[k] \in 0 .. n - 1
  <2>1. lists[<<rank, worker>>] = Indices(order, rank, worker, ranks, workers, 0)
    BY DEF AreSlices
  <2>2. LET e == Indices(order, rank, worker, ranks, workers, 0)
        IN /\ Len(e) \in Nat /\ DOMAIN e = 1 .. Len(e)
           /\ \A k \in 1 .. Len(e) : e[k] \in Range(order)
    BY <1>2, SliceIsList
  <2>3. Range(order) \subseteq 0 .. n - 1
    BY <1>1 DEF Range
  <2> QED
    BY <2>1, <2>2, <2>3
<1>4. \A a \in DOMAIN lists : \E rank \in 0 .. ranks - 1, worker \in 0 .. workers - 1 : a = <<rank, worker>>
  OBVIOUS
<1>5. ASSUME NEW i \in 0 .. n - 1
      PROVE  \E a \in DOMAIN lists : \E k \in 1 .. Len(lists[a]) : lists[a][k] = i
  <2>1. PICK p \in 1 .. Len(order) : order[p] = i
    BY <1>1
  <2>2. PICK rank \in 0 .. ranks - 1, worker \in 0 .. workers - 1 :
          LET slice == Indices(order, rank, worker, ranks, workers, 0)
          IN \E k \in DOMAIN slice : slice[k] = order[p]
    <3>1. InASlice(order, ranks, workers, order[p])
      BY <1>2, SliceOf
    <3> QED
      BY <3>1 DEF InASlice
  <2>3. \E k \in 1 .. Len(lists[<<rank, worker>>]) : lists[<<rank, worker>>][k] = i
    BY <1>3, <2>1, <2>2
  <2>4. <<rank, worker>> \in DOMAIN lists
    OBVIOUS
  <2> QED
    BY <2>3, <2>4
<1>6. \A a, b \in DOMAIN lists : \A k \in 1 .. Len(lists[a]), l \in 1 .. Len(lists[b]) :
        lists[a][k] = lists[b][l] => a = b /\ k = l
  <2> SUFFICES ASSUME NEW a \in DOMAIN lists, NEW b \in DOMAIN lists,
                      NEW i \in 1 .. Len(lists[a]), NEW j \in 1 .. Len(lists[b]),
                      lists[a][i] = lists[b][j]
               PROVE  a = b /\ i = j
    OBVIOUS
  <2>1. PICK r1 \in 0 .. ranks - 1, w1 \in 0 .. workers - 1 : a = <<r1, w1>>
    BY <1>4
  <2>2. PICK r2 \in 0 .. ranks - 1, w2 \in 0 .. workers - 1 : b = <<r2, w2>>
    BY <1>4
  <2>3. /\ i \in DOMAIN Indices(order, r1, w1, ranks, workers, 0)
        /\ lists[a][i] = Indices(order, r1, w1, ranks, workers, 0)[i]
    BY <1>3, <2>1
  <2>4. /\ j \in DOMAIN Indices(order, r2, w2, ranks, workers, 0)
        /\ lists[b][j] = Indices(order, r2, w2, ranks, workers, 0)[j]
    BY <1>3, <2>2
  <2>5. PICK p, q : p = i /\ q = j
    OBVIOUS
  <2>6. /\ p \in DOMAIN Indices(order, r1, w1, ranks, workers, 0)
        /\ q \in DOMAIN Indices(order, r2, w2, ranks, workers, 0)
        /\ Indices(order, r1, w1, ranks, workers, 0)[p] = Indices(order, r2, w2, ranks, workers, 0)[q]
    BY <2>3, <2>4, <2>5
  <2>7. Len(order) \in Nat /\ IsInjective(order) /\ DOMAIN order = 1 .. Len(order)
    BY <1>1, <1>2
  <2>8. r1 = r2 /\ w1 = w2 /\ p = q
    <3>1. SameSample(order, ranks, workers, r1, w1, p, r2, w2, q)
      BY <2>6 DEF SameSample
    <3> QED
      BY <2>7, <3>1, OnePlace
  <2> QED
    BY <2>1, <2>2, <2>5, <2>8
<1>7. \A a \in DOMAIN lists : /\ Len(lists[a]) \in Nat
                              /\ \A k \in 1 .. Len(lists[a]) : lists[a][k] \in 0 .. n - 1
  BY <1>3, <1>4
<1> QED
  BY <1>5, <1>6, <1>7 DEF Dealt

\* Position i is in block i \div bs, and in no other.
LEMMA BlockFacts ==
  ASSUME NEW n \in Nat, NEW bs \in Nat \ {0}
  PROVE  LET all == Blocks(n, bs)
         IN /\ Len(all) \in Nat /\ DOMAIN all = 1 .. Len(all)
            /\ \A b \in 1 .. Len(all) : \A i \in all[b] : i \in 0 .. n - 1 /\ b = i \div bs + 1
            /\ \A i \in 0 .. n - 1 : i \div bs + 1 \in 1 .. Len(all) /\ i \in all[i \div bs + 1]
<1> DEFINE all == Blocks(n, bs)
           top == n + bs - 1
           m == top \div bs
<1>1. top \in Nat
  OBVIOUS
<1> HIDE DEF top
<1>2. m \in Nat /\ m * bs <= top /\ top < (m + 1) * bs
  BY <1>1, DivFacts
<1>3. all = [b \in 1 .. m |-> (b - 1) * bs .. (IF b * bs < n THEN b * bs ELSE n) - 1]
  BY DEF Blocks, top
<1> HIDE DEF m, all
<1>4. Len(all) = m /\ DOMAIN all = 1 .. m
  <2>1. all = [b \in 1 .. m |-> all[b]]
    BY <1>3
  <2> QED
    BY <1>2, <2>1, ListIsSeq
<1>5. ASSUME NEW b \in 1 .. m, NEW i \in all[b]
      PROVE  i \in 0 .. n - 1 /\ b = i \div bs + 1
  <2> DEFINE lo == (b - 1) * bs
             hi == b * bs
             q == i \div bs
             q0 == q * bs
             q1 == (q + 1) * bs
             b1 == b - 1
  <2>1. i \in lo .. (IF hi < n THEN hi ELSE n) - 1
    BY <1>3
  <2>2. lo \in Nat /\ hi \in Nat /\ b1 \in Nat
    <3>1. b - 1 \in Nat /\ b \in Nat
      BY <1>2
    <3> QED
      BY <3>1, TimesInt
  <2>3. i \in Nat /\ lo <= i /\ i < hi /\ i < n
    <3> HIDE DEF lo, hi
    <3> QED
      BY <2>1, <2>2
  <2>4. q \in Nat /\ q0 <= i /\ i < q1
    BY <2>3, DivFacts
  <2>5. q0 \in Nat /\ q1 \in Nat
    BY <2>4, TimesInt
  <2>6. q0 < hi /\ lo < q1
    <3> HIDE DEF lo, hi, q, q0, q1
    <3> QED
      BY <2>2, <2>3, <2>4, <2>5
  <2> HIDE DEF q
  <2>7. q < b
    BY <2>4, <2>6, TimesLess
  <2>8. b1 < q + 1
    <3>1. b1 * bs < (q + 1) * bs
      BY <2>6
    <3> HIDE DEF b1
    <3> QED
      BY <2>2, <2>4, <3>1, TimesLess
  <2>9. b = q + 1
    BY <2>4, <2>7, <2>8
  <2> QED
    BY <2>3, <2>9 DEF q
<1>6. ASSUME NEW i \in 0 .. n - 1
      PROVE  i \div bs + 1 \in 1 .. m /\ i \in all[i \div bs + 1]
  <2> DEFINE q == i \div bs
             q0 == q * bs
             q1 == (q + 1) * bs
             m1 == (m + 1) * bs
  <2>1. q \in Nat /\ q0 <= i /\ i < q1
    BY DivFacts
  <2>2. q0 \in Nat /\ q1 = q0 + bs /\ m1 \in Nat
    BY <1>2, <2>1, TimesInt
  <2>3. q1 <= top
    <3> HIDE DEF q, q0, q1
    <3> QED
      BY <2>1, <2>2 DEF top
  <2> HIDE DEF q
  <2>4. q + 1 < m + 1
    <3>1. q1 < m1
      <4> HIDE DEF q0, q1, m1
      <4>1. top < m1
        BY <1>2 DEF m1
      <4>2. q1 \in Nat
        BY <2>2
      <4> QED
        BY <1>1, <2>2, <2>3, <4>1, <4>2
    <3>2. q + 1 \in Int /\ m + 1 \in Int
      BY <1>2, <2>1
    <3> QED
      BY <3>1, <3>2, TimesLess
  <2>5. q + 1 \in 1 .. m
    BY <1>2, <2>1, <2>4
  <2>6. q + 1 - 1 = q
    BY <2>1
  <2>7. all[q + 1] = q0 .. (IF q1 < n THEN q1 ELSE n) - 1
    <3>1. PICK b : b = q + 1
      OBVIOUS
    <3>2. all[b] = (b - 1) * bs .. (IF b * bs < n THEN b * bs ELSE n) - 1
      BY <1>3, <2>5, <3>1
    <3>3. (b - 1) * bs = q0 /\ b * bs = q1
      <4>1. b - 1 = q
        BY <2>1, <3>1
      <4> QED
        BY <3>1, <4>1
    <3> HIDE DEF q0, q1
    <3> QED
      BY <3>1, <3>2, <3>3
  <2>8. i \in all[q + 1]
    <3> HIDE DEF q0, q1
    <3> QED
      BY <2>1, <2>2, <2>7
  <2> QED
    BY <2>5, <2>8 DEF q
<1> QED
  BY <1>2, <1>4, <1>5, <1>6 DEF all

\* Block q is one of the worker's.
BlockOf(q, rank, worker, ranks, workers) ==
  \E m \in Nat : q = rank + (worker + m * workers) * ranks

\* What a worker of FerroIterableDataset reads: every workers-th of every ranks-th block.
LEMMA WorkerPositions ==
  ASSUME NEW n \in Nat, NEW bs \in Nat \ {0}, NEW ranks \in Nat \ {0}, NEW workers \in Nat \ {0},
         NEW rank \in Nat, NEW worker \in Nat, NEW i
  PROVE  i \in PositionsOf(WorkerBlocks(n, bs, rank, worker, ranks, workers)) <=>
           i \in 0 .. n - 1 /\ BlockOf(i \div bs, rank, worker, ranks, workers)
<1> DEFINE all == Blocks(n, bs)
           mine == RankBlocks(n, bs, rank, ranks)
           blocks == WorkerBlocks(n, bs, rank, worker, ranks, workers)
<1>1. /\ Len(all) \in Nat /\ DOMAIN all = 1 .. Len(all)
      /\ \A b \in 1 .. Len(all) : \A x \in all[b] : x \in 0 .. n - 1 /\ b = x \div bs + 1
      /\ \A x \in 0 .. n - 1 : x \div bs + 1 \in 1 .. Len(all) /\ x \in all[x \div bs + 1]
  BY BlockFacts
<1>2. mine = EveryNth(all, rank, ranks) /\ blocks = EveryNth(mine, worker, workers)
  BY DEF RankBlocks, WorkerBlocks
<1> HIDE DEF all, mine, blocks
<1>3. /\ Len(mine) \in Nat /\ DOMAIN mine = 1 .. Len(mine)
      /\ \A k \in 1 .. Len(mine) : /\ rank + (k - 1) * ranks + 1 \in 1 .. Len(all)
                                   /\ mine[k] = all[rank + (k - 1) * ranks + 1]
  <2>1. Len(all) \in Nat
    BY <1>1
  <2> QED
    BY <1>2, <2>1, EveryNthDomain
<1>4. /\ Len(blocks) \in Nat /\ DOMAIN blocks = 1 .. Len(blocks)
      /\ \A k \in 1 .. Len(blocks) : /\ worker + (k - 1) * workers + 1 \in 1 .. Len(mine)
                                     /\ blocks[k] = mine[worker + (k - 1) * workers + 1]
  BY <1>2, <1>3, EveryNthDomain
<1>5. ASSUME i \in PositionsOf(blocks)
      PROVE  i \in 0 .. n - 1 /\ \E m \in Nat : i \div bs = rank + (worker + m * workers) * ranks
  <2>1. PICK k \in 1 .. Len(blocks) : i \in blocks[k]
    BY <1>5 DEF PositionsOf
  <2> DEFINE m == k - 1
             t == worker + m * workers
             b == rank + t * ranks
  <2>2. m \in Nat
    BY <1>4
  <2>3. t + 1 \in 1 .. Len(mine) /\ i \in mine[t + 1]
    BY <1>4, <2>1
  <2>4. t \in Nat
    <3>1. m * workers \in Nat
      BY <2>2, TimesInt
    <3> QED
      BY <3>1
  <2> HIDE DEF t
  <2>5. b + 1 \in 1 .. Len(all) /\ i \in all[b + 1]
    <3>2. PICK j : j = t + 1
      OBVIOUS
    <3>3. rank + (j - 1) * ranks + 1 \in 1 .. Len(all) /\ mine[j] = all[rank + (j - 1) * ranks + 1]
      BY <1>3, <2>3, <3>2
    <3>4. j - 1 = t
      BY <2>4, <3>2
    <3> QED
      BY <2>3, <3>2, <3>3, <3>4
  <2>6. b \in Nat
    <3>1. t * ranks \in Nat
      BY <2>4, TimesInt
    <3> QED
      BY <3>1
  <2> HIDE DEF b
  <2>7. i \in 0 .. n - 1 /\ b + 1 = i \div bs + 1
    BY <1>1, <2>5
  <2>8. i \div bs \in Nat
    BY <2>7, DivFacts
  <2>9. i \div bs = b
    BY <2>6, <2>7, <2>8
  <2> QED
    BY <2>2, <2>7, <2>9 DEF b, t
<1>6. ASSUME i \in 0 .. n - 1, NEW m \in Nat, i \div bs = rank + (worker + m * workers) * ranks
      PROVE  i \in PositionsOf(blocks)
  <2> DEFINE t == worker + m * workers
             b == rank + t * ranks
  <2>1. i \div bs = b
    BY <1>6
  <2>2. t \in Nat
    <3>1. m * workers \in Nat
      BY TimesInt
    <3> QED
      BY <3>1
  <2>3. b + 1 \in 1 .. Len(all) /\ i \in all[b + 1]
    BY <1>1, <1>6, <2>1
  <2> HIDE DEF t
  <2>4. t + 1 \in DOMAIN mine /\ mine[t + 1] = all[b + 1]
    <3>1. rank + t * ranks + 1 <= Len(all)
      BY <1>1, <2>3
    <3>2. Len(all) \in Nat
      BY <1>1
    <3>3. t + 1 \in DOMAIN EveryNth(all, rank, ranks)
          /\ EveryNth(all, rank, ranks)[t + 1] = all[rank + t * ranks + 1]
      BY <2>2, <3>1, <3>2, EveryNthAt
    <3> QED
      BY <1>2, <3>3
  <2>5. m + 1 \in DOMAIN blocks /\ blocks[m + 1] = mine[t + 1]
    <3>1. worker + m * workers + 1 <= Len(mine)
      BY <1>3, <2>4 DEF t
    <3>2. m + 1 \in DOMAIN blocks /\ blocks[m + 1] = mine[worker + m * workers + 1]
      BY <1>2, <1>3, <3>1, EveryNthAt
    <3> QED
      BY <3>2 DEF t
  <2> HIDE DEF b
  <2>6. i \in blocks[m + 1] /\ m + 1 \in 1 .. Len(blocks)
    BY <1>4, <2>3, <2>4, <2>5
  <2> QED
    BY <2>6 DEF PositionsOf
<1> QED
  BY <1>5, <1>6 DEF blocks, BlockOf

\* The blocks of a view are dealt out, each to one worker.
LEMMA PositionsDealt ==
  ASSUME NEW n \in Nat, NEW bs \in Nat \ {0}, NEW ranks \in Nat \ {0}, NEW workers \in Nat \ {0}
  PROVE  /\ \A i \in 0 .. n - 1 : \E rank \in 0 .. ranks - 1, worker \in 0 .. workers - 1 :
              i \in PositionsOf(WorkerBlocks(n, bs, rank, worker, ranks, workers))
         /\ \A i : \A r1, r2 \in 0 .. ranks - 1 : \A w1, w2 \in 0 .. workers - 1 :
              /\ i \in PositionsOf(WorkerBlocks(n, bs, r1, w1, ranks, workers))
              /\ i \in PositionsOf(WorkerBlocks(n, bs, r2, w2, ranks, workers))
              => r1 = r2 /\ w1 = w2
<1>1. ASSUME NEW i \in 0 .. n - 1
      PROVE  \E rank \in 0 .. ranks - 1, worker \in 0 .. workers - 1 :
               i \in PositionsOf(WorkerBlocks(n, bs, rank, worker, ranks, workers))
  <2> DEFINE b == i \div bs
             q == b \div ranks
             rank == b - q * ranks
             m == q \div workers
             worker == q - m * workers
  <2>1. b \in Nat
    BY DivFacts
  <2> HIDE DEF b
  <2>2. q \in Nat /\ q * ranks <= b /\ b < (q + 1) * ranks
    BY <2>1, DivFacts
  <2> HIDE DEF q
  <2>3. q * ranks \in Nat /\ (q + 1) * ranks = q * ranks + ranks
    BY <2>2, TimesInt
  <2>4. rank \in 0 .. ranks - 1 /\ b = rank + q * ranks
    BY <2>1, <2>2, <2>3
  <2>5. m \in Nat /\ m * workers <= q /\ q < (m + 1) * workers
    BY <2>2, DivFacts
  <2> HIDE DEF m, rank
  <2>6. m * workers \in Nat /\ (m + 1) * workers = m * workers + workers
    BY <2>5, TimesInt
  <2>7. worker \in 0 .. workers - 1 /\ q = worker + m * workers
    BY <2>2, <2>5, <2>6
  <2> HIDE DEF worker
  <2>8. i \div bs = rank + (worker + m * workers) * ranks
    BY <2>4, <2>7 DEF b
  <2>9. rank \in Nat /\ worker \in Nat
    BY <2>4, <2>7
  <2>10. i \in PositionsOf(WorkerBlocks(n, bs, rank, worker, ranks, workers))
    <3>1. BlockOf(i \div bs, rank, worker, ranks, workers)
      BY <2>5, <2>8 DEF BlockOf
    <3> QED
      BY <2>9, <3>1, WorkerPositions
  <2> QED
    BY <2>4, <2>7, <2>10
<1>2. ASSUME NEW i, NEW r1 \in 0 .. ranks - 1, NEW r2 \in 0 .. ranks - 1,
             NEW w1 \in 0 .. workers - 1, NEW w2 \in 0 .. workers - 1,
             i \in PositionsOf(WorkerBlocks(n, bs, r1, w1, ranks, workers)),
             i \in PositionsOf(WorkerBlocks(n, bs, r2, w2, ranks, workers))
      PROVE  r1 = r2 /\ w1 = w2
  <2>1. r1 \in Nat /\ r2 \in Nat /\ w1 \in Nat /\ w2 \in Nat
    OBVIOUS
  <2>2. PICK m1 \in Nat : i \div bs = r1 + (w1 + m1 * workers) * ranks
    <3>1. BlockOf(i \div bs, r1, w1, ranks, workers)
      BY <1>2, <2>1, WorkerPositions
    <3> QED
      BY <3>1 DEF BlockOf
  <2>3. PICK m2 \in Nat : i \div bs = r2 + (w2 + m2 * workers) * ranks
    <3>1. BlockOf(i \div bs, r2, w2, ranks, workers)
      BY <1>2, <2>1, WorkerPositions
    <3> QED
      BY <3>1 DEF BlockOf
  <2> DEFINE t1 == w1 + m1 * workers
             t2 == w2 + m2 * workers
  <2>4. t1 \in Int /\ t2 \in Int
    <3>1. m1 * workers \in Nat /\ m2 * workers \in Nat
      BY TimesInt
    <3> QED
      BY <3>1
  <2>5. r1 + t1 * ranks = r2 + t2 * ranks
    BY <2>2, <2>3
  <2> HIDE DEF t1, t2
  <2>6. t1 = t2 /\ r1 = r2
    <3>1. t1 * ranks + r1 = t2 * ranks + r2
      <4> DEFINE x1 == t1 * ranks
                 x2 == t2 * ranks
      <4>1. x1 \in Int /\ x2 \in Int /\ r1 + x1 = r2 + x2
        BY <2>4, <2>5
      <4> HIDE DEF x1, x2
      <4>2. x1 + r1 = x2 + r2
        BY <4>1
      <4> QED
        BY <4>2 DEF x1, x2
    <3> QED
      BY <2>4, <3>1, DivUnique
  <2>7. m1 * workers + w1 = m2 * workers + w2
    <3> DEFINE x1 == m1 * workers
               x2 == m2 * workers
    <3>1. x1 \in Nat /\ x2 \in Nat /\ w1 + x1 = w2 + x2
      BY <2>6, TimesInt DEF t1, t2
    <3> HIDE DEF x1, x2
    <3>2. x1 + w1 = x2 + w2
      BY <3>1
    <3> QED
      BY <3>2 DEF x1, x2
  <2>8. w1 = w2
    <3>1. m1 \in Int /\ m2 \in Int
      OBVIOUS
    <3> QED
      BY <2>7, <3>1, DivUnique
  <2> QED
    BY <2>6, <2>8
<1> QED
  BY <1>1, <1>2

\* A list of the elements of P, each of them once.
Lists(out, P) ==
  /\ Len(out) \in Nat /\ Len(out) = Cardinality(P)
  /\ \A k \in 1 .. Len(out) : out[k] \in P
  /\ \A k, l \in 1 .. Len(out) : out[k] = out[l] => k = l
  /\ \A i \in P : \E k \in 1 .. Len(out) : out[k] = i

LEMMA StreamOrderFacts ==
  ASSUME NEW n \in Nat, NEW bs \in Nat \ {0}, NEW shuffle, NEW size, NEW rank \in Nat, NEW worker \in Nat,
         NEW ranks \in Nat \ {0}, NEW workers \in Nat \ {0},
         NEW out \in StreamOrders(n, bs, shuffle, size, rank, worker, ranks, workers)
  PROVE  Lists(out, PositionsOf(WorkerBlocks(n, bs, rank, worker, ranks, workers)))
<1> DEFINE P == PositionsOf(WorkerBlocks(n, bs, rank, worker, ranks, workers))
           c == Cardinality(P)
<1>1. IsFiniteSet(P) /\ c \in Nat
  BY WorkerPositionsFinite, FS_CardinalityType
<1>2. P \subseteq Int
  <2>1. P \subseteq 0 .. n - 1
    BY WorkerPositions
  <2> QED
    BY <2>1
<1>3. out \in Bijection(1 .. c, P)
  <2>1. out = Sorted(P) \/ out \in Bijection(1 .. c, P)
    BY DEF StreamOrders
  <2> HIDE DEF P
  <2> QED
    BY <1>1, <1>2, <2>1, SortedIsBijection
<1> HIDE DEF c, P
<1>4. out = [k \in 1 .. c |-> out[k]]
  BY <1>3 DEF Bijection, Injection
<1>5. Len(out) = c
  BY <1>1, <1>4, ListIsSeq
<1>6. /\ \A k \in 1 .. c : out[k] \in P
      /\ \A k, l \in 1 .. c : out[k] = out[l] => k = l
      /\ \A i \in P : \E k \in 1 .. c : out[k] = i
  BY <1>3 DEF Bijection, Injection, Surjection, IsInjective
<1> QED
  BY <1>1, <1>5, <1>6 DEF c, P, Lists

\* FerroIterableDataset deals out the positions.
LEMMA StreamDealt ==
  ASSUME NEW n \in Nat, NEW bs \in Nat \ {0}, NEW shuffle, NEW size,
         NEW ranks \in Nat \ {0}, NEW workers \in Nat \ {0},
         NEW lists, DOMAIN lists = (0 .. ranks - 1) \X (0 .. workers - 1),
         \A rank \in 0 .. ranks - 1, worker \in 0 .. workers - 1 :
           lists[<<rank, worker>>] \in StreamOrders(n, bs, shuffle, size, rank, worker, ranks, workers)
  PROVE  Dealt(lists, 0 .. n - 1) /\ \A a \in DOMAIN lists : Len(lists[a]) \in Nat
<1> DEFINE P(rank, worker) == PositionsOf(WorkerBlocks(n, bs, rank, worker, ranks, workers))
<1>1. ASSUME NEW rank \in 0 .. ranks - 1, NEW worker \in 0 .. workers - 1
      PROVE  LET e == lists[<<rank, worker>>]
             IN /\ Len(e) \in Nat
                /\ \A k \in 1 .. Len(e) : e[k] \in P(rank, worker)
                /\ \A k, l \in 1 .. Len(e) : e[k] = e[l] => k = l
                /\ \A i \in P(rank, worker) : \E k \in 1 .. Len(e) : e[k] = i
  <2>1. PICK e : e = lists[<<rank, worker>>]
    OBVIOUS
  <2>2. rank \in Nat /\ worker \in Nat /\ e \in StreamOrders(n, bs, shuffle, size, rank, worker, ranks, workers)
    BY <2>1
  <2>3. /\ Len(e) \in Nat
        /\ \A k \in 1 .. Len(e) : e[k] \in P(rank, worker)
        /\ \A k, l \in 1 .. Len(e) : e[k] = e[l] => k = l
        /\ \A i \in P(rank, worker) : \E k \in 1 .. Len(e) : e[k] = i
    <3>1. Lists(e, P(rank, worker))
      BY <2>2, StreamOrderFacts
    <3> QED
      BY <3>1 DEF Lists
  <2> QED
    BY <2>1, <2>3
<1>2. \A a \in DOMAIN lists : \E rank \in 0 .. ranks - 1, worker \in 0 .. workers - 1 : a = <<rank, worker>>
  OBVIOUS
<1>3. \A rank \in 0 .. ranks - 1, worker \in 0 .. workers - 1 : P(rank, worker) \subseteq 0 .. n - 1
  BY WorkerPositions
<1>4. /\ \A i \in 0 .. n - 1 : \E rank \in 0 .. ranks - 1, worker \in 0 .. workers - 1 : i \in P(rank, worker)
      /\ \A i : \A r1, r2 \in 0 .. ranks - 1 : \A w1, w2 \in 0 .. workers - 1 :
           i \in P(r1, w1) /\ i \in P(r2, w2) => r1 = r2 /\ w1 = w2
  BY PositionsDealt
<1> HIDE DEF P
<1>5. \A a \in DOMAIN lists : /\ Len(lists[a]) \in Nat
                              /\ \A k \in 1 .. Len(lists[a]) : lists[a][k] \in 0 .. n - 1
  BY <1>1, <1>2, <1>3
<1>6. ASSUME NEW i \in 0 .. n - 1
      PROVE  \E a \in DOMAIN lists : \E k \in 1 .. Len(lists[a]) : lists[a][k] = i
  <2>1. PICK rank \in 0 .. ranks - 1, worker \in 0 .. workers - 1 : i \in P(rank, worker)
    BY <1>4
  <2>2. <<rank, worker>> \in DOMAIN lists
    OBVIOUS
  <2> QED
    BY <1>1, <2>1, <2>2
<1>7. ASSUME NEW a \in DOMAIN lists, NEW b \in DOMAIN lists,
             NEW k \in 1 .. Len(lists[a]), NEW l \in 1 .. Len(lists[b]), lists[a][k] = lists[b][l]
      PROVE  a = b /\ k = l
  <2>1. PICK r1 \in 0 .. ranks - 1, w1 \in 0 .. workers - 1 : a = <<r1, w1>>
    BY <1>2
  <2>2. PICK r2 \in 0 .. ranks - 1, w2 \in 0 .. workers - 1 : b = <<r2, w2>>
    BY <1>2
  <2>3. lists[a][k] \in P(r1, w1) /\ lists[a][k] \in P(r2, w2)
    BY <1>1, <1>7, <2>1, <2>2
  <2>4. r1 = r2 /\ w1 = w2
    BY <1>4, <2>3
  <2> QED
    BY <1>1, <1>7, <2>1, <2>2, <2>4
<1> QED
  BY <1>5, <1>6, <1>7 DEF Dealt
-----------------------------------------------------------------------------
(* What an epoch delivers.                                                   *)

LEMMA Piece ==
  ASSUME NEW plan, plan \in Seq(Range(plan)), NEW from \in Nat, NEW to \in Nat, from <= to, to <= Len(plan)
  PROVE  /\ Len(SubSeq(plan, from + 1, to)) = to - from
         /\ \A j \in 1 .. to - from :
              SubSeq(plan, from + 1, to)[j] = plan[from + j] /\ from + j \in 1 .. Len(plan)
<1> DEFINE m == from + 1
<1>1. Len(plan) \in Nat /\ DOMAIN plan = 1 .. Len(plan)
  BY LenProperties
<1>2. \A i \in m .. to : plan[i] \in Range(plan)
  BY <1>1 DEF Range
<1>3. /\ Len(SubSeq(plan, m, to)) = (IF m <= to THEN to - m + 1 ELSE 0)
      /\ \A j \in 1 .. to - m + 1 : SubSeq(plan, m, to)[j] = plan[m + j - 1]
  BY <1>2, SubSeqProperties
<1>4. \A j \in 1 .. to - from : m + j - 1 = from + j /\ from + j \in 1 .. Len(plan) /\ j \in 1 .. to - m + 1
  BY <1>1
<1>5. (IF m <= to THEN to - m + 1 ELSE 0) = to - from
  OBVIOUS
<1> QED
  BY <1>3, <1>4, <1>5

\* The batch that ends at kb, or at the end of the plan: its samples, and how many they are.
LEMMA BatchItems ==
  ASSUME NEW plan, plan \in Seq(Range(plan)), NEW b \in Nat \ {0},
         NEW kb \in Nat, kb - b \in Nat, kb - b <= Len(plan),
         NEW batch, batch = SubSeq(plan, kb - b + 1, IF kb < Len(plan) THEN kb ELSE Len(plan))
  PROVE  /\ Len(batch) = (IF kb < Len(plan) THEN b ELSE Len(plan) - (kb - b))
         /\ \A j \in 1 .. Len(batch) :
              batch[j] = plan[kb - b + j] /\ kb - b + j \in 1 .. Len(plan)
<1> DEFINE to == IF kb < Len(plan) THEN kb ELSE Len(plan)
           from == kb - b
<1>1. batch = SubSeq(plan, from + 1, to)
  OBVIOUS
<1>2. Len(plan) \in Nat
  BY LenProperties
<1>3. to \in Nat /\ to <= Len(plan) /\ from <= to
  BY <1>2
<1>4. to - from = (IF kb < Len(plan) THEN b ELSE Len(plan) - from)
  BY <1>2
<1> HIDE DEF to
<1>5. from \in Nat
  OBVIOUS
<1> HIDE DEF from
<1>6. /\ Len(SubSeq(plan, from + 1, to)) = to - from
      /\ \A j \in 1 .. to - from :
           SubSeq(plan, from + 1, to)[j] = plan[from + j] /\ from + j \in 1 .. Len(plan)
  BY <1>3, <1>5, Piece
<1> QED
  BY <1>1, <1>4, <1>6 DEF from

\* Sample p of a plan is in one batch, in one place.
LEMMA BatchOf ==
  ASSUME NEW b \in Nat \ {0}, NEW L \in Nat, NEW p \in 1 .. L
  PROVE  \E k \in 1 .. (L + b - 1) \div b : \E j \in 1 .. b : p = k * b - b + j /\ k <= p /\ j <= p
<1> DEFINE q == (p - 1) \div b
           m == (L + b - 1) \div b
           k == q + 1
           j == p - q * b
<1>1. q \in Nat /\ q * b <= p - 1 /\ p - 1 < (q + 1) * b
  BY DivFacts
<1>2. m \in Nat /\ m * b <= L + b - 1 /\ L + b - 1 < (m + 1) * b
  <2>1. L + b - 1 \in Nat
    OBVIOUS
  <2> QED
    BY <2>1, DivFacts
<1> HIDE DEF q, m
<1>3. q * b \in Nat /\ (q + 1) * b = q * b + b /\ k * b = q * b + b /\ q <= q * b
  <2>1. q * 1 <= q * b
    BY <1>1
  <2> QED
    BY <1>1, <2>1, TimesInt
<1>4. j \in 1 .. b /\ j <= p /\ p = k * b - b + j
  BY <1>1, <1>3
<1>5. k <= p
  BY <1>1, <1>3
<1>6. k <= m
  <2> DEFINE kb == k * b
             mb == (m + 1) * b
  <2>1. kb \in Int /\ mb \in Int /\ kb < mb
    <3>1. q * b + b <= L + b - 1
      BY <1>1, <1>3
    <3> QED
      BY <1>2, <1>3, <3>1
  <2>2. k < m + 1
    BY <1>1, <1>2, <2>1, TimesLess
  <2> QED
    BY <1>1, <1>2, <2>2
<1>7. k \in 1 .. m
  BY <1>1, <1>2, <1>6
<1> QED
  BY <1>4, <1>5, <1>7 DEF m

\* The place in the plan of sample j of batch k.
PlaceOf(k, j) == k * setup.batch_size - setup.batch_size + j

\* Every sample of the plan is in one of the batches, and nothing else is.
CoversPlan(x) ==
  /\ Len(x.plan) \in Nat /\ Len(x.got) \in Nat
  /\ \A k \in 1 .. Len(x.got) : Len(x.got[k]) \in Nat
  /\ \A k \in 1 .. Len(x.got) : \A j \in 1 .. Len(x.got[k]) :
       PlaceOf(k, j) \in 1 .. Len(x.plan) /\ x.got[k][j] = x.plan[PlaceOf(k, j)]
  /\ \A k, l \in 1 .. Len(x.got) : \A j \in 1 .. Len(x.got[k]), i \in 1 .. Len(x.got[l]) :
       PlaceOf(k, j) = PlaceOf(l, i) => k = l /\ j = i
  /\ \A p \in 1 .. Len(x.plan) : \E k \in 1 .. Len(x.got) : \E j \in 1 .. Len(x.got[k]) :
       p = PlaceOf(k, j) /\ k <= p /\ j <= p

LEMMA WholeCoversPlan ==
  ASSUME setup \in Setups, NEW x, ReaderInv(x), EndedWell(x), ~setup.drop_last
  PROVE  CoversPlan(x)
<1> DEFINE L == Len(x.plan)
           b == setup.batch_size
           m == (L + b - 1) \div b
<1>1. /\ L \in Nat /\ x.plan \in Seq(Range(x.plan)) /\ Len(x.got) = m
      /\ \A k \in 1 .. m : x.got[k] = BatchAt(x.plan, k)
  <2>1. x \in ReaderOf(Range(x.plan)) /\ Delivered(x)
    BY DEF ReaderInv
  <2>2. NumBatches(setup, L) = m
    BY DEF NumBatches
  <2> QED
    BY <2>1, <2>2, ReaderFacts DEF Delivered, Batches
<1>2. b \in Nat \ {0}
  BY SetupFacts
<1> HIDE DEF L, m
<1>3. m \in Nat /\ m * b <= L + b - 1
  <2> HIDE DEF b
  <2>1. L + b - 1 \in Nat
    BY <1>1, <1>2
  <2> QED
    BY <1>2, <2>1, DivFacts DEF m
<1>4. ASSUME NEW k \in 1 .. m
      PROVE  /\ k * b \in Nat /\ k * b - b \in Nat /\ k * b - b < L
             /\ Len(x.got[k]) = (IF k * b < L THEN b ELSE L - (k * b - b))
             /\ \A j \in 1 .. Len(x.got[k]) :
                  PlaceOf(k, j) \in 1 .. L /\ x.got[k][j] = x.plan[PlaceOf(k, j)]
  <2> HIDE DEF b
  <2>1. k * b <= m * b /\ k * b = (k - 1) * b + b /\ (k - 1) * b \in Nat /\ k * b \in Nat
    <3>1. k * b <= m * b
      BY <1>2, <1>3, TimesMonotone
    <3>2. k * b = (k - 1) * b + b
      BY <1>2
    <3>3. (k - 1) * b \in Nat /\ k * b \in Nat
      BY <1>2, TimesInt
    <3> QED
      BY <3>1, <3>2, <3>3
  <2>2. PICK kb : kb = k * b
    OBVIOUS
  <2>3. PICK k1 : k1 = (k - 1) * b
    OBVIOUS
  <2>4. PICK mb : mb = m * b
    OBVIOUS
  <2>5. kb \in Nat /\ kb - b \in Nat /\ kb - b < L
    <3>1. kb <= mb /\ kb = k1 + b /\ k1 \in Nat /\ kb \in Nat /\ mb <= L + b - 1
      BY <1>3, <2>1, <2>2, <2>3, <2>4
    <3>2. mb \in Nat
      BY <1>2, <1>3, <2>4, TimesInt
    <3> QED
      BY <1>1, <1>2, <3>1, <3>2
  <2>6. kb - b <= Len(x.plan) /\ k \in Nat
    BY <1>1, <1>2, <2>5 DEF L
  <2>7. x.got[k] = BatchAt(x.plan, k) /\ x.plan \in Seq(Range(x.plan)) /\ b = setup.batch_size
    BY <1>1 DEF b
  <2>8. /\ Len(x.got[k]) = (IF kb < L THEN b ELSE L - (kb - b))
        /\ \A j \in 1 .. Len(x.got[k]) : x.got[k][j] = x.plan[kb - b + j] /\ kb - b + j \in 1 .. L
    <3>1. PICK plan : plan = x.plan
      OBVIOUS
    <3>2. plan \in Seq(Range(plan)) /\ kb - b <= Len(plan)
      BY <2>6, <2>7, <3>1
    <3>3. PICK batch : batch = BatchAt(plan, k)
      OBVIOUS
    <3>4. batch = SubSeq(plan, kb - b + 1, IF kb < Len(plan) THEN kb ELSE Len(plan))
      BY <2>2, <3>3 DEF BatchAt, b
    <3>5. /\ Len(batch) = (IF kb < Len(plan) THEN b ELSE Len(plan) - (kb - b))
          /\ \A j \in 1 .. Len(batch) : batch[j] = plan[kb - b + j] /\ kb - b + j \in 1 .. Len(plan)
      BY <1>2, <2>5, <3>2, <3>4, BatchItems
    <3> QED
      BY <2>7, <3>1, <3>3, <3>5 DEF L
  <2> QED
    BY <2>2, <2>5, <2>8 DEF PlaceOf, b
<1>5. ASSUME NEW k \in 1 .. m
      PROVE  Len(x.got[k]) \in Nat /\ Len(x.got[k]) <= b
  <2>1. PICK kb : kb = k * b
    OBVIOUS
  <2>2. kb \in Nat /\ kb - b \in Nat /\ kb - b < L /\ Len(x.got[k]) = (IF kb < L THEN b ELSE L - (kb - b))
    BY <1>4, <2>1
  <2> QED
    BY <1>1, <1>2, <2>2
<1>6. ASSUME NEW k \in 1 .. m, NEW l \in 1 .. m, NEW j \in 1 .. Len(x.got[k]), NEW i \in 1 .. Len(x.got[l]),
             PlaceOf(k, j) = PlaceOf(l, i)
      PROVE  k = l /\ j = i
  <2> HIDE DEF b
  <2>1. j - 1 \in 0 .. b - 1 /\ i - 1 \in 0 .. b - 1
    BY <1>2, <1>5
  <2>2. k * b + (j - 1) = l * b + (i - 1)
    <3>1. PICK kb : kb = k * b
      OBVIOUS
    <3>2. PICK lb : lb = l * b
      OBVIOUS
    <3>3. kb \in Nat /\ lb \in Nat /\ kb - b + j = lb - b + i /\ j \in Int /\ i \in Int
      BY <1>4, <1>5, <1>6, <3>1, <3>2 DEF PlaceOf, b
    <3>4. kb + (j - 1) = lb + (i - 1)
      BY <1>2, <3>3
    <3> QED
      BY <3>1, <3>2, <3>4
  <2>3. k = l /\ j - 1 = i - 1
    <3>1. k \in Int /\ l \in Int
      OBVIOUS
    <3> QED
      BY <1>2, <2>1, <2>2, <3>1, DivUnique
  <2>4. j \in Int /\ i \in Int
    BY <1>5
  <2> QED
    BY <2>3, <2>4
<1>7. ASSUME NEW p \in 1 .. L
      PROVE  \E k \in 1 .. m : \E j \in 1 .. Len(x.got[k]) : p = PlaceOf(k, j) /\ k <= p /\ j <= p
  <2>1. PICK k \in 1 .. m : \E j \in 1 .. b : p = k * b - b + j /\ k <= p /\ j <= p
    BY <1>1, <1>2, BatchOf DEF m
  <2>2. PICK j \in 1 .. b : p = k * b - b + j /\ k <= p /\ j <= p
    BY <2>1
  <2> HIDE DEF b
  <2>3. j \in 1 .. Len(x.got[k])
    <3>1. PICK kb : kb = k * b
      OBVIOUS
    <3>2. kb \in Nat /\ Len(x.got[k]) = (IF kb < L THEN b ELSE L - (kb - b)) /\ p = kb - b + j
      BY <1>4, <2>2, <3>1
    <3> QED
      BY <1>1, <1>2, <3>2
  <2> QED
    BY <2>2, <2>3 DEF PlaceOf, b
<1> QED
  BY <1>1, <1>3, <1>4, <1>5, <1>6, <1>7 DEF CoversPlan, L

Plans == [a \in DOMAIN rd |-> rd[a].plan]

\* Lists that deal out V are no longer than V.
LEMMA DealtLen ==
  ASSUME NEW plans, NEW V, IsFiniteSet(V), Dealt(plans, V), NEW a \in DOMAIN plans, Len(plans[a]) \in Nat
  PROVE  Len(plans[a]) <= Cardinality(V)
<1> DEFINE n == Len(plans[a])
           f == [k \in 1 .. n |-> plans[a][k]]
<1>1. f \in [1 .. n -> V] /\ \A k, l \in 1 .. n : f[k] = f[l] => k = l
  BY DEF Dealt
<1>2. f \in Injection(1 .. n, V)
  BY <1>1 DEF Injection, IsInjective
<1>0. n \in Nat
  OBVIOUS
<1> HIDE DEF f, n
<1>3. Cardinality(1 .. n) <= Cardinality(V)
  BY <1>2, FS_Injection
<1>4. Cardinality(1 .. n) = n
  BY <1>0, FS_Interval
<1> QED
  BY <1>3, <1>4 DEF n

\* When every plan is covered by its reader's batches, they deliver the view.
LEMMA AllDelivered ==
  ASSUME IsFiniteSet(view), Dealt(Plans, view), \A a \in DOMAIN rd : CoversPlan(rd[a])
  PROVE  /\ {rd[d[1]].got[d[2]][d[3]] : d \in Deliveries} = view
         /\ Cardinality(Deliveries) = Cardinality(view)
<1> DEFINE item(d) == rd[d[1]].got[d[2]][d[3]]
           n(a) == Len(rd[a].plan)
<1>1. /\ \A a \in DOMAIN rd : \A p \in 1 .. n(a) : rd[a].plan[p] \in view
      /\ \A x \in view : \E a \in DOMAIN rd : \E p \in 1 .. n(a) : rd[a].plan[p] = x
      /\ \A a, c \in DOMAIN rd : \A p \in 1 .. n(a), q \in 1 .. n(c) :
           rd[a].plan[p] = rd[c].plan[q] => a = c /\ p = q
  BY DEF Dealt, Plans
<1>2. ASSUME NEW a \in DOMAIN rd
      PROVE  n(a) \in Nat /\ n(a) <= Size
  <2>1. n(a) \in Nat
    BY DEF CoversPlan
  <2>2. a \in DOMAIN Plans /\ Plans[a] = rd[a].plan
    BY DEF Plans
  <2>3. Len(Plans[a]) <= Cardinality(view)
    BY <2>1, <2>2, DealtLen
  <2> QED
    BY <2>1, <2>2, <2>3 DEF Size
<1>3. Size \in Nat
  BY FS_CardinalityType DEF Size
<1>4. ASSUME NEW d \in Deliveries
      PROVE  /\ d = <<d[1], d[2], d[3]>> /\ d[1] \in DOMAIN rd /\ d[2] \in 1 .. Len(rd[d[1]].got)
             /\ d[3] \in 1 .. Len(rd[d[1]].got[d[2]])
             /\ PlaceOf(d[2], d[3]) \in 1 .. n(d[1]) /\ item(d) = rd[d[1]].plan[PlaceOf(d[2], d[3])]
  <2>1. d = <<d[1], d[2], d[3]>> /\ d[1] \in DOMAIN rd /\ d[2] \in 1 .. Size /\ d[3] \in 1 .. Size
        /\ d[2] <= Len(rd[d[1]].got) /\ d[3] <= Len(rd[d[1]].got[d[2]])
    BY DEF Deliveries
  <2>2. CoversPlan(rd[d[1]])
    BY <2>1
  <2>3. Len(rd[d[1]].got) \in Nat
    BY <2>2 DEF CoversPlan
  <2>4. d[2] \in 1 .. Len(rd[d[1]].got)
    BY <1>3, <2>1, <2>3
  <2>5. Len(rd[d[1]].got[d[2]]) \in Nat
    BY <2>2, <2>4 DEF CoversPlan
  <2>6. d[3] \in 1 .. Len(rd[d[1]].got[d[2]])
    BY <1>3, <2>1, <2>5
  <2> QED
    <3>1. \A k \in 1 .. Len(rd[d[1]].got) : \A j \in 1 .. Len(rd[d[1]].got[k]) :
            PlaceOf(k, j) \in 1 .. n(d[1]) /\ rd[d[1]].got[k][j] = rd[d[1]].plan[PlaceOf(k, j)]
      BY <2>2 DEF CoversPlan
    <3> QED
      BY <2>1, <2>4, <2>6, <3>1
<1>5. ASSUME NEW x \in view
      PROVE  \E d \in Deliveries : item(d) = x
  <2>0. PICK a \in DOMAIN rd : \E p \in 1 .. n(a) : rd[a].plan[p] = x
    BY <1>1
  <2>1. PICK p \in 1 .. n(a) : rd[a].plan[p] = x
    BY <2>0
  <2>2. CoversPlan(rd[a]) /\ n(a) \in Nat /\ n(a) <= Size
    BY <1>2
  <2>3. PICK k \in 1 .. Len(rd[a].got) : \E j \in 1 .. Len(rd[a].got[k]) : p = PlaceOf(k, j) /\ k <= p /\ j <= p
    BY <2>2 DEF CoversPlan
  <2>4. PICK j \in 1 .. Len(rd[a].got[k]) : p = PlaceOf(k, j) /\ k <= p /\ j <= p
    BY <2>3
  <2>5. rd[a].got[k][j] = x
    BY <2>1, <2>2, <2>4 DEF CoversPlan
  <2>6. Len(rd[a].got) \in Nat /\ Len(rd[a].got[k]) \in Nat
    BY <2>2 DEF CoversPlan
  <2>7. k \in 1 .. Size /\ j \in 1 .. Size /\ k <= Len(rd[a].got) /\ j <= Len(rd[a].got[k])
    BY <1>3, <2>2, <2>4, <2>6
  <2>8. <<a, k, j>> \in Deliveries
    BY <2>7 DEF Deliveries
  <2> QED
    BY <2>5, <2>8
<1>6. ASSUME NEW d \in Deliveries, NEW e \in Deliveries, item(d) = item(e)
      PROVE  d = e
  <2>1. d[1] = e[1] /\ PlaceOf(d[2], d[3]) = PlaceOf(e[2], e[3])
    <3>1. PICK a, p : a = d[1] /\ p = PlaceOf(d[2], d[3])
      OBVIOUS
    <3>2. PICK c, q : c = e[1] /\ q = PlaceOf(e[2], e[3])
      OBVIOUS
    <3>3. a \in DOMAIN rd /\ p \in 1 .. n(a) /\ item(d) = rd[a].plan[p]
      BY <1>4, <3>1
    <3>4. c \in DOMAIN rd /\ q \in 1 .. n(c) /\ item(e) = rd[c].plan[q]
      BY <1>4, <3>2
    <3>5. rd[a].plan[p] = rd[c].plan[q]
      BY <1>6, <3>3, <3>4
    <3>6. a = c /\ p = q
      BY <1>1, <3>3, <3>4, <3>5
    <3> QED
      BY <3>1, <3>2, <3>6
  <2>2. d[2] = e[2] /\ d[3] = e[3]
    <3>1. CoversPlan(rd[d[1]]) /\ d[1] = e[1] /\ PlaceOf(d[2], d[3]) = PlaceOf(e[2], e[3])
      BY <1>4, <2>1
    <3>2. /\ d[2] \in 1 .. Len(rd[d[1]].got) /\ d[3] \in 1 .. Len(rd[d[1]].got[d[2]])
          /\ e[2] \in 1 .. Len(rd[d[1]].got) /\ e[3] \in 1 .. Len(rd[d[1]].got[e[2]])
      BY <1>4, <3>1
    <3> DEFINE got == rd[d[1]].got
    <3>3. \A k, l \in 1 .. Len(got) : \A j \in 1 .. Len(got[k]), i \in 1 .. Len(got[l]) :
            PlaceOf(k, j) = PlaceOf(l, i) => k = l /\ j = i
      BY <3>1 DEF CoversPlan
    <3>4. PICK k, l : k = d[2] /\ l = e[2]
      OBVIOUS
    <3>5. PICK j, i : j = d[3] /\ i = e[3]
      OBVIOUS
    <3>6. /\ k \in 1 .. Len(got) /\ l \in 1 .. Len(got) /\ j \in 1 .. Len(got[k])
          /\ i \in 1 .. Len(got[l]) /\ PlaceOf(k, j) = PlaceOf(l, i)
      BY <3>1, <3>2, <3>4, <3>5
    <3> HIDE DEF got
    <3>7. k = l /\ j = i
      BY <3>3, <3>6
    <3> QED
      BY <3>4, <3>5, <3>7
  <2> QED
    BY <1>4, <2>1, <2>2
<1>7. \A d \in Deliveries : item(d) \in view
  BY <1>1, <1>4
<1> HIDE DEF item
<1>8. Cardinality(Deliveries) = Cardinality(view)
  <2> DEFINE f == [d \in Deliveries |-> item(d)]
  <2>1. f \in [Deliveries -> view]
    BY <1>7
  <2>2. \A d, e \in Deliveries : f[d] = f[e] => d = e
    BY <1>6
  <2>3. \A x \in view : \E d \in Deliveries : f[d] = x
    BY <1>5
  <2> HIDE DEF f
  <2>4. f \in Injection(Deliveries, view) /\ f \in Surjection(Deliveries, view)
    BY <2>1, <2>2, <2>3 DEF Injection, IsInjective, Surjection
  <2> QED
    BY <2>4, FS_Injection
<1>9. {item(d) : d \in Deliveries} = view
  BY <1>5, <1>7
<1> QED
  BY <1>8, <1>9 DEF item
-----------------------------------------------------------------------------
(* len(loader).                                                              *)

\* A rank's only worker reads all of its blocks.
LEMMA OnlyWorker ==
  ASSUME NEW n \in Nat, NEW bs \in Nat \ {0}, NEW ranks \in Nat \ {0}, NEW rank \in Nat
  PROVE  PositionsOf(WorkerBlocks(n, bs, rank, 0, ranks, 1)) = PositionsOf(RankBlocks(n, bs, rank, ranks))
<1> DEFINE xs == RankBlocks(n, bs, rank, ranks)
           e == EveryNth(xs, 0, 1)
<1>1. Len(xs) \in Nat
  <2>1. PICK all : all = Blocks(n, bs)
    OBVIOUS
  <2>2. Len(all) \in Nat
    BY <2>1, BlockFacts
  <2>3. Len(EveryNth(all, rank, ranks)) \in Nat
    BY <2>2, EveryNthDomain
  <2> QED
    BY <2>1, <2>3 DEF RankBlocks
<1>2. WorkerBlocks(n, bs, rank, 0, ranks, 1) = e
  BY DEF WorkerBlocks
<1> HIDE DEF xs
<1>3. /\ Len(e) = (IF 0 < Len(xs) THEN (Len(xs) - 0 - 1) \div 1 + 1 ELSE 0)
      /\ \A k \in 1 .. Len(e) : e[k] = xs[0 + (k - 1) * 1 + 1]
  BY <1>1, EveryNthDomain
<1> HIDE DEF e
<1>4. Len(e) = Len(xs)
  <2>1. \A x \in Nat : x \div 1 = x
    OBVIOUS
  <2>2. ASSUME 0 < Len(xs) PROVE (Len(xs) - 0 - 1) \div 1 + 1 = Len(xs)
    <3>1. Len(xs) - 0 - 1 \in Nat
      BY <1>1, <2>2
    <3> QED
      BY <1>1, <2>1, <3>1
  <2> QED
    BY <1>1, <1>3, <2>2
<1>5. \A k \in 1 .. Len(e) : e[k] = xs[k]
  <2>1. \A k \in 1 .. Len(e) : 0 + (k - 1) * 1 + 1 = k
    OBVIOUS
  <2> QED
    BY <1>3, <2>1
<1> QED
  BY <1>2, <1>4, <1>5 DEF PositionsOf, xs

\* The lists of positions a loader is opened with.
PositionsOK(s, lists) ==
  /\ DOMAIN lists = Readers(s)
  /\ IF s.mode = "sampler"
     THEN \E order \in Orders(Size, s.block, s.shuffle) : \A a \in Readers(s) :
            lists[a] = Indices(order, a[1], a[2], s.ranks, s.workers, 0)
     ELSE \A a \in Readers(s) :
            lists[a] \in StreamOrders(Size, s.block, s.shuffle, s.buffer, a[1], a[2], s.ranks, s.workers)

LEMMA PositionsLen ==
  ASSUME NEW s \in Setups, NEW lists, PositionsOK(s, lists), Size \in Nat, s.workers = 1, NEW a \in Readers(s)
  PROVE  Len(lists[a]) = LoaderLen(s, a[1])
<1>1. /\ s.ranks \in Nat \ {0} /\ s.block \in Nat \ {0} /\ s.mode \in {"sampler", "stream"}
      /\ a[1] \in 0 .. s.ranks - 1 /\ a[2] = 0
  BY LoaderAssumption DEF SetupOK, Readers
<1>2. CASE s.mode = "sampler"
  <2>1. PICK order \in Orders(Size, s.block, s.shuffle) : lists[a] = Indices(order, a[1], 0, s.ranks, 1, 0)
    BY <1>1, <1>2 DEF PositionsOK
  <2> DEFINE positions == [k \in 1 .. Size |-> k - 1]
  <2>2. Len(positions) = Size
    BY ListIsSeq
  <2>3. Len(order) = Size
    BY OrderFacts
  <2> HIDE DEF positions
  <2>4. \A o : Len(o) = Size =>
          Len(Indices(o, a[1], 0, s.ranks, 1, 0))
            = IF GlobalWorker(a[1], 0, s.ranks, 1) < Size
              THEN (Size - GlobalWorker(a[1], 0, s.ranks, 1) - 1) \div NumBuckets(s.ranks, 1) + 1 ELSE 0
    <3> SUFFICES ASSUME NEW o, Len(o) = Size
                 PROVE  Len(Indices(o, a[1], 0, s.ranks, 1, 0))
                          = IF GlobalWorker(a[1], 0, s.ranks, 1) < Size
                            THEN (Size - GlobalWorker(a[1], 0, s.ranks, 1) - 1) \div NumBuckets(s.ranks, 1) + 1 ELSE 0
      OBVIOUS
    <3>1. 0 \in 0 .. 1 - 1 /\ Len(o) \in Nat /\ 1 \in Nat \ {0}
      OBVIOUS
    <3>2. PICK ranks, rank : ranks = s.ranks /\ rank = a[1]
      OBVIOUS
    <3>3. ranks \in Nat \ {0} /\ rank \in 0 .. ranks - 1
      BY <1>1, <3>2
    <3>4. Len(Indices(o, rank, 0, ranks, 1, 0))
            = IF GlobalWorker(rank, 0, ranks, 1) < Len(o)
              THEN (Len(o) - GlobalWorker(rank, 0, ranks, 1) - 1) \div NumBuckets(ranks, 1) + 1 ELSE 0
      BY <3>1, <3>3, SliceIsList
    <3> QED
      BY <3>2, <3>4
  <2>5. Len(Indices(order, a[1], 0, s.ranks, 1, 0)) = Len(Indices(positions, a[1], 0, s.ranks, 1, 0))
    BY <2>2, <2>3, <2>4
  <2>6. LoaderLen(s, a[1]) = Len(Indices(positions, a[1], 0, s.ranks, 1, 0))
    BY <1>2 DEF LoaderLen, positions
  <2> QED
    BY <2>1, <2>5, <2>6
<1>3. CASE s.mode # "sampler"
  <2>1. lists[a] \in StreamOrders(Size, s.block, s.shuffle, s.buffer, a[1], 0, s.ranks, 1)
    BY <1>1, <1>3 DEF PositionsOK
  <2>2. Lists(lists[a], PositionsOf(WorkerBlocks(Size, s.block, a[1], 0, s.ranks, 1)))
    <3>1. PICK out, ranks, rank, bs, shuffle, size :
            /\ out = lists[a] /\ ranks = s.ranks /\ rank = a[1] /\ bs = s.block /\ shuffle = s.shuffle
            /\ size = s.buffer
      OBVIOUS
    <3>2. ranks \in Nat \ {0} /\ rank \in Nat /\ bs \in Nat \ {0} /\ 0 \in Nat /\ 1 \in Nat \ {0}
      BY <1>1, <3>1
    <3>3. out \in StreamOrders(Size, bs, shuffle, size, rank, 0, ranks, 1)
      BY <2>1, <3>1
    <3>4. Lists(out, PositionsOf(WorkerBlocks(Size, bs, rank, 0, ranks, 1)))
      BY <3>2, <3>3, StreamOrderFacts
    <3> QED
      BY <3>1, <3>4
  <2>3. PositionsOf(WorkerBlocks(Size, s.block, a[1], 0, s.ranks, 1)) = PositionsOf(RankBlocks(Size, s.block, a[1], s.ranks))
    BY <1>1, OnlyWorker
  <2> QED
    BY <1>3, <2>2, <2>3 DEF Lists, LoaderLen
<1> QED
  BY <1>2, <1>3

LEMMA PositionsAreDealt ==
  ASSUME NEW s \in Setups, NEW lists, PositionsOK(s, lists), Size \in Nat
  PROVE  Dealt(lists, 0 .. Size - 1) /\ \A a \in DOMAIN lists : Len(lists[a]) \in Nat
<1>1. PICK ranks, workers, bs, shuffle, size :
        ranks = s.ranks /\ workers = s.workers /\ bs = s.block /\ shuffle = s.shuffle /\ size = s.buffer
  OBVIOUS
<1>2. ranks \in Nat \ {0} /\ workers \in Nat \ {0} /\ bs \in Nat \ {0}
  BY <1>1, SetupFacts
<1>3. DOMAIN lists = (0 .. ranks - 1) \X (0 .. workers - 1)
  BY <1>1 DEF PositionsOK, Readers
<1>4. CASE s.mode = "sampler"
  <2>1. PICK order \in Orders(Size, bs, shuffle) :
          \A a \in Readers(s) : lists[a] = Indices(order, a[1], a[2], ranks, workers, 0)
    BY <1>1, <1>4 DEF PositionsOK
  <2>2. \A rank \in 0 .. ranks - 1, worker \in 0 .. workers - 1 :
          lists[<<rank, worker>>] = Indices(order, rank, worker, ranks, workers, 0)
    BY <1>1, <2>1 DEF Readers
  <2>3. AreSlices(lists, order, ranks, workers)
    BY <2>2 DEF AreSlices
  <2> QED
    BY <1>2, <1>3, <2>3, SamplerDealt
<1>5. CASE s.mode # "sampler"
  <2>1. \A a \in Readers(s) : lists[a] \in StreamOrders(Size, bs, shuffle, size, a[1], a[2], ranks, workers)
    BY <1>1, <1>5 DEF PositionsOK
  <2>2. \A rank \in 0 .. ranks - 1, worker \in 0 .. workers - 1 :
          lists[<<rank, worker>>] \in StreamOrders(Size, bs, shuffle, size, rank, worker, ranks, workers)
    BY <1>1, <2>1 DEF Readers
  <2> QED
    BY <1>2, <1>3, <2>2, StreamDealt
<1> QED
  BY <1>4, <1>5
-----------------------------------------------------------------------------
(* The epoch as it was dealt out.                                            *)

\* The plans deal the view out, for as long as the loader is open.
DealtOut ==
  rd # <<>> =>
    /\ setup \in Setups /\ Dealt(Plans, view)
    /\ setup.workers = 1 => \A a \in DOMAIN rd : Len(rd[a].plan) = LoaderLen(setup, a[1])

\* The view is what the predicates select, of the metadata as they were given.
ViewGiven ==
  /\ view \subseteq Nat
  /\ \A k \in 1 .. Len(shards) : RowsOK(shards[k])
  /\ asked.faithful \/ rd # <<>> => asked.given = view

OnceInv == EInv /\ DealtOut /\ ViewGiven

LEMMA OpenDeals == EInv /\ view \subseteq Nat /\ Open => DealtOut'
<1> SUFFICES ASSUME EInv, view \subseteq Nat, Open
             PROVE  DealtOut'
  OBVIOUS
<1>1. PICK s \in Setups :
        \E plans \in IF s.mode = "sampler" THEN SamplerPlans(s) ELSE StreamPlans(s) :
          /\ setup' = s
          /\ rd' = [a \in Readers(s) |-> Started(plans[a], plans[a], <<>>)]
  BY DEF Open
<1>2. PICK plans \in IF s.mode = "sampler" THEN SamplerPlans(s) ELSE StreamPlans(s) :
        /\ setup' = s
        /\ rd' = [a \in Readers(s) |-> Started(plans[a], plans[a], <<>>)]
  BY <1>1
<1>3. IsFiniteSet(view) /\ view' = view /\ Size \in Nat
  BY FS_CardinalityType DEF EInv, Open, Size
<1>4. PICK lists : PositionsOK(s, lists) /\ plans = [a \in Readers(s) |-> ToIds(lists[a])]
  <2>1. CASE s.mode = "sampler"
    <3>1. PICK order \in Orders(Size, s.block, s.shuffle) :
            plans = [a \in Readers(s) |-> ToIds(Indices(order, a[1], a[2], s.ranks, s.workers, 0))]
      BY <1>2, <2>1 DEF SamplerPlans
    <3> DEFINE f == [a \in Readers(s) |-> Indices(order, a[1], a[2], s.ranks, s.workers, 0)]
    <3>2. plans = [a \in Readers(s) |-> ToIds(f[a])]
      BY <3>1
    <3>3. PositionsOK(s, f)
      BY <2>1 DEF PositionsOK
    <3> QED
      BY <3>2, <3>3
  <2>2. CASE s.mode # "sampler"
    <3> DEFINE orders(a) == StreamOrders(Size, s.block, s.shuffle, s.buffer, a[1], a[2], s.ranks, s.workers)
    <3>1. PICK f \in [Readers(s) -> UNION {orders(a) : a \in Readers(s)}] :
            /\ plans = [a \in Readers(s) |-> ToIds(f[a])]
            /\ \A a \in Readers(s) : f[a] \in orders(a)
      BY <1>2, <2>2 DEF StreamPlans
    <3>2. PositionsOK(s, f)
      BY <2>2, <3>1 DEF PositionsOK
    <3> QED
      BY <3>1, <3>2
  <2> QED
    BY <2>1, <2>2
<1>5. Dealt(lists, 0 .. Size - 1) /\ (\A a \in DOMAIN lists : Len(lists[a]) \in Nat) /\ DOMAIN lists = Readers(s)
  BY <1>3, <1>4, PositionsAreDealt DEF PositionsOK
<1>6. Dealt(plans, view)
  <2>1. view \subseteq Int /\ DOMAIN plans = DOMAIN lists /\ \A a \in DOMAIN lists : plans[a] = ToIds(lists[a])
    BY <1>4, <1>5
  <2> QED
    BY <1>3, <1>5, <2>1, IdsDealt
<1>7. Plans' = plans /\ DOMAIN rd' = Readers(s) /\ \A a \in DOMAIN rd' : rd'[a].plan = plans[a]
  <2>1. \A a \in Readers(s) : rd'[a].plan = plans[a]
    BY <1>2 DEF Started
  <2>2. DOMAIN rd' = Readers(s)
    BY <1>2
  <2>3. plans = [a \in Readers(s) |-> plans[a]]
    BY <1>4
  <2> QED
    BY <2>1, <2>2, <2>3 DEF Plans
<1>8. ASSUME s.workers = 1, NEW a \in Readers(s)
      PROVE  Len(plans[a]) = LoaderLen(s, a[1])
  <2>1. Len(lists[a]) = LoaderLen(s, a[1]) /\ Len(lists[a]) \in Nat
    BY <1>3, <1>4, <1>5, <1>8, PositionsLen
  <2>2. Len(ToIds(lists[a])) = Len(lists[a])
    BY <2>1, ToIdsLen
  <2> QED
    BY <1>4, <2>1, <2>2
<1>9. LoaderLen(s, 0)' = LoaderLen(s, 0) /\ \A r : LoaderLen(s, r)' = LoaderLen(s, r)
  BY <1>3 DEF LoaderLen, Size
<1> QED
  BY <1>2, <1>3, <1>6, <1>7, <1>8, <1>9 DEF DealtOut

LEMMA PlanStays ==
  ASSUME EInv, DealtOut, NEW a \in DOMAIN rd, NEW y, y.plan = rd[a].plan,
         rd' = [rd EXCEPT ![a] = y], setup' = setup, view' = view
  PROVE  DealtOut'
<1>1. DOMAIN rd' = DOMAIN rd /\ \A b \in DOMAIN rd : rd'[b].plan = rd[b].plan
  BY DEF EInv
<1>2. Plans' = Plans
  BY <1>1 DEF Plans
<1>3. rd # <<>>
  OBVIOUS
<1>4. \A r : LoaderLen(setup, r)' = LoaderLen(setup, r)
  BY DEF LoaderLen, Size
<1> QED
  BY <1>1, <1>2, <1>3, <1>4 DEF DealtOut

LEMMA ViewGivenKept == ViewGiven /\ [Next]_vars => ViewGiven'
<1> SUFFICES ASSUME ViewGiven, [Next]_vars
             PROVE  ViewGiven'
  OBVIOUS
<1>1. ASSUME NEW expr \in Wheres, Subset(expr)
      PROVE  ViewGiven'
  <2>1. /\ view' = StreamedIds(shards, expr) \cap view /\ shards' = shards /\ rd = <<>> /\ rd' = rd
        /\ asked'.given = asked.given \cap GivenIds(shards, expr)
        /\ asked'.faithful = (asked.faithful /\ Comparable(shards, expr) /\ Faithful(shards, expr))
    BY <1>1 DEF Subset
  <2>2. expr \in Nodes
    BY LoaderAssumption DEF Nodes
  <2>3. \A k \in 1 .. Len(shards) : RowsOK(shards[k])
    BY DEF ViewGiven
  <2>4. ASSUME asked'.faithful
        PROVE  asked'.given = view'
    <3>1. asked.faithful /\ Comparable(shards, expr) /\ Faithful(shards, expr)
      BY <2>1, <2>4
    <3>2. StreamedIds(shards, expr) = EagerIds(shards, expr)
      BY <2>2, <2>3, <3>1, StreamedIsEager
    <3>3. EagerIds(shards, expr) = GivenIds(shards, expr)
      BY <2>2, <2>3, <3>1, EagerIsGiven
    <3> QED
      BY <2>1, <3>1, <3>2, <3>3 DEF ViewGiven
  <2> QED
    BY <2>1, <2>3, <2>4 DEF ViewGiven
<1>2. CASE Open
  <2>1. view' = view /\ shards' = <<>> /\ rd = <<>>
        /\ asked'.given = IF asked.faithful THEN asked.given ELSE view
    BY <1>2 DEF Open, Unasked
  <2>2. asked'.given = view
    BY <2>1 DEF ViewGiven
  <2> QED
    BY <2>1, <2>2, EmptySeq DEF ViewGiven
<1>3. ASSUME UNCHANGED <<shards, view, asked>>, rd' # <<>> => rd # <<>>
      PROVE  ViewGiven'
  BY <1>3 DEF ViewGiven
<1>4. ASSUME NEW a, Opened(a)
      PROVE  rd # <<>>
  BY <1>4 DEF Opened
<1>5. ASSUME NEW a, Worker(a) \/ ReadRaises(a) \/ Take(a) \/ Leave(a) \/ Resume(a)
      PROVE  ViewGiven'
  <2>1. Opened(a) /\ UNCHANGED <<shards, view, asked>>
    BY <1>5 DEF Worker, Read, Put, ReadRaises, Take, Leave, Resume, Rest
  <2> QED
    BY <1>3, <1>4, <2>1
<1>6. AtRest \/ UNCHANGED vars => ViewGiven'
  BY <1>3 DEF AtRest, vars
<1> QED
  BY <1>1, <1>2, <1>5, <1>6 DEF Next

LEMMA DealtOutKept == OnceInv /\ [Next]_vars => DealtOut'
<1> SUFFICES ASSUME OnceInv, [Next]_vars
             PROVE  DealtOut'
  OBVIOUS
<1>1. EInv /\ DealtOut /\ view \subseteq Nat
  BY DEF OnceInv, ViewGiven
<1>2. CASE rd' = <<>>
  BY <1>2 DEF DealtOut
<1>3. CASE Open
  BY <1>1, <1>3, OpenDeals
<1>4. ASSUME UNCHANGED <<view, setup, rd>>
      PROVE  DealtOut'
  BY <1>1, <1>4 DEF DealtOut, Plans, LoaderLen, Size
<1>5. \A x : x \in ReaderOf(Range(x.plan)) =>
        /\ AfterRead(x).plan = x.plan /\ Raised(x).plan = x.plan /\ Panicked(x).plan = x.plan
        /\ AfterPut(x).plan = x.plan /\ AfterTake(x).plan = x.plan
        /\ [x EXCEPT !.c = "left"].plan = x.plan
        /\ \A todo, got : Started(x.plan, todo, got).plan = x.plan
  BY DEF ReaderOf, AfterRead, Raised, Panicked, AfterPut, AfterTake, Started
<1>6. ASSUME NEW a, Worker(a) \/ ReadRaises(a) \/ Take(a) \/ Leave(a) \/ Resume(a)
      PROVE  DealtOut'
  <2>1. a \in DOMAIN rd /\ view' = view /\ setup' = setup
    BY <1>6 DEF Worker, Read, Put, ReadRaises, Take, Leave, Resume, Rest, Opened
  <2>2. rd[a] \in ReaderOf(Range(rd[a].plan))
    BY <1>1, <2>1 DEF EInv, ReaderInv
  <2>3. \E y : y.plan = rd[a].plan /\ rd' = [rd EXCEPT ![a] = y]
    <3>1. CASE Read(a)
      BY <1>5, <2>2, <3>1 DEF Read
    <3>2. CASE Put(a)
      BY <1>5, <2>2, <3>2 DEF Put
    <3>3. CASE ReadRaises(a)
      BY <1>5, <2>2, <3>3 DEF ReadRaises
    <3>4. CASE Take(a)
      BY <1>5, <2>2, <3>4 DEF Take
    <3>5. CASE Leave(a)
      <4>1. rd' = [rd EXCEPT ![a] = [rd[a] EXCEPT !.c = "left"]]
        BY <3>5 DEF Leave
      <4> QED
        BY <1>5, <2>2, <4>1
    <3>6. CASE Resume(a)
      <4> DEFINE y == Started(rd[a].plan, Drop(rd[a].plan, Consumed(rd[a])), rd[a].got)
      <4>1. rd' = [rd EXCEPT ![a] = y]
        BY <3>6 DEF Resume
      <4>2. y.plan = rd[a].plan
        BY DEF Started
      <4> QED
        BY <4>1, <4>2
    <3> QED
      BY <1>6, <3>1, <3>2, <3>3, <3>4, <3>5, <3>6 DEF Worker
  <2> QED
    BY <1>1, <2>1, <2>3, PlanStays
<1>7. \A expr : Subset(expr) => rd' = <<>>
  BY DEF Subset
<1>8. AtRest \/ UNCHANGED vars => UNCHANGED <<view, setup, rd>>
  BY DEF AtRest, vars
<1> QED
  BY <1>2, <1>3, <1>4, <1>6, <1>7, <1>8 DEF Next

\* The plans deal the view out; and the view is what the predicates select.
THEOREM DealtOutAlways == Spec => []OnceInv
<1>1. Init => OnceInv
  <2> SUFFICES ASSUME Init PROVE OnceInv
    OBVIOUS
  <2>1. view = AllIds(shards) /\ rd = <<>> /\ asked.given = view
        /\ Len(shards) \in Nat /\ \A k \in 1 .. Len(shards) : RowsOK(shards[k])
    BY LoaderAssumption DEF Init, Unasked
  <2>2. view \subseteq Nat
    BY <2>1, IdsAreNat
  <2> QED
    BY <2>1, <2>2, InitHolds DEF OnceInv, DealtOut, ViewGiven
<1>2. OnceInv /\ [Next]_vars => OnceInv'
  BY NextHolds, DealtOutKept, ViewGivenKept DEF OnceInv
<1> QED
  BY <1>1, <1>2, PTL DEF Spec

\* DeliveredOnce, for any view, number of ranks and workers, order, batch size and
\* queue depth, and any failures and resumed loops: the samples that satisfy the
\* predicates have been delivered when all readers have ended, each of them once.
THEOREM EachDeliveredOnce == Spec => []DeliveredOnce
<1>1. OnceInv => DeliveredOnce
  <2> SUFFICES ASSUME OnceInv, rd # <<>>, ~setup.drop_last, \A a \in DOMAIN rd : EndedWell(rd[a])
               PROVE  /\ {rd[d[1]].got[d[2]][d[3]] : d \in Deliveries} = asked.given
                      /\ Cardinality(Deliveries) = Cardinality(asked.given)
    BY DEF DeliveredOnce
  <2>1. setup \in Setups /\ Dealt(Plans, view) /\ asked.given = view /\ IsFiniteSet(view)
    BY DEF OnceInv, DealtOut, ViewGiven, EInv
  <2>2. \A a \in DOMAIN rd : CoversPlan(rd[a])
    BY <2>1, WholeCoversPlan DEF OnceInv, EInv
  <2> QED
    BY <2>1, <2>2, AllDelivered
<1> QED
  BY <1>1, DealtOutAlways, PTL

\* LenHonest likewise: with one worker to a rank, len(loader) is the number of
\* batches of an epoch, of the core sampler and of the stream.
THEOREM LenAlwaysHonest == Spec => []LenHonest
<1>1. OnceInv => LenHonest
  <2> SUFFICES ASSUME OnceInv, NEW a \in DOMAIN rd, setup.workers = 1, EndedWell(rd[a])
               PROVE  Len(rd[a].got) = NumBatches(setup, LoaderLen(setup, a[1]))
    BY DEF LenHonest
  <2>1. rd # <<>> /\ Delivered(rd[a])
    BY DEF OnceInv, EInv, ReaderInv
  <2>2. Len(rd[a].plan) = LoaderLen(setup, a[1])
    BY <2>1 DEF OnceInv, DealtOut
  <2> QED
    BY <2>1, <2>2 DEF Delivered, Batches
<1> QED
  BY <1>1, DealtOutAlways, PTL
-----------------------------------------------------------------------------
(* Types.                                                                    *)

\* A batch that is not empty, no batch with the other entries, and no more of them
\* than the queue has room for.
HeldOK(x) ==
  /\ EntryOK(x.hold) /\ \A i \in 1 .. Len(x.queue) : EntryOK(x.queue[i])
  /\ Len(x.queue) <= setup.depth

LEMMA EntriesOK ==
  ASSUME setup \in Setups
  PROVE  EntryOK(Nothing) /\ EntryOK(Entry("done", <<>>)) /\ EntryOK(Entry("err", <<>>))
<1>1. setup.batch_size \in Nat /\ Len(<<>>) = 0
  BY SetupFacts, EmptySeq
<1> QED
  BY <1>1 DEF EntryOK, Nothing, Entry

LEMMA ReadHeldOK ==
  ASSUME setup \in Setups, NEW x, x \in ReaderOf(Range(x.plan)), HeldOK(x)
  PROVE  HeldOK(AfterRead(x))
<1> DEFINE n == BatchSize(x.todo)
           items == SubSeq(x.todo, 1, n)
<1>1. CASE HasBatch(x.todo)
  <2>1. x.todo \in Seq(Range(x.plan)) /\ Len(x.todo) \in Nat /\ setup.batch_size \in Nat \ {0}
    BY SetupFacts, LenProperties DEF ReaderOf
  <2>2. Len(x.todo) # 0
    BY <1>1, <2>1, EmptySeq DEF HasBatch
  <2>3. n \in Nat \ {0} /\ n <= setup.batch_size /\ n <= Len(x.todo)
    BY <2>1, <2>2 DEF BatchSize
  <2> HIDE DEF n
  <2>4. Len(items) = n
    <3>1. DOMAIN x.todo = 1 .. Len(x.todo)
      BY <2>1, LenProperties
    <3>2. \A i \in 1 .. n : x.todo[i] \in Range(x.todo)
      BY <2>1, <2>3, <3>1 DEF Range
    <3> QED
      BY <2>3, <3>2, SubSeqProperties
  <2> HIDE DEF items
  <2>5. items # <<>>
    BY <2>3, <2>4, EmptySeq
  <2>6. EntryOK(Entry("ok", items))
    BY <2>3, <2>4, <2>5 DEF EntryOK, Entry
  <2>7. AfterRead(x).hold = Entry("ok", items) /\ AfterRead(x).queue = x.queue
    BY <1>1 DEF AfterRead, ReaderOf, items, n
  <2> QED
    BY <2>6, <2>7 DEF HeldOK
<1>2. CASE ~HasBatch(x.todo)
  <2>1. AfterRead(x).hold = Entry("done", <<>>) /\ AfterRead(x).queue = x.queue
    BY <1>2 DEF AfterRead, ReaderOf
  <2> QED
    BY <2>1, EntriesOK DEF HeldOK
<1> QED
  BY <1>1, <1>2

LEMMA RaiseHeldOK ==
  ASSUME setup \in Setups, NEW x, x \in ReaderOf(Range(x.plan)), HeldOK(x)
  PROVE  HeldOK(Raised(x)) /\ HeldOK(Panicked(x)) /\ HeldOK([x EXCEPT !.c = "left"])
<1>1. /\ Raised(x).hold = Entry("err", <<>>) /\ Raised(x).queue = x.queue
      /\ Panicked(x).hold = Entry("done", <<>>) /\ Panicked(x).queue = x.queue
      /\ [x EXCEPT !.c = "left"].hold = x.hold /\ [x EXCEPT !.c = "left"].queue = x.queue
  BY DEF Raised, Panicked, ReaderOf
<1> QED
  BY <1>1, EntriesOK DEF HeldOK

LEMMA PutHeldOK ==
  ASSUME setup \in Setups, NEW x, x \in ReaderOf(Range(x.plan)), HeldOK(x), HasRoom(x)
  PROVE  HeldOK(AfterPut(x))
<1> DEFINE q == Append(x.queue, x.hold)
<1>1. x.queue \in Seq(Entries(Range(x.plan))) /\ x.hold \in Entries(Range(x.plan))
  BY DEF ReaderOf
<1>2. /\ Len(x.queue) \in Nat /\ Len(q) = Len(x.queue) + 1
      /\ \A i \in 1 .. Len(x.queue) : q[i] = x.queue[i]
      /\ q[Len(x.queue) + 1] = x.hold
  BY <1>1, AppendProperties, LenProperties
<1>3. AfterPut(x).queue = q /\ AfterPut(x).hold \in {Nothing, Entry("done", <<>>)}
  BY DEF AfterPut, ReaderOf
<1> HIDE DEF q
<1>4. Len(q) <= setup.depth
  <2>1. Len(x.queue) < setup.depth /\ setup.depth \in Nat
    BY LoaderAssumption DEF HasRoom, SetupOK
  <2> QED
    BY <1>2, <2>1
<1>5. \A i \in 1 .. Len(q) : EntryOK(q[i])
  BY <1>2 DEF HeldOK
<1> QED
  BY <1>3, <1>4, <1>5, EntriesOK DEF HeldOK

LEMMA TakeHeldOK ==
  ASSUME setup \in Setups, NEW x, x \in ReaderOf(Range(x.plan)), HeldOK(x), x.queue # <<>>
  PROVE  HeldOK(AfterTake(x))
<1>1. x.queue \in Seq(Entries(Range(x.plan)))
  BY DEF ReaderOf
<1>2. /\ Len(x.queue) \in Nat /\ Len(Tail(x.queue)) = Len(x.queue) - 1
      /\ \A i \in 1 .. Len(Tail(x.queue)) : Tail(x.queue)[i] = x.queue[i + 1]
  BY <1>1, HeadTailProperties, LenProperties
<1>3. AfterTake(x).queue = Tail(x.queue) /\ AfterTake(x).hold = x.hold
  BY DEF AfterTake, ReaderOf
<1>4. \A i \in 1 .. Len(Tail(x.queue)) : EntryOK(Tail(x.queue)[i])
  <2>1. \A i \in 1 .. Len(Tail(x.queue)) : i + 1 \in 1 .. Len(x.queue)
    BY <1>2
  <2> QED
    BY <1>2, <2>1 DEF HeldOK
<1>5. Len(Tail(x.queue)) <= setup.depth
  <2>1. setup.depth \in Nat
    BY LoaderAssumption DEF SetupOK
  <2> QED
    BY <1>2, <2>1 DEF HeldOK
<1> QED
  BY <1>3, <1>4, <1>5 DEF HeldOK

LEMMA StartedHeldOK ==
  ASSUME setup \in Setups, NEW plan, NEW todo, NEW got
  PROVE  HeldOK(Started(plan, todo, got))
<1>1. Len(<<>>) = 0 /\ setup.depth \in Nat
  BY LoaderAssumption, EmptySeq DEF SetupOK
<1>2. Started(plan, todo, got).hold = Nothing /\ Started(plan, todo, got).queue = <<>>
  BY DEF Started
<1> QED
  BY <1>1, <1>2, EntriesOK DEF HeldOK

StartsHeldOK == \A plan, todo, got : setup \in Setups => HeldOK(Started(plan, todo, got))

LEMMA StartsAlwaysHeldOK == StartsHeldOK
BY StartedHeldOK DEF StartsHeldOK

\* What TypeOK says of the readers that EInv and DealtOut leave open.
TypeInv ==
  /\ rd = <<>> => setup = NotOpen
  /\ failures \in 0 .. MaxFailures /\ resumes \in 0 .. MaxResumes /\ asked.n \in 0 .. MaxSubsets
  /\ rd # <<>> => setup \in Setups /\ DOMAIN rd = Readers(setup)
  /\ \A a \in DOMAIN rd : HeldOK(rd[a])

LEMMA HeldReplaced ==
  ASSUME EInv, TypeInv, NEW a \in DOMAIN rd, NEW y, HeldOK(y), rd' = [rd EXCEPT ![a] = y], setup' = setup,
         asked' = asked, failures' \in 0 .. MaxFailures, resumes' \in 0 .. MaxResumes
  PROVE  TypeInv'
<1>1. DOMAIN rd' = DOMAIN rd /\ \A b \in DOMAIN rd : rd'[b] = IF b = a THEN y ELSE rd[b]
  BY DEF EInv
<1>2. rd # <<>> /\ rd' # <<>>
  BY <1>1
<1>3. ASSUME NEW b \in DOMAIN rd
      PROVE  HeldOK(rd[b])'
  <2>1. PICK z : z = rd'[b]
    OBVIOUS
  <2>2. HeldOK(z)
    BY <1>1, <2>1 DEF TypeInv
  <2>3. HeldOK(z)'
    BY <2>2 DEF HeldOK, EntryOK
  <2> QED
    BY <2>1, <2>3
<1>4. Readers(setup)' = Readers(setup)
  BY DEF Readers
<1> QED
  BY <1>1, <1>2, <1>3, <1>4 DEF TypeInv

LEMMA TypeInvKept == EInv /\ TypeInv /\ [Next]_vars => TypeInv'
<1> SUFFICES ASSUME EInv, TypeInv, [Next]_vars
             PROVE  TypeInv'
  OBVIOUS
<1>1. MaxFailures \in Nat /\ MaxResumes \in Nat /\ MaxSubsets \in Nat
  BY LoaderAssumption
<1>2. ASSUME NEW expr, Subset(expr)
      PROVE  TypeInv'
  <2>1. /\ rd = <<>> /\ rd' = <<>> /\ setup' = setup /\ failures' = failures /\ resumes' = resumes
        /\ asked.n < MaxSubsets /\ asked'.n = asked.n + 1
    BY <1>2 DEF Subset
  <2>2. asked'.n \in 0 .. MaxSubsets
    BY <1>1, <2>1 DEF TypeInv
  <2>3. DOMAIN <<>> = {}
    OBVIOUS
  <2> QED
    BY <2>1, <2>2, <2>3 DEF TypeInv
<1>3. CASE Open
  <2>1. PICK s \in Setups :
          \E plans \in IF s.mode = "sampler" THEN SamplerPlans(s) ELSE StreamPlans(s) :
            /\ setup' = s
            /\ rd' = [a \in Readers(s) |-> Started(plans[a], plans[a], <<>>)]
    BY <1>3 DEF Open
  <2>2. PICK plans : /\ setup' = s
                     /\ rd' = [a \in Readers(s) |-> Started(plans[a], plans[a], <<>>)]
    BY <2>1
  <2>3. DOMAIN rd' = Readers(s) /\ Readers(setup)' = Readers(s)
    BY <2>2 DEF Readers
  <2>4. rd' # <<>>
    <3>1. <<0, 0>> \in Readers(s)
      BY SetupFacts DEF Readers
    <3> QED
      BY <2>3, <3>1
  <2>5. ASSUME NEW a \in Readers(s)
        PROVE  HeldOK(rd[a])'
    <3>1. rd'[a] = Started(plans[a], plans[a], <<>>)
      BY <2>2
    <3>2. StartsHeldOK'
      BY StartsAlwaysHeldOK, PTL
    <3> QED
      BY <2>2, <3>1, <3>2 DEF StartsHeldOK
  <2>6. asked'.n = 0 /\ failures' = failures /\ resumes' = resumes
    BY <1>3 DEF Open, Unasked
  <2> QED
    BY <1>1, <2>2, <2>3, <2>4, <2>5, <2>6 DEF TypeInv
<1>4. ASSUME NEW a, Opened(a)
      PROVE  a \in DOMAIN rd /\ setup \in Setups /\ rd[a] \in ReaderOf(Range(rd[a].plan)) /\ HeldOK(rd[a])
  BY <1>4 DEF Opened, EInv, ReaderInv, TypeInv
<1>5. ASSUME NEW a, Read(a)
      PROVE  TypeInv'
  <2>1. /\ Opened(a) /\ rd' = [rd EXCEPT ![a] = AfterRead(rd[a])] /\ setup' = setup /\ asked' = asked
        /\ failures' = failures /\ resumes' = resumes
    BY <1>5 DEF Read, Rest
  <2>2. HeldOK(AfterRead(rd[a]))
    BY <1>4, <2>1, ReadHeldOK
  <2>3. failures \in 0 .. MaxFailures /\ resumes \in 0 .. MaxResumes
    BY DEF TypeInv
  <2> QED
    BY <1>4, <2>1, <2>2, <2>3, HeldReplaced
<1>6. ASSUME NEW a, ReadRaises(a)
      PROVE  TypeInv'
  <2>1. /\ Opened(a) /\ setup' = setup /\ asked' = asked
        /\ failures < MaxFailures /\ failures' = failures + 1 /\ resumes' = resumes
        /\ \E y \in {Raised(rd[a]), Panicked(rd[a])} : rd' = [rd EXCEPT ![a] = y]
    BY <1>6 DEF ReadRaises, Rest
  <2>2. PICK y \in {Raised(rd[a]), Panicked(rd[a])} : rd' = [rd EXCEPT ![a] = y]
    BY <2>1
  <2>3. HeldOK(y)
    BY <1>4, <2>1, RaiseHeldOK
  <2>4. failures' \in 0 .. MaxFailures /\ resumes' \in 0 .. MaxResumes
    BY <1>1, <2>1 DEF TypeInv
  <2> QED
    BY <1>4, <2>1, <2>2, <2>3, <2>4, HeldReplaced
<1>7. ASSUME NEW a, Put(a)
      PROVE  TypeInv'
  <2>1. /\ Opened(a) /\ HasRoom(rd[a]) /\ rd' = [rd EXCEPT ![a] = AfterPut(rd[a])]
        /\ setup' = setup /\ asked' = asked /\ failures' = failures /\ resumes' = resumes
    BY <1>7 DEF Put, Rest
  <2>2. HeldOK(AfterPut(rd[a]))
    BY <1>4, <2>1, PutHeldOK
  <2>3. failures \in 0 .. MaxFailures /\ resumes \in 0 .. MaxResumes
    BY DEF TypeInv
  <2> QED
    BY <1>4, <2>1, <2>2, <2>3, HeldReplaced
<1>8. ASSUME NEW a, Take(a)
      PROVE  TypeInv'
  <2>1. /\ Opened(a) /\ rd[a].queue # <<>> /\ rd' = [rd EXCEPT ![a] = AfterTake(rd[a])]
        /\ setup' = setup /\ asked' = asked /\ failures' = failures /\ resumes' = resumes
    BY <1>8 DEF Take, Rest
  <2>2. HeldOK(AfterTake(rd[a]))
    BY <1>4, <2>1, TakeHeldOK
  <2>3. failures \in 0 .. MaxFailures /\ resumes \in 0 .. MaxResumes
    BY DEF TypeInv
  <2> QED
    BY <1>4, <2>1, <2>2, <2>3, HeldReplaced
<1>9. ASSUME NEW a, Leave(a)
      PROVE  TypeInv'
  <2> DEFINE y == [rd[a] EXCEPT !.c = "left"]
  <2>1. /\ Opened(a) /\ rd' = [rd EXCEPT ![a] = y]
        /\ setup' = setup /\ asked' = asked /\ failures' = failures /\ resumes' = resumes
    BY <1>9 DEF Leave, Rest
  <2>2. HeldOK(y)
    BY <1>4, <2>1, RaiseHeldOK
  <2>3. failures \in 0 .. MaxFailures /\ resumes \in 0 .. MaxResumes
    BY DEF TypeInv
  <2> HIDE DEF y
  <2> QED
    BY <1>4, <2>1, <2>2, <2>3, HeldReplaced
<1>10. ASSUME NEW a, Resume(a)
       PROVE  TypeInv'
  <2> DEFINE y == Started(rd[a].plan, Drop(rd[a].plan, Consumed(rd[a])), rd[a].got)
  <2>1. /\ Opened(a) /\ rd' = [rd EXCEPT ![a] = y] /\ setup' = setup /\ asked' = asked
        /\ failures' = failures /\ resumes < MaxResumes /\ resumes' = resumes + 1
    BY <1>10 DEF Resume, Rest
  <2>2. HeldOK(y)
    BY <1>4, <2>1, StartedHeldOK
  <2>3. failures' \in 0 .. MaxFailures /\ resumes' \in 0 .. MaxResumes
    BY <1>1, <2>1 DEF TypeInv
  <2> HIDE DEF y
  <2> QED
    BY <1>4, <2>1, <2>2, <2>3, HeldReplaced
<1>11. AtRest \/ UNCHANGED vars => TypeInv'
  <2>1. AtRest => UNCHANGED vars
    BY DEF AtRest
  <2>2. ASSUME UNCHANGED vars
        PROVE  TypeInv'
    BY <2>2 DEF vars, TypeInv, HeldOK, EntryOK, Readers
  <2> QED
    BY <2>1, <2>2
<1> QED
  BY <1>2, <1>3, <1>5, <1>6, <1>7, <1>8, <1>9, <1>10, <1>11 DEF Next, Worker

\* TypeOK: a reader holds samples of the view only, no batch is empty or longer
\* than batch_size, and the queue is never longer than its depth.
THEOREM TypeAlwaysOK == Spec => []TypeOK
<1>1. Init => TypeInv
  <2> SUFFICES ASSUME Init PROVE TypeInv
    OBVIOUS
  <2>1. /\ rd = <<>> /\ setup = NotOpen /\ failures = 0 /\ resumes = 0 /\ asked.n = 0 /\ DOMAIN <<>> = {}
        /\ MaxFailures \in Nat /\ MaxResumes \in Nat /\ MaxSubsets \in Nat
    BY LoaderAssumption DEF Init, Unasked
  <2> QED
    BY <2>1 DEF TypeInv
<1>2. OnceInv /\ TypeInv /\ [Next]_vars => TypeInv'
  BY TypeInvKept DEF OnceInv
<1>3. OnceInv /\ TypeInv => TypeOK
  <2> SUFFICES ASSUME OnceInv, TypeInv
               PROVE  TypeOK
    OBVIOUS
  <2>1. ASSUME NEW a \in DOMAIN rd
        PROVE  LET x == rd[a]
               IN /\ Range(x.plan) \subseteq view /\ Range(x.todo) \subseteq view
                  /\ x.w \in {"run", "ended"} /\ x.c \in {"run", "ended", "raised", "left"}
                  /\ x.bad \in {"none", "err", "panic"}
                  /\ EntryOK(x.hold) /\ \A i \in 1 .. Len(x.queue) : EntryOK(x.queue[i])
                  /\ Len(x.queue) <= setup.depth
    <3>1. rd[a] \in ReaderOf(Range(rd[a].plan)) /\ HeldOK(rd[a])
      BY DEF OnceInv, EInv, ReaderInv, TypeInv
    <3>2. rd # <<>>
      OBVIOUS
    <3>3. Dealt(Plans, view) /\ a \in DOMAIN Plans /\ Plans[a] = rd[a].plan
      BY <3>2 DEF OnceInv, DealtOut, Plans
    <3>4. \A k \in 1 .. Len(rd[a].plan) : rd[a].plan[k] \in view
      BY <3>3 DEF Dealt
    <3>5. rd[a].plan \in Seq(Range(rd[a].plan)) /\ rd[a].todo \in Seq(Range(rd[a].plan))
      BY <3>1 DEF ReaderOf
    <3>6. Range(rd[a].plan) \subseteq view
      BY <3>4, <3>5, LenProperties DEF Range
    <3>7. Range(rd[a].todo) \subseteq Range(rd[a].plan)
      <4>1. DOMAIN rd[a].todo = 1 .. Len(rd[a].todo)
        BY <3>5, LenProperties
      <4>2. \A k \in 1 .. Len(rd[a].todo) : rd[a].todo[k] \in Range(rd[a].plan)
        BY <3>5, ElementOfSeq
      <4> QED
        BY <4>1, <4>2 DEF Range
    <3> QED
      BY <3>1, <3>6, <3>7 DEF ReaderOf, HeldOK
  <2> QED
    BY <2>1 DEF TypeInv, TypeOK
<1> QED
  BY <1>1, <1>2, <1>3, DealtOutAlways, PTL DEF Spec
=============================================================================
