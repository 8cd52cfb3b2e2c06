------------------------- MODULE VideoDecodeProofs -------------------------
(***************************************************************************)
(* What frame_indices picks is spread over the clip, for every clip and    *)
(* every request, and a decoded batch holds the frames that were asked     *)
(* for, for any threads, processes, clips and decoders.                    *)
(*                                                                         *)
(* The decoder's delays are why the frames cannot be followed by packets.  *)
(* Progress relates what a thread has kept to the frames that came out:    *)
(* the picks below fc, all of them, in order; and behind the loop either   *)
(* every packet is in or no pick is left.  FileOK adds that the file of a  *)
(* decode is its own from the write to the removal, which takes the        *)
(* numbers of SEQ, and ItemsOK where an item of a batch is until it has    *)
(* an outcome.                                                             *)
(***************************************************************************)
EXTENDS VideoDecode, FiniteSetTheorems, SequenceTheorems, TLAPS
-----------------------------------------------------------------------------
(* Division and the places of frame_indices.                                 *)

LEMMA Quotient ==
  ASSUME NEW a \in Nat, NEW d \in Nat \ {0}
  PROVE  a \div d \in Nat /\ d * (a \div d) <= a /\ a < d * (a \div d) + d
  BY SMT

LEMMA TimesGrows ==
  ASSUME NEW a \in Nat, NEW b \in Nat, NEW d \in Nat, a <= b
  PROVE  d * a <= d * b
  <1>1. PICK e \in Nat : b = a + e
    <2>1. b - a \in Nat /\ b = a + (b - a)
      OBVIOUS
    <2> QED
      BY <2>1
  <1>2. d * b = d * a + d * e /\ d * e >= 0
    BY <1>1
  <1> QED
    BY <1>2

LEMMA FactorLess ==
  ASSUME NEW a \in Nat, NEW b \in Nat, NEW d \in Nat \ {0}, d * a < d * b
  PROVE  a < b
  <1> SUFFICES ASSUME b <= a PROVE FALSE
    OBVIOUS
  <1>1. d * b <= d * a
    BY TimesGrows
  <1> QED
    BY <1>1

\* RoundDiv is the nearest integer, and of a half the one above.
LEMMA Rounded ==
  ASSUME NEW a \in Nat, NEW b \in Nat \ {0}
  PROVE  /\ RoundDiv(a, b) \in Nat
         /\ 2 * (b * RoundDiv(a, b)) <= 2 * a + b
         /\ 2 * a + b < 2 * (b * RoundDiv(a, b)) + 2 * b
  <1> DEFINE q == (2 * a + b) \div (2 * b)
  <1>1. 2 * a + b \in Nat /\ 2 * b \in Nat \ {0}
    OBVIOUS
  <1>2. q \in Nat /\ (2 * b) * q <= 2 * a + b /\ 2 * a + b < (2 * b) * q + 2 * b
    BY <1>1, Quotient
  <1>3. (2 * b) * q = 2 * (b * q)
    BY <1>2
  <1> QED
    BY <1>2, <1>3 DEF RoundDiv

\* The j-th even place of k among total frames, uniformly: where it lies.
LEMMA PlaceBounds ==
  ASSUME NEW total \in Nat, NEW k \in Nat, 2 <= k, k <= total, NEW j \in 1 .. k
  PROVE  LET q == RoundDiv((j - 1) * (total - 1), k - 1)
         IN /\ q \in 0 .. total - 1
            /\ -(k - 1) <= 2 * ((k - 1) * q - (j - 1) * (total - 1))
            /\ 2 * ((k - 1) * q - (j - 1) * (total - 1)) <= k - 1
            /\ j = 1 => q = 0
            /\ j = k => q = total - 1
  <1> DEFINE b == k - 1
             n == total - 1
             x == (j - 1) * n
             q == RoundDiv(x, b)
  <1>1. b \in Nat \ {0} /\ n \in Nat /\ j - 1 \in Nat /\ j - 1 <= b
    OBVIOUS
  <1>2. x \in Nat /\ b * n \in Nat /\ x <= b * n
    <2>1. n * (j - 1) <= n * b
      BY <1>1, TimesGrows
    <2>2. x = n * (j - 1) /\ b * n = n * b /\ n * (j - 1) \in Nat /\ n * b \in Nat
      BY <1>1
    <2> QED
      BY <2>1, <2>2
  <1> HIDE DEF b, n, x, q
  <1>3. q \in Nat /\ 2 * (b * q) <= 2 * x + b /\ 2 * x + b < 2 * (b * q) + 2 * b
    BY <1>1, <1>2, Rounded DEF q
  <1>4. b * q \in Nat /\ b * (q + 1) = b * q + b /\ b * (n + 1) = b * n + b
    BY <1>1, <1>3
  <1>5. q < n + 1
    <2>1. b * q < b * (n + 1)
      BY <1>1, <1>2, <1>3, <1>4
    <2> QED
      BY <2>1, <1>1, <1>3, FactorLess
  <1>6. ASSUME j = 1 PROVE q = 0
    <2>1. x = 0
      BY <1>1, <1>6 DEF x
    <2>2. b * q < b * 1
      BY <2>1, <1>1, <1>3, <1>4
    <2> QED
      BY <2>2, <1>1, <1>3, FactorLess
  <1>7. ASSUME j = k PROVE q = n
    <2>1. x = b * n
      BY <1>7 DEF x, b
    <2>2. b * n < b * (q + 1)
      BY <2>1, <1>1, <1>2, <1>3, <1>4
    <2>3. n < q + 1
      BY <2>2, <1>1, <1>3, FactorLess
    <2> QED
      BY <2>3, <1>1, <1>3, <1>5
  <1>8. -b <= 2 * (b * q - x) /\ 2 * (b * q - x) <= b
    BY <1>1, <1>2, <1>3, <1>4
  <1>9. q \in 0 .. n
    BY <1>1, <1>3, <1>5
  <1> QED
    BY <1>6, <1>7, <1>8, <1>9 DEF q, x, b, n

\* A later place holds a later frame.
LEMMA PlacesAscend ==
  ASSUME NEW total \in Nat, NEW k \in Nat, 2 <= k, k <= total,
         NEW i \in 1 .. k, NEW j \in 1 .. k, i < j
  PROVE  RoundDiv((i - 1) * (total - 1), k - 1) < RoundDiv((j - 1) * (total - 1), k - 1)
  <1> DEFINE b == k - 1
             n == total - 1
             x == (i - 1) * n
             y == (j - 1) * n
             q == RoundDiv(x, b)
             r == RoundDiv(y, b)
  <1>1. b \in Nat \ {0} /\ n \in Nat /\ b <= n /\ i - 1 \in Nat /\ j - 1 \in Nat /\ i <= j - 1
    OBVIOUS
  <1>2. x \in Nat /\ y \in Nat /\ x + n <= y
    <2>1. n * i <= n * (j - 1)
      BY <1>1, TimesGrows
    <2>2. n * i = x + n /\ n * (j - 1) = y /\ x \in Nat /\ y \in Nat
      BY <1>1
    <2> QED
      BY <2>1, <2>2
  <1> HIDE DEF b, n, x, y, q, r
  <1>3. q \in Nat /\ 2 * (b * q) <= 2 * x + b
    BY <1>1, <1>2, Rounded DEF q
  <1>4. r \in Nat /\ 2 * y + b < 2 * (b * r) + 2 * b
    BY <1>1, <1>2, Rounded DEF r
  <1>5. b * q \in Nat /\ b * r \in Nat
    BY <1>1, <1>3, <1>4
  <1>6. b * q < b * r
    BY <1>1, <1>2, <1>3, <1>4, <1>5
  <1> QED
    BY <1>1, <1>3, <1>4, <1>6, FactorLess DEF q, r, x, y, b, n

\* What frame_indices promises (sampling.rs:14-15): as many frames as were asked
\* for or as there are, ascending, in range, and with "uniform" from the first to
\* the last with each nearest its even place; for every clip and every request.
THEOREM PicksAlwaysSpread ==
  ASSUME NEW total \in Nat, NEW num \in Nat, NEW s \in Samplings
  PROVE  /\ FrameIndices(total, num, s) \in Seq(Nat)
         /\ Spread(FrameIndices(total, num, s), total, num, s)
  <1> DEFINE k == Least(num, total)
             f == FrameIndices(total, num, s)
  <1>1. k \in Nat /\ k <= total /\ (total = 0 \/ num = 0 <=> k = 0)
    BY DEF Least
  <1>2. CASE k = 0
    <2>1. f = <<>> /\ Len(f) = 0
      BY <1>1, <1>2 DEF FrameIndices
    <2> QED
      BY <2>1, <1>2 DEF Spread
  <1>3. CASE k > 0 /\ s = "dense"
    <2>1. f = [j \in 1 .. k |-> j - 1]
      BY <1>1, <1>3 DEF FrameIndices
    <2>2. f \in Seq(Nat) /\ Len(f) = k
      BY <2>1, <1>1
    <2>3. \A j \in 1 .. Len(f) : f[j] = j - 1
      BY <2>1, <2>2
    <2> QED
      <3>1. \A j \in 1 .. Len(f) : f[j] \in 0 .. total - 1
        BY <2>2, <2>3, <1>1
      <3>2. \A i, j \in 1 .. Len(f) : i < j => f[i] < f[j]
        BY <2>2, <2>3
      <3> HIDE DEF f, k
      <3> QED
        BY <2>2, <3>1, <3>2, <1>3 DEF Spread, f, k
  <1>4. CASE k = 1 /\ s # "dense"
    <2>1. f = <<total \div 2>>
      BY <1>1, <1>4 DEF FrameIndices
    <2>2. total \div 2 \in 0 .. total - 1
      BY <1>1, <1>4
    <2>3. f \in Seq(Nat) /\ Len(f) = 1 /\ f[1] \in 0 .. total - 1
      BY <2>1, <2>2
    <2> QED
      BY <2>3, <1>4 DEF Spread
  <1>5. CASE k > 1 /\ s # "dense"
    <2> DEFINE place(j) == RoundDiv((j - 1) * (total - 1), k - 1)
    <2>1. f = [j \in 1 .. k |-> place(j)]
      BY <1>1, <1>5 DEF FrameIndices
    <2>0. k \in Nat /\ 2 <= k /\ k <= total
      BY <1>1, <1>5
    <2> HIDE DEF k
    <2>2. \A j \in 1 .. k : place(j) \in 0 .. total - 1
      <3> TAKE j \in 1 .. k
      <3> QED
        BY <2>0, PlaceBounds, Zenon
    <2>3. f \in Seq(Nat) /\ Len(f) = k /\ \A j \in 1 .. k : f[j] = place(j)
      <3> HIDE DEF place, f
      <3>1. f \in [1 .. k -> Nat]
        BY <2>1, <2>2, <1>1
      <3> QED
        BY <3>1, <2>1, <1>1
    <2>4. \A i, j \in 1 .. k : i < j => place(i) < place(j)
      <3> TAKE i, j \in 1 .. k
      <3> HAVE i < j
      <3> QED
        BY <2>0, PlacesAscend, Zenon
    <2>5. place(1) = 0 /\ place(k) = total - 1
      <3>1. 1 \in 1 .. k /\ k \in 1 .. k
        BY <2>0
      <3>2. place(1) = 0
        BY <2>0, <3>1, PlaceBounds, Zenon
      <3>3. place(k) = total - 1
        BY <2>0, <3>1, PlaceBounds, Zenon
      <3> QED
        BY <3>2, <3>3
    <2>6. \A j \in 1 .. k : LET off == (k - 1) * place(j) - (j - 1) * (total - 1)
                            IN -(k - 1) <= 2 * off /\ 2 * off <= k - 1
      <3> TAKE j \in 1 .. k
      <3> QED
        BY <2>0, PlaceBounds, Zenon
    <2> HIDE DEF place, f
    <2>7. f[1] = 0 /\ f[Len(f)] = total - 1
      BY <2>3, <2>5, <1>1, <1>5
    <2>8. \A i, j \in 1 .. Len(f) : i < j => f[i] < f[j]
      BY <2>3, <2>4
    <2>9. \A j \in 1 .. Len(f) : f[j] \in 0 .. total - 1
      BY <2>2, <2>3
    <2>10. \A j \in 1 .. Len(f) :
             LET off == (Len(f) - 1) * f[j] - (j - 1) * (total - 1)
             IN -(Len(f) - 1) <= 2 * off /\ 2 * off <= Len(f) - 1
      BY <2>3, <2>6
    <2> QED
      BY <2>3, <2>7, <2>8, <2>9, <2>10 DEF Spread, k, f
  <1> QED
    BY <1>1, <1>2, <1>3, <1>4, <1>5
-----------------------------------------------------------------------------
(* The inductive invariant.                                                  *)

PicksOf(x, r) == FrameIndices(Reported[x.src], r.num, r.sampling)

\* What thread x has kept for request r: the picks below fc, or every frame.
KeptOK(x, r) ==
  IF Reported[x.src] > 0
  THEN /\ Len(x.frames) <= Len(PicksOf(x, r))
       /\ \A j \in 1 .. Len(PicksOf(x, r)) :
            /\ j <= Len(x.frames) <=> PicksOf(x, r)[j] < x.fc
            /\ j <= Len(x.frames) => x.frames[j] = PicksOf(x, r)[j]
  ELSE Len(x.frames) = x.fc /\ \A j \in 1 .. x.fc : x.frames[j] = j - 1

\* Behind the loop: every packet was sent, or no pick is left.
AllIn(x, r) ==
  \/ x.sent = Decodable[x.src]
  \/ Reported[x.src] > 0 /\ \A j \in 1 .. Len(PicksOf(x, r)) : PicksOf(x, r)[j] < x.fc

\* Thread x at work on clip c for request r.
Progress(x, c, r) ==
  /\ x.pc \in {"stage", "open"} =>
       x.src = NoClip /\ x.sent = 0 /\ x.fc = 0 /\ x.frames = <<>> /\ ~x.err
  /\ x.pc \in {"packets", "drain", "flush"} => x.src = c /\ ~x.err /\ KeptOK(x, r)
  /\ x.pc = "flush" => AllIn(x, r)
  /\ x.pc = "remove" /\ ~x.err => x.src = c /\ x.frames = Sampled(c, r)
  /\ x.src # NoClip /\ Reported[x.src] > 0 => Len(x.frames) <= r.num

\* Thread x has taken its item from batch b and not given it back.
Holds(x, b) ==
  /\ b.status = "running"
  /\ x.item \in 1 .. Len(b.items) /\ b.items[x.item] # NoClip
  /\ x.item \notin b.left /\ b.out[x.item].kind = "pending"

ThreadsOK ==
  \A t \in Threads :
    IF th[t].pc = "idle" THEN th[t] = Idle
    ELSE /\ Holds(th[t], batch[proc[t]]) /\ th[t].uid < seq[proc[t]]
         /\ Progress(th[t], batch[proc[t]].items[th[t].item], batch[proc[t]].req)

\* The file of a decode is its own.
FileOK ==
  \A t \in Threads : th[t].pc \notin {"idle", "stage"} =>
    Path(t) \in DOMAIN temp /\ temp[Path(t)] = batch[proc[t]].items[th[t].item]

Apart ==
  \A t, u \in Threads :
    t # u /\ proc[t] = proc[u] /\ th[t].pc # "idle" /\ th[u].pc # "idle" =>
      th[t].uid # th[u].uid /\ th[t].item # th[u].item

\* A position without an outcome is waiting, or with a thread.
ItemsOK ==
  \A p \in Procs :
    /\ Len(batch[p].out) = Len(batch[p].items)
    /\ \A i \in batch[p].left : i \in 1 .. Len(batch[p].items) /\ batch[p].out[i].kind = "pending"
    /\ batch[p].status = "running" /\ ~batch[p].failed =>
         \A i \in 1 .. Len(batch[p].items) :
           batch[p].out[i].kind = "pending" /\ i \notin batch[p].left =>
             \E t \in Threads : proc[t] = p /\ th[t].pc # "idle" /\ th[t].item = i

\* What is held of a position is its clip with its frames, or None.
OutcomesRight ==
  \A p \in Procs : \A i \in DOMAIN batch[p].out :
    LET o == batch[p].out[i]  c == batch[p].items[i]
    IN /\ o.kind = "none" => c = NoClip
       /\ o.kind = "clip" => c # NoClip /\ o.clip = c /\ o.frames = Sampled(c, batch[p].req)

\* A list that is returned has every position.
ListsWhole ==
  \A p \in Procs : batch[p].status = "returned" =>
    \A i \in 1 .. Len(batch[p].items) : batch[p].out[i].kind # "pending"

VideoInv ==
  VarsTyped /\ ThreadsOK /\ FileOK /\ Apart /\ ItemsOK /\ OutcomesRight /\ ListsWhole /\ NoLitter
-----------------------------------------------------------------------------
(* Choosing frames while they come out of the decoder.                       *)

\* The picks of a request, for a container that reports total frames.
LEMMA PicksFacts ==
  ASSUME NEW total \in Nat, NEW r \in Request
  PROVE  LET f == FrameIndices(total, r.num, r.sampling)
         IN /\ f \in Seq(Nat) /\ Len(f) <= r.num /\ Len(f) <= total
            /\ \A j \in 1 .. Len(f) : f[j] \in 0 .. total - 1
            /\ \A i, j \in 1 .. Len(f) : i < j => f[i] < f[j]
  <1>1. r.num \in Nat /\ r.sampling \in Samplings
    BY DEF Request
  <1>2. FrameIndices(total, r.num, r.sampling) \in Seq(Nat)
    BY <1>1, PicksAlwaysSpread, Zenon
  <1>3. Spread(FrameIndices(total, r.num, r.sampling), total, r.num, r.sampling)
    BY <1>1, PicksAlwaysSpread, Zenon
  <1>4. Least(r.num, total) <= r.num /\ Least(r.num, total) <= total
    BY <1>1 DEF Least
  <1> QED
    BY <1>2, <1>3, <1>4 DEF Spread

LEMMA PicksOfFacts ==
  ASSUME NEW x, x.src \in Clips, NEW r \in Request
  PROVE  /\ Reported[x.src] \in Nat /\ Decodable[x.src] \in Nat
         /\ PicksOf(x, r) \in Seq(Nat) /\ Len(PicksOf(x, r)) <= r.num
         /\ \A i, j \in 1 .. Len(PicksOf(x, r)) : i < j => PicksOf(x, r)[i] < PicksOf(x, r)[j]
  <1>1. Reported[x.src] \in Nat /\ Decodable[x.src] \in Nat
    BY VideoAssumption
  <1> QED
    BY <1>1, PicksFacts DEF PicksOf

\* Before the first frame nothing is kept.
LEMMA NothingKept ==
  ASSUME NEW x, x.src \in Clips, NEW r \in Request, x.fc = 0, x.frames = <<>>
  PROVE  KeptOK(x, r)
  <1> DEFINE f == PicksOf(x, r)
  <1>1. f \in Seq(Nat) /\ Len(x.frames) = 0
    BY PicksOfFacts
  <1> HIDE DEF f
  <1>2. \A j \in 1 .. Len(f) : ~(j <= 0) /\ ~(f[j] < 0)
    BY <1>1
  <1>3. Len(f) >= 0
    BY <1>1
  <1> QED
    BY <1>1, <1>2, <1>3 DEF KeptOK, f

\* The pick that is next is behind those below it, and none lies between.
LEMMA NextPick ==
  ASSUME NEW f \in Seq(Nat), \A i, j \in 1 .. Len(f) : i < j => f[i] < f[j],
         NEW c \in Nat, NEW k \in 0 .. Len(f), \A j \in 1 .. Len(f) : j <= k <=> f[j] < c,
         NEW i \in 1 .. Len(f), f[i] = c
  PROVE  i = k + 1 /\ \A j \in 1 .. Len(f) : j <= k + 1 <=> f[j] < c + 1
  <1>1. ~(f[i] < c)
    OBVIOUS
  <1>2. k < i
    BY <1>1
  <1>3. i = k + 1
    <2> SUFFICES ASSUME k + 1 < i PROVE FALSE
      BY <1>2
    <2>1. k + 1 \in 1 .. Len(f)
      OBVIOUS
    <2>2. f[k + 1] < c
      BY <2>1
    <2> QED
      BY <2>1, <2>2
  <1>4. ASSUME NEW j \in 1 .. Len(f) PROVE j <= k + 1 <=> f[j] < c + 1
    <2>1. f[j] \in Nat
      OBVIOUS
    <2>2. CASE j <= k
      <3>1. f[j] < c
        BY <2>2
      <3> QED
        BY <3>1, <2>1, <2>2
    <2>3. CASE j = i
      BY <2>3, <1>3
    <2>4. CASE j > i
      <3>1. f[i] < f[j]
        BY <2>4
      <3> QED
        BY <3>1, <2>1, <2>4, <1>3
    <2> QED
      BY <2>2, <2>3, <2>4, <1>3
  <1> QED
    BY <1>3, <1>4

\* A frame that comes out is kept exactly when it is the next pick, or when the
\* choice is still to be made.
LEMMA FrameKept ==
  ASSUME NEW x \in ThreadType, x.src \in Clips, NEW r \in Request, KeptOK(x, r),
         NEW y, y.src = x.src, y.fc = x.fc + 1,
         y.frames = IF Reported[x.src] > 0 => \E j \in 1 .. Len(PicksOf(x, r)) : PicksOf(x, r)[j] = x.fc
                    THEN Append(x.frames, x.fc) ELSE x.frames
  PROVE  KeptOK(y, r)
  <1> DEFINE f == PicksOf(x, r)
             k == Len(x.frames)
  <1>1. PicksOf(y, r) = f
    BY DEF PicksOf
  <1>2. f \in Seq(Nat) /\ Len(f) \in Nat /\ \A i, j \in 1 .. Len(f) : i < j => f[i] < f[j]
    <2>1. f \in Seq(Nat) /\ \A i, j \in 1 .. Len(f) : i < j => f[i] < f[j]
      BY PicksOfFacts, Zenon
    <2> QED
      BY <2>1
  <1>3. x.fc \in Nat /\ x.frames \in Seq(Nat) /\ k \in Nat /\ Reported[x.src] \in Nat
    BY PicksOfFacts DEF ThreadType
  <1>4. CASE Reported[x.src] > 0 /\ \E j \in 1 .. Len(f) : f[j] = x.fc
    <2>1. k <= Len(f) /\ \A j \in 1 .. Len(f) :
            (j <= k <=> f[j] < x.fc) /\ (j <= k => x.frames[j] = f[j])
      BY <1>4 DEF KeptOK
    <2>2. PICK i \in 1 .. Len(f) : f[i] = x.fc
      BY <1>4
    <2> HIDE DEF f
    <2>3. k \in 0 .. Len(f) /\ \A j \in 1 .. Len(f) : j <= k <=> f[j] < x.fc
      <3>1. k \in Nat /\ Len(f) \in Nat
        BY <1>2, <1>3
      <3> HIDE DEF k
      <3> QED
        BY <2>1, <3>1
    <2>4. i = k + 1 /\ \A j \in 1 .. Len(f) : j <= k + 1 <=> f[j] < x.fc + 1
      <3>1. /\ x.fc \in Nat /\ f \in Seq(Nat)
            /\ \A m, j \in 1 .. Len(f) : m < j => f[m] < f[j]
        BY <1>2, <1>3
      <3> HIDE DEF k
      <3> QED
        BY <2>2, <2>3, <3>1, NextPick, Zenon
    <2>5. y.frames = Append(x.frames, x.fc)
      BY <1>4 DEF f
    <2>6. Len(y.frames) = k + 1 /\ y.frames[k + 1] = x.fc
          /\ \A j \in 1 .. k : y.frames[j] = x.frames[j]
      BY <2>5, <1>3
    <2>8. \A j \in 1 .. Len(f) : j <= k + 1 => y.frames[j] = f[j]
      BY <2>1, <2>2, <2>4, <2>6, <1>3
    <2>9. k + 1 <= Len(f)
      BY <2>2, <2>4
    <2> QED
      BY <2>4, <2>6, <2>8, <2>9, <1>1, <1>4 DEF KeptOK
  <1>5. CASE Reported[x.src] > 0 /\ ~\E j \in 1 .. Len(f) : f[j] = x.fc
    <2>1. k <= Len(f) /\ \A j \in 1 .. Len(f) :
            (j <= k <=> f[j] < x.fc) /\ (j <= k => x.frames[j] = f[j])
      BY <1>5 DEF KeptOK
    <2>2. y.frames = x.frames
      BY <1>5
    <2> HIDE DEF f
    <2>3. \A j \in 1 .. Len(f) : f[j] < x.fc <=> f[j] < x.fc + 1
      <3> TAKE j \in 1 .. Len(f)
      <3>1. f[j] \in Nat /\ f[j] # x.fc
        BY <1>2, <1>5 DEF f
      <3>2. x.fc \in Nat
        BY <1>3
      <3> QED
        BY <3>1, <3>2
    <2> QED
      BY <2>1, <2>2, <2>3, <1>1, <1>5 DEF KeptOK
  <1>6. CASE ~(Reported[x.src] > 0)
    <2>1. k = x.fc /\ \A j \in 1 .. x.fc : x.frames[j] = j - 1
      BY <1>6 DEF KeptOK
    <2>2. y.frames = Append(x.frames, x.fc)
      BY <1>6
    <2>3. /\ Len(y.frames) = k + 1 /\ y.frames[k + 1] = x.fc
          /\ \A j \in 1 .. k : y.frames[j] = x.frames[j]
      BY <2>2, <1>3
    <2>4. Len(y.frames) = x.fc + 1 /\ \A j \in 1 .. x.fc + 1 : y.frames[j] = j - 1
      <3> HIDE DEF k
      <3>1. Len(y.frames) = x.fc + 1
        BY <2>1, <2>3
      <3>2. ASSUME NEW j \in 1 .. x.fc + 1 PROVE y.frames[j] = j - 1
        <4>1. CASE j = x.fc + 1
          BY <4>1, <2>1, <2>3, <1>3
        <4>2. CASE j # x.fc + 1
          <5>1. j \in 1 .. k
            BY <4>2, <2>1, <1>3
          <5> QED
            BY <5>1, <2>1, <2>3
        <4> QED
          BY <4>1, <4>2
      <3> QED
        BY <3>1, <3>2
    <2> QED
      BY <2>4, <1>6 DEF KeptOK
  <1> QED
    BY <1>4, <1>5, <1>6

\* As much of f as is below d: its first k places.
LEMMA BelowIsPrefix ==
  ASSUME NEW f \in Seq(Nat), NEW d \in Nat, NEW k \in 0 .. Len(f),
         \A j \in 1 .. Len(f) : j <= k <=> f[j] < d
  PROVE  Cardinality({j \in DOMAIN f : f[j] < d}) = k
  <1>1. {j \in DOMAIN f : f[j] < d} = 1 .. k
    OBVIOUS
  <1>2. Cardinality(1 .. k) = k
    BY FS_Interval
  <1> QED
    BY <1>1, <1>2

\* A thread that kept the picks as they came has Sampled when it is through, ...
LEMMA CountedSampled ==
  ASSUME NEW x \in ThreadType, x.src \in Clips, NEW r \in Request, KeptOK(x, r), AllIn(x, r),
         x.fc = x.sent, x.sent <= Decodable[x.src], Reported[x.src] > 0
  PROVE  x.frames = Sampled(x.src, r)
  <1> DEFINE f == PicksOf(x, r)
             k == Len(x.frames)
             d == Decodable[x.src]
  <1>1. f \in Seq(Nat) /\ Len(f) \in Nat /\ d \in Nat
    BY PicksOfFacts
  <1>2. x.fc \in Nat /\ x.frames \in Seq(Nat) /\ k \in Nat
    BY DEF ThreadType
  <1>3. k <= Len(f) /\ \A j \in 1 .. Len(f) :
          (j <= k <=> f[j] < x.fc) /\ (j <= k => x.frames[j] = f[j])
    BY DEF KeptOK
  <1>4. \A j \in 1 .. Len(f) : f[j] < x.fc <=> f[j] < d
    <2>1. CASE x.sent = d
      BY <2>1
    <2>2. CASE \A j \in 1 .. Len(f) : f[j] < x.fc
      <3> HIDE DEF f, d
      <3>1. x.fc <= d
        BY DEF d
      <3> QED
        BY <3>1, <2>2, <1>1, <1>2
    <2> QED
      BY <2>1, <2>2 DEF AllIn
  <1>5. Sampled(x.src, r) = SubSeq(f, 1, Cardinality({j \in DOMAIN f : f[j] < d}))
    BY DEF Sampled, PicksOf
  <1> HIDE DEF f, d
  <1>6. Cardinality({j \in DOMAIN f : f[j] < d}) = k
    <2>1. k \in 0 .. Len(f) /\ \A j \in 1 .. Len(f) : j <= k <=> f[j] < d
      BY <1>1, <1>2, <1>3, <1>4
    <2> QED
      BY <2>1, <1>1, BelowIsPrefix, Zenon
  <1>7. x.frames = SubSeq(f, 1, k)
    <2> DEFINE g == SubSeq(f, 1, k)
    <2>1. g \in Seq(Nat) /\ Len(g) = k /\ \A j \in 1 .. k : g[j] = f[j]
      BY <1>1, <1>2, <1>3, SubSeqProperties
    <2> HIDE DEF g
    <2> QED
      BY <2>1, <1>1, <1>2, <1>3, SeqEqual DEF g
  <1> QED
    BY <1>5, <1>6, <1>7

\* ... and so has one that chooses among all of them.
LEMMA ChosenSampled ==
  ASSUME NEW x \in ThreadType, x.src \in Clips, NEW r \in Request, KeptOK(x, r), AllIn(x, r),
         x.fc = x.sent, ~(Reported[x.src] > 0)
  PROVE  LET sel == FrameIndices(Len(x.frames), r.num, r.sampling)
         IN [j \in DOMAIN sel |-> x.frames[sel[j] + 1]] = Sampled(x.src, r)
  <1> DEFINE d == Decodable[x.src]
             f == FrameIndices(d, r.num, r.sampling)
  <1>1. d \in Nat
    BY VideoAssumption
  <1>2. Len(x.frames) = d /\ \A j \in 1 .. d : x.frames[j] = j - 1
    BY DEF KeptOK, AllIn
  <1>3. Sampled(x.src, r) = SubSeq(f, 1, Cardinality({j \in DOMAIN f : f[j] < d}))
    BY DEF Sampled
  <1> HIDE DEF d
  <1>4. f \in Seq(Nat) /\ \A j \in 1 .. Len(f) : f[j] \in 0 .. d - 1
    BY <1>1, PicksFacts
  <1> HIDE DEF f
  <1>5. Cardinality({j \in DOMAIN f : f[j] < d}) = Len(f)
    <2>1. Len(f) \in 0 .. Len(f) /\ \A j \in 1 .. Len(f) : j <= Len(f) <=> f[j] < d
      BY <1>1, <1>4
    <2> QED
      BY <2>1, <1>1, <1>4, BelowIsPrefix, Zenon
  <1>6. SubSeq(f, 1, Len(f)) = f
    BY <1>4
  <1>7. [j \in DOMAIN f |-> x.frames[f[j] + 1]] = f
    <2>1. \A j \in DOMAIN f : f[j] + 1 \in 1 .. d /\ x.frames[f[j] + 1] = f[j]
      BY <1>1, <1>2, <1>4
    <2> QED
      BY <2>1, <1>4
  <1> QED
    BY <1>2, <1>3, <1>5, <1>6, <1>7 DEF f
-----------------------------------------------------------------------------
(* The decode of one thread.                                                 *)

\* The steps of decode_path that change only the record of their thread.
LocalMoves(t) ==
  Open(t) \/ Send(t) \/ PacketsEnd(t) \/ Receive(t) \/ DrainEnds(t) \/ Select(t)

\* A thread that has opened its file knows its clip, and counts its frames.
LEMMA BusyFacts ==
  ASSUME VideoInv, NEW t \in Threads, th[t].pc # "idle"
  PROVE  /\ proc[t] \in Procs /\ th[t] \in ThreadType
         /\ batch[proc[t]] \in BatchType /\ batch[proc[t]].req \in Request
         /\ batch[proc[t]].items[th[t].item] \in Clips
         /\ Holds(th[t], batch[proc[t]]) /\ th[t].uid < seq[proc[t]]
         /\ Progress(th[t], batch[proc[t]].items[th[t].item], batch[proc[t]].req)
         /\ th[t].src # NoClip => th[t].fc <= th[t].sent /\ th[t].sent <= Decodable[th[t].src]
  <1>1. proc[t] \in Procs
    BY VideoAssumption DEF VideoInv, VarsTyped
  <1>2. th[t] \in ThreadType /\ batch[proc[t]] \in BatchType
    BY <1>1 DEF VideoInv, VarsTyped
  <1>3. Holds(th[t], batch[proc[t]]) /\ th[t].uid < seq[proc[t]]
        /\ Progress(th[t], batch[proc[t]].items[th[t].item], batch[proc[t]].req)
    BY DEF VideoInv, ThreadsOK
  <1>4. batch[proc[t]].req \in Request /\ batch[proc[t]].items \in Batches \cup {<<>>}
    BY <1>2 DEF BatchType
  <1>5. batch[proc[t]].items[th[t].item] \in Clips
    <2>1. batch[proc[t]].items \in Seq(Clips \cup {NoClip})
      <3>1. Batches \subseteq Seq(Clips \cup {NoClip}) /\ <<>> \in Seq(Clips \cup {NoClip})
        BY VideoAssumption
      <3> QED
        BY <3>1, <1>4
    <2> QED
      BY <2>1, <1>3 DEF Holds
  <1>6. th[t].src # NoClip => th[t].fc <= th[t].sent /\ th[t].sent <= Decodable[th[t].src]
    BY DEF VideoInv, VarsTyped
  <1> QED
    BY <1>1, <1>2, <1>3, <1>4, <1>5, <1>6

LEMMA IdleType == Idle \in ThreadType
  <1>1. <<>> \in Seq(Nat)
    OBVIOUS
  <1> QED
    BY <1>1 DEF Idle, ThreadType

\* What a step of a thread has to leave as it was, and what it has to bring, so
\* that nothing but the thread's record has to be looked at.
Steps(t, x) ==
  /\ x \in ThreadType /\ th[t].pc # "idle" /\ x.pc \notin {"idle", "stage"}
  /\ x.item = th[t].item /\ x.uid = th[t].uid
  /\ x.src # NoClip => x.fc <= x.sent /\ x.sent <= Decodable[x.src]
  /\ Progress(x, batch[proc[t]].items[x.item], batch[proc[t]].req)
  /\ th[t].pc = "stage" => x.pc = "open"

\* What Open does, before the type of its clip is looked at.
LEMMA OpenSteps ==
  ASSUME VideoInv, NEW t \in Threads, Open(t)
  PROVE  \E x : Moves(t, x) /\ Steps(t, x) /\ th[t].pc # "stage"
  <1> DEFINE c == batch[proc[t]].items[th[t].item]
             r == batch[proc[t]].req
             x == [th[t] EXCEPT !.pc = "packets", !.src = temp[Path(t)]]
  <1>1. th[t].pc = "open"
    BY DEF Open
  <1>2. c \in Clips /\ r \in Request /\ th[t] \in ThreadType /\ Progress(th[t], c, r)
    BY <1>1, BusyFacts
  <1>3. Path(t) \in DOMAIN temp /\ temp[Path(t)] = c
    BY <1>1 DEF VideoInv, FileOK
  <1>4. c # NoClip
    BY <1>2, VideoAssumption
  <1>5. Moves(t, x)
    BY <1>3, <1>4 DEF Open
  <1>6. th[t].sent = 0 /\ th[t].fc = 0 /\ th[t].frames = <<>> /\ ~th[t].err
    BY <1>1, <1>2 DEF Progress
  <1>7. /\ x.pc = "packets" /\ x.src = c /\ x.item = th[t].item /\ x.uid = th[t].uid
        /\ x.sent = 0 /\ x.fc = 0 /\ x.frames = <<>> /\ ~x.err
    BY <1>2, <1>3, <1>6 DEF ThreadType
  <1>8. x \in ThreadType
    BY <1>2, <1>3 DEF ThreadType
  <1> HIDE DEF x, c, r
  <1>9. KeptOK(x, r)
    BY <1>2, <1>7, NothingKept
  <1>10. Progress(x, c, r)
    <2>1. Len(x.frames) = 0 /\ r.num >= 0
      BY <1>2, <1>7 DEF Request
    <2> QED
      BY <1>7, <1>9, <2>1 DEF Progress
  <1>11. Decodable[c] \in Nat
    BY <1>2, VideoAssumption
  <1>12. Steps(t, x)
    <2>1. Progress(x, batch[proc[t]].items[x.item], batch[proc[t]].req)
      BY <1>1, <1>7, <1>8, <1>10, <1>11 DEF c, r
    <2>2. x.src # NoClip => x.fc <= x.sent /\ x.sent <= Decodable[x.src]
      BY <1>1, <1>7, <1>8, <1>10, <1>11
    <2> QED
      BY <2>1, <2>2, <1>1, <1>7, <1>8, <1>10, <1>11 DEF Steps
  <1> QED
    BY <1>1, <1>5, <1>12

LEMMA SendSteps ==
  ASSUME VideoInv, NEW t \in Threads, Send(t)
  PROVE  \E x : Moves(t, x) /\ Steps(t, x) /\ th[t].pc # "stage"
  <1> DEFINE c == batch[proc[t]].items[th[t].item]
             r == batch[proc[t]].req
             x == [th[t] EXCEPT !.pc = "drain", !.sent = th[t].sent + 1]
  <1>1. th[t].pc = "packets" /\ th[t].sent < Decodable[th[t].src] /\ Moves(t, x)
    BY DEF Send, MorePackets
  <1>2. /\ c \in Clips /\ r \in Request /\ th[t] \in ThreadType /\ Progress(th[t], c, r)
        /\ th[t].src # NoClip => th[t].fc <= th[t].sent
    BY <1>1, BusyFacts
  <1>3. th[t].src = c /\ ~th[t].err /\ KeptOK(th[t], r)
    BY <1>1, <1>2 DEF Progress
  <1>4. th[t].sent \in Nat /\ th[t].fc \in Nat /\ Decodable[c] \in Nat /\ c # NoClip
    BY <1>2, VideoAssumption DEF ThreadType
  <1>5. /\ x.pc = "drain" /\ x.src = c /\ x.item = th[t].item /\ x.uid = th[t].uid
        /\ x.sent = th[t].sent + 1 /\ x.fc = th[t].fc /\ x.frames = th[t].frames /\ x.err = th[t].err
    BY <1>2, <1>3 DEF ThreadType
  <1>6. x \in ThreadType
    <2>1. th[t].sent + 1 \in Nat
      BY <1>4
    <2> QED
      BY <2>1, <1>2 DEF ThreadType
  <1> HIDE DEF x, c, r
  <1>7. KeptOK(x, r)
    BY <1>3, <1>5 DEF KeptOK, PicksOf
  <1>8. Progress(x, c, r)
    BY <1>2, <1>3, <1>5, <1>7 DEF Progress
  <1>9. Steps(t, x)
    <2>1. Progress(x, batch[proc[t]].items[x.item], batch[proc[t]].req)
      BY <1>1, <1>2, <1>3, <1>4, <1>5, <1>6, <1>8 DEF c, r
    <2>2. x.src # NoClip => x.fc <= x.sent /\ x.sent <= Decodable[x.src]
      BY <1>1, <1>2, <1>3, <1>4, <1>5, <1>6, <1>8
    <2> QED
      BY <2>1, <2>2, <1>1, <1>2, <1>3, <1>4, <1>5, <1>6, <1>8 DEF Steps
  <1> QED
    BY <1>1, <1>9

LEMMA PacketsEndSteps ==
  ASSUME VideoInv, NEW t \in Threads, PacketsEnd(t)
  PROVE  \E x : Moves(t, x) /\ Steps(t, x) /\ th[t].pc # "stage"
  <1> DEFINE c == batch[proc[t]].items[th[t].item]
             r == batch[proc[t]].req
             x == [th[t] EXCEPT !.pc = "flush"]
  <1>1. th[t].pc = "packets" /\ ~(th[t].sent < Decodable[th[t].src]) /\ Moves(t, x)
    BY DEF PacketsEnd, MorePackets, BehindLoop
  <1>2. /\ c \in Clips /\ r \in Request /\ th[t] \in ThreadType /\ Progress(th[t], c, r)
        /\ th[t].src # NoClip => th[t].fc <= th[t].sent /\ th[t].sent <= Decodable[th[t].src]
    BY <1>1, BusyFacts
  <1>3. th[t].src = c /\ ~th[t].err /\ KeptOK(th[t], r)
    BY <1>1, <1>2 DEF Progress
  <1>4. th[t].sent \in Nat /\ Decodable[c] \in Nat /\ c # NoClip
    BY <1>2, VideoAssumption DEF ThreadType
  <1>5. /\ x.pc = "flush" /\ x.src = c /\ x.item = th[t].item /\ x.uid = th[t].uid
        /\ x.sent = th[t].sent /\ x.fc = th[t].fc /\ x.frames = th[t].frames /\ x.err = th[t].err
    BY <1>2, <1>3 DEF ThreadType
  <1>6. x \in ThreadType
    BY <1>2 DEF ThreadType
  <1> HIDE DEF x, c, r
  <1>7. KeptOK(x, r)
    BY <1>3, <1>5 DEF KeptOK, PicksOf
  <1>8. AllIn(x, r)
    BY <1>1, <1>2, <1>3, <1>4, <1>5 DEF AllIn
  <1>9. Progress(x, c, r)
    BY <1>2, <1>3, <1>5, <1>7, <1>8 DEF Progress
  <1>10. Steps(t, x)
    <2>1. Progress(x, batch[proc[t]].items[x.item], batch[proc[t]].req)
      BY <1>1, <1>2, <1>3, <1>4, <1>5, <1>6, <1>9 DEF c, r
    <2>2. x.src # NoClip => x.fc <= x.sent /\ x.sent <= Decodable[x.src]
      BY <1>1, <1>2, <1>3, <1>4, <1>5, <1>6, <1>9
    <2> QED
      BY <2>1, <2>2, <1>1, <1>2, <1>3, <1>4, <1>5, <1>6, <1>9 DEF Steps
  <1> QED
    BY <1>1, <1>10

LEMMA ReceiveSteps ==
  ASSUME VideoInv, NEW t \in Threads, Receive(t)
  PROVE  \E x : Moves(t, x) /\ Steps(t, x) /\ th[t].pc # "stage"
  <1> DEFINE c == batch[proc[t]].items[th[t].item]
             r == batch[proc[t]].req
             kept == IF Keeps(t) THEN Append(th[t].frames, th[t].fc) ELSE th[t].frames
             x == [th[t] EXCEPT !.fc = th[t].fc + 1, !.frames = kept]
  <1>1. th[t].pc \in {"drain", "flush"} /\ th[t].fc < th[t].sent /\ Moves(t, x)
    BY DEF Receive
  <1>2. /\ c \in Clips /\ r \in Request /\ th[t] \in ThreadType /\ Progress(th[t], c, r)
        /\ th[t].src # NoClip => th[t].fc <= th[t].sent /\ th[t].sent <= Decodable[th[t].src]
    BY <1>1, BusyFacts
  <1>3. th[t].src = c /\ ~th[t].err /\ KeptOK(th[t], r) /\ (th[t].pc = "flush" => AllIn(th[t], r))
    BY <1>1, <1>2 DEF Progress
  <1>4. /\ th[t].sent \in Nat /\ th[t].fc \in Nat /\ Decodable[c] \in Nat /\ c # NoClip
        /\ th[t].frames \in Seq(Nat)
    BY <1>2, VideoAssumption DEF ThreadType
  <1>5. /\ x.pc = th[t].pc /\ x.src = c /\ x.item = th[t].item /\ x.uid = th[t].uid
        /\ x.sent = th[t].sent /\ x.fc = th[t].fc + 1 /\ x.frames = kept /\ x.err = th[t].err
    BY <1>2, <1>3 DEF ThreadType
  <1>6. x \in ThreadType
    <2>1. th[t].fc + 1 \in Nat /\ kept \in Seq(Nat)
      BY <1>4
    <2> HIDE DEF kept
    <2> QED
      BY <2>1, <1>2 DEF ThreadType
  <1>7. kept = IF Reported[th[t].src] > 0 =>
                    \E j \in 1 .. Len(PicksOf(th[t], r)) : PicksOf(th[t], r)[j] = th[t].fc
               THEN Append(th[t].frames, th[t].fc) ELSE th[t].frames
    <2>1. Picks(t) = PicksOf(th[t], r)
      BY DEF Picks, PicksOf
    <2>2. PicksOf(th[t], r) \in Seq(Nat)
      BY <1>2, <1>3, PicksOfFacts
    <2>3. Keeps(t) <=> (Reported[th[t].src] > 0 =>
             \E j \in 1 .. Len(PicksOf(th[t], r)) : PicksOf(th[t], r)[j] = th[t].fc)
      BY <2>1, <2>2 DEF Keeps, Counted
    <2> QED
      BY <2>3
  <1> HIDE DEF kept, x, c, r
  <1>8. KeptOK(x, r)
    BY <1>2, <1>3, <1>5, <1>7, FrameKept
  <1>9. PicksOf(x, r) = PicksOf(th[t], r) /\ Len(PicksOf(x, r)) <= r.num /\ r.num \in Nat
        /\ PicksOf(x, r) \in Seq(Nat)
    BY <1>2, <1>3, <1>5, PicksOfFacts DEF PicksOf, Request
  <1>10. ASSUME x.pc = "flush" PROVE AllIn(x, r)
    <2>1. AllIn(th[t], r)
      BY <1>3, <1>5, <1>10
    <2>2. \A j \in 1 .. Len(PicksOf(x, r)) : PicksOf(x, r)[j] < th[t].fc => PicksOf(x, r)[j] < x.fc
      BY <1>4, <1>5, <1>9
    <2> QED
      BY <2>1, <2>2, <1>3, <1>5, <1>9 DEF AllIn
  <1>11. Reported[x.src] > 0 => Len(x.frames) <= r.num
    <2>1. Reported[x.src] > 0 => Len(x.frames) <= Len(PicksOf(x, r))
      BY <1>8 DEF KeptOK
    <2>2. Len(x.frames) \in Nat /\ Len(PicksOf(x, r)) \in Nat
      BY <1>6, <1>9 DEF ThreadType
    <2> QED
      BY <2>1, <2>2, <1>9
  <1>12. Progress(x, c, r)
    BY <1>1, <1>3, <1>5, <1>8, <1>10, <1>11 DEF Progress
  <1>13. Steps(t, x)
    <2>1. Progress(x, batch[proc[t]].items[x.item], batch[proc[t]].req)
      BY <1>1, <1>2, <1>3, <1>4, <1>5, <1>6, <1>12 DEF c, r
    <2>2. x.src # NoClip => x.fc <= x.sent /\ x.sent <= Decodable[x.src]
      BY <1>1, <1>2, <1>3, <1>4, <1>5, <1>6, <1>12
    <2> QED
      BY <2>1, <2>2, <1>1, <1>2, <1>3, <1>4, <1>5, <1>6, <1>12 DEF Steps
  <1> QED
    BY <1>1, <1>13

LEMMA DrainEndsSteps ==
  ASSUME VideoInv, NEW t \in Threads, DrainEnds(t)
  PROVE  \E x : Moves(t, x) /\ Steps(t, x) /\ th[t].pc # "stage"
  <1> DEFINE c == batch[proc[t]].items[th[t].item]
             r == batch[proc[t]].req
             next == IF PastLast(t) THEN "flush" ELSE "packets"
             x == [th[t] EXCEPT !.pc = next]
  <1>1. th[t].pc = "drain" /\ Moves(t, x)
    BY DEF DrainEnds
  <1>2. /\ c \in Clips /\ r \in Request /\ th[t] \in ThreadType /\ Progress(th[t], c, r)
        /\ th[t].src # NoClip => th[t].fc <= th[t].sent /\ th[t].sent <= Decodable[th[t].src]
    BY <1>1, BusyFacts
  <1>3. th[t].src = c /\ ~th[t].err /\ KeptOK(th[t], r)
    BY <1>1, <1>2 DEF Progress
  <1>4. c # NoClip
    BY <1>2, VideoAssumption
  <1>5. /\ x.pc = next /\ x.src = c /\ x.item = th[t].item /\ x.uid = th[t].uid
        /\ x.sent = th[t].sent /\ x.fc = th[t].fc /\ x.frames = th[t].frames /\ x.err = th[t].err
    BY <1>2, <1>3 DEF ThreadType
  <1>6. x \in ThreadType
    BY <1>2 DEF ThreadType
  <1>7. x.pc = "flush" => AllIn(x, r)
    <2>1. Picks(t) = PicksOf(th[t], r) /\ PicksOf(x, r) = PicksOf(th[t], r)
      BY <1>3, <1>5 DEF Picks, PicksOf
    <2>2. PicksOf(th[t], r) \in Seq(Nat)
      BY <1>2, <1>3, PicksOfFacts
    <2>3. PastLast(t) => Reported[th[t].src] > 0
                         /\ \A j \in 1 .. Len(PicksOf(th[t], r)) : PicksOf(th[t], r)[j] < th[t].fc
      BY <2>1, <2>2 DEF PastLast, Counted
    <2> QED
      BY <2>1, <2>3, <1>3, <1>5 DEF AllIn
  <1>8. x.pc \in {"packets", "flush"}
    BY <1>5
  <1> HIDE DEF x, c, r, next
  <1>9. KeptOK(x, r)
    BY <1>3, <1>5 DEF KeptOK, PicksOf
  <1>10. Progress(x, c, r)
    BY <1>2, <1>3, <1>5, <1>7, <1>8, <1>9 DEF Progress
  <1>11. Steps(t, x)
    <2>1. Progress(x, batch[proc[t]].items[x.item], batch[proc[t]].req)
      BY <1>1, <1>2, <1>3, <1>4, <1>5, <1>6, <1>8, <1>10 DEF c, r
    <2>2. x.src # NoClip => x.fc <= x.sent /\ x.sent <= Decodable[x.src]
      BY <1>1, <1>2, <1>3, <1>4, <1>5, <1>6, <1>8, <1>10
    <2> QED
      BY <2>1, <2>2, <1>1, <1>2, <1>3, <1>4, <1>5, <1>6, <1>8, <1>10 DEF Steps
  <1> QED
    BY <1>1, <1>11

LEMMA SelectSteps ==
  ASSUME VideoInv, NEW t \in Threads, Select(t)
  PROVE  \E x : Moves(t, x) /\ Steps(t, x) /\ th[t].pc # "stage"
  <1> DEFINE c == batch[proc[t]].items[th[t].item]
             r == batch[proc[t]].req
             all == th[t].frames
             sel == FrameIndices(Len(all), r.num, r.sampling)
             chosen == IF Counted(t) THEN all ELSE [j \in DOMAIN sel |-> all[sel[j] + 1]]
             x == [th[t] EXCEPT !.pc = "remove", !.frames = chosen]
  <1>1. th[t].pc = "flush" /\ th[t].fc = th[t].sent /\ Moves(t, x)
    BY DEF Select, Drained
  <1>2. /\ c \in Clips /\ r \in Request /\ th[t] \in ThreadType /\ Progress(th[t], c, r)
        /\ th[t].src # NoClip => th[t].fc <= th[t].sent /\ th[t].sent <= Decodable[th[t].src]
    BY <1>1, BusyFacts
  <1>3. th[t].src = c /\ ~th[t].err /\ KeptOK(th[t], r) /\ AllIn(th[t], r)
    BY <1>1, <1>2 DEF Progress
  <1>4. c # NoClip /\ th[t].src \in Clips /\ th[t].sent <= Decodable[th[t].src] /\ all \in Seq(Nat)
    BY <1>2, <1>3, VideoAssumption DEF ThreadType
  <1>5. chosen = Sampled(c, r)
    <2>1. CASE Reported[th[t].src] > 0
      <3>1. all = Sampled(th[t].src, r)
        BY <2>1, <1>1, <1>2, <1>3, <1>4, CountedSampled
      <3> QED
        BY <3>1, <2>1, <1>3 DEF Counted
    <2>2. CASE ~(Reported[th[t].src] > 0)
      <3>1. [j \in DOMAIN sel |-> all[sel[j] + 1]] = Sampled(th[t].src, r)
        BY <2>2, <1>1, <1>2, <1>3, <1>4, ChosenSampled
      <3> QED
        BY <3>1, <2>2, <1>3 DEF Counted
    <2> QED
      BY <2>1, <2>2
  <1>6. chosen \in Seq(Nat)
    <2>1. CASE Counted(t)
      BY <2>1, <1>4
    <2>2. CASE ~Counted(t)
      <3>1. Len(all) \in Nat
        BY <1>4
      <3>2. sel \in Seq(Nat) /\ \A j \in 1 .. Len(sel) : sel[j] \in 0 .. Len(all) - 1
        BY <3>1, <1>2, PicksFacts
      <3> HIDE DEF sel, all
      <3>3. \A j \in DOMAIN sel : all[sel[j] + 1] \in Nat
        <4> TAKE j \in DOMAIN sel
        <4>1. sel[j] \in 0 .. Len(all) - 1
          BY <3>2
        <4>2. sel[j] + 1 \in 1 .. Len(all)
          BY <4>1, <3>1
        <4>3. all \in Seq(Nat)
          BY <1>4 DEF all
        <4> QED
          BY <4>2, <4>3
      <3> QED
        BY <3>2, <3>3, <2>2
    <2> QED
      BY <2>1, <2>2
  <1>7. Counted(t) => Len(chosen) <= r.num
    <2>1. Counted(t) => Len(all) <= r.num
      BY <1>2, <1>3, <1>4 DEF Progress, Counted
    <2> QED
      BY <2>1
  <1> HIDE DEF chosen
  <1>8. /\ x.pc = "remove" /\ x.src = c /\ x.item = th[t].item /\ x.uid = th[t].uid
        /\ x.sent = th[t].sent /\ x.fc = th[t].fc /\ x.frames = chosen /\ x.err = th[t].err
    BY <1>2, <1>3 DEF ThreadType
  <1>9. x \in ThreadType
    BY <1>2, <1>6 DEF ThreadType
  <1> HIDE DEF x, c, r
  <1>10. Progress(x, c, r)
    BY <1>3, <1>5, <1>7, <1>8 DEF Progress, Counted
  <1>11. Steps(t, x)
    <2>1. Progress(x, batch[proc[t]].items[x.item], batch[proc[t]].req)
      BY <1>1, <1>2, <1>3, <1>4, <1>8, <1>9, <1>10 DEF c, r
    <2>2. x.src # NoClip => x.fc <= x.sent /\ x.sent <= Decodable[x.src]
      BY <1>1, <1>2, <1>3, <1>4, <1>8, <1>9, <1>10
    <2> QED
      BY <2>1, <2>2, <1>1, <1>2, <1>3, <1>4, <1>8, <1>9, <1>10 DEF Steps
  <1> QED
    BY <1>1, <1>11

\* A decoder's error gives up the frames, not the file.
LEMMA CodecFailsSteps ==
  ASSUME VideoInv, NEW t \in Threads, CodecFails(t)
  PROVE  \E x : th' = [th EXCEPT ![t] = x] /\ Steps(t, x) /\ th[t].pc # "stage"
  <1> DEFINE x == [th[t] EXCEPT !.pc = "remove", !.err = TRUE]
             c == batch[proc[t]].items[th[t].item]
             r == batch[proc[t]].req
  <1>1. th[t].pc \in {"open", "packets", "drain", "flush"}
        /\ th' = [th EXCEPT ![t].pc = "remove", ![t].err = TRUE]
    BY DEF CodecFails
  <1>2. /\ th[t] \in ThreadType /\ Progress(th[t], c, r)
        /\ th[t].src # NoClip => th[t].fc <= th[t].sent /\ th[t].sent <= Decodable[th[t].src]
    BY <1>1, BusyFacts
  <1>3. th' = [th EXCEPT ![t] = x]
    BY <1>1, <1>2 DEF VideoInv, VarsTyped, ThreadType
  <1>4. /\ x.pc = "remove" /\ x.src = th[t].src /\ x.item = th[t].item /\ x.uid = th[t].uid
        /\ x.sent = th[t].sent /\ x.fc = th[t].fc /\ x.frames = th[t].frames /\ x.err
    BY <1>2 DEF ThreadType
  <1>5. x \in ThreadType
    BY <1>2 DEF ThreadType
  <1> HIDE DEF x, c, r
  <1>6. Progress(x, c, r)
    BY <1>2, <1>4 DEF Progress
  <1>7. Steps(t, x)
    <2>1. Progress(x, batch[proc[t]].items[x.item], batch[proc[t]].req)
      BY <1>1, <1>2, <1>4, <1>5, <1>6 DEF c, r
    <2>2. x.src # NoClip => x.fc <= x.sent /\ x.sent <= Decodable[x.src]
      BY <1>1, <1>2, <1>4, <1>5, <1>6
    <2> QED
      BY <2>1, <2>2, <1>1, <1>2, <1>4, <1>5, <1>6 DEF Steps
  <1> QED
    BY <1>1, <1>3, <1>7
-----------------------------------------------------------------------------
(* Every step keeps the invariant.                                           *)

\* A step of a thread that has its file, with only its own record changed.
LEMMA RecordKeeps ==
  ASSUME VideoInv, NEW t \in Threads, NEW x, th' = [th EXCEPT ![t] = x], Steps(t, x),
         th[t].pc # "stage", UNCHANGED <<proc, batch, seq, temp, litter>>,
         calls' \in 0 .. MaxCalls, faults' \in 0 .. MaxFaults
  PROVE  VideoInv'
  <1>1. th \in [Threads -> ThreadType] /\ th[t] \in ThreadType
    BY DEF VideoInv, VarsTyped
  <1>2. th'[t] = x /\ \A u \in Threads : u # t => th'[u] = th[u]
    BY <1>1
  <1>3. /\ x.item = th[t].item /\ x.uid = th[t].uid /\ th[t].pc # "idle" /\ x.pc # "idle"
        /\ x \in ThreadType /\ x.pc # "stage"
    BY DEF Steps
  <1>4. \A u \in Threads :
          /\ th'[u].item = th[u].item /\ th'[u].uid = th[u].uid
          /\ th'[u].pc = "idle" <=> th[u].pc = "idle"
          /\ th'[u].pc \in {"idle", "stage"} <=> th[u].pc \in {"idle", "stage"}
    BY <1>2, <1>3
  <1>5. \A u \in Threads : Path(u)' = Path(u)
    BY <1>4 DEF Path
  <1>6. VarsTyped'
    <2>1. th' \in [Threads -> ThreadType]
      BY <1>1, <1>3
    <2>2. \A u \in Threads : th'[u].src # NoClip =>
            th'[u].fc <= th'[u].sent /\ th'[u].sent <= Decodable[th'[u].src]
      BY <1>2 DEF Steps, VideoInv, VarsTyped
    <2> QED
      BY <2>1, <2>2 DEF VideoInv, VarsTyped
  <1>7. ThreadsOK'
    <2> SUFFICES ASSUME NEW u \in Threads, th'[u].pc # "idle"
                 PROVE  /\ Holds(th'[u], batch[proc[u]]) /\ th'[u].uid < seq[proc[u]]
                        /\ Progress(th'[u], batch[proc[u]].items[th'[u].item], batch[proc[u]].req)
      BY <1>2, <1>3 DEF VideoInv, ThreadsOK
    <2>1. Holds(th[u], batch[proc[u]]) /\ th[u].uid < seq[proc[u]]
          /\ Progress(th[u], batch[proc[u]].items[th[u].item], batch[proc[u]].req)
      BY <1>4 DEF VideoInv, ThreadsOK
    <2>2. Holds(th'[u], batch[proc[u]]) /\ th'[u].uid < seq[proc[u]]
      BY <2>1, <1>4 DEF Holds
    <2>3. Progress(th'[u], batch[proc[u]].items[th'[u].item], batch[proc[u]].req)
      BY <2>1, <1>2 DEF Steps
    <2> QED
      BY <2>2, <2>3
  <1>8. FileOK'
    BY <1>4, <1>5 DEF VideoInv, FileOK
  <1>9. Apart'
    BY <1>4 DEF VideoInv, Apart
  <1>10. ItemsOK'
    BY <1>4 DEF VideoInv, ItemsOK
  <1>11. OutcomesRight' /\ ListsWhole'
    BY DEF VideoInv, OutcomesRight, ListsWhole
  <1>12. NoLitter'
    BY <1>4, <1>5 DEF VideoInv, NoLitter
  <1> QED
    BY <1>6, <1>7, <1>8, <1>9, <1>10, <1>11, <1>12 DEF VideoInv

\* What the batch of process p may become while its threads keep their items.
BatchFits(p, b) ==
  /\ \A t \in Threads : proc[t] = p /\ th[t].pc # "idle" =>
       Holds(th[t], b) /\ b.items = batch[p].items /\ b.req = batch[p].req
  /\ Len(b.out) = Len(b.items)
  /\ \A i \in b.left : i \in 1 .. Len(b.items) /\ b.out[i].kind = "pending"
  /\ b.status = "running" /\ ~b.failed =>
       \A i \in 1 .. Len(b.items) : b.out[i].kind = "pending" /\ i \notin b.left =>
         \E t \in Threads : proc[t] = p /\ th[t].pc # "idle" /\ th[t].item = i
  /\ \A i \in DOMAIN b.out :
       /\ b.out[i].kind = "none" => b.items[i] = NoClip
       /\ b.out[i].kind = "clip" => /\ b.items[i] # NoClip /\ b.out[i].clip = b.items[i]
                                    /\ b.out[i].frames = Sampled(b.items[i], b.req)
  /\ b.status = "returned" => \A i \in 1 .. Len(b.items) : b.out[i].kind # "pending"

\* A step that changes only the batch of process p, to b.
LEMMA BatchKeeps ==
  ASSUME VideoInv, NEW p \in Procs, NEW b \in BatchType, BatchFits(p, b),
         batch' = [batch EXCEPT ![p] = b], UNCHANGED <<proc, seq, th, temp, litter>>,
         calls' \in 0 .. MaxCalls, faults' \in 0 .. MaxFaults
  PROVE  VideoInv'
  <1> USE DEF BatchFits
  <1>1. batch \in [Procs -> BatchType]
    BY DEF VideoInv, VarsTyped
  <1>2. batch'[p] = b /\ \A q \in Procs : q # p => batch'[q] = batch[q]
    BY <1>1
  <1>3. \A t \in Threads : proc[t] \in Procs
    BY VideoAssumption DEF VideoInv, VarsTyped
  <1>4. VarsTyped'
    BY <1>1 DEF VideoInv, VarsTyped
  <1>5. ASSUME NEW t \in Threads, th[t].pc # "idle"
        PROVE  /\ Holds(th[t], batch'[proc[t]])
               /\ batch'[proc[t]].items = batch[proc[t]].items
               /\ batch'[proc[t]].req = batch[proc[t]].req
    <2>1. CASE proc[t] = p
      BY <2>1, <1>2, <1>5
    <2>2. CASE proc[t] # p
      BY <2>2, <1>2, <1>3, <1>5 DEF VideoInv, ThreadsOK
    <2> QED
      BY <2>1, <2>2
  <1>6. ThreadsOK'
    BY <1>5 DEF VideoInv, ThreadsOK
  <1>7. FileOK'
    <2> SUFFICES ASSUME NEW t \in Threads, th[t].pc \notin {"idle", "stage"}
                 PROVE  Path(t) \in DOMAIN temp /\ temp[Path(t)] = batch'[proc[t]].items[th[t].item]
      BY DEF FileOK, Path
    <2> QED
      BY <1>5 DEF VideoInv, FileOK
  <1>8. Apart'
    BY DEF VideoInv, Apart
  <1>9. ItemsOK'
    <2> SUFFICES ASSUME NEW q \in Procs
                 PROVE  /\ Len(batch'[q].out) = Len(batch'[q].items)
                        /\ \A i \in batch'[q].left :
                             i \in 1 .. Len(batch'[q].items) /\ batch'[q].out[i].kind = "pending"
                        /\ batch'[q].status = "running" /\ ~batch'[q].failed =>
                             \A i \in 1 .. Len(batch'[q].items) :
                               batch'[q].out[i].kind = "pending" /\ i \notin batch'[q].left =>
                                 \E t \in Threads : proc[t] = q /\ th[t].pc # "idle" /\ th[t].item = i
      BY DEF ItemsOK
    <2>1. CASE q = p
      BY <2>1, <1>2
    <2>2. CASE q # p
      BY <2>2, <1>2 DEF VideoInv, ItemsOK
    <2> QED
      BY <2>1, <2>2
  <1>10. OutcomesRight'
    <2> SUFFICES ASSUME NEW q \in Procs, NEW i \in DOMAIN batch'[q].out
                 PROVE  LET o == batch'[q].out[i]  c == batch'[q].items[i]
                        IN /\ o.kind = "none" => c = NoClip
                           /\ o.kind = "clip" => c # NoClip /\ o.clip = c /\ o.frames = Sampled(c, batch'[q].req)
      BY DEF OutcomesRight
    <2>1. CASE q = p
      BY <2>1, <1>2
    <2>2. CASE q # p
      BY <2>2, <1>2 DEF VideoInv, OutcomesRight
    <2> QED
      BY <2>1, <2>2
  <1>11. ListsWhole'
    BY <1>2 DEF VideoInv, ListsWhole
  <1>12. NoLitter'
    BY DEF VideoInv, NoLitter, Path
  <1> QED
    BY <1>4, <1>6, <1>7, <1>8, <1>9, <1>10, <1>11, <1>12 DEF VideoInv

\* The batch of a process that still has threads at work is running.
LEMMA RunningBatch ==
  ASSUME VideoInv, NEW p \in Procs
  PROVE  /\ batch[p] \in BatchType /\ batch[p].out \in Seq(Outcome) /\ batch[p].left \subseteq Nat
         /\ batch[p].items \in Seq(Clips \cup {NoClip}) /\ Len(batch[p].items) \in Nat
         /\ Len(batch[p].out) = Len(batch[p].items)
         /\ \A i \in batch[p].left : i \in 1 .. Len(batch[p].items) /\ batch[p].out[i].kind = "pending"
         /\ \A t \in Threads : proc[t] = p /\ th[t].pc # "idle" => Holds(th[t], batch[p])
  <1>1. batch[p] \in BatchType
    BY DEF VideoInv, VarsTyped
  <1>2. batch[p].items \in Seq(Clips \cup {NoClip})
    <2>1. Batches \subseteq Seq(Clips \cup {NoClip}) /\ <<>> \in Seq(Clips \cup {NoClip})
      BY VideoAssumption
    <2> QED
      BY <2>1, <1>1 DEF BatchType
  <1>3. batch[p].out \in Seq(Outcome) /\ batch[p].left \subseteq Nat
    BY <1>1 DEF BatchType
  <1>4. Len(batch[p].items) \in Nat
    BY <1>2
  <1>5. \A t \in Threads : proc[t] = p /\ th[t].pc # "idle" => Holds(th[t], batch[p])
    BY DEF VideoInv, ThreadsOK
  <1>6. Len(batch[p].out) = Len(batch[p].items)
        /\ \A i \in batch[p].left : i \in 1 .. Len(batch[p].items) /\ batch[p].out[i].kind = "pending"
    BY DEF VideoInv, ItemsOK
  <1> QED
    BY <1>1, <1>2, <1>3, <1>4, <1>5, <1>6

LEMMA CountFacts == ASSUME VideoInv PROVE calls \in 0 .. MaxCalls /\ faults \in 0 .. MaxFaults
  BY DEF VideoInv, VarsTyped

LEMMA CallKeeps ==
  ASSUME VideoInv, NEW p \in Procs, NEW items \in Batches, NEW req \in Requests, Call(p, items, req)
  PROVE  VideoInv'
  <1> DEFINE b == [ status |-> "running", items |-> items, req |-> req, left |-> 1 .. Len(items),
                    out |-> [i \in 1 .. Len(items) |-> Pending], failed |-> FALSE ]
  <1>1. batch' = [batch EXCEPT ![p] = b] /\ batch[p].status # "running"
        /\ UNCHANGED <<proc, seq, th, temp, litter>> /\ faults' = faults
        /\ calls < MaxCalls /\ calls' = calls + 1
    BY DEF Call
  <1>2. items \in Seq(Clips \cup {NoClip}) /\ req \in Request /\ Len(items) \in Nat
    BY VideoAssumption
  <1>3. b.out \in Seq(Outcome) /\ Len(b.out) = Len(items)
        /\ \A i \in 1 .. Len(items) : b.out[i].kind = "pending"
    <2>1. Pending \in Outcome /\ Pending.kind = "pending"
      BY DEF Pending, Outcome
    <2> HIDE DEF Pending
    <2> QED
      BY <2>1, <1>2 DEF Pending
  <1>4. b \in BatchType
    <2>1. 1 .. Len(items) \subseteq Nat
      BY <1>2
    <2> QED
      BY <2>1, <1>2, <1>3 DEF BatchType
  <1>5. \A t \in Threads : ~(proc[t] = p /\ th[t].pc # "idle")
    BY <1>1, RunningBatch DEF Holds
  <1>6. calls' \in 0 .. MaxCalls /\ faults' \in 0 .. MaxFaults
    BY <1>1, CountFacts, VideoAssumption
  <1>7. b.items = items /\ b.left = 1 .. Len(items) /\ b.status = "running"
    OBVIOUS
  <1>8. DOMAIN b.out = 1 .. Len(items)
    BY <1>2
  <1> HIDE DEF b
  <1>9. BatchFits(p, b)
    BY <1>3, <1>5, <1>7, <1>8 DEF BatchFits
  <1> QED
    BY <1>1, <1>4, <1>6, <1>9, BatchKeeps

LEMMA ReadNoneKeeps ==
  ASSUME VideoInv, NEW t \in Threads, NEW i, ReadNone(t, i)
  PROVE  VideoInv'
  <1> DEFINE p == proc[t]
             b == [batch[p] EXCEPT !.left = batch[p].left \ {i}, !.out = [batch[p].out EXCEPT ![i] = None]]
  <1>1. p \in Procs /\ batch \in [Procs -> BatchType]
    BY VideoAssumption DEF VideoInv, VarsTyped
  <1>2. batch[p].status = "running" /\ i \in batch[p].left /\ batch[p].items[i] = NoClip
        /\ UNCHANGED <<proc, seq, th, temp, litter>> /\ UNCHANGED count
    BY DEF ReadNone, CanBegin
  <1>3. batch[p] \in BatchType /\ Len(batch[p].out) = Len(batch[p].items)
        /\ batch[p].out \in Seq(Outcome) /\ i \in 1 .. Len(batch[p].items)
    BY <1>1, <1>2, RunningBatch
  <1>4. batch' = [batch EXCEPT ![p] = b]
    BY <1>1, <1>3 DEF ReadNone, BatchType
  <1>5. /\ b.items = batch[p].items /\ b.req = batch[p].req /\ b.status = batch[p].status
        /\ b.failed = batch[p].failed /\ b.left = batch[p].left \ {i}
        /\ b.out = [batch[p].out EXCEPT ![i] = None]
    BY <1>3 DEF BatchType
  <1>6. None \in Outcome /\ None.kind = "none"
    BY DEF None, Outcome
  <1>7. b.out \in Seq(Outcome) /\ Len(b.out) = Len(batch[p].items) /\ b.out[i] = None
        /\ \A k \in 1 .. Len(batch[p].items) : k # i => b.out[k] = batch[p].out[k]
    BY <1>3, <1>5, <1>6
  <1>8. b \in BatchType
    BY <1>3, <1>7, <1>5 DEF BatchType
  <1>9. \A u \in Threads : proc[u] = p /\ th[u].pc # "idle" => Holds(th[u], b)
    BY <1>1, <1>2, <1>5, <1>7, RunningBatch DEF Holds
  <1>10. \A k \in b.left : k \in 1 .. Len(b.items) /\ b.out[k].kind = "pending"
    BY <1>1, <1>5, <1>7, RunningBatch
  <1>11. b.status = "running" /\ ~b.failed =>
           \A k \in 1 .. Len(b.items) : b.out[k].kind = "pending" /\ k \notin b.left =>
             \E u \in Threads : proc[u] = p /\ th[u].pc # "idle" /\ th[u].item = k
    BY <1>1, <1>5, <1>6, <1>7 DEF VideoInv, ItemsOK
  <1>12. DOMAIN b.out = 1 .. Len(batch[p].items) /\ DOMAIN batch[p].out = 1 .. Len(batch[p].items)
    BY <1>3, <1>7
  <1>13. \A k \in DOMAIN b.out :
           /\ b.out[k].kind = "none" => b.items[k] = NoClip
           /\ b.out[k].kind = "clip" => /\ b.items[k] # NoClip /\ b.out[k].clip = b.items[k]
                                        /\ b.out[k].frames = Sampled(b.items[k], b.req)
    BY <1>1, <1>2, <1>5, <1>6, <1>7, <1>12 DEF VideoInv, OutcomesRight
  <1>14. calls' \in 0 .. MaxCalls /\ faults' \in 0 .. MaxFaults
    BY <1>2, CountFacts DEF count
  <1> HIDE DEF b
  <1>15. b.status # "returned"
    BY <1>2, <1>5
  <1> HIDE DEF p
  <1>16. BatchFits(p, b)
    BY <1>5, <1>7, <1>9, <1>10, <1>11, <1>13, <1>15 DEF BatchFits
  <1> QED
    BY <1>1, <1>2, <1>4, <1>8, <1>14, <1>16, BatchKeeps

LEMMA ReadFailsKeeps ==
  ASSUME VideoInv, NEW t \in Threads, NEW i, ReadFails(t, i)
  PROVE  VideoInv'
  <1> DEFINE p == proc[t]
             b == [batch[p] EXCEPT !.left = batch[p].left \ {i}, !.failed = TRUE]
  <1>1. p \in Procs /\ batch \in [Procs -> BatchType]
    BY VideoAssumption DEF VideoInv, VarsTyped
  <1>2. batch[p].status = "running" /\ i \in batch[p].left /\ faults < MaxFaults
        /\ faults' = faults + 1 /\ UNCHANGED <<proc, seq, th, temp, litter, calls>>
    BY DEF ReadFails, CanBegin, Fails
  <1>3. batch[p] \in BatchType /\ Len(batch[p].out) = Len(batch[p].items)
    BY <1>1, RunningBatch
  <1>4. batch' = [batch EXCEPT ![p] = b]
    BY <1>1, <1>3 DEF ReadFails, BatchType
  <1>5. /\ b.items = batch[p].items /\ b.req = batch[p].req /\ b.status = batch[p].status
        /\ b.failed /\ b.left = batch[p].left \ {i} /\ b.out = batch[p].out
    BY <1>3 DEF BatchType
  <1>6. b \in BatchType
    BY <1>3, <1>5 DEF BatchType
  <1>7. calls' \in 0 .. MaxCalls /\ faults' \in 0 .. MaxFaults
    BY <1>2, CountFacts, VideoAssumption
  <1> HIDE DEF b
  <1>8. BatchFits(p, b)
    <2>1. \A u \in Threads : proc[u] = p /\ th[u].pc # "idle" => Holds(th[u], b)
      BY <1>1, <1>5, RunningBatch DEF Holds
    <2>2. \A k \in b.left : k \in 1 .. Len(b.items) /\ b.out[k].kind = "pending"
      BY <1>1, <1>5, RunningBatch
    <2>3. \A k \in DOMAIN b.out :
            /\ b.out[k].kind = "none" => b.items[k] = NoClip
            /\ b.out[k].kind = "clip" => /\ b.items[k] # NoClip /\ b.out[k].clip = b.items[k]
                                         /\ b.out[k].frames = Sampled(b.items[k], b.req)
      BY <1>1, <1>5 DEF VideoInv, OutcomesRight
    <2> QED
      BY <2>1, <2>2, <2>3, <1>2, <1>3, <1>5 DEF BatchFits
  <1> HIDE DEF p
  <1> QED
    BY <1>1, <1>2, <1>4, <1>6, <1>7, <1>8, BatchKeeps

LEMMA ReturnKeeps ==
  ASSUME VideoInv, NEW p \in Procs, Return(p)
  PROVE  VideoInv'
  <1> DEFINE b == [batch[p] EXCEPT !.status = Verdict(p)]
  <1>1. batch \in [Procs -> BatchType] /\ batch[p] \in BatchType /\ Len(batch[p].out) = Len(batch[p].items)
    BY RunningBatch DEF VideoInv, VarsTyped
  <1>2. /\ batch[p].status = "running" /\ batch' = [batch EXCEPT ![p] = b]
        /\ \A t \in Threads : proc[t] = p => th[t].pc = "idle"
        /\ batch[p].left = {} \/ batch[p].failed
        /\ UNCHANGED <<proc, seq, th, temp, litter>> /\ UNCHANGED count
    BY <1>1 DEF Return
  <1>3. /\ b.items = batch[p].items /\ b.req = batch[p].req /\ b.status = Verdict(p)
        /\ b.left = batch[p].left /\ b.out = batch[p].out
    BY <1>1 DEF BatchType
  <1>4. Verdict(p) \in {"raised", "returned"} /\ (Verdict(p) = "returned" => ~batch[p].failed)
    BY DEF Verdict
  <1>5. b \in BatchType
    BY <1>1, <1>4 DEF BatchType
  <1>6. calls' \in 0 .. MaxCalls /\ faults' \in 0 .. MaxFaults
    BY <1>2, CountFacts DEF count
  <1> HIDE DEF b
  <1>7. BatchFits(p, b)
    <2>1. \A k \in b.left : k \in 1 .. Len(b.items) /\ b.out[k].kind = "pending"
      BY <1>3, RunningBatch
    <2>2. \A k \in DOMAIN b.out :
            /\ b.out[k].kind = "none" => b.items[k] = NoClip
            /\ b.out[k].kind = "clip" => /\ b.items[k] # NoClip /\ b.out[k].clip = b.items[k]
                                         /\ b.out[k].frames = Sampled(b.items[k], b.req)
      BY <1>3 DEF VideoInv, OutcomesRight
    <2>3. b.status = "returned" => \A k \in 1 .. Len(b.items) : b.out[k].kind # "pending"
      BY <1>2, <1>3, <1>4 DEF VideoInv, ItemsOK
    <2> QED
      BY <2>1, <2>2, <2>3, <1>1, <1>2, <1>3, <1>4 DEF BatchFits
  <1> QED
    BY <1>2, <1>5, <1>6, <1>7, BatchKeeps

\* A thread takes an item and a number: both are new to its process.
LEMMA ReadBlobKeeps ==
  ASSUME VideoInv, NEW t \in Threads, NEW i, ReadBlob(t, i)
  PROVE  VideoInv'
  <1> DEFINE p == proc[t]
             x == [Idle EXCEPT !.pc = "stage", !.item = i, !.uid = seq[p]]
  <1>1. /\ p \in Procs /\ batch \in [Procs -> BatchType] /\ th \in [Threads -> ThreadType]
        /\ seq \in [Procs -> Nat] /\ \A u \in Threads : proc[u] \in Procs
    BY VideoAssumption DEF VideoInv, VarsTyped
  <1>2. /\ th[t].pc = "idle" /\ batch[p].status = "running" /\ i \in batch[p].left
        /\ batch[p].items[i] # NoClip /\ batch' = [batch EXCEPT ![p].left = batch[p].left \ {i}]
        /\ th' = [th EXCEPT ![t] = x] /\ seq' = [seq EXCEPT ![p] = seq[p] + 1]
        /\ UNCHANGED <<proc, temp, litter>> /\ UNCHANGED count
    BY DEF ReadBlob, CanBegin
  <1>3. batch[p] \in BatchType /\ i \in 1 .. Len(batch[p].items) /\ batch[p].out[i].kind = "pending"
    BY <1>1, <1>2, RunningBatch
  <1>4. /\ x.pc = "stage" /\ x.item = i /\ x.uid = seq[p] /\ x.src = NoClip /\ x.sent = 0
        /\ x.fc = 0 /\ x.frames = <<>> /\ ~x.err
    BY DEF Idle
  <1>5. x \in ThreadType
    <2>1. Idle \in ThreadType
      BY IdleType
    <2>2. i \in Nat /\ seq[p] \in Nat
      BY <1>1, <1>3
    <2> QED
      BY <2>1, <2>2 DEF ThreadType
  <1> HIDE DEF x
  <1>6. th'[t] = x /\ \A u \in Threads : u # t => th'[u] = th[u]
    BY <1>1, <1>2
  <1>7. seq'[p] = seq[p] + 1 /\ \A q \in Procs : q # p => seq'[q] = seq[q]
    BY <1>1, <1>2
  <1>8. /\ batch'[p].items = batch[p].items /\ batch'[p].req = batch[p].req
        /\ batch'[p].status = batch[p].status /\ batch'[p].failed = batch[p].failed
        /\ batch'[p].out = batch[p].out /\ batch'[p].left = batch[p].left \ {i}
    BY <1>1, <1>2, <1>3 DEF BatchType
  <1>9. \A q \in Procs : q # p => batch'[q] = batch[q]
    BY <1>1, <1>2
  <1>10. batch' \in [Procs -> BatchType]
    <2>1. batch'[p] \in BatchType
      BY <1>1, <1>2, <1>3 DEF BatchType
    <2> QED
      BY <2>1, <1>1, <1>2, <1>9
  <1>11. \A q \in Procs : /\ batch'[q].items = batch[q].items /\ batch'[q].req = batch[q].req
                          /\ batch'[q].status = batch[q].status /\ batch'[q].out = batch[q].out
                          /\ batch'[q].failed = batch[q].failed /\ batch'[q].left \subseteq batch[q].left
    BY <1>8, <1>9
  <1>12. VarsTyped'
    <2>1. th' \in [Threads -> ThreadType] /\ seq' \in [Procs -> Nat]
      BY <1>1, <1>2, <1>5
    <2>2. \A u \in Threads : th'[u].src # NoClip =>
            th'[u].fc <= th'[u].sent /\ th'[u].sent <= Decodable[th'[u].src]
      BY <1>4, <1>6 DEF VideoInv, VarsTyped
    <2> QED
      BY <2>1, <2>2, <1>2, <1>10 DEF VideoInv, VarsTyped, count
  <1>13. ThreadsOK'
    <2> SUFFICES ASSUME NEW u \in Threads, th'[u].pc # "idle"
                 PROVE  /\ Holds(th'[u], batch'[proc[u]]) /\ th'[u].uid < seq'[proc[u]]
                        /\ Progress(th'[u], batch'[proc[u]].items[th'[u].item], batch'[proc[u]].req)
      BY <1>2, <1>4, <1>6 DEF VideoInv, ThreadsOK
    <2>1. CASE u = t
      <3>1. Holds(x, batch'[p])
        BY <1>2, <1>3, <1>4, <1>8 DEF Holds
      <3>2. Progress(x, batch'[p].items[i], batch'[p].req)
        BY <1>4 DEF Progress
      <3>3. x.uid < seq'[p]
        BY <1>1, <1>4, <1>7
      <3> QED
        BY <2>1, <3>1, <3>2, <3>3, <1>4, <1>6
    <2>2. CASE u # t
      <3>1. Holds(th[u], batch[proc[u]]) /\ th[u].uid < seq[proc[u]]
            /\ Progress(th[u], batch[proc[u]].items[th[u].item], batch[proc[u]].req)
        BY <2>2, <1>6 DEF VideoInv, ThreadsOK
      <3>2. th[u].uid < seq'[proc[u]]
        <4>1. seq'[proc[u]] >= seq[proc[u]] /\ seq'[proc[u]] \in Nat /\ seq[proc[u]] \in Nat
          BY <1>1, <1>7
        <4>2. th[u].uid \in Nat
          BY <1>1 DEF ThreadType
        <4> QED
          BY <4>1, <4>2, <3>1
      <3>3. Holds(th[u], batch'[proc[u]])
        BY <3>1, <1>1, <1>11 DEF Holds
      <3> QED
        BY <2>2, <3>1, <3>2, <3>3, <1>1, <1>6, <1>11
    <2> QED
      BY <2>1, <2>2
  <1>14. FileOK'
    <2> SUFFICES ASSUME NEW u \in Threads, th'[u].pc \notin {"idle", "stage"}
                 PROVE  /\ <<proc[u], th'[u].uid>> \in DOMAIN temp
                        /\ temp[<<proc[u], th'[u].uid>>] = batch'[proc[u]].items[th'[u].item]
      BY <1>2 DEF FileOK, Path
    <2>1. th'[u] = th[u]
      BY <1>4, <1>6
    <2> QED
      BY <2>1, <1>1, <1>11 DEF VideoInv, FileOK, Path
  <1>15. Apart'
    <2>1. \A u \in Threads : u # t /\ proc[u] = p /\ th[u].pc # "idle" => th[u].uid # x.uid /\ th[u].item # x.item
      <3> SUFFICES ASSUME NEW u \in Threads, proc[u] = p, th[u].pc # "idle"
                   PROVE  th[u].uid # x.uid /\ th[u].item # x.item
        OBVIOUS
      <3>1. th[u].uid < seq[p] /\ th[u].item \notin batch[p].left
        BY DEF VideoInv, ThreadsOK, Holds
      <3>2. th[u].uid \in Nat /\ seq[p] \in Nat
        BY <1>1 DEF ThreadType
      <3> QED
        BY <3>1, <3>2, <1>2, <1>4
    <2> QED
      BY <2>1, <1>2, <1>6 DEF VideoInv, Apart
  <1>16. ItemsOK'
    <2> SUFFICES ASSUME NEW q \in Procs
                 PROVE  /\ Len(batch'[q].out) = Len(batch'[q].items)
                        /\ \A k \in batch'[q].left :
                             k \in 1 .. Len(batch'[q].items) /\ batch'[q].out[k].kind = "pending"
                        /\ batch'[q].status = "running" /\ ~batch'[q].failed =>
                             \A k \in 1 .. Len(batch'[q].items) :
                               batch'[q].out[k].kind = "pending" /\ k \notin batch'[q].left =>
                                 \E u \in Threads : proc[u] = q /\ th'[u].pc # "idle" /\ th'[u].item = k
      BY <1>2 DEF ItemsOK
    <2>1. Len(batch'[q].out) = Len(batch'[q].items)
      BY <1>11 DEF VideoInv, ItemsOK
    <2>2. \A k \in batch'[q].left : k \in 1 .. Len(batch'[q].items) /\ batch'[q].out[k].kind = "pending"
      BY <1>11 DEF VideoInv, ItemsOK
    <2>3. ASSUME batch'[q].status = "running", ~batch'[q].failed, NEW k \in 1 .. Len(batch'[q].items),
                 batch'[q].out[k].kind = "pending", k \notin batch'[q].left
          PROVE  \E u \in Threads : proc[u] = q /\ th'[u].pc # "idle" /\ th'[u].item = k
      <3>1. CASE q = p /\ k = i
        BY <3>1, <1>4, <1>6
      <3>2. CASE ~(q = p /\ k = i)
        <4>1. k \notin batch[q].left
          BY <3>2, <2>3, <1>8, <1>9
        <4>2. PICK u \in Threads : proc[u] = q /\ th[u].pc # "idle" /\ th[u].item = k
          BY <4>1, <2>3, <1>11 DEF VideoInv, ItemsOK
        <4>3. th'[u] = th[u]
          BY <4>2, <1>2, <1>6
        <4> QED
          BY <4>2, <4>3
      <3> QED
        BY <3>1, <3>2
    <2> QED
      BY <2>1, <2>2, <2>3
  <1>17. OutcomesRight'
    BY <1>11 DEF VideoInv, OutcomesRight
  <1>18. ListsWhole'
    BY <1>11 DEF VideoInv, ListsWhole
  <1>19. NoLitter'
    <2>1. \A u \in Threads : th[u].pc # "idle" => th'[u].pc # "idle" /\ Path(u)' = Path(u)
      BY <1>2, <1>6 DEF Path
    <2> QED
      BY <2>1, <1>2 DEF VideoInv, NoLitter
  <1> QED
    BY <1>12, <1>13, <1>14, <1>15, <1>16, <1>17, <1>18, <1>19 DEF VideoInv

\* Two decodes under way never have the same file.
LEMMA PathsApart ==
  ASSUME VideoInv, NEW t \in Threads, NEW u \in Threads, t # u,
         th[t].pc # "idle", th[u].pc # "idle"
  PROVE  Path(t) # Path(u)
  BY DEF VideoInv, Apart, Path

LEMMA StageKeeps ==
  ASSUME VideoInv, NEW t \in Threads, Stage(t)
  PROVE  VideoInv'
  <1> DEFINE c == batch[proc[t]].items[th[t].item]
             x == [th[t] EXCEPT !.pc = "open"]
  <1>1. /\ th[t].pc = "stage" /\ temp' = Written(Path(t), c) /\ th' = [th EXCEPT ![t] = x]
        /\ UNCHANGED <<proc, batch, seq, litter>> /\ UNCHANGED count
    BY DEF Stage
  <1>2. /\ proc[t] \in Procs /\ th[t] \in ThreadType /\ c \in Clips /\ Holds(th[t], batch[proc[t]])
        /\ th[t].uid < seq[proc[t]] /\ Progress(th[t], c, batch[proc[t]].req)
    BY <1>1, BusyFacts
  <1>3. th \in [Threads -> ThreadType]
    BY DEF VideoInv, VarsTyped
  <1>4. /\ x.pc = "open" /\ x.src = th[t].src /\ x.item = th[t].item /\ x.uid = th[t].uid
        /\ x.sent = th[t].sent /\ x.fc = th[t].fc /\ x.frames = th[t].frames /\ x.err = th[t].err
    BY <1>2 DEF ThreadType
  <1>5. x \in ThreadType
    BY <1>2 DEF ThreadType
  <1> HIDE DEF x
  <1>6. th'[t] = x /\ \A u \in Threads : u # t => th'[u] = th[u]
    BY <1>1, <1>3
  <1>7. \A u \in Threads : /\ th'[u].item = th[u].item /\ th'[u].uid = th[u].uid
                           /\ th'[u].pc = "idle" <=> th[u].pc = "idle"
                           /\ Path(u)' = Path(u)
    BY <1>1, <1>4, <1>6 DEF Path
  <1>8. /\ DOMAIN temp' = DOMAIN temp \cup {Path(t)} /\ temp'[Path(t)] = c
        /\ \A q \in DOMAIN temp : q # Path(t) => temp'[q] = temp[q]
    BY <1>1 DEF Written
  <1>9. VarsTyped'
    <2>1. th' \in [Threads -> ThreadType]
      BY <1>1, <1>3, <1>5
    <2>2. \A u \in Threads : th'[u].src # NoClip =>
            th'[u].fc <= th'[u].sent /\ th'[u].sent <= Decodable[th'[u].src]
      BY <1>4, <1>6 DEF VideoInv, VarsTyped
    <2>3. Path(t) \in Procs \X Nat
      BY <1>2 DEF Path, ThreadType
    <2>4. DOMAIN temp' \subseteq Procs \X Nat
      BY <2>3, <1>8 DEF VideoInv, VarsTyped
    <2>5. \A q \in DOMAIN temp' : temp'[q] \in Clips \cup {NoClip}
      BY <1>2, <1>8 DEF VideoInv, VarsTyped
    <2> QED
      BY <2>1, <2>2, <2>4, <2>5, <1>1 DEF VideoInv, VarsTyped, count
  <1>10. ThreadsOK'
    <2>1. Holds(x, batch[proc[t]]) /\ x.uid < seq[proc[t]] /\ Progress(x, c, batch[proc[t]].req)
      BY <1>1, <1>2, <1>4 DEF Holds, Progress
    <2> QED
      <3> SUFFICES ASSUME NEW u \in Threads
                   PROVE  IF th'[u].pc = "idle" THEN th'[u] = Idle
                          ELSE /\ Holds(th'[u], batch[proc[u]]) /\ th'[u].uid < seq[proc[u]]
                               /\ Progress(th'[u], batch[proc[u]].items[th'[u].item], batch[proc[u]].req)
        BY <1>1 DEF ThreadsOK
      <3>1. CASE u = t
        BY <3>1, <2>1, <1>4, <1>6
      <3>2. CASE u # t
        <4>1. th'[u] = th[u]
          BY <3>2, <1>6
        <4> QED
          BY <4>1 DEF VideoInv, ThreadsOK
      <3> QED
        BY <3>1, <3>2
  <1>11. FileOK'
    <2> SUFFICES ASSUME NEW u \in Threads, th'[u].pc \notin {"idle", "stage"}
                 PROVE  Path(u) \in DOMAIN temp' /\ temp'[Path(u)] = batch[proc[u]].items[th'[u].item]
      BY <1>1, <1>7 DEF FileOK
    <2>1. CASE u = t
      BY <2>1, <1>4, <1>6, <1>8
    <2>2. CASE u # t
      <3>1. th'[u] = th[u] /\ Path(u) # Path(t)
        BY <2>2, <1>1, <1>6, PathsApart
      <3> QED
        BY <3>1, <1>8 DEF VideoInv, FileOK
    <2> QED
      BY <2>1, <2>2
  <1>12. Apart'
    BY <1>1, <1>7 DEF VideoInv, Apart
  <1>13. ItemsOK'
    BY <1>1, <1>7 DEF VideoInv, ItemsOK
  <1>14. OutcomesRight' /\ ListsWhole'
    BY <1>1 DEF VideoInv, OutcomesRight, ListsWhole
  <1>15. NoLitter'
    <2> SUFFICES ASSUME NEW q \in DOMAIN temp', q \notin litter
                 PROVE  \E u \in Threads : th'[u].pc # "idle" /\ q = Path(u)'
      BY <1>1 DEF NoLitter
    <2>1. CASE q = Path(t)
      BY <2>1, <1>4, <1>6, <1>7
    <2>2. CASE q # Path(t)
      <3>1. q \in DOMAIN temp
        BY <2>2, <1>8
      <3>2. PICK u \in Threads : th[u].pc # "idle" /\ q = Path(u)
        BY <3>1 DEF VideoInv, NoLitter
      <3> QED
        BY <3>2, <1>7
    <2> QED
      BY <2>1, <2>2
  <1> QED
    BY <1>9, <1>10, <1>11, <1>12, <1>13, <1>14, <1>15 DEF VideoInv

\* What batch b has to be when thread t gives its item back: with an outcome, or
\* for an error.
GivenBack(t, b) ==
  LET old == batch[proc[t]]
  IN /\ b.items = old.items /\ b.req = old.req /\ b.left = old.left /\ b.status = old.status
     /\ Len(b.out) = Len(old.out)
     /\ \A i \in 1 .. Len(old.items) : i # th[t].item => b.out[i] = old.out[i]
     /\ ~b.failed => ~old.failed /\ b.out[th[t].item].kind # "pending"
     /\ b.out[th[t].item].kind = "none" => FALSE
     /\ b.out[th[t].item].kind = "clip" =>
          /\ b.out[th[t].item].clip = b.items[th[t].item]
          /\ b.out[th[t].item].frames = Sampled(b.items[th[t].item], b.req)

LEMMA GivesBackKeeps ==
  ASSUME VideoInv, NEW t \in Threads, th[t].pc # "idle",
         NEW b \in BatchType, GivenBack(t, b), batch' = [batch EXCEPT ![proc[t]] = b],
         th' = [th EXCEPT ![t] = Idle], UNCHANGED <<proc, seq>>,
         calls' \in 0 .. MaxCalls, faults' \in 0 .. MaxFaults,
         \A q \in DOMAIN temp : q # Path(t) => q \in DOMAIN temp' /\ temp'[q] = temp[q],
         \A q \in DOMAIN temp' : q # Path(t) => q \in DOMAIN temp,
         \A q \in DOMAIN temp' : temp'[q] \in Clips \cup {NoClip},
         litter' \in SUBSET (litter \cup {Path(t)}), litter \subseteq litter',
         Path(t) \in DOMAIN temp' => Path(t) \in litter'
  PROVE  VideoInv'
  <1> DEFINE p == proc[t]
  <1>1. /\ p \in Procs /\ batch \in [Procs -> BatchType] /\ th \in [Threads -> ThreadType]
        /\ \A u \in Threads : proc[u] \in Procs
    BY VideoAssumption DEF VideoInv, VarsTyped
  <1>2. Holds(th[t], batch[p]) /\ Len(batch[p].out) = Len(batch[p].items)
    BY <1>1 DEF VideoInv, ThreadsOK, ItemsOK
  <1>3. th'[t] = Idle /\ Idle.pc = "idle" /\ Idle.src = NoClip /\ \A u \in Threads : u # t => th'[u] = th[u]
    BY <1>1 DEF Idle
  <1>4. batch'[p] = b /\ \A q \in Procs : q # p => batch'[q] = batch[q]
    BY <1>1
  <1>5. \A u \in Threads : u # t => Path(u)' = Path(u)
    BY <1>3 DEF Path
  <1>6. \A q \in Procs : /\ batch'[q].items = batch[q].items /\ batch'[q].req = batch[q].req
                         /\ batch'[q].left = batch[q].left /\ batch'[q].status = batch[q].status
                         /\ Len(batch'[q].out) = Len(batch[q].out)
    BY <1>4 DEF GivenBack
  <1>7. \A q \in Procs : \A i \in 1 .. Len(batch[q].items) :
          ~(q = p /\ i = th[t].item) => batch'[q].out[i] = batch[q].out[i]
    BY <1>4 DEF GivenBack
  <1>8. VarsTyped'
    <2>1. th' \in [Threads -> ThreadType] /\ batch' \in [Procs -> BatchType]
      BY <1>1, IdleType
    <2>2. \A u \in Threads : th'[u].src # NoClip =>
            th'[u].fc <= th'[u].sent /\ th'[u].sent <= Decodable[th'[u].src]
      BY <1>3 DEF VideoInv, VarsTyped
    <2>3. Path(t) \in Procs \X Nat
      BY <1>1 DEF Path, ThreadType
    <2>4. DOMAIN temp' \subseteq Procs \X Nat /\ litter' \subseteq Procs \X Nat
      BY <2>3 DEF VideoInv, VarsTyped
    <2> QED
      BY <2>1, <2>2, <2>4 DEF VideoInv, VarsTyped
  <1>9. \A u \in Threads : th'[u].pc # "idle" => u # t /\ th'[u] = th[u] /\ Path(u)' = Path(u)
    BY <1>3, <1>5
  <1>10. ASSUME NEW u \in Threads, th'[u].pc # "idle"
         PROVE  Holds(th[u], batch'[proc[u]])
    <2>1. Holds(th[u], batch[proc[u]]) /\ th[u].pc # "idle"
      BY <1>9, <1>10 DEF VideoInv, ThreadsOK
    <2>2. ~(proc[u] = p /\ th[u].item = th[t].item)
      BY <2>1, <1>9, <1>10 DEF VideoInv, Apart
    <2> QED
      BY <2>1, <2>2, <1>1, <1>6, <1>7 DEF Holds
  <1>11. ThreadsOK'
    <2> SUFFICES ASSUME NEW u \in Threads, th'[u].pc # "idle"
                 PROVE  /\ Holds(th'[u], batch'[proc[u]]) /\ th'[u].uid < seq[proc[u]]
                        /\ Progress(th'[u], batch'[proc[u]].items[th'[u].item], batch'[proc[u]].req)
      BY <1>3, <1>9 DEF VideoInv, ThreadsOK
    <2> QED
      BY <1>1, <1>6, <1>9, <1>10 DEF VideoInv, ThreadsOK
  <1>12. FileOK'
    <2> SUFFICES ASSUME NEW u \in Threads, th'[u].pc \notin {"idle", "stage"}
                 PROVE  Path(u) \in DOMAIN temp' /\ temp'[Path(u)] = batch'[proc[u]].items[th'[u].item]
      BY <1>9 DEF FileOK
    <2>1. u # t /\ th'[u] = th[u] /\ Path(u) # Path(t)
      BY <1>9, PathsApart
    <2> QED
      BY <2>1, <1>1, <1>6 DEF VideoInv, FileOK
  <1>13. Apart'
    BY <1>9 DEF VideoInv, Apart
  <1>14. ItemsOK'
    <2> SUFFICES ASSUME NEW q \in Procs
                 PROVE  /\ Len(batch'[q].out) = Len(batch'[q].items)
                        /\ \A k \in batch'[q].left :
                             k \in 1 .. Len(batch'[q].items) /\ batch'[q].out[k].kind = "pending"
                        /\ batch'[q].status = "running" /\ ~batch'[q].failed =>
                             \A k \in 1 .. Len(batch'[q].items) :
                               batch'[q].out[k].kind = "pending" /\ k \notin batch'[q].left =>
                                 \E u \in Threads : proc[u] = q /\ th'[u].pc # "idle" /\ th'[u].item = k
      BY DEF ItemsOK
    <2>1. Len(batch'[q].out) = Len(batch'[q].items)
      BY <1>6 DEF VideoInv, ItemsOK
    <2>2. \A k \in batch'[q].left : k \in 1 .. Len(batch'[q].items) /\ batch'[q].out[k].kind = "pending"
      <3> TAKE k \in batch'[q].left
      <3>1. k \in batch[q].left /\ k \in 1 .. Len(batch[q].items) /\ batch[q].out[k].kind = "pending"
        BY <1>6 DEF VideoInv, ItemsOK
      <3>2. ~(q = p /\ k = th[t].item)
        BY <3>1, <1>2 DEF Holds
      <3> QED
        BY <3>1, <3>2, <1>6, <1>7
    <2>3. ASSUME batch'[q].status = "running", ~batch'[q].failed, NEW k \in 1 .. Len(batch'[q].items),
                 batch'[q].out[k].kind = "pending", k \notin batch'[q].left
          PROVE  \E u \in Threads : proc[u] = q /\ th'[u].pc # "idle" /\ th'[u].item = k
      <3>1. ~(q = p /\ k = th[t].item) /\ ~batch[q].failed
        BY <2>3, <1>4 DEF GivenBack
      <3>2. batch[q].out[k].kind = "pending" /\ k \in 1 .. Len(batch[q].items) /\ k \notin batch[q].left
            /\ batch[q].status = "running"
        BY <3>1, <2>3, <1>6, <1>7
      <3>3. PICK u \in Threads : proc[u] = q /\ th[u].pc # "idle" /\ th[u].item = k
        BY <3>1, <3>2 DEF VideoInv, ItemsOK
      <3>4. th'[u] = th[u]
        BY <3>1, <3>3, <1>3
      <3> QED
        BY <3>3, <3>4
    <2> QED
      BY <2>1, <2>2, <2>3
  <1>15. OutcomesRight'
    <2> SUFFICES ASSUME NEW q \in Procs, NEW i \in DOMAIN batch'[q].out
                 PROVE  LET o == batch'[q].out[i]  c == batch'[q].items[i]
                        IN /\ o.kind = "none" => c = NoClip
                           /\ o.kind = "clip" => c # NoClip /\ o.clip = c /\ o.frames = Sampled(c, batch'[q].req)
      BY DEF OutcomesRight
    <2>1. batch'[q].out \in Seq(Outcome) /\ batch[q].out \in Seq(Outcome)
      BY <1>1, <1>4 DEF BatchType
    <2>2. DOMAIN batch'[q].out = DOMAIN batch[q].out /\ DOMAIN batch[q].out = 1 .. Len(batch[q].items)
      BY <2>1, <1>6 DEF VideoInv, ItemsOK
    <2>3. CASE q = p /\ i = th[t].item
      BY <2>3, <1>2, <1>4 DEF GivenBack, Holds
    <2>4. CASE ~(q = p /\ i = th[t].item)
      BY <2>2, <2>4, <1>6, <1>7 DEF VideoInv, OutcomesRight
    <2> QED
      BY <2>3, <2>4
  <1>16. ListsWhole'
    <2> SUFFICES ASSUME NEW q \in Procs, batch'[q].status = "returned", NEW i \in 1 .. Len(batch'[q].items)
                 PROVE  batch'[q].out[i].kind # "pending"
      BY DEF ListsWhole
    <2>1. q # p
      BY <1>2, <1>6 DEF Holds
    <2> QED
      BY <2>1, <1>4 DEF VideoInv, ListsWhole
  <1>17. NoLitter'
    <2> SUFFICES ASSUME NEW q \in DOMAIN temp', q \notin litter'
                 PROVE  \E u \in Threads : th'[u].pc # "idle" /\ q = Path(u)'
      BY DEF NoLitter
    <2>1. q # Path(t) /\ q \in DOMAIN temp /\ q \notin litter
      OBVIOUS
    <2>2. PICK u \in Threads : th[u].pc # "idle" /\ q = Path(u)
      BY <2>1 DEF VideoInv, NoLitter
    <2>3. u # t
      BY <2>1, <2>2
    <2> QED
      BY <2>2, <2>3, <1>3, <1>5
  <1> QED
    BY <1>8, <1>11, <1>12, <1>13, <1>14, <1>15, <1>16, <1>17 DEF VideoInv

LEMMA StageFailsKeeps ==
  ASSUME VideoInv, NEW t \in Threads, StageFails(t)
  PROVE  VideoInv'
  <1> DEFINE b == [batch[proc[t]] EXCEPT !.failed = TRUE]
  <1>1. /\ th[t].pc = "stage" /\ temp' = Written(Path(t), NoClip) /\ litter' = litter \cup {Path(t)}
        /\ th' = [th EXCEPT ![t] = Idle] /\ faults < MaxFaults /\ faults' = faults + 1
        /\ UNCHANGED <<proc, seq, calls>>
    BY DEF StageFails, Fails
  <1>2. /\ proc[t] \in Procs /\ batch[proc[t]] \in BatchType /\ Holds(th[t], batch[proc[t]])
    BY <1>1, BusyFacts
  <1>3. batch' = [batch EXCEPT ![proc[t]] = b]
    BY <1>2 DEF StageFails, VideoInv, VarsTyped, BatchType
  <1>4. b \in BatchType /\ b.failed /\ b.items = batch[proc[t]].items /\ b.req = batch[proc[t]].req
        /\ b.left = batch[proc[t]].left /\ b.status = batch[proc[t]].status /\ b.out = batch[proc[t]].out
    BY <1>2 DEF BatchType
  <1> HIDE DEF b
  <1>5. GivenBack(t, b)
    BY <1>2, <1>4 DEF GivenBack, Holds
  <1>6. calls' \in 0 .. MaxCalls /\ faults' \in 0 .. MaxFaults
    BY <1>1, CountFacts, VideoAssumption
  <1>7. /\ \A q \in DOMAIN temp : q # Path(t) => q \in DOMAIN temp' /\ temp'[q] = temp[q]
        /\ \A q \in DOMAIN temp' : q # Path(t) => q \in DOMAIN temp
        /\ \A q \in DOMAIN temp' : temp'[q] \in Clips \cup {NoClip}
    BY <1>1 DEF Written, VideoInv, VarsTyped
  <1>8. litter' \in SUBSET (litter \cup {Path(t)}) /\ litter \subseteq litter' /\ Path(t) \in litter'
    BY <1>1
  <1>9. th[t].pc # "idle" /\ UNCHANGED <<proc, seq>>
    BY <1>1
  <1> QED
    BY <1>1, <1>3, <1>4, <1>5, <1>6, <1>7, <1>8, <1>9, GivesBackKeeps

LEMMA RemoveKeeps ==
  ASSUME VideoInv, NEW t \in Threads, Remove(t)
  PROVE  VideoInv'
  <1> DEFINE p == proc[t]
             c == batch[p].items[th[t].item]
             o == Decoded(th[t].src, th[t].frames)
             b == IF th[t].err THEN [batch[p] EXCEPT !.failed = TRUE]
                  ELSE [batch[p] EXCEPT !.out = [batch[p].out EXCEPT ![th[t].item] = o]]
  <1>1. /\ th[t].pc = "remove" /\ temp' = Cleaned(t) /\ th' = [th EXCEPT ![t] = Idle]
        /\ UNCHANGED <<proc, seq, litter>> /\ UNCHANGED count
    BY DEF Remove
  <1>2. /\ p \in Procs /\ batch[p] \in BatchType /\ Holds(th[t], batch[p]) /\ th[t] \in ThreadType
        /\ c \in Clips /\ Progress(th[t], c, batch[p].req)
    BY <1>1, BusyFacts
  <1>3. batch[p].out \in Seq(Outcome) /\ Len(batch[p].out) = Len(batch[p].items)
        /\ th[t].item \in 1 .. Len(batch[p].items)
    BY <1>2, RunningBatch DEF Holds
  <1>4. batch' = [batch EXCEPT ![p] = b]
    BY <1>2 DEF Remove, VideoInv, VarsTyped, BatchType
  <1>5. b \in BatchType /\ GivenBack(t, b)
    <2>1. CASE th[t].err
      <3>1. b = [batch[p] EXCEPT !.failed = TRUE]
        BY <2>1
      <3>2. b \in BatchType /\ b.failed /\ b.items = batch[p].items /\ b.req = batch[p].req
            /\ b.left = batch[p].left /\ b.status = batch[p].status /\ b.out = batch[p].out
        BY <3>1, <1>2 DEF BatchType
      <3> HIDE DEF b
      <3> QED
        BY <3>2, <1>2 DEF GivenBack, Holds
    <2>2. CASE ~th[t].err
      <3>1. b = [batch[p] EXCEPT !.out = [batch[p].out EXCEPT ![th[t].item] = o]]
        BY <2>2
      <3>2. th[t].src = c /\ th[t].frames = Sampled(c, batch[p].req)
        BY <2>2, <1>1, <1>2 DEF Progress
      <3>3. o \in Outcome /\ o.kind = "clip" /\ o.clip = c /\ o.frames = Sampled(c, batch[p].req)
        BY <3>2, <1>2 DEF Decoded, Outcome, ThreadType
      <3> HIDE DEF o
      <3>4. /\ [batch[p].out EXCEPT ![th[t].item] = o] \in Seq(Outcome)
            /\ Len([batch[p].out EXCEPT ![th[t].item] = o]) = Len(batch[p].out)
        BY <3>3, <1>3
      <3>5. /\ b \in BatchType /\ b.failed = batch[p].failed /\ b.items = batch[p].items
            /\ b.req = batch[p].req /\ b.left = batch[p].left /\ b.status = batch[p].status
            /\ b.out = [batch[p].out EXCEPT ![th[t].item] = o]
        BY <3>1, <3>4, <1>2 DEF BatchType
      <3> HIDE DEF b
      <3>6. b.out[th[t].item] = o /\ Len(b.out) = Len(batch[p].out)
            /\ \A i \in 1 .. Len(batch[p].items) : i # th[t].item => b.out[i] = batch[p].out[i]
        BY <3>4, <3>5, <1>3
      <3>7. b.failed \in BOOLEAN /\ (~b.failed => ~batch[p].failed)
        BY <3>5 DEF BatchType
      <3> QED
        BY <3>3, <3>5, <3>6, <3>7, <1>3 DEF GivenBack
    <2> QED
      BY <2>1, <2>2
  <1>6. calls' \in 0 .. MaxCalls /\ faults' \in 0 .. MaxFaults
    BY <1>1, CountFacts DEF count
  <1>7. /\ \A q \in DOMAIN temp : q # Path(t) => q \in DOMAIN temp' /\ temp'[q] = temp[q]
        /\ \A q \in DOMAIN temp' : q # Path(t) => q \in DOMAIN temp
        /\ \A q \in DOMAIN temp' : temp'[q] \in Clips \cup {NoClip}
        /\ Path(t) \notin DOMAIN temp'
    BY <1>1 DEF Cleaned, VideoInv, VarsTyped
  <1>8. litter' \in SUBSET (litter \cup {Path(t)}) /\ litter \subseteq litter'
    BY <1>1
  <1>9. th[t].pc # "idle" /\ UNCHANGED <<proc, seq>>
    BY <1>1
  <1> HIDE DEF b
  <1> QED
    BY <1>1, <1>4, <1>5, <1>6, <1>7, <1>8, <1>9, GivesBackKeeps

\* A process dies: what its threads held dies with its batch.
LEMMA DieKeeps ==
  ASSUME VideoInv, NEW p \in Procs, Die(p)
  PROVE  VideoInv'
  <1>1. /\ batch' = [batch EXCEPT ![p] = NoBatch] /\ seq' = [seq EXCEPT ![p] = 0]
        /\ th' = [t \in Threads |-> IF proc[t] = p THEN Idle ELSE th[t]]
        /\ litter' = litter \cup {q \in DOMAIN temp : q[1] = p}
        /\ UNCHANGED <<proc, temp, calls>> /\ faults < MaxFaults /\ faults' = faults + 1
    BY DEF Die, Fails
  <1>2. /\ batch \in [Procs -> BatchType] /\ th \in [Threads -> ThreadType] /\ seq \in [Procs -> Nat]
        /\ \A u \in Threads : proc[u] \in Procs
    BY VideoAssumption DEF VideoInv, VarsTyped
  <1>3. \A t \in Threads : th'[t].pc # "idle" => proc[t] # p
    BY <1>1 DEF Idle
  <1>4. \A t \in Threads : IF proc[t] = p THEN th'[t] = Idle
                           ELSE th'[t] = th[t] /\ batch'[proc[t]] = batch[proc[t]] /\ seq'[proc[t]] = seq[proc[t]]
    BY <1>1, <1>2
  <1>5. \A q \in Procs : batch'[q] = IF q = p THEN NoBatch ELSE batch[q]
    BY <1>1, <1>2
  <1>6. /\ NoBatch.status = "idle" /\ NoBatch.items = <<>> /\ NoBatch.left = {} /\ NoBatch.out = <<>>
        /\ NoBatch \in BatchType
    <2>1. <<>> \in Seq(Outcome) /\ {} \in SUBSET Nat /\ 0 \in Nat /\ "uniform" \in Samplings
      BY DEF Samplings
    <2> QED
      BY <2>1 DEF NoBatch, BatchType, Request
  <1>7. VarsTyped'
    <2>1. th' \in [Threads -> ThreadType]
      BY <1>1, <1>2, IdleType
    <2>2. batch' \in [Procs -> BatchType] /\ seq' \in [Procs -> Nat]
      BY <1>1, <1>2, <1>6
    <2>3. \A u \in Threads : th'[u].src # NoClip =>
            th'[u].fc <= th'[u].sent /\ th'[u].sent <= Decodable[th'[u].src]
      BY <1>4 DEF Idle, VideoInv, VarsTyped
    <2>4. faults' \in 0 .. MaxFaults
      BY <1>1, CountFacts, VideoAssumption
    <2> QED
      BY <2>1, <2>2, <2>3, <2>4, <1>1 DEF VideoInv, VarsTyped
  <1>8. ThreadsOK'
    <2> SUFFICES ASSUME NEW u \in Threads
                 PROVE  IF th'[u].pc = "idle" THEN th'[u] = Idle
                        ELSE /\ Holds(th'[u], batch'[proc[u]]) /\ th'[u].uid < seq'[proc[u]]
                             /\ Progress(th'[u], batch'[proc[u]].items[th'[u].item], batch'[proc[u]].req)
      BY <1>1 DEF ThreadsOK
    <2>1. CASE proc[u] = p
      <3>1. Idle.pc = "idle"
        BY DEF Idle
      <3> QED
        BY <3>1, <2>1, <1>4
    <2>2. CASE proc[u] # p
      BY <2>2, <1>4 DEF VideoInv, ThreadsOK
    <2> QED
      BY <2>1, <2>2
  <1>9. FileOK'
    <2> SUFFICES ASSUME NEW u \in Threads, th'[u].pc \notin {"idle", "stage"}
                 PROVE  /\ <<proc[u], th'[u].uid>> \in DOMAIN temp
                        /\ temp[<<proc[u], th'[u].uid>>] = batch'[proc[u]].items[th'[u].item]
      BY <1>1 DEF FileOK, Path
    <2>1. th'[u] = th[u] /\ batch'[proc[u]] = batch[proc[u]]
      BY <1>3, <1>4
    <2> QED
      BY <2>1 DEF VideoInv, FileOK, Path
  <1>10. Apart'
    BY <1>1, <1>3, <1>4 DEF VideoInv, Apart
  <1>11. ItemsOK'
    <2> SUFFICES ASSUME NEW q \in Procs
                 PROVE  /\ Len(batch'[q].out) = Len(batch'[q].items)
                        /\ \A k \in batch'[q].left :
                             k \in 1 .. Len(batch'[q].items) /\ batch'[q].out[k].kind = "pending"
                        /\ batch'[q].status = "running" /\ ~batch'[q].failed =>
                             \A k \in 1 .. Len(batch'[q].items) :
                               batch'[q].out[k].kind = "pending" /\ k \notin batch'[q].left =>
                                 \E u \in Threads : proc[u] = q /\ th'[u].pc # "idle" /\ th'[u].item = k
      BY <1>1 DEF ItemsOK
    <2>1. CASE q = p
      BY <2>1, <1>5, <1>6
    <2>2. CASE q # p
      BY <2>2, <1>4, <1>5 DEF VideoInv, ItemsOK
    <2> QED
      BY <2>1, <2>2
  <1>12. OutcomesRight'
    <2> SUFFICES ASSUME NEW q \in Procs, NEW i \in DOMAIN batch'[q].out
                 PROVE  LET o == batch'[q].out[i]  c == batch'[q].items[i]
                        IN /\ o.kind = "none" => c = NoClip
                           /\ o.kind = "clip" => c # NoClip /\ o.clip = c /\ o.frames = Sampled(c, batch'[q].req)
      BY DEF OutcomesRight
    <2>1. q # p
      BY <1>5, <1>6
    <2> QED
      BY <2>1, <1>5 DEF VideoInv, OutcomesRight
  <1>13. ListsWhole'
    BY <1>5, <1>6 DEF VideoInv, ListsWhole
  <1>14. NoLitter'
    <2> SUFFICES ASSUME NEW q \in DOMAIN temp, q \notin litter'
                 PROVE  \E u \in Threads : th'[u].pc # "idle" /\ q = <<proc[u], th'[u].uid>>
      BY <1>1 DEF NoLitter, Path
    <2>1. q \notin litter /\ q[1] # p
      BY <1>1
    <2>2. PICK u \in Threads : th[u].pc # "idle" /\ q = <<proc[u], th[u].uid>>
      BY <2>1 DEF VideoInv, NoLitter, Path
    <2>3. th'[u] = th[u]
      BY <2>1, <2>2, <1>4
    <2> QED
      BY <2>2, <2>3
  <1> QED
    BY <1>7, <1>8, <1>9, <1>10, <1>11, <1>12, <1>13, <1>14 DEF VideoInv

LEMMA InitVideoInv == ASSUME Init PROVE VideoInv
  <1>1. /\ proc \in Placements /\ batch = [p \in Procs |-> NoBatch] /\ seq = [p \in Procs |-> 0]
        /\ th = [t \in Threads |-> Idle] /\ DOMAIN temp = {} /\ litter = {} /\ calls = 0 /\ faults = 0
    BY DEF Init
  <1>2. /\ NoBatch.status = "idle" /\ NoBatch.items = <<>> /\ NoBatch.left = {} /\ NoBatch.out = <<>>
        /\ NoBatch \in BatchType /\ Len(<<>>) = 0
    <2>1. <<>> \in Seq(Outcome) /\ {} \in SUBSET Nat /\ 0 \in Nat /\ "uniform" \in Samplings
      BY DEF Samplings
    <2> QED
      BY <2>1 DEF NoBatch, BatchType, Request
  <1>3. \A t \in Threads : th[t] = Idle /\ th[t].pc = "idle" /\ th[t].src = NoClip
    BY <1>1 DEF Idle
  <1>4. \A p \in Procs : batch[p] = NoBatch
    BY <1>1
  <1>5. VarsTyped
    <2>1. th \in [Threads -> ThreadType] /\ batch \in [Procs -> BatchType] /\ seq \in [Procs -> Nat]
      BY <1>1, <1>2, IdleType
    <2> QED
      BY <2>1, <1>1, <1>3, VideoAssumption DEF VarsTyped
  <1>6. ThreadsOK /\ FileOK /\ Apart
    BY <1>3 DEF ThreadsOK, FileOK, Apart
  <1>7. ItemsOK /\ OutcomesRight /\ ListsWhole /\ NoLitter
    BY <1>1, <1>2, <1>4 DEF ItemsOK, OutcomesRight, ListsWhole, NoLitter
  <1> QED
    BY <1>5, <1>6, <1>7 DEF VideoInv

LEMMA MovesKeep ==
  ASSUME VideoInv, NEW t \in Threads, LocalMoves(t) \/ CodecFails(t)
  PROVE  VideoInv'
  <1>1. CASE LocalMoves(t)
    <2>1. PICK x : Moves(t, x) /\ Steps(t, x) /\ th[t].pc # "stage"
      BY <1>1, OpenSteps, SendSteps, PacketsEndSteps, ReceiveSteps, DrainEndsSteps, SelectSteps, Zenon
         DEF LocalMoves
    <2>2. calls' \in 0 .. MaxCalls /\ faults' \in 0 .. MaxFaults
      BY <2>1, CountFacts DEF Moves, count
    <2> QED
      BY <2>1, <2>2, RecordKeeps DEF Moves
  <1>2. CASE CodecFails(t)
    <2>1. PICK x : th' = [th EXCEPT ![t] = x] /\ Steps(t, x) /\ th[t].pc # "stage"
      BY <1>2, CodecFailsSteps
    <2>2. UNCHANGED <<proc, batch, seq, temp, litter>> /\ calls' \in 0 .. MaxCalls /\ faults' \in 0 .. MaxFaults
      BY <1>2, CountFacts, VideoAssumption DEF CodecFails, Fails
    <2> QED
      BY <2>1, <2>2, RecordKeeps
  <1> QED
    BY <1>1, <1>2

LEMMA StutterKeeps == ASSUME VideoInv, UNCHANGED vars PROVE VideoInv'
  BY DEF vars, VideoInv, VarsTyped, ThreadsOK, FileOK, Apart, ItemsOK, OutcomesRight, ListsWhole, NoLitter, Path

LEMMA VideoStep == ASSUME VideoInv, [Next]_vars PROVE VideoInv'
  <1>1. ASSUME NEW p \in Procs, Return(p) PROVE VideoInv'
    BY <1>1, ReturnKeeps
  <1>2. ASSUME NEW p \in Procs, Die(p) PROVE VideoInv'
    BY <1>2, DieKeeps
  <1>3. ASSUME NEW p \in Procs, NEW items \in Batches, NEW req \in Requests, Call(p, items, req)
        PROVE  VideoInv'
    BY <1>3, CallKeeps
  <1>4. ASSUME NEW t \in Threads, Works(t) PROVE VideoInv'
    <2>1. CASE \E i \in batch[proc[t]].left : ReadNone(t, i) \/ ReadBlob(t, i)
      BY <2>1, ReadNoneKeeps, ReadBlobKeeps
    <2>2. CASE Stage(t)
      BY <2>2, StageKeeps
    <2>3. CASE LocalMoves(t)
      BY <2>3, MovesKeep
    <2>4. CASE Remove(t)
      BY <2>4, RemoveKeeps
    <2> QED
      BY <2>1, <2>2, <2>3, <2>4, <1>4 DEF Works, LocalMoves
  <1>5. ASSUME NEW t \in Threads, Breaks(t) PROVE VideoInv'
    <2>1. CASE StageFails(t)
      BY <2>1, StageFailsKeeps
    <2>2. CASE CodecFails(t)
      BY <2>2, MovesKeep
    <2>3. CASE \E i \in batch[proc[t]].left : ReadFails(t, i)
      BY <2>3, ReadFailsKeeps
    <2> QED
      BY <2>1, <2>2, <2>3, <1>5 DEF Breaks
  <1>6. CASE AtRest \/ UNCHANGED vars
    BY <1>6, StutterKeeps DEF AtRest
  <1> QED
    BY <1>1, <1>2, <1>3, <1>4, <1>5, <1>6 DEF Next
-----------------------------------------------------------------------------
\* The invariant of every batch, decode and temporary file.
THEOREM VideoInvariant == Spec => []VideoInv
  BY InitVideoInv, VideoStep, PTL DEF Spec

\* Types; no decoder gives a frame before its packet; and with a count, decode_path
\* never holds more frames than were asked for (video.rs:69-70), though it keeps
\* them before it knows how many there are.
THEOREM VideoTypeCorrect == Spec => []TypeOK
  <1>1. VideoInv => VarsTyped
    BY DEF VideoInv
  <1>2. VideoInv => MemoryBounded
    <2> SUFFICES ASSUME VideoInv, NEW t \in Threads, th[t].src # NoClip, Counted(t)
                 PROVE  Len(th[t].frames) <= batch[proc[t]].req.num
      BY DEF MemoryBounded
    <2>1. th[t].pc # "idle"
      BY DEF VideoInv, ThreadsOK, Idle
    <2> QED
      BY <2>1, BusyFacts DEF Progress, Counted
  <1> QED
    BY <1>1, <1>2, VideoInvariant, PTL DEF TypeOK

\* The frames of a request are spread over the clip, unless the container
\* reports a wrong count.
LEMMA SampledSpread ==
  ASSUME NEW c \in Clips, NEW r \in Request, Reported[c] \in {0, Decodable[c]}
  PROVE  Spread(Sampled(c, r), Decodable[c], r.num, r.sampling)
  <1> DEFINE d == Decodable[c]
             f == FrameIndices(d, r.num, r.sampling)
  <1>1. d \in Nat /\ r.num \in Nat /\ r.sampling \in Samplings
    BY VideoAssumption DEF Request
  <1>2. Sampled(c, r) = SubSeq(f, 1, Cardinality({j \in DOMAIN f : f[j] < d}))
    <2>1. d > 0 \/ d = 0
      BY <1>1
    <2>2. (IF Reported[c] > 0 THEN Reported[c] ELSE Decodable[c]) = d
      BY <2>1
    <2> QED
      BY <2>2 DEF Sampled
  <1>3. f \in Seq(Nat) /\ Spread(f, d, r.num, r.sampling)
    <2> HIDE DEF d
    <2> QED
      BY <1>1, PicksAlwaysSpread, Zenon
  <1> HIDE DEF d
  <1>4. \A j \in 1 .. Len(f) : f[j] \in 0 .. d - 1
    BY <1>1, PicksFacts
  <1> HIDE DEF f
  <1>5. Cardinality({j \in DOMAIN f : f[j] < d}) = Len(f)
    <2>1. Len(f) \in 0 .. Len(f) /\ \A j \in 1 .. Len(f) : j <= Len(f) <=> f[j] < d
      BY <1>1, <1>3, <1>4
    <2> QED
      BY <2>1, <1>1, <1>3, BelowIsPrefix, Zenon
  <1>6. SubSeq(f, 1, Len(f)) = f
    BY <1>3
  <1> QED
    BY <1>2, <1>3, <1>5, <1>6 DEF d

\* What decode_video holds of a position is its own clip with the frames of the
\* request, spread over it unless the count is wrong, and a list it returns has
\* every position: for any delays, counts, threads and processes.  decode_path
\* chooses while it decodes or afterwards, and SEQ keeps the temporary files apart.
THEOREM ClipsAreRight == Spec => []ClipsRight
  <1>1. VideoInv => ClipsRight
    <2> SUFFICES ASSUME VideoInv, NEW p \in Procs, NEW i \in 1 .. Len(batch[p].items)
                 PROVE  LET o == batch[p].out[i]  c == batch[p].items[i]  req == batch[p].req
                        IN /\ o.kind = "pending" => batch[p].status # "returned"
                           /\ o.kind = "none" => c = NoClip
                           /\ o.kind = "clip" =>
                                /\ c # NoClip /\ o.clip = c /\ o.frames = Sampled(c, req)
                                /\ Reported[c] \in {0, Decodable[c]} =>
                                     Spread(o.frames, Decodable[c], req.num, req.sampling)
      BY DEF ClipsRight
    <2> DEFINE o == batch[p].out[i]
               c == batch[p].items[i]
    <2>1. batch[p] \in BatchType /\ Len(batch[p].out) = Len(batch[p].items)
      BY DEF VideoInv, VarsTyped, ItemsOK
    <2>2. batch[p].req \in Request /\ batch[p].items \in Seq(Clips \cup {NoClip})
          /\ batch[p].out \in Seq(Outcome)
      BY <2>1, VideoAssumption DEF BatchType
    <2>3. i \in DOMAIN batch[p].out /\ c \in Clips \cup {NoClip}
      BY <2>1, <2>2
    <2>4. o.kind = "pending" => batch[p].status # "returned"
      BY DEF VideoInv, ListsWhole
    <2>5. /\ o.kind = "none" => c = NoClip
          /\ o.kind = "clip" => c # NoClip /\ o.clip = c /\ o.frames = Sampled(c, batch[p].req)
      BY <2>3 DEF VideoInv, OutcomesRight
    <2>6. ASSUME c # NoClip, Reported[c] \in {0, Decodable[c]}
          PROVE  Spread(Sampled(c, batch[p].req), Decodable[c], batch[p].req.num, batch[p].req.sampling)
      BY <2>2, <2>3, <2>6, SampledSpread
    <2> QED
      BY <2>4, <2>5, <2>6
  <1> QED
    BY <1>1, VideoInvariant, PTL

\* decode leaves no temporary file behind but one it could not write or whose
\* process died.
THEOREM NoLitterLeft == Spec => []NoLitter
  <1>1. VideoInv => NoLitter
    BY DEF VideoInv
  <1> QED
    BY <1>1, VideoInvariant, PTL
=============================================================================
