------------------------ MODULE DatasetWriterProofs ------------------------
(***************************************************************************)
(* What holds of the base write path for every set of samples, every size, *)
(* target and bound, and every place where a step may fail.                *)
(*                                                                         *)
(* The invariant is stated over a writer w and index files p, so that one  *)
(* lemma says what each helper of the code (finish_shard, roll_shard, the  *)
(* recording of a row) preserves, and an action is a chain of lemmas.      *)
(***************************************************************************)
EXTENDS DatasetWriter, SequenceTheorems, TLAPS

\* Part files never collide: the directory's part ids increase, stay at or
\* below shard_id, and lie below every shard that can still be flushed.
DirOrdered(w) ==
  /\ \A i, j \in 1 .. Len(w.dir) : i < j => w.dir[i].part < w.dir[j].part
  /\ \A i \in 1 .. Len(w.dir) : w.dir[i].part <= w.sid
  /\ w.open => \A i \in 1 .. Len(w.dir) : w.dir[i].part < w.sid
  /\ w.rows # <<>> => \A i \in 1 .. Len(w.dir) : w.dir[i].part < w.rows[1].shard

\* The buffered rows continue the flushed ones.
RowsContinue(w) ==
  /\ w.next = w.total + Len(w.rows)
  /\ \A i \in 1 .. Len(w.rows) : w.rows[i].id = w.total + i - 1
  /\ \A i \in 1 .. Len(w.rows) : w.rows[i].shard <= w.sid

WriterInv(w, p) ==
  /\ w \in WriterType
  /\ p \in [ShardIds -> Seq(Row)]
  /\ w.open => w.sid \in ShardIds
  /\ RowsContinue(w)
  /\ ContiguousDir(w.dir, w.total)
  /\ DirOrdered(w)
  /\ \A i \in 1 .. Len(w.dir) : PartHolds(w.dir[i], p[w.dir[i].part])

\* What the published manifest is made of.
PublishedFrom ==
  IF status = "closed"
  THEN manifest = [dir |-> writer.dir, rows |-> writer.total, count |-> writer.sid + 1]
  ELSE manifest = NoManifest

IInv ==
  /\ TypeOK
  /\ WriterInv(writer, parts)
  /\ PublishedFrom
-----------------------------------------------------------------------------
LEMMA WriterFields ==
  ASSUME NEW w \in WriterType
  PROVE  /\ w.rows \in Seq(Row) /\ Len(w.rows) \in Nat
         /\ w.dir \in Seq(ShardRef) /\ Len(w.dir) \in Nat
         /\ w.total \in Nat /\ w.next \in Nat /\ w.pos \in Nat /\ w.cursor \in Nat
         /\ w.sid \in -1 .. MaxShards - 1 /\ w.sid \in Int /\ w.open \in BOOLEAN
         /\ \A i \in 1 .. Len(w.dir) : w.dir[i].part \in ShardIds /\ w.dir[i].part \in Int
         /\ \A i \in 1 .. Len(w.rows) : w.rows[i].shard \in ShardIds /\ w.rows[i].shard \in Int
<1>1. /\ w.rows \in Seq(Row) /\ w.dir \in Seq(ShardRef)
      /\ w.total \in Nat /\ w.next \in Nat /\ w.pos \in Nat /\ w.cursor \in Nat
      /\ w.sid \in -1 .. MaxShards - 1 /\ w.open \in BOOLEAN
  BY DEF WriterType
<1>2. w.sid \in Int /\ MaxShards \in Nat
  BY <1>1, WriterAssumption
<1>3. Len(w.rows) \in Nat /\ Len(w.dir) \in Nat
  BY <1>1, LenProperties
<1>4. ASSUME NEW i \in 1 .. Len(w.dir)
      PROVE  w.dir[i].part \in ShardIds /\ w.dir[i].part \in Int
  <2>1. w.dir[i] \in ShardRef
    BY <1>1, ElementOfSeq
  <2> QED
    BY <2>1, <1>2 DEF ShardRef, ShardIds
<1>5. ASSUME NEW i \in 1 .. Len(w.rows)
      PROVE  w.rows[i].shard \in ShardIds /\ w.rows[i].shard \in Int
  <2>1. w.rows[i] \in Row
    BY <1>1, ElementOfSeq
  <2> QED
    BY <2>1, <1>2 DEF Row, ShardIds
<1> QED
  BY <1>1, <1>2, <1>3, <1>4, <1>5

\* flush_index_shard appends one directory entry that continues the last one.
LEMMA FlushInv ==
  ASSUME NEW w, NEW p, WriterInv(w, p), ~w.open
  PROVE  WriterInv(Flush(w), FlushParts(w, p)) /\ ~Flush(w).open
         /\ Flush(w).sid = w.sid /\ Flush(w).pos = w.pos /\ Flush(w).next = w.next
<1>1. CASE w.rows = <<>>
  BY <1>1 DEF Flush, FlushParts
<1>2. CASE w.rows # <<>>
  <2> DEFINE n == Len(w.rows)
             ref == [part |-> w.rows[1].shard, start |-> w.rows[1].id, rows |-> n]
             v == Flush(w)
             q == FlushParts(w, p)
  <2>0. /\ w \in WriterType /\ w.rows \in Seq(Row) /\ w.dir \in Seq(ShardRef)
        /\ n = Len(w.rows) /\ n \in Nat /\ n > 0 /\ w.rows[1] \in Row /\ w.total \in Nat
        /\ w.sid \in -1 .. MaxShards - 1 /\ w.next \in Nat
    BY <1>2, EmptySeq, LenProperties, ElementOfSeq DEF WriterInv, WriterType
  <2>1. /\ ref \in ShardRef /\ ref.start = w.total /\ ref.rows = n
        /\ ref.part = w.rows[1].shard
        /\ ref.part <= w.sid
    <3>1. w.rows[1].id = w.total + 1 - 1 /\ w.rows[1].shard <= w.sid
      BY <2>0 DEF WriterInv, RowsContinue
    <3>2. w.rows[1].shard \in ShardIds
      BY <2>0 DEF Row
    <3>3. w.rows[1].id = w.total
      BY <2>0, <3>1
    <3> QED
      BY <2>0, <3>1, <3>2, <3>3 DEF ShardRef
  <2>2. v = [w EXCEPT !.dir = Append(w.dir, ref), !.total = w.total + n, !.rows = <<>>]
    BY <1>2 DEF Flush
  <2>3. /\ v \in WriterType /\ v.dir = Append(w.dir, ref) /\ v.total = w.total + n
        /\ v.rows = <<>> /\ v.sid = w.sid /\ v.open = w.open /\ v.next = w.next
        /\ v.pos = w.pos
    <3>1. Append(w.dir, ref) \in Seq(ShardRef) /\ <<>> \in Seq(Row) /\ w.total + n \in Nat
      BY <2>0, <2>1, AppendProperties, EmptySeq
    <3> HIDE DEF n, ref
    <3> QED
      BY <2>0, <2>2, <3>1 DEF WriterType
  <2>4. /\ q = [p EXCEPT ![ref.part] = w.rows]
        /\ q \in [ShardIds -> Seq(Row)]
    BY <1>2, <2>0 DEF FlushParts, WriterInv
  <2>5. /\ Len(v.dir) = Len(w.dir) + 1
        /\ v.dir[Len(w.dir) + 1] = ref
        /\ \A i \in 1 .. Len(w.dir) : v.dir[i] = w.dir[i]
        /\ Len(w.dir) \in Nat
        /\ \A i \in 1 .. Len(w.dir) : w.dir[i] \in ShardRef
    BY <2>0, <2>1, <2>3, AppendProperties, LenProperties, ElementOfSeq
  <2> HIDE DEF n, ref, v, q
  <2>6. RowsContinue(v)
    BY <2>0, <2>3, EmptySeq DEF RowsContinue, WriterInv
  <2>7. ContiguousDir(v.dir, v.total)
    <3>1. v.dir # <<>> /\ v.total > 0 /\ v.total \in Nat
      <4>1. Append(w.dir, ref) # <<>>
        BY <2>0, <2>1, AppendProperties
      <4>2. PICK x \in Nat, y \in Nat : x = w.total /\ y = n /\ y > 0
        BY <2>0
      <4>3. x + y \in Nat /\ x + y > 0
        BY <4>2
      <4> QED
        BY <4>1, <4>2, <4>3, <2>3
    <3>2. CASE w.dir = <<>>
      <4>1. w.total = 0 /\ Len(w.dir) = 0
        BY <3>2, EmptySeq DEF WriterInv, ContiguousDir
      <4> QED
        BY <3>1, <4>1, <2>0, <2>1, <2>3, <2>5 DEF ContiguousDir
    <3>3. CASE w.dir # <<>>
      <4>1. Len(w.dir) > 0
        BY <3>3, <2>0, EmptySeq
      <4>2. /\ w.dir[1].start = 0
            /\ w.dir[Len(w.dir)].start + w.dir[Len(w.dir)].rows = w.total
            /\ \A i \in 1 .. Len(w.dir) : w.dir[i].rows > 0
            /\ \A i \in 1 .. Len(w.dir) - 1 : w.dir[i].start + w.dir[i].rows = w.dir[i + 1].start
        BY <3>3 DEF WriterInv, ContiguousDir
      <4>3. /\ v.dir[1] = w.dir[1]
            /\ v.dir[Len(v.dir)] = ref
            /\ w.dir[Len(w.dir)] = v.dir[Len(w.dir)]
        BY <4>1, <2>5
      <4>4. \A i \in 1 .. Len(v.dir) : v.dir[i].rows > 0
        <5>1. \A i \in 1 .. Len(v.dir) : i = Len(w.dir) + 1 \/ i \in 1 .. Len(w.dir)
          BY <2>5
        <5> QED
          BY <5>1, <4>2, <2>0, <2>1, <2>5
      <4>5. ASSUME NEW i \in 1 .. Len(v.dir) - 1
            PROVE  v.dir[i].start + v.dir[i].rows = v.dir[i + 1].start
        <5>1. CASE i = Len(w.dir)
          BY <5>1, <4>2, <4>3, <2>1, <2>5
        <5>2. CASE i # Len(w.dir)
          <6>1. i \in 1 .. Len(w.dir) - 1 /\ i \in 1 .. Len(w.dir) /\ i + 1 \in 1 .. Len(w.dir)
            BY <5>2, <2>5
          <6> QED
            BY <6>1, <4>2, <2>5
        <5> QED BY <5>1, <5>2
      <4> QED
        <5>1. v.dir[1].start = 0
          BY <4>2, <4>3
        <5>2. v.dir[Len(v.dir)].start + v.dir[Len(v.dir)].rows = v.total
          BY <4>3, <2>0, <2>1, <2>3
        <5> QED
          BY <3>1, <4>4, <4>5, <5>1, <5>2 DEF ContiguousDir
    <3> QED BY <3>2, <3>3
  <2>8. \A i \in 1 .. Len(w.dir) : w.dir[i].part < ref.part /\ w.dir[i].part \in Int
    BY <1>2, <2>0, <2>1, WriterFields DEF WriterInv, DirOrdered
  <2>9. DirOrdered(v)
    <3>1. ASSUME NEW i \in 1 .. Len(v.dir), NEW j \in 1 .. Len(v.dir), i < j
          PROVE  v.dir[i].part < v.dir[j].part
      <4>1. CASE j = Len(w.dir) + 1
        BY <3>1, <4>1, <2>5, <2>8
      <4>2. CASE j # Len(w.dir) + 1
        <5>1. i \in 1 .. Len(w.dir) /\ j \in 1 .. Len(w.dir)
          BY <3>1, <4>2, <2>5
        <5> QED
          BY <3>1, <5>1, <2>5 DEF WriterInv, DirOrdered
      <4> QED BY <4>1, <4>2
    <3>2. \A i \in 1 .. Len(v.dir) : v.dir[i].part <= v.sid
      BY <2>1, <2>3, <2>5 DEF WriterInv, DirOrdered
    <3> QED
      BY <3>1, <3>2, <2>3 DEF DirOrdered
  <2>10. \A i \in 1 .. Len(v.dir) : PartHolds(v.dir[i], q[v.dir[i].part])
    <3>1. PartHolds(ref, w.rows)
      BY <2>0, <2>1 DEF PartHolds, WriterInv, RowsContinue
    <3>2. q[ref.part] = w.rows
      BY <2>1, <2>4 DEF WriterInv, ShardRef
    <3>3. ASSUME NEW i \in 1 .. Len(w.dir)
          PROVE  q[w.dir[i].part] = p[w.dir[i].part]
      BY <2>4, <2>5, <2>8 DEF WriterInv, ShardRef
    <3>4. ASSUME NEW i \in 1 .. Len(v.dir)
          PROVE  PartHolds(v.dir[i], q[v.dir[i].part])
      <4>1. CASE i = Len(w.dir) + 1
        BY <4>1, <3>1, <3>2, <2>5
      <4>2. CASE i # Len(w.dir) + 1
        <5>1. i \in 1 .. Len(w.dir)
          BY <4>2, <2>5
        <5>2. PartHolds(w.dir[i], p[w.dir[i].part])
          BY <5>1 DEF WriterInv
        <5> QED
          BY <5>1, <5>2, <3>3, <2>5
      <4> QED BY <4>1, <4>2
    <3> QED BY <3>4
  <2> QED
    BY <2>3, <2>4, <2>6, <2>7, <2>9, <2>10 DEF WriterInv, v, q
<1> QED BY <1>1, <1>2

\* take()ing the shard keeps the invariant whether or not what follows succeeds.
LEMMA TakeInv ==
  ASSUME NEW w, NEW p, WriterInv(w, p)
  PROVE  LET v == [w EXCEPT !.open = FALSE]
         IN  WriterInv(v, p) /\ ~v.open /\ v.sid = w.sid /\ v.rows = w.rows /\ v.next = w.next
<1> DEFINE v == [w EXCEPT !.open = FALSE]
<1>1. /\ v \in WriterType /\ v.rows = w.rows /\ v.dir = w.dir /\ v.total = w.total
      /\ v.next = w.next /\ v.sid = w.sid /\ v.open = FALSE
  BY DEF WriterInv, WriterType
<1> QED
  BY <1>1 DEF WriterInv, RowsContinue, DirOrdered

LEMMA FinishInv ==
  ASSUME NEW w, NEW p, WriterInv(w, p)
  PROVE  WriterInv(Finish(w), FinishParts(w, p)) /\ ~Finish(w).open
         /\ Finish(w).sid = w.sid /\ Finish(w).next = w.next
<1>1. CASE ~w.open
  BY <1>1 DEF Finish, FinishParts
<1>2. CASE w.open
  <2> DEFINE v == [w EXCEPT !.open = FALSE]
  <2>1. WriterInv(v, p) /\ ~v.open /\ v.sid = w.sid /\ v.rows = w.rows /\ v.next = w.next
    BY TakeInv
  <2>2. WriterInv(Flush(v), FlushParts(v, p)) /\ ~Flush(v).open /\ Flush(v).sid = w.sid
        /\ Flush(v).next = w.next
    BY <2>1, FlushInv
  <2>3. FlushParts(v, p) = FlushParts(w, p)
    BY <2>1 DEF FlushParts
  <2> QED
    BY <1>2, <2>2, <2>3 DEF Finish, FinishParts
<1> QED BY <1>1, <1>2

\* A Parquet file that a failing flush left torn is in no directory entry.
LEMMA TornInv ==
  ASSUME NEW w, NEW p, WriterInv(w, p), NEW q \in TornParts(w, p)
  PROVE  WriterInv(FinishFailed(w), q) /\ WriterInv(w, q)
<1>1. /\ w.dir \in Seq(ShardRef) /\ w.rows \in Seq(Row)
      /\ \A i \in 1 .. Len(w.dir) : w.dir[i].part \in ShardIds
  BY WriterFields DEF WriterInv
<1>2. q \in [ShardIds -> Seq(Row)]
  BY EmptySeq DEF TornParts, WriterInv
<1>3. ASSUME NEW i \in 1 .. Len(w.dir)
      PROVE  q[w.dir[i].part] = p[w.dir[i].part]
  <2>1. CASE q = p
    BY <2>1
  <2>2. CASE w.rows # <<>> /\ q = [p EXCEPT ![w.rows[1].shard] = <<>>]
    <3>1. w.dir[i].part < w.rows[1].shard /\ w.dir[i].part \in Int /\ w.rows[1].shard \in Int
      <4>1. Len(w.rows) > 0 /\ Len(w.rows) \in Nat
        BY <2>2, <1>1, EmptySeq
      <4> QED
        BY <2>2, <4>1, WriterFields DEF WriterInv, DirOrdered
    <3> QED
      BY <2>2, <3>1, <1>1 DEF WriterInv
  <2> QED
    BY <2>1, <2>2 DEF TornParts
<1>4. WriterInv(w, q)
  BY <1>2, <1>3 DEF WriterInv
<1> QED
  BY <1>4, TakeInv DEF FinishFailed

LEMMA RollInv ==
  ASSUME NEW w, NEW p, WriterInv(w, p), w.sid + 1 \in ShardIds
  PROVE  WriterInv(Roll(w), FinishParts(w, p)) /\ Roll(w).open /\ Roll(w).next = w.next
         /\ Roll(w).sid = w.sid + 1
<1> DEFINE f == Finish(w)
           v == Roll(w)
<1>1. WriterInv(f, FinishParts(w, p)) /\ ~f.open /\ f.sid = w.sid /\ f.next = w.next
  BY FinishInv
<1>2. /\ v \in WriterType /\ v.rows = f.rows /\ v.dir = f.dir /\ v.total = f.total
      /\ v.next = f.next /\ v.sid = f.sid + 1 /\ v.open = TRUE
  <2>1. /\ v = [f EXCEPT !.sid = f.sid + 1, !.open = TRUE, !.pos = 0, !.cursor = 0]
        /\ f \in WriterType /\ f.sid + 1 \in -1 .. MaxShards - 1
    BY <1>1, WriterAssumption DEF Roll, WriterInv, ShardIds
  <2> HIDE DEF f, v
  <2> QED
    BY <2>1 DEF WriterType
<1>3. f.sid \in Int /\ f.rows \in Seq(Row) /\ f.dir \in Seq(ShardRef)
  BY <1>1, WriterFields DEF WriterInv
<1>4. /\ \A i \in 1 .. Len(f.dir) : f.dir[i].part \in Int
      /\ \A i \in 1 .. Len(f.rows) : f.rows[i].shard \in Int
  BY <1>1, WriterFields DEF WriterInv
<1>5. RowsContinue(v)
  <2>1. RowsContinue(f)
    BY <1>1 DEF WriterInv
  <2>2. \A i \in 1 .. Len(f.rows) : f.rows[i].shard <= f.sid + 1
    BY <1>3, <1>4, <2>1 DEF RowsContinue
  <2> HIDE DEF f, v
  <2> QED
    BY <1>1, <1>2, <2>1, <2>2 DEF RowsContinue
<1>6. DirOrdered(v)
  <2>1. DirOrdered(f) /\ Len(f.dir) \in Nat
    BY <1>1, WriterFields DEF WriterInv
  <2> HIDE DEF f, v
  <2>2. \A i \in 1 .. Len(v.dir) : v.dir[i].part < v.sid
    BY <1>2, <1>3, <1>4, <2>1 DEF DirOrdered
  <2>3. \A i \in 1 .. Len(v.dir) : v.dir[i].part <= v.sid
    BY <1>2, <1>3, <1>4, <2>2
  <2> QED
    BY <1>2, <2>1, <2>2, <2>3 DEF DirOrdered
<1> QED
  BY <1>1, <1>2, <1>5, <1>6 DEF WriterInv

\* shard_id moves on without a file when the creation fails.
LEMMA CreateFailedInv ==
  ASSUME NEW w, NEW p, WriterInv(w, p), w.sid + 1 \in ShardIds
  PROVE  WriterInv([Finish(w) EXCEPT !.sid = @ + 1], FinishParts(w, p))
<1> DEFINE f == Finish(w)
           v == [Finish(w) EXCEPT !.sid = @ + 1]
<1>1. WriterInv(f, FinishParts(w, p)) /\ ~f.open /\ f.sid = w.sid
  BY FinishInv
<1>2. /\ v \in WriterType /\ v.rows = f.rows /\ v.dir = f.dir /\ v.total = f.total
      /\ v.next = f.next /\ v.sid = f.sid + 1 /\ v.open = f.open
  <2>1. /\ v = [f EXCEPT !.sid = f.sid + 1]
        /\ f \in WriterType /\ f.sid + 1 \in -1 .. MaxShards - 1
    BY <1>1, WriterAssumption DEF WriterInv, ShardIds
  <2> HIDE DEF f, v
  <2> QED
    BY <2>1 DEF WriterType
<1>3. f.sid \in Int /\ f.rows \in Seq(Row) /\ f.dir \in Seq(ShardRef)
  BY <1>1, WriterFields DEF WriterInv
<1>4. /\ \A i \in 1 .. Len(f.dir) : f.dir[i].part \in Int
      /\ \A i \in 1 .. Len(f.rows) : f.rows[i].shard \in Int
  BY <1>1, WriterFields DEF WriterInv
<1>5. RowsContinue(v)
  BY <1>1, <1>2, <1>3, <1>4 DEF WriterInv, RowsContinue
<1>6. DirOrdered(v)
  BY <1>1, <1>2, <1>3, <1>4 DEF WriterInv, DirOrdered
<1> QED
  BY <1>1, <1>2, <1>5, <1>6 DEF WriterInv

LEMMA EnsuredInv ==
  ASSUME NEW w, NEW p, WriterInv(w, p), NEW s,
         NeedNew(w, s) => w.sid + 1 \in ShardIds
  PROVE  WriterInv(Ensured(w, s), EnsuredParts(w, s, p)) /\ Ensured(w, s).open
         /\ Ensured(w, s).next = w.next
<1>1. CASE NeedNew(w, s)
  BY <1>1, RollInv DEF Ensured, EnsuredParts
<1>2. CASE ~NeedNew(w, s)
  BY <1>2 DEF Ensured, EnsuredParts, NeedNew
<1> QED BY <1>1, <1>2

LEMMA RecordedInv ==
  ASSUME NEW w, NEW p, WriterInv(w, p), w.open, NEW s \in Samples
  PROVE  WriterInv(Recorded(w, s), p) /\ Recorded(w, s).next = w.next + 1
<1> DEFINE r == [id |-> w.next, shard |-> w.sid, off |-> w.pos, key |-> s]
           v == Recorded(w, s)
<1>0. w.next \in Nat /\ w.pos \in Nat /\ w.cursor \in Nat /\ w.total \in Nat /\ Extent[s] \in Nat
  BY WriterAssumption, WriterFields DEF WriterInv
<1>1. /\ w \in WriterType /\ w.rows \in Seq(Row) /\ r \in Row /\ Extent[s] \in Nat
      /\ w.dir \in Seq(ShardRef) /\ w.sid \in Int /\ w.total \in Nat /\ w.pos \in Nat
      /\ w.cursor \in Nat /\ w.next \in Nat
      /\ \A i \in 1 .. Len(w.rows) : w.rows[i].shard \in Int
      /\ \A i \in 1 .. Len(w.dir) : w.dir[i].part \in Int
  BY WriterAssumption, WriterFields DEF WriterInv, Row
<1>2. /\ v.rows = Append(w.rows, r) /\ v.dir = w.dir /\ v.total = w.total
      /\ v.next = w.next + 1 /\ v.sid = w.sid /\ v.open = w.open
      /\ v \in WriterType
  <2>1. Append(w.rows, r) \in Seq(Row)
    BY <1>1, AppendProperties
  <2>2. v = [w EXCEPT !.rows = Append(w.rows, r), !.next = w.next + 1,
                      !.pos = w.pos + Extent[s], !.cursor = w.cursor + Extent[s]]
    BY DEF Recorded
  <2>3. /\ w.next + 1 \in Nat /\ w.pos + Extent[s] \in Nat /\ w.cursor + Extent[s] \in Nat
    BY <1>0
  <2> HIDE DEF r, v
  <2> QED
    BY <1>1, <2>1, <2>2, <2>3 DEF WriterType
<1>3. /\ Len(v.rows) = Len(w.rows) + 1 /\ Len(w.rows) \in Nat
      /\ v.rows[Len(w.rows) + 1] = r
      /\ \A i \in 1 .. Len(w.rows) : v.rows[i] = w.rows[i]
  BY <1>1, <1>2, AppendProperties, LenProperties
<1> HIDE DEF v
<1>4. RowsContinue(v)
  <2>1. /\ w.next = w.total + Len(w.rows)
        /\ \A i \in 1 .. Len(w.rows) : w.rows[i].id = w.total + i - 1
        /\ \A i \in 1 .. Len(w.rows) : w.rows[i].shard <= w.sid
    BY DEF WriterInv, RowsContinue
  <2>2. v.next = v.total + Len(v.rows)
    <3>1. w.next = w.total + Len(w.rows)
      BY <2>1
    <3>2. v.next = w.next + 1 /\ v.total = w.total /\ Len(v.rows) = Len(w.rows) + 1 /\ Len(w.rows) \in Nat
      BY <1>2, <1>3
    <3> QED
      BY <3>1, <3>2, <1>0
  <2>3. ASSUME NEW i \in 1 .. Len(v.rows)
        PROVE  v.rows[i].id = v.total + i - 1 /\ v.rows[i].shard <= v.sid
    <3>1. CASE i = Len(w.rows) + 1
      BY <3>1, <2>1, <1>1, <1>2, <1>3
    <3>2. CASE i # Len(w.rows) + 1
      <4>1. i \in 1 .. Len(w.rows)
        BY <3>2, <1>3
      <4> QED
        BY <4>1, <2>1, <1>2, <1>3
    <3> QED BY <3>1, <3>2
  <2> QED
    BY <2>2, <2>3 DEF RowsContinue
<1>5. DirOrdered(v)
  <2>1. \A i \in 1 .. Len(w.dir) : w.dir[i].part < v.rows[1].shard
    <3>1. CASE w.rows = <<>>
      <4>1. Len(w.rows) = 0
        BY <3>1, EmptySeq
      <4>2. v.rows[1].shard = w.sid
        BY <4>1, <1>3
      <4> QED
        BY <4>2 DEF WriterInv, DirOrdered
    <3>2. CASE w.rows # <<>>
      <4>1. 1 \in 1 .. Len(w.rows)
        BY <3>2, <1>1, <1>3, EmptySeq
      <4> QED
        BY <3>2, <4>1, <1>3 DEF WriterInv, DirOrdered
    <3> QED BY <3>1, <3>2
  <2> QED
    BY <1>2, <2>1 DEF WriterInv, DirOrdered
<1> QED
  BY <1>2, <1>4, <1>5 DEF WriterInv, v
-----------------------------------------------------------------------------
LEMMA CreatedInv ==
  ASSUME NEW p \in [ShardIds -> Seq(Row)]
  PROVE  WriterInv(Created, p)
<1>1. Created \in WriterType
  BY WriterAssumption, EmptySeq DEF Created, WriterType
<1>2. /\ Created.rows = <<>> /\ Created.dir = <<>> /\ Created.total = 0 /\ Created.next = 0
      /\ Created.open = FALSE
      /\ Len(Created.rows) = 0 /\ Len(Created.dir) = 0
  BY EmptySeq DEF Created
<1>3. RowsContinue(Created) /\ DirOrdered(Created) /\ ContiguousDir(Created.dir, Created.total)
  BY <1>2 DEF RowsContinue, DirOrdered, ContiguousDir
<1> QED
  BY <1>1, <1>2, <1>3 DEF WriterInv

LEMMA InitInv == Init => IInv
<1> SUFFICES ASSUME Init PROVE IInv
  OBVIOUS
<1>1. parts \in [ShardIds -> Seq(Row)]
  BY EmptySeq DEF Init
<1>2. WriterInv(writer, parts)
  BY <1>1, CreatedInv DEF Init
<1>3. TypeOK
  <2>1. manifest \in [dir : Seq(ShardRef), rows : Nat \cup {-1}, count : Int]
    BY EmptySeq DEF Init, NoManifest
  <2> QED
    BY <1>2, <2>1 DEF TypeOK, Init, WriterInv
<1> QED
  BY <1>2, <1>3 DEF IInv, PublishedFrom, Init

\* The shard files stay sets of extents, whichever file an add writes to.
LEMMA ShardsType ==
  ASSUME NEW w, w \in WriterType, w.open => w.sid \in ShardIds,
         NEW s \in Samples, NEW d \in [ShardIds -> SUBSET StoredExtent],
         NEW v, v \in WriterType, v.sid \in ShardIds
  PROVE  /\ EnsuredShards(w, s, d) \in [ShardIds -> SUBSET StoredExtent]
         /\ Stored(v, s, d) \in [ShardIds -> SUBSET StoredExtent]
<1>1. EnsuredShards(w, s, d) \in [ShardIds -> SUBSET StoredExtent]
  BY DEF EnsuredShards
<1>2. [off |-> v.cursor, sample |-> s] \in StoredExtent
  BY DEF WriterType, StoredExtent
<1>3. Stored(v, s, d) \in [ShardIds -> SUBSET StoredExtent]
  BY <1>2 DEF Stored
<1> QED BY <1>1, <1>3

LEMMA AddInv == ASSUME NEW s \in Samples, IInv, Add(s) PROVE IInv'
<1> DEFINE e == Ensured(writer, s)
           w == Recorded(e, s)
           p == EnsuredParts(writer, s, parts)
<1>1. WriterInv(e, p) /\ e.open /\ e.next = writer.next
  BY EnsuredInv DEF Add, CanAdd, IInv
<1>2. WriterInv(w, p) /\ w.next = writer.next + 1
  BY <1>1, RecordedInv
<1>3. WriterInv(Finish(w), FinishParts(w, p)) /\ Finish(w).next = w.next
  BY <1>2, FinishInv
<1>4. WriterInv(writer', parts') /\ writer'.next = writer.next + 1
  BY <1>2, <1>3 DEF Add
<1>5. shards' \in [ShardIds -> SUBSET StoredExtent]
  <2>1. EnsuredShards(writer, s, shards) \in [ShardIds -> SUBSET StoredExtent]
    BY <1>1, ShardsType DEF IInv, TypeOK, WriterInv
  <2> QED
    BY <1>1, <2>1, ShardsType DEF Add, IInv, WriterInv
<1>6. acked' \subseteq Nat \X Samples
  <2>1. Returned(writer') \in Nat
    BY <1>4 DEF Returned, IInv, TypeOK, WriterType
  <2> QED
    BY <2>1 DEF Add, IInv, TypeOK
<1>7. TypeOK'
  BY <1>4, <1>5, <1>6 DEF Add, IInv, TypeOK, WriterInv
<1>8. PublishedFrom'
  BY DEF Add, CanAdd, IInv, PublishedFrom
<1> QED
  BY <1>4, <1>7, <1>8 DEF IInv

LEMMA AddRollFailsInv == ASSUME NEW s \in Samples, IInv, AddRollFails(s) PROVE IInv'
<1>1. WriterInv(writer', parts')
  BY TornInv DEF AddRollFails, IInv
<1>2. TypeOK'
  BY <1>1 DEF AddRollFails, Fails, IInv, TypeOK, WriterInv
<1> QED
  BY <1>1, <1>2 DEF AddRollFails, CanAdd, IInv, PublishedFrom

LEMMA AddCreateFailsInv == ASSUME NEW s \in Samples, IInv, AddCreateFails(s) PROVE IInv'
<1>1. WriterInv(writer', parts')
  BY CreateFailedInv DEF AddCreateFails, CanAdd, IInv
<1>2. TypeOK'
  BY <1>1 DEF AddCreateFails, Fails, IInv, TypeOK, WriterInv
<1> QED
  BY <1>1, <1>2 DEF AddCreateFails, CanAdd, IInv, PublishedFrom

LEMMA AddAppendFailsInv == ASSUME NEW s \in Samples, IInv, AddAppendFails(s) PROVE IInv'
<1> DEFINE e == Ensured(writer, s)
<1>1. WriterInv(e, parts') /\ e.open
  BY EnsuredInv DEF AddAppendFails, CanAdd, IInv
<1>2. PICK n \in 0 .. Extent[s] - 1, t \in {0, 1} :
        writer' = [e EXCEPT !.pos = @ + n, !.cursor = @ + n + t]
  BY DEF AddAppendFails
<1>3. /\ writer' \in WriterType /\ writer'.rows = e.rows /\ writer'.dir = e.dir
      /\ writer'.total = e.total /\ writer'.next = e.next /\ writer'.sid = e.sid
      /\ writer'.open = e.open
  <2>1. /\ e \in WriterType /\ e.pos + n \in Nat /\ e.cursor + n + t \in Nat
        /\ writer' = [e EXCEPT !.pos = e.pos + n, !.cursor = e.cursor + n + t]
    <3>1. e \in WriterType
      BY <1>1 DEF WriterInv
    <3>2. Extent[s] \in Nat
      BY WriterAssumption
    <3>3. n \in Nat /\ t \in Nat
      BY <1>2, <3>2
    <3>4. e.pos \in Nat /\ e.cursor \in Nat
      BY <3>1, WriterFields
    <3> HIDE DEF e
    <3> QED
      BY <3>1, <3>3, <3>4, <1>2
  <2> HIDE DEF e
  <2> QED
    BY <2>1 DEF WriterType
<1>4. WriterInv(writer', parts')
  BY <1>1, <1>3 DEF WriterInv, RowsContinue, DirOrdered
<1>5. shards' \in [ShardIds -> SUBSET StoredExtent]
  BY DEF AddAppendFails, EnsuredShards, IInv, TypeOK
<1>6. TypeOK'
  BY <1>4, <1>5 DEF AddAppendFails, Fails, IInv, TypeOK, WriterInv
<1> QED
  BY <1>4, <1>6 DEF AddAppendFails, CanAdd, IInv, PublishedFrom

LEMMA AddTailFailsInv == ASSUME NEW s \in Samples, IInv, AddTailFails(s) PROVE IInv'
<1> DEFINE e == Ensured(writer, s)
           w == Recorded(e, s)
           p == EnsuredParts(writer, s, parts)
<1>1. WriterInv(e, p) /\ e.open
  BY EnsuredInv DEF AddTailFails, CanAdd, IInv
<1>2. WriterInv(w, p)
  BY <1>1, RecordedInv
<1>3. WriterInv(writer', parts')
  BY <1>2, TornInv DEF AddTailFails
<1>4. shards' \in [ShardIds -> SUBSET StoredExtent]
  <2>1. EnsuredShards(writer, s, shards) \in [ShardIds -> SUBSET StoredExtent]
    BY <1>1, ShardsType DEF IInv, TypeOK, WriterInv
  <2> QED
    BY <1>1, <2>1, ShardsType DEF AddTailFails, IInv, WriterInv
<1>5. TypeOK'
  BY <1>3, <1>4 DEF AddTailFails, Fails, IInv, TypeOK, WriterInv
<1> QED
  BY <1>3, <1>5 DEF AddTailFails, CanAdd, IInv, PublishedFrom

LEMMA CloseInv == ASSUME IInv, Close PROVE IInv'
<1>1. WriterInv(writer', parts')
  BY FinishInv DEF Close, IInv
<1>2. manifest' = [dir |-> writer'.dir, rows |-> writer'.total, count |-> writer'.sid + 1]
  BY DEF Close
<1>3. manifest' \in [dir : Seq(ShardRef), rows : Nat \cup {-1}, count : Int]
  <2>1. /\ writer'.dir \in Seq(ShardRef) /\ writer'.total \in Nat
        /\ writer'.sid + 1 \in Int
    BY <1>1, WriterFields DEF WriterInv
  <2> QED
    BY <1>2, <2>1
<1>4. TypeOK'
  BY <1>1, <1>3 DEF Close, IInv, TypeOK, WriterInv
<1> QED
  BY <1>1, <1>2, <1>4 DEF Close, IInv, PublishedFrom

LEMMA DroppedInv ==
  ASSUME IInv, Dropped, tries' \in Nat, parts' \in [ShardIds -> Seq(Row)], status = "open"
  PROVE  IInv'
<1>1. WriterInv(writer', parts')
  BY CreatedInv DEF Dropped
<1>2. TypeOK'
  BY <1>1 DEF Dropped, IInv, TypeOK, WriterInv
<1> QED
  BY <1>1, <1>2 DEF Dropped, IInv, PublishedFrom

LEMMA CloseFailsInv == ASSUME IInv, CloseFails PROVE IInv'
<1>1. parts' \in [ShardIds -> Seq(Row)]
  BY TornInv, FinishInv DEF CloseFails, WriterInv, IInv
<1> QED
  BY <1>1, DroppedInv DEF CloseFails, Fails, IInv, TypeOK

LEMMA CrashInv == ASSUME IInv, Crash PROVE IInv'
  BY DroppedInv DEF Crash, IInv, TypeOK

LEMMA CreateInv == ASSUME IInv, Create PROVE IInv'
<1>1. WriterInv(writer', parts')
  BY CreatedInv DEF Create, IInv, TypeOK
<1>2. TypeOK'
  BY <1>1 DEF Create, IInv, TypeOK, WriterInv
<1> QED
  BY <1>1, <1>2 DEF Create, IInv, PublishedFrom

LEMMA StepInv == IInv /\ [Next]_vars => IInv'
<1> SUFFICES ASSUME IInv, [Next]_vars PROVE IInv'
  OBVIOUS
<1>1. CASE UNCHANGED vars
  BY <1>1 DEF vars, IInv, TypeOK, PublishedFrom
<1>2. ASSUME NEW s \in Samples,
             Add(s) \/ AddRollFails(s) \/ AddCreateFails(s)
               \/ AddAppendFails(s) \/ AddTailFails(s)
      PROVE  IInv'
  BY <1>2, AddInv, AddRollFailsInv, AddCreateFailsInv, AddAppendFailsInv, AddTailFailsInv
<1>3. CASE Close \/ CloseFails \/ Crash \/ Create
  BY <1>3, CloseInv, CloseFailsInv, CrashInv, CreateInv
<1>4. CASE Done
  BY <1>1, <1>4 DEF Done
<1> QED
  BY <1>1, <1>2, <1>3, <1>4 DEF Next

\* The variables of the write path keep their types (the shard id of a row, the
\* offsets and counters in particular) whatever fails and in whatever order.
THEOREM TypeCorrect == Spec => []TypeOK
<1>1. IInv => TypeOK
  BY DEF IInv
<1> QED
  BY InitInv, StepInv, <1>1, PTL DEF Spec

\* The published index directory is contiguous, gapless and sums to index.rows, and
\* every index shard it names is its own file and holds exactly the rows it says: no
\* flush overwrites another, row j has id start + j - 1.
THEOREM DirectoryAlwaysSound == Spec => []DirectorySound
<1>1. IInv => DirectorySound
  <2> SUFFICES ASSUME IInv, Published PROVE DirectorySound
    BY DEF DirectorySound
  <2>1. manifest.dir = writer.dir /\ ContiguousDir(manifest.dir, manifest.rows)
    BY DEF IInv, PublishedFrom, WriterInv, Published
  <2>2. \A i, j \in 1 .. Len(writer.dir) : i # j => writer.dir[i].part # writer.dir[j].part
    <3>1. /\ \A i \in 1 .. Len(writer.dir) : writer.dir[i].part \in Int
          /\ Len(writer.dir) \in Nat
      BY WriterFields DEF IInv, TypeOK
    <3> QED
      BY <3>1 DEF IInv, WriterInv, DirOrdered
  <2> QED
    BY <2>1, <2>2 DEF IInv, WriterInv, DirectorySound
<1> QED
  BY InitInv, StepInv, <1>1, PTL DEF Spec
-----------------------------------------------------------------------------
(* Random access by the recorded offset.  The offset a row records is where   *)
(* the bytes are as long as ShardWriter.pos is the file's cursor, that is, as *)
(* long as no write_all fails after it wrote a part of its buffer.            *)

Reads(r, d) ==
  Extent[r.key] > 0 => {e.sample : e \in {x \in d[r.shard] : x.off = r.off}} = {r.key}

RowGood(r, w, d) == r.shard <= w.sid /\ Reads(r, d)

ReadInv(w, d, p) ==
  /\ d \in [ShardIds -> SUBSET StoredExtent]
  /\ w.cursor = w.pos
  /\ w.open => \A e \in d[w.sid] : e.off < w.pos
  /\ \A i \in 1 .. Len(w.rows) : RowGood(w.rows[i], w, d)
  /\ \A i \in 1 .. Len(w.dir) :
       \A j \in 1 .. Len(p[w.dir[i].part]) : RowGood(p[w.dir[i].part][j], w, d)

\* What finish_shard leaves in the directory: the old entries with their files
\* untouched and, if there was a buffer to flush, one whose file is that buffer.
LEMMA FinishRows ==
  ASSUME NEW w, NEW p, WriterInv(w, p)
  PROVE  LET v == Finish(w)
             q == FinishParts(w, p)
         IN /\ v.rows = <<>> \/ v.rows = w.rows
            /\ v.pos = w.pos /\ v.cursor = w.cursor /\ v.sid = w.sid
            /\ \A i \in 1 .. Len(v.dir) :
                 \/ /\ i \in 1 .. Len(w.dir) /\ v.dir[i] = w.dir[i]
                    /\ q[v.dir[i].part] = p[w.dir[i].part]
                 \/ q[v.dir[i].part] = w.rows
<1> DEFINE v == Finish(w)
           q == FinishParts(w, p)
           ref == [part |-> w.rows[1].shard, start |-> w.rows[1].id, rows |-> Len(w.rows)]
<1>1. w \in WriterType /\ p \in [ShardIds -> Seq(Row)]
  BY DEF WriterInv
<1>2. CASE ~w.open
  BY <1>2 DEF Finish, FinishParts
<1>3. CASE w.open /\ w.rows = <<>>
  <2>1. v = [w EXCEPT !.open = FALSE] /\ q = p
    BY <1>3, <1>1 DEF Finish, FinishParts, Flush, FlushParts, WriterType
  <2>2. /\ v.rows = w.rows /\ v.pos = w.pos /\ v.cursor = w.cursor /\ v.sid = w.sid
        /\ v.dir = w.dir
    <3> HIDE DEF v, q
    <3> QED BY <2>1, <1>1 DEF WriterType
  <2> QED
    BY <2>1, <2>2
<1>4. CASE w.open /\ w.rows # <<>>
  <2>1. /\ v = [[w EXCEPT !.open = FALSE] EXCEPT !.dir = Append(w.dir, ref),
                   !.total = w.total + Len(w.rows), !.rows = <<>>]
        /\ q = [p EXCEPT ![w.rows[1].shard] = w.rows]
    BY <1>4, <1>1 DEF Finish, FinishParts, Flush, FlushParts, WriterType
  <2>2. /\ v.rows = <<>> /\ v.pos = w.pos /\ v.cursor = w.cursor /\ v.sid = w.sid
        /\ v.dir = Append(w.dir, ref)
    <3> HIDE DEF v, q, ref
    <3> QED BY <2>1, <1>1 DEF WriterType
  <2>3. 1 \in 1 .. Len(w.rows) /\ Len(w.rows) \in Nat
    BY <1>1, <1>4, WriterFields, EmptySeq
  <2>4. ref \in ShardRef
    <3>1. w.rows[1] \in Row
      BY <1>1, <2>3, WriterFields, ElementOfSeq
    <3> QED
      BY <3>1, <2>3 DEF ShardRef, Row
  <2>5. /\ Len(v.dir) = Len(w.dir) + 1 /\ Len(w.dir) \in Nat
        /\ v.dir[Len(w.dir) + 1] = ref
        /\ \A i \in 1 .. Len(w.dir) : v.dir[i] = w.dir[i]
    BY <1>1, <2>2, <2>4, WriterFields, AppendProperties
  <2>6. q[ref.part] = w.rows
    BY <1>1, <2>1, <2>4 DEF ShardRef
  <2>7. ASSUME NEW i \in 1 .. Len(w.dir)
        PROVE  q[w.dir[i].part] = p[w.dir[i].part]
    <3>1. /\ w.dir[i].part < w.rows[1].shard /\ w.dir[i].part \in Int
          /\ w.dir[i].part \in ShardIds /\ w.rows[1].shard \in Int
      BY <1>4, <1>1, <2>3, WriterFields DEF WriterInv, DirOrdered
    <3> QED
      BY <3>1, <2>1, <1>1
  <2>8. ASSUME NEW i \in 1 .. Len(v.dir)
        PROVE  \/ /\ i \in 1 .. Len(w.dir) /\ v.dir[i] = w.dir[i]
                  /\ q[v.dir[i].part] = p[w.dir[i].part]
               \/ q[v.dir[i].part] = w.rows
    <3>1. CASE i = Len(w.dir) + 1
      BY <3>1, <2>5, <2>6
    <3>2. CASE i # Len(w.dir) + 1
      <4>1. i \in 1 .. Len(w.dir)
        BY <3>2, <2>5
      <4> QED
        BY <4>1, <2>5, <2>7
    <3> QED BY <3>1, <3>2
  <2> QED
    BY <2>2, <2>8
<1> QED BY <1>2, <1>3, <1>4

LEMMA FinishReads ==
  ASSUME NEW w, NEW d, NEW p, WriterInv(w, p), ReadInv(w, d, p)
  PROVE  ReadInv(Finish(w), d, FinishParts(w, p))
<1> DEFINE v == Finish(w)
           q == FinishParts(w, p)
<1>1. /\ v.rows = <<>> \/ v.rows = w.rows
      /\ v.pos = w.pos /\ v.cursor = w.cursor /\ v.sid = w.sid
      /\ \A i \in 1 .. Len(v.dir) :
           \/ /\ i \in 1 .. Len(w.dir) /\ v.dir[i] = w.dir[i]
              /\ q[v.dir[i].part] = p[w.dir[i].part]
           \/ q[v.dir[i].part] = w.rows
  BY FinishRows
<1>2. ~v.open
  BY FinishInv
<1> HIDE DEF v, q
<1>3. \A i \in 1 .. Len(v.rows) : RowGood(v.rows[i], v, d)
  BY <1>1, EmptySeq DEF ReadInv, RowGood
<1>4. ASSUME NEW i \in 1 .. Len(v.dir), NEW j \in 1 .. Len(q[v.dir[i].part])
      PROVE  RowGood(q[v.dir[i].part][j], v, d)
  BY <1>1 DEF ReadInv, RowGood
<1> QED
  BY <1>1, <1>2, <1>3, <1>4 DEF ReadInv, v, q

\* A writer that differs in shard_id (moved on) and shard files that differ only
\* above the old shard_id still read every row.
LEMMA RowsKept ==
  ASSUME NEW r \in Row, NEW w, NEW v, NEW d, NEW c, w.sid \in Int, v.sid \in Int,
         RowGood(r, w, d), w.sid <= v.sid,
         \A k \in ShardIds : k <= w.sid => c[k] = d[k]
  PROVE  RowGood(r, v, c)
  BY DEF RowGood, Reads, Row, ShardIds

LEMMA RollReads ==
  ASSUME NEW w, NEW d, NEW p, WriterInv(w, p), ReadInv(w, d, p), w.sid + 1 \in ShardIds
  PROVE  /\ ReadInv(Roll(w), [d EXCEPT ![w.sid + 1] = {}], FinishParts(w, p))
         /\ ReadInv([Finish(w) EXCEPT !.sid = @ + 1], d, FinishParts(w, p))
<1> DEFINE f == Finish(w)
           q == FinishParts(w, p)
           v == Roll(w)
           u == [Finish(w) EXCEPT !.sid = @ + 1]
           c == [d EXCEPT ![w.sid + 1] = {}]
<1>1. WriterInv(f, q) /\ ~f.open /\ f.sid = w.sid
  BY FinishInv
<1>2. ReadInv(f, d, q)
  BY FinishReads
<1>3. f \in WriterType /\ q \in [ShardIds -> Seq(Row)] /\ f.sid \in Int
  BY <1>1, WriterFields DEF WriterInv
<1>4. /\ v = [f EXCEPT !.sid = f.sid + 1, !.open = TRUE, !.pos = 0, !.cursor = 0]
      /\ u = [f EXCEPT !.sid = f.sid + 1]
  BY DEF Roll
<1> HIDE DEF f, q, v, u
<1>5. /\ v.rows = f.rows /\ v.dir = f.dir /\ v.sid = f.sid + 1 /\ v.pos = 0 /\ v.cursor = 0
      /\ u.rows = f.rows /\ u.dir = f.dir /\ u.sid = f.sid + 1 /\ u.pos = f.pos
      /\ u.cursor = f.cursor /\ u.open = f.open
  BY <1>3, <1>4 DEF WriterType
<1>6. d \in [ShardIds -> SUBSET StoredExtent]
  BY DEF ReadInv
<1>7. /\ c \in [ShardIds -> SUBSET StoredExtent] /\ c[w.sid + 1] = {}
      /\ \A k \in ShardIds : k <= f.sid => c[k] = d[k]
  BY <1>1, <1>3, <1>6 DEF ShardIds
<1> HIDE DEF c
<1>8. ASSUME NEW r \in Row, RowGood(r, f, d)
       PROVE  RowGood(r, v, c) /\ RowGood(r, u, d)
  <2>1. v.sid \in Int /\ u.sid \in Int /\ f.sid <= v.sid /\ f.sid <= u.sid
    BY <1>3, <1>5
  <2>2. RowGood(r, v, c)
    BY <1>3, <1>7, <1>8, <2>1, RowsKept
  <2>3. RowGood(r, u, d)
    BY <1>3, <1>8, <2>1 DEF RowGood, Row, ShardIds
  <2> QED BY <2>2, <2>3
<1>9. ASSUME NEW i \in 1 .. Len(f.rows)
      PROVE  RowGood(f.rows[i], v, c) /\ RowGood(f.rows[i], u, d)
  <2>1. f.rows[i] \in Row /\ RowGood(f.rows[i], f, d)
    BY <1>2, <1>3, WriterFields, ElementOfSeq DEF ReadInv
  <2> QED
    BY <2>1, <1>8
<1>10. ASSUME NEW i \in 1 .. Len(f.dir), NEW j \in 1 .. Len(q[f.dir[i].part])
      PROVE  /\ RowGood(q[f.dir[i].part][j], v, c)
             /\ RowGood(q[f.dir[i].part][j], u, d)
  <2>1. q[f.dir[i].part] \in Seq(Row)
    BY <1>3, WriterFields
  <2>2. q[f.dir[i].part][j] \in Row /\ RowGood(q[f.dir[i].part][j], f, d)
    BY <1>2, <2>1, ElementOfSeq DEF ReadInv
  <2> QED
    BY <2>2, <1>8
<1>11. ReadInv(v, c, q)
  BY <1>1, <1>5, <1>7, <1>9, <1>10 DEF ReadInv
<1>12. ReadInv(u, d, q)
  BY <1>1, <1>2, <1>5, <1>6, <1>9, <1>10 DEF ReadInv
<1> QED
  BY <1>11, <1>12 DEF v, u, c, q

LEMMA EnsuredReads ==
  ASSUME NEW w, NEW d, NEW p, WriterInv(w, p), ReadInv(w, d, p), NEW s,
         NeedNew(w, s) => w.sid + 1 \in ShardIds
  PROVE  ReadInv(Ensured(w, s), EnsuredShards(w, s, d), EnsuredParts(w, s, p))
<1>1. CASE NeedNew(w, s)
  BY <1>1, RollReads DEF Ensured, EnsuredShards, EnsuredParts
<1>2. CASE ~NeedNew(w, s)
  BY <1>2 DEF Ensured, EnsuredShards, EnsuredParts
<1> QED BY <1>1, <1>2

\* Storing an extent at the cursor of the open shard disturbs no row, because
\* every extent already in that shard starts below the cursor.
LEMMA StoredKeeps ==
  ASSUME NEW w, NEW d, NEW s \in Samples, NEW r \in Row, w \in WriterType,
         w.sid \in ShardIds, w.cursor = w.pos,
         d \in [ShardIds -> SUBSET StoredExtent],
         \A e \in d[w.sid] : e.off < w.pos,
         RowGood(r, w, d)
  PROVE  Reads(r, Stored(w, s, d))
<1> DEFINE e == [off |-> w.cursor, sample |-> s]
           c == [d EXCEPT ![w.sid] = @ \cup {e}]
<1>1. CASE Extent[s] = 0
  BY <1>1 DEF Stored, RowGood
<1>2. CASE Extent[s] # 0
  <2> SUFFICES ASSUME Extent[r.key] > 0
               PROVE  {x.sample : x \in {y \in c[r.shard] : y.off = r.off}} = {r.key}
    BY <1>2 DEF Stored, Reads
  <2>1. {x.sample : x \in {y \in d[r.shard] : y.off = r.off}} = {r.key}
    BY DEF RowGood, Reads
  <2>2. CASE r.shard # w.sid
    <3>1. c[r.shard] = d[r.shard]
      BY <2>2 DEF Row
    <3> QED BY <2>1, <3>1
  <2>3. CASE r.shard = w.sid
    <3>1. PICK x \in d[w.sid] : x.off = r.off
      BY <2>1, <2>3
    <3>2. w.pos \in Nat /\ r.off \in Nat /\ r.off < w.pos
      BY <3>1, WriterFields DEF Row
    <3>3. {y \in c[w.sid] : y.off = r.off} = {y \in d[w.sid] : y.off = r.off}
      <4>1. c[w.sid] = d[w.sid] \cup {e}
        OBVIOUS
      <4>2. e.off # r.off
        BY <3>2
      <4> QED BY <4>1, <4>2
    <3> QED
      BY <2>1, <2>3, <3>3
  <2> QED BY <2>2, <2>3
<1> QED BY <1>1, <1>2

LEMMA StoredReads ==
  ASSUME NEW w, NEW d, NEW s \in Samples, w \in WriterType,
         w.sid \in ShardIds, w.cursor = w.pos,
         d \in [ShardIds -> SUBSET StoredExtent],
         \A e \in d[w.sid] : e.off < w.pos
  PROVE  /\ Reads([id |-> w.next, shard |-> w.sid, off |-> w.pos, key |-> s], Stored(w, s, d))
         /\ Stored(w, s, d) \in [ShardIds -> SUBSET StoredExtent]
         /\ \A e \in Stored(w, s, d)[w.sid] : e.off < w.pos + Extent[s]
<1> DEFINE e == [off |-> w.cursor, sample |-> s]
           c == [d EXCEPT ![w.sid] = @ \cup {e}]
<1>1. Extent[s] \in Nat /\ w.pos \in Nat
  BY WriterAssumption, WriterFields
<1>2. CASE Extent[s] = 0
  <2>1. Stored(w, s, d) = d
    BY <1>2 DEF Stored
  <2>2. \A x \in d[w.sid] : x.off \in Nat /\ x.off < w.pos
    BY DEF StoredExtent
  <2> QED
    BY <1>1, <1>2, <2>1, <2>2 DEF Reads
<1>3. CASE Extent[s] # 0
  <2>1. Stored(w, s, d) = c
    BY <1>3 DEF Stored
  <2>2. e \in StoredExtent /\ e.off = w.pos /\ e.sample = s
    BY <1>1 DEF StoredExtent
  <2>3. c[w.sid] = d[w.sid] \cup {e}
    OBVIOUS
  <2>4. \A x \in d[w.sid] : x.off \in Nat /\ x.off < w.pos
    BY DEF StoredExtent
  <2> HIDE DEF e
  <2>5. {x \in c[w.sid] : x.off = w.pos} = {e}
    BY <1>1, <2>2, <2>3, <2>4
  <2>6. {y.sample : y \in {x \in c[w.sid] : x.off = w.pos}} = {s}
    BY <2>2, <2>5
  <2>7. \A x \in c[w.sid] : x.off < w.pos + Extent[s]
    BY <1>1, <1>3, <2>2, <2>3, <2>4
  <2>8. c \in [ShardIds -> SUBSET StoredExtent]
    BY <2>2
  <2> QED
    BY <2>1, <2>6, <2>7, <2>8 DEF Reads
<1> QED BY <1>2, <1>3

LEMMA RecordedReads ==
  ASSUME NEW w, NEW d, NEW p, WriterInv(w, p), ReadInv(w, d, p), w.open, NEW s \in Samples
  PROVE  ReadInv(Recorded(w, s), Stored(w, s, d), p)
<1> DEFINE r == [id |-> w.next, shard |-> w.sid, off |-> w.pos, key |-> s]
           v == Recorded(w, s)
           c == Stored(w, s, d)
<1>1. /\ w \in WriterType /\ w.sid \in ShardIds /\ Extent[s] \in Nat
      /\ p \in [ShardIds -> Seq(Row)] /\ r \in Row
  BY WriterAssumption, WriterFields DEF WriterInv, Row
<1>2. /\ v.rows = Append(w.rows, r) /\ v.dir = w.dir /\ v.sid = w.sid
      /\ v.pos = w.pos + Extent[s] /\ v.cursor = w.cursor + Extent[s]
  <2>1. v = [w EXCEPT !.rows = Append(w.rows, r), !.next = w.next + 1,
                      !.pos = w.pos + Extent[s], !.cursor = w.cursor + Extent[s]]
    BY DEF Recorded
  <2> HIDE DEF r, v
  <2> QED
    BY <1>1, <2>1 DEF WriterType
<1>3. /\ Reads(r, c) /\ c \in [ShardIds -> SUBSET StoredExtent]
      /\ \A e \in c[w.sid] : e.off < v.pos
  BY <1>1, <1>2, StoredReads DEF ReadInv
<1>4. r.shard = w.sid
  OBVIOUS
<1> HIDE DEF r, v, c
<1>5. ASSUME NEW x \in Row, RowGood(x, w, d)
      PROVE  RowGood(x, v, c)
  BY <1>1, <1>2, <1>5, StoredKeeps DEF RowGood, ReadInv, c
<1>6. ASSUME NEW i \in 1 .. Len(v.rows)
      PROVE  RowGood(v.rows[i], v, c)
  <2>1. /\ Len(v.rows) = Len(w.rows) + 1 /\ Len(w.rows) \in Nat
        /\ v.rows[Len(w.rows) + 1] = r
        /\ \A k \in 1 .. Len(w.rows) : v.rows[k] = w.rows[k]
        /\ w.rows \in Seq(Row)
    BY <1>1, <1>2, WriterFields, AppendProperties
  <2>2. CASE i = Len(w.rows) + 1
    <3>1. w.sid \in Int
      BY <1>1, WriterFields
    <3> QED
      BY <3>1, <2>1, <2>2, <1>2, <1>3, <1>4 DEF RowGood
  <2>3. CASE i # Len(w.rows) + 1
    <3>1. i \in 1 .. Len(w.rows)
      BY <2>1, <2>3
    <3>2. w.rows[i] \in Row /\ RowGood(w.rows[i], w, d)
      BY <3>1, <2>1, ElementOfSeq DEF ReadInv
    <3> QED
      BY <3>1, <3>2, <2>1, <1>5
  <2> QED BY <2>2, <2>3
<1>7. ASSUME NEW i \in 1 .. Len(v.dir), NEW j \in 1 .. Len(p[v.dir[i].part])
      PROVE  RowGood(p[v.dir[i].part][j], v, c)
  <2>1. i \in 1 .. Len(w.dir) /\ v.dir[i] = w.dir[i]
    BY <1>2
  <2>2. p[w.dir[i].part] \in Seq(Row)
    BY <1>1, <2>1, WriterFields
  <2>3. p[w.dir[i].part][j] \in Row /\ RowGood(p[w.dir[i].part][j], w, d)
    BY <2>1, <2>2, ElementOfSeq DEF ReadInv
  <2> QED
    BY <2>1, <2>3, <1>5
<1>8. v.cursor = v.pos
  BY <1>2 DEF ReadInv
<1> QED
  BY <1>2, <1>3, <1>6, <1>7, <1>8 DEF ReadInv, v, c
-----------------------------------------------------------------------------
LEMMA InitReads == Init => ReadInv(writer, shards, parts)
  BY EmptySeq DEF Init, Created, ReadInv

\* Each action keeps ReadInv when no write tears.
LEMMA StepReads ==
  ASSUME "torn" \notin Faults, IInv, ReadInv(writer, shards, parts), [Next]_vars
  PROVE  ReadInv(writer, shards, parts)'
<1>1. TypeOK /\ WriterInv(writer, parts)
  BY DEF IInv
<1>2. ASSUME NEW d \in [ShardIds -> SUBSET StoredExtent], NEW p
      PROVE  ReadInv(Created, d, p)
  BY EmptySeq DEF Created, ReadInv
<1>3. CASE UNCHANGED vars
  BY <1>3 DEF vars
<1>4. ASSUME NEW s \in Samples, CanAdd(s)
      PROVE  /\ WriterInv(Ensured(writer, s), EnsuredParts(writer, s, parts))
             /\ Ensured(writer, s).open
             /\ ReadInv(Ensured(writer, s), EnsuredShards(writer, s, shards),
                        EnsuredParts(writer, s, parts))
             /\ LET w == Recorded(Ensured(writer, s), s)
                    d == Stored(Ensured(writer, s), s, EnsuredShards(writer, s, shards))
                IN  /\ WriterInv(w, EnsuredParts(writer, s, parts))
                    /\ ReadInv(w, d, EnsuredParts(writer, s, parts))
  BY <1>1, <1>4, EnsuredInv, EnsuredReads, RecordedInv, RecordedReads DEF CanAdd
<1>5. ASSUME NEW w, NEW d, NEW p, WriterInv(w, p), ReadInv(w, d, p), NEW q \in TornParts(w, p)
      PROVE  ReadInv(FinishFailed(w), d, q)
  <2>1. /\ FinishFailed(w).rows = w.rows /\ FinishFailed(w).dir = w.dir
        /\ FinishFailed(w).sid = w.sid /\ FinishFailed(w).pos = w.pos
        /\ FinishFailed(w).cursor = w.cursor /\ ~FinishFailed(w).open
    BY <1>5 DEF FinishFailed, WriterInv, WriterType
  <2>2. ASSUME NEW i \in 1 .. Len(w.dir)
        PROVE  q[w.dir[i].part] = p[w.dir[i].part]
    <3>1. CASE q = p
      BY <3>1
    <3>2. CASE w.rows # <<>> /\ q = [p EXCEPT ![w.rows[1].shard] = <<>>]
      <4>1. w \in WriterType /\ p \in [ShardIds -> Seq(Row)]
        BY <1>5 DEF WriterInv
      <4>2. 1 \in 1 .. Len(w.rows)
        BY <3>2, <4>1, WriterFields, EmptySeq
      <4>3. /\ w.dir[i].part < w.rows[1].shard /\ w.dir[i].part \in Int
            /\ w.dir[i].part \in ShardIds /\ w.rows[1].shard \in Int
        BY <1>5, <3>2, <4>1, <4>2, WriterFields DEF WriterInv, DirOrdered
      <4> QED
        BY <3>2, <4>1, <4>3
    <3> QED BY <3>1, <3>2, <1>5 DEF TornParts
  <2> QED
    BY <1>5, <2>1, <2>2 DEF ReadInv, RowGood
<1>6. ASSUME NEW s \in Samples, Add(s)
      PROVE  ReadInv(writer, shards, parts)'
  BY <1>4, <1>6, FinishReads DEF Add
<1>7. ASSUME NEW s \in Samples, AddRollFails(s)
      PROVE  ReadInv(writer, shards, parts)'
  BY <1>1, <1>5, <1>7 DEF AddRollFails
<1>8. ASSUME NEW s \in Samples, AddCreateFails(s)
      PROVE  ReadInv(writer, shards, parts)'
  BY <1>1, <1>8, RollReads DEF AddCreateFails, CanAdd
<1>9. ASSUME NEW s \in Samples, AddAppendFails(s)
      PROVE  ReadInv(writer, shards, parts)'
  <2> DEFINE e == Ensured(writer, s)
             d == EnsuredShards(writer, s, shards)
             p == EnsuredParts(writer, s, parts)
  <2>1. WriterInv(e, p) /\ ReadInv(e, d, p) /\ e \in WriterType /\ shards' = d /\ parts' = p
    BY <1>4, <1>9 DEF AddAppendFails, WriterInv
  <2>2. PICK n \in 0 .. Extent[s] - 1 :
          writer' = [e EXCEPT !.pos = @ + n, !.cursor = @ + n + 0]
    BY <1>9 DEF AddAppendFails
  <2>3. n \in Nat /\ e.pos \in Nat /\ e.cursor = e.pos /\ e.sid \in Int
    BY <2>1, WriterFields, WriterAssumption DEF ReadInv
  <2>4. d \in [ShardIds -> SUBSET StoredExtent] /\ (e.open => e.sid \in ShardIds)
    BY <2>1 DEF ReadInv, WriterInv
  <2> HIDE DEF e, d, p
  <2>5. /\ writer'.rows = e.rows /\ writer'.dir = e.dir /\ writer'.sid = e.sid
        /\ writer'.open = e.open /\ writer'.pos = e.pos + n /\ writer'.cursor = e.pos + n
    BY <2>1, <2>2, <2>3 DEF WriterType
  <2>6. writer'.open => \A x \in d[writer'.sid] : x.off < writer'.pos
    <3>1. ASSUME e.open, NEW x \in d[e.sid]
          PROVE  x.off < e.pos + n
      <4>1. x.off < e.pos /\ x.off \in Nat
        BY <3>1, <2>1, <2>4 DEF ReadInv, StoredExtent
      <4> QED BY <4>1, <2>3
    <3> QED BY <3>1, <2>5
  <2> QED
    BY <2>1, <2>5, <2>6 DEF ReadInv, RowGood
<1>10. ASSUME NEW s \in Samples, AddTailFails(s)
       PROVE  ReadInv(writer, shards, parts)'
  BY <1>4, <1>5, <1>10 DEF AddTailFails
<1>11. CASE Close
  BY <1>1, <1>11, FinishReads DEF Close
<1>12. CASE CloseFails \/ Crash
  BY <1>1, <1>2, <1>12 DEF CloseFails, Crash, Dropped, TypeOK
<1>13. CASE Create
  BY <1>1, <1>2, <1>13 DEF Create, TypeOK
<1> QED
  BY <1>3, <1>6, <1>7, <1>8, <1>9, <1>10, <1>11, <1>12, <1>13 DEF Next, Done

\* Every published row reads back the bytes of its own sample, for any samples,
\* sizes, failures, crashes and reruns, as long as a failed write_all wrote
\* nothing of its buffer.
THEOREM PublishedReadsBack ==
  ASSUME "torn" \notin Faults
  PROVE  Spec => []ReadBack
<1> DEFINE Inv == IInv /\ ReadInv(writer, shards, parts)
<1>1. Init => Inv
  BY InitInv, InitReads
<1>2. Inv /\ [Next]_vars => Inv'
  BY StepInv, StepReads
<1>3. Inv => ReadBack
  <2> SUFFICES ASSUME Inv, NEW r \in PublishedRows
               PROVE  ReadsBack(r)
    BY DEF ReadBack
  <2>1. CASE Published
    <3>1. manifest.dir = writer.dir
      BY <2>1 DEF IInv, PublishedFrom, Published
    <3>2. PICK i \in 1 .. Len(writer.dir) : r \in RowsOf(parts[writer.dir[i].part])
      BY <3>1 DEF PublishedRows, RowsIn
    <3>3. PICK j \in 1 .. Len(parts[writer.dir[i].part]) : r = parts[writer.dir[i].part][j]
      BY <3>2 DEF RowsOf
    <3>4. RowGood(r, writer, shards)
      BY <3>3 DEF ReadInv
    <3> QED
      BY <3>4 DEF RowGood, Reads, ReadsBack, Bytes
  <2>2. CASE ~Published
    BY <2>2, EmptySeq DEF Published, NoManifest, PublishedRows, RowsIn
  <2> QED BY <2>1, <2>2
<1> QED
  BY <1>1, <1>2, <1>3, PTL DEF Spec
-----------------------------------------------------------------------------
(* What the write path promises its caller: the id add returns stays that    *)
(* sample's, accepted samples are published, the two size limits, and with   *)
(* them that the path implements SampleLog.  These speak of Held, the rows   *)
(* recorded so far, in memory or in a part file: a flush, failed or not,     *)
(* does not change that set, and add changes it by one row.                  *)

Held(w, p) == RowsOf(w.rows) \cup UNION {RowsOf(p[w.dir[i].part]) : i \in 1 .. Len(w.dir)}

\* Ids and shard numbers of the rows H lie below the writer's own, ...
Below(w, H) == \A r \in H : r.id < w.next /\ r.shard <= w.sid

\* ... a dedicated sample's shard is left at once, ...
DedicatedLeft(w, H) == \A r \in H : Dedicated(r.key) /\ r.shard = w.sid => ~w.open

\* ... and the two limits hold of the rows so far.
Alone(H) == \A r, q \in H : Dedicated(r.key) /\ q.shard = r.shard => q.id = r.id
Fits(H) == \A r, q \in H : q.shard = r.shard /\ q.id < r.id => r.off + Payload[r.key] < Target

LimitInv(w, H) ==
  /\ H \subseteq Row
  /\ Below(w, H) /\ DedicatedLeft(w, H)
  /\ Alone(H) /\ Fits(H)

AckInv(w, H, A) ==
  /\ \A a \in A : a[1] < w.next
  /\ \A a \in A, r \in H : a[1] = r.id => a[2] = r.key

\* Rows wait in memory only for a shard that is open, until a finish_shard fails.
Waiting(w) == w.rows # <<>> => w.open
-----------------------------------------------------------------------------
(* What each helper of the code does to the rows held.                       *)

LEMMA HeldIsRows ==
  ASSUME NEW w, NEW p, WriterInv(w, p)
  PROVE  Held(w, p) \subseteq Row
<1>1. /\ w \in WriterType /\ w.rows \in Seq(Row)
      /\ p \in [ShardIds -> Seq(Row)]
      /\ \A i \in 1 .. Len(w.dir) : w.dir[i].part \in ShardIds
  BY WriterFields DEF WriterInv
<1>2. ASSUME NEW q \in Seq(Row)
      PROVE  RowsOf(q) \subseteq Row
  BY ElementOfSeq DEF RowsOf
<1> QED
  BY <1>1, <1>2 DEF Held

LEMMA HeldFinished ==
  ASSUME NEW w, NEW p, WriterInv(w, p)
  PROVE  Held(Finish(w), FinishParts(w, p)) = Held(w, p)
<1> DEFINE v == Finish(w)
           q == FinishParts(w, p)
           ref == [part |-> w.rows[1].shard, start |-> w.rows[1].id, rows |-> Len(w.rows)]
<1>1. w \in WriterType /\ p \in [ShardIds -> Seq(Row)]
  BY DEF WriterInv
<1>2. CASE ~w.open
  BY <1>2 DEF Finish, FinishParts
<1>3. CASE w.open /\ w.rows = <<>>
  <2>1. v = [w EXCEPT !.open = FALSE] /\ q = p
    BY <1>3, <1>1 DEF Finish, FinishParts, Flush, FlushParts, WriterType
  <2>2. v.rows = w.rows /\ v.dir = w.dir
    <3> HIDE DEF v, q
    <3> QED BY <2>1, <1>1 DEF WriterType
  <2> QED
    BY <2>1, <2>2 DEF Held
<1>4. CASE w.open /\ w.rows # <<>>
  <2>1. /\ v = [[w EXCEPT !.open = FALSE] EXCEPT !.dir = Append(w.dir, ref),
                   !.total = w.total + Len(w.rows), !.rows = <<>>]
        /\ q = [p EXCEPT ![w.rows[1].shard] = w.rows]
    BY <1>4, <1>1 DEF Finish, FinishParts, Flush, FlushParts, WriterType
  <2>2. v.rows = <<>> /\ v.dir = Append(w.dir, ref)
    <3> HIDE DEF v, q, ref
    <3> QED BY <2>1, <1>1 DEF WriterType
  <2>3. 1 \in 1 .. Len(w.rows) /\ Len(w.rows) \in Nat
    BY <1>1, <1>4, WriterFields, EmptySeq
  <2>4. ref \in ShardRef
    <3>1. w.rows[1] \in Row
      BY <1>1, <2>3, WriterFields, ElementOfSeq
    <3> QED
      BY <3>1, <2>3 DEF ShardRef, Row
  <2>5. /\ Len(v.dir) = Len(w.dir) + 1 /\ Len(w.dir) \in Nat
        /\ v.dir[Len(w.dir) + 1] = ref
        /\ \A i \in 1 .. Len(w.dir) : v.dir[i] = w.dir[i]
    BY <1>1, <2>2, <2>4, WriterFields, AppendProperties
  <2>6. q[ref.part] = w.rows
    BY <1>1, <2>1, <2>4 DEF ShardRef
  <2>7. ASSUME NEW i \in 1 .. Len(w.dir)
        PROVE  q[w.dir[i].part] = p[w.dir[i].part]
    <3>1. /\ w.dir[i].part < w.rows[1].shard /\ w.dir[i].part \in Int
          /\ w.dir[i].part \in ShardIds /\ w.rows[1].shard \in Int
      BY <1>4, <1>1, <2>3, WriterFields DEF WriterInv, DirOrdered
    <3> QED
      BY <3>1, <2>1, <1>1
  <2>8. RowsOf(v.rows) = {}
    BY <2>2, EmptySeq DEF RowsOf
  <2> HIDE DEF v, q, ref
  <2> DEFINE old == {RowsOf(p[w.dir[i].part]) : i \in 1 .. Len(w.dir)}
             new == {RowsOf(q[v.dir[i].part]) : i \in 1 .. Len(v.dir)}
  <2>9. new = old \cup {RowsOf(w.rows)}
    <3>1. ASSUME NEW i \in 1 .. Len(v.dir)
          PROVE  RowsOf(q[v.dir[i].part]) \in old \cup {RowsOf(w.rows)}
      <4>1. CASE i = Len(w.dir) + 1
        BY <4>1, <2>5, <2>6
      <4>2. CASE i # Len(w.dir) + 1
        <5>1. i \in 1 .. Len(w.dir)
          BY <4>2, <2>5
        <5> QED
          BY <5>1, <2>5, <2>7
      <4> QED BY <4>1, <4>2
    <3>2. ASSUME NEW i \in 1 .. Len(w.dir)
          PROVE  RowsOf(p[w.dir[i].part]) \in new
      <4>1. i \in 1 .. Len(v.dir) /\ v.dir[i] = w.dir[i]
        BY <2>5
      <4> QED
        BY <4>1, <2>7
    <3>3. RowsOf(w.rows) \in new
      <4>1. Len(w.dir) + 1 \in 1 .. Len(v.dir)
        BY <2>5
      <4> QED
        BY <4>1, <2>5, <2>6
    <3> QED
      BY <3>1, <3>2, <3>3
  <2> QED
    BY <2>8, <2>9 DEF Held, v, q
<1> QED BY <1>2, <1>3, <1>4

\* A failed finish_shard loses no row: none was in the file it left torn.
LEMMA HeldTorn ==
  ASSUME NEW w, NEW p, WriterInv(w, p), NEW q \in TornParts(w, p)
  PROVE  Held(FinishFailed(w), q) = Held(w, p)
<1>1. /\ w \in WriterType /\ p \in [ShardIds -> Seq(Row)]
      /\ FinishFailed(w).rows = w.rows /\ FinishFailed(w).dir = w.dir
  BY DEF FinishFailed, WriterInv, WriterType
<1>2. ASSUME NEW i \in 1 .. Len(w.dir)
      PROVE  q[w.dir[i].part] = p[w.dir[i].part]
  <2>1. CASE q = p
    BY <2>1
  <2>2. CASE w.rows # <<>> /\ q = [p EXCEPT ![w.rows[1].shard] = <<>>]
    <3>1. 1 \in 1 .. Len(w.rows)
      BY <2>2, <1>1, WriterFields, EmptySeq
    <3>2. /\ w.dir[i].part < w.rows[1].shard /\ w.dir[i].part \in Int
          /\ w.dir[i].part \in ShardIds /\ w.rows[1].shard \in Int
      BY <2>2, <1>1, <3>1, WriterFields DEF WriterInv, DirOrdered
    <3> QED
      BY <2>2, <1>1, <3>2
  <2> QED BY <2>1, <2>2 DEF TornParts
<1> QED
  BY <1>1, <1>2 DEF Held

\* Recording adds the row of the sample, at the writer's place.
LEMMA HeldRecorded ==
  ASSUME NEW w, NEW p, WriterInv(w, p), w.open, NEW s \in Samples
  PROVE  LET r == [id |-> w.next, shard |-> w.sid, off |-> w.pos, key |-> s]
         IN  r \in Row /\ Held(Recorded(w, s), p) = Held(w, p) \cup {r}
<1> DEFINE r == [id |-> w.next, shard |-> w.sid, off |-> w.pos, key |-> s]
           v == Recorded(w, s)
<1>1. w \in WriterType /\ w.rows \in Seq(Row) /\ Len(w.rows) \in Nat /\ r \in Row
  BY WriterFields DEF WriterInv, Row
<1>2. v.rows = Append(w.rows, r) /\ v.dir = w.dir
  <2>1. v = [w EXCEPT !.rows = Append(w.rows, r), !.next = w.next + 1,
                      !.pos = w.pos + Extent[s], !.cursor = w.cursor + Extent[s]]
    BY DEF Recorded
  <2> HIDE DEF r, v
  <2> QED
    BY <1>1, <2>1 DEF WriterType
<1> HIDE DEF r, v
<1>3. RowsOf(v.rows) = RowsOf(w.rows) \cup {r}
  <2>1. /\ Len(v.rows) = Len(w.rows) + 1
        /\ v.rows[Len(w.rows) + 1] = r
        /\ \A i \in 1 .. Len(w.rows) : v.rows[i] = w.rows[i]
    BY <1>1, <1>2, AppendProperties
  <2>2. \A i : i \in 1 .. Len(v.rows) <=> i \in 1 .. Len(w.rows) \/ i = Len(w.rows) + 1
    BY <1>1, <2>1
  <2> QED
    BY <2>1, <2>2 DEF RowsOf
<1>4. Held(v, p) = Held(w, p) \cup {r}
  BY <1>2, <1>3 DEF Held
<1> QED
  BY <1>1, <1>4 DEF r, v

LEMMA HeldCreated ==
  ASSUME NEW p
  PROVE  Held(Created, p) = {}
BY EmptySeq DEF Held, RowsOf, Created
-----------------------------------------------------------------------------
(* The limits, helper by helper.                                             *)

\* A writer that only moves on to a later shard, or closes its own, keeps them.
LEMMA MovesOn ==
  ASSUME NEW w \in WriterType, NEW v \in WriterType, NEW H, LimitInv(w, H),
         v.next = w.next, w.sid <= v.sid, v.sid = w.sid => (v.open => w.open)
  PROVE  LimitInv(v, H)
<1>1. w.sid \in Int /\ v.sid \in Int /\ v.open \in BOOLEAN
  BY WriterFields
<1>2. \A r \in H : r.shard \in Int /\ r.shard <= w.sid
  BY DEF LimitInv, Below, Row, ShardIds
<1>3. Below(v, H)
  BY <1>1, <1>2 DEF LimitInv, Below
<1>4. DedicatedLeft(v, H)
  BY <1>1, <1>2 DEF LimitInv, DedicatedLeft
<1> QED
  BY <1>3, <1>4 DEF LimitInv

\* The rows already in the shard a sample is about to join leave it room.
Room(e, s, H) ==
  \A q \in H : q.shard = e.sid =>
    /\ ~Dedicated(s) /\ ~Dedicated(q.key)
    /\ e.pos + Payload[s] < Target

LEMMA FinishedFields ==
  ASSUME NEW w, NEW p, WriterInv(w, p)
  PROVE  /\ Finish(w) \in WriterType /\ w \in WriterType
         /\ Finish(w).sid = w.sid /\ Finish(w).next = w.next /\ ~Finish(w).open
         /\ Waiting(w) => Finish(w).rows = <<>>
<1>1. /\ Finish(w) \in WriterType /\ w \in WriterType
      /\ Finish(w).sid = w.sid /\ Finish(w).next = w.next /\ ~Finish(w).open
  BY FinishInv DEF WriterInv
<1>2. ASSUME Waiting(w) PROVE Finish(w).rows = <<>>
  <2>1. CASE ~w.open
    BY <1>2, <2>1 DEF Finish, Waiting
  <2>2. CASE w.open
    <3> DEFINE v == [w EXCEPT !.open = FALSE]
    <3>1. v \in WriterType /\ v.rows = w.rows /\ Finish(w) = Flush(v)
      BY <1>1, <2>2 DEF Finish, WriterType
    <3> HIDE DEF v
    <3> QED
      BY <3>1 DEF Flush, WriterType
  <2> QED BY <2>1, <2>2
<1> QED BY <1>1, <1>2

LEMMA RolledFields ==
  ASSUME NEW w, NEW p, WriterInv(w, p), w.sid + 1 \in ShardIds
  PROVE  LET u == [Finish(w) EXCEPT !.sid = @ + 1]
         IN  /\ u \in WriterType /\ u.sid = w.sid + 1 /\ u.next = w.next
             /\ u.rows = Finish(w).rows /\ u.dir = Finish(w).dir
             /\ Roll(w) \in WriterType /\ Roll(w).sid = w.sid + 1 /\ Roll(w).next = w.next
             /\ Roll(w).rows = Finish(w).rows /\ Roll(w).dir = Finish(w).dir
<1> DEFINE f == Finish(w)
           u == [Finish(w) EXCEPT !.sid = @ + 1]
           v == Roll(w)
<1>1. f \in WriterType /\ f.sid = w.sid /\ f.next = w.next /\ w.sid + 1 \in -1 .. MaxShards - 1
  BY FinishedFields, WriterAssumption DEF ShardIds
<1>2. /\ u = [f EXCEPT !.sid = f.sid + 1]
      /\ v = [f EXCEPT !.sid = f.sid + 1, !.open = TRUE, !.pos = 0, !.cursor = 0]
  BY DEF Roll
<1> HIDE DEF f, u, v
<1>3. /\ u \in WriterType /\ u.sid = w.sid + 1 /\ u.next = w.next
      /\ u.rows = f.rows /\ u.dir = f.dir
      /\ v \in WriterType /\ v.sid = w.sid + 1 /\ v.next = w.next
      /\ v.rows = f.rows /\ v.dir = f.dir
  BY <1>1, <1>2 DEF WriterType
<1> QED
  BY <1>3 DEF f, u, v

\* ensure_shard keeps the rows and leaves the next one room.
LEMMA EnsuredRoom ==
  ASSUME NEW w, NEW p, WriterInv(w, p), NEW s \in Samples, NEW H, H = Held(w, p),
         LimitInv(w, H), NeedNew(w, s) => w.sid + 1 \in ShardIds
  PROVE  LET e == Ensured(w, s)
         IN  /\ Held(e, EnsuredParts(w, s, p)) = H
             /\ LimitInv(e, H) /\ Room(e, s, H)
<1>1. w \in WriterType /\ w.sid \in Int /\ w.pos \in Nat
  BY WriterFields DEF WriterInv
<1>2. \A r \in H : r.shard \in Int /\ r.shard <= w.sid
  BY DEF LimitInv, Below, Row, ShardIds
<1>3. CASE NeedNew(w, s)
  <2>1. /\ Roll(w) \in WriterType /\ Roll(w).sid = w.sid + 1 /\ Roll(w).next = w.next
        /\ Roll(w).rows = Finish(w).rows /\ Roll(w).dir = Finish(w).dir
    BY <1>3, RolledFields
  <2>2. Held(Roll(w), FinishParts(w, p)) = H
    BY <2>1, HeldFinished DEF Held
  <2>3. LimitInv(Roll(w), H)
    BY <1>1, <2>1, MovesOn
  <2>4. Room(Roll(w), s, H)
    BY <1>1, <1>2, <2>1 DEF Room
  <2> QED
    BY <1>3, <2>2, <2>3, <2>4 DEF Ensured, EnsuredParts
<1>4. CASE ~NeedNew(w, s)
  <2>1. w.open /\ ~Dedicated(s) /\ ~(w.pos + Payload[s] >= Target)
    BY <1>4 DEF NeedNew
  <2>2. Payload[s] \in Nat /\ Target \in Nat
    BY WriterAssumption
  <2>3. w.pos + Payload[s] < Target
    BY <1>1, <2>1, <2>2
  <2>4. Room(w, s, H)
    BY <2>1, <2>3 DEF Room, LimitInv, DedicatedLeft
  <2> QED
    BY <1>4, <2>4 DEF Ensured, EnsuredParts
<1> QED BY <1>3, <1>4

\* A row recorded where there is room respects both limits.
LEMMA RecordedLimits ==
  ASSUME NEW e \in WriterType, NEW H, NEW s \in Samples, LimitInv(e, H), Room(e, s, H),
         NEW r \in Row, r.id = e.next, r.shard = e.sid, r.off = e.pos, r.key = s,
         NEW v \in WriterType, v.next = e.next + 1, v.sid = e.sid, Dedicated(s) => ~v.open,
         e.open
  PROVE  LimitInv(v, H \cup {r})
<1>1. e.sid \in Int /\ e.next \in Nat /\ e.pos \in Nat
  BY WriterFields
<1>2. \A q \in H : q.id \in Nat /\ q.shard \in Int /\ q.id < e.next /\ q.shard <= e.sid
  BY DEF LimitInv, Below, Row, ShardIds
<1>3. Below(v, H \cup {r})
  BY <1>1, <1>2 DEF Below
<1>4. DedicatedLeft(v, H \cup {r})
  BY DEF DedicatedLeft, Room
<1>5. Alone(H \cup {r})
  <2>1. ASSUME NEW x \in H \cup {r}, NEW q \in H \cup {r}, Dedicated(x.key), q.shard = x.shard
        PROVE  q.id = x.id
    <3>1. CASE x \in H /\ q \in H
      BY <2>1, <3>1 DEF LimitInv, Alone
    <3>2. CASE x = r /\ q = r
      BY <3>2
    <3>3. CASE x = r /\ q \in H
      BY <2>1, <3>3 DEF Room
    <3>4. CASE x \in H /\ q = r
      BY <2>1, <3>4 DEF Room
    <3> QED BY <3>1, <3>2, <3>3, <3>4
  <2> QED
    BY <2>1 DEF Alone
<1>6. Fits(H \cup {r})
  <2>1. ASSUME NEW x \in H \cup {r}, NEW q \in H \cup {r}, q.shard = x.shard, q.id < x.id
        PROVE  x.off + Payload[x.key] < Target
    <3>1. CASE x \in H /\ q \in H
      BY <2>1, <3>1 DEF LimitInv, Fits
    <3>2. CASE x = r /\ q = r
      BY <1>1, <2>1, <3>2
    <3>3. CASE x = r /\ q \in H
      BY <2>1, <3>3 DEF Room
    <3>4. CASE x \in H /\ q = r
      BY <1>1, <1>2, <2>1, <3>4
    <3> QED BY <3>1, <3>2, <3>3, <3>4
  <2> QED
    BY <2>1 DEF Fits
<1> QED
  BY <1>3, <1>4, <1>5, <1>6 DEF LimitInv
-----------------------------------------------------------------------------
(* The inductive invariant: IInv of DatasetWriterProofs, the limits and the   *)
(* acknowledgements of the rows held, and where rows may wait.                *)

LInv ==
  /\ IInv
  /\ LimitInv(writer, Held(writer, parts))
  /\ AckInv(writer, Held(writer, parts), acked)
  /\ ~stranded => Waiting(writer)
  /\ status = "closed" => ~writer.open
  /\ status = "dead" => acked = {}

\* An add records one row, at the end, ...
OneRow(s) ==
  /\ writer'.next = writer.next + 1
  /\ \E r \in Row : /\ r.id = writer.next /\ r.key = s
                    /\ Held(writer', parts') = Held(writer, parts) \cup {r}

\* ... and other calls none.
NoRow ==
  /\ writer'.next = writer.next
  /\ Held(writer', parts') = Held(writer, parts)

\* What the calls that record no row keep: they move on, or give up the shard.
LEMMA KeepsRows ==
  ASSUME LInv, status' = "open", acked' = acked,
         writer' \in WriterType, Held(writer', parts') = Held(writer, parts),
         writer'.next = writer.next, writer.sid <= writer'.sid,
         writer'.sid = writer.sid => (writer'.open => writer.open),
         ~stranded' => ~stranded /\ (Waiting(writer) => Waiting(writer')),
         IInv'
  PROVE  LInv'
<1>1. writer \in WriterType
  BY DEF LInv, IInv, TypeOK
<1>2. LimitInv(writer', Held(writer', parts'))
  BY <1>1, MovesOn DEF LInv
<1>3. AckInv(writer', Held(writer', parts'), acked')
  BY DEF LInv, AckInv
<1> QED
  BY <1>2, <1>3 DEF LInv

LEMMA InitLimits == Init => LInv
<1> SUFFICES ASSUME Init PROVE LInv
  OBVIOUS
<1>1. Held(writer, parts) = {}
  BY HeldCreated DEF Init
<1>2. IInv
  BY InitInv
<1>3. LimitInv(writer, {}) /\ AckInv(writer, {}, acked)
  BY DEF Init, LimitInv, Below, DedicatedLeft, Alone, Fits, AckInv
<1> QED
  BY <1>1, <1>2, <1>3 DEF LInv, Init, Created, Waiting

\* The row an add records, before a dedicated sample's shard is finished.
LEMMA AddedRow ==
  ASSUME LInv, NEW s \in Samples, CanAdd(s)
  PROVE  LET e == Ensured(writer, s)
             p == EnsuredParts(writer, s, parts)
             w == Recorded(e, s)
         IN  /\ WriterInv(w, p) /\ w.open /\ w.next = writer.next + 1
             /\ \E r \in Row :
                  /\ r.id = writer.next /\ r.key = s
                  /\ Held(w, p) = Held(writer, parts) \cup {r}
                  /\ \A v \in WriterType :
                       v.next = w.next /\ v.sid = w.sid /\ (Dedicated(s) => ~v.open) =>
                         LimitInv(v, Held(writer, parts) \cup {r})
<1> DEFINE e == Ensured(writer, s)
           p == EnsuredParts(writer, s, parts)
           w == Recorded(e, s)
           H == Held(writer, parts)
           r == [id |-> e.next, shard |-> e.sid, off |-> e.pos, key |-> s]
<1>1. WriterInv(writer, parts) /\ LimitInv(writer, H)
  BY DEF LInv, IInv
<1>2. NeedNew(writer, s) => writer.sid + 1 \in ShardIds
  BY DEF CanAdd
<1>3. WriterInv(e, p) /\ e.open /\ e.next = writer.next
  BY <1>1, <1>2, EnsuredInv
<1>4. Held(e, p) = H /\ LimitInv(e, H) /\ Room(e, s, H)
  BY <1>1, <1>2, EnsuredRoom
<1>5. WriterInv(w, p) /\ w.next = e.next + 1
  BY <1>3, RecordedInv
<1>6. r \in Row /\ Held(w, p) = Held(e, p) \cup {r}
  BY <1>3, HeldRecorded
<1>7. e \in WriterType
  BY <1>3 DEF WriterInv
<1>8. w.open /\ w.sid = e.sid
  <2>1. w = [e EXCEPT !.rows = Append(e.rows, r), !.next = e.next + 1,
                      !.pos = e.pos + Extent[s], !.cursor = e.cursor + Extent[s]]
    BY DEF Recorded
  <2> HIDE DEF e, w, r
  <2> QED
    BY <1>3, <1>7, <2>1 DEF WriterType
<1>9. r.id = e.next /\ r.shard = e.sid /\ r.off = e.pos /\ r.key = s
  OBVIOUS
<1> HIDE DEF e, p, w, H, r
<1>10. ASSUME NEW v \in WriterType, v.next = w.next, v.sid = w.sid, Dedicated(s) => ~v.open
       PROVE  LimitInv(v, H \cup {r})
  BY <1>3, <1>4, <1>5, <1>6, <1>7, <1>8, <1>9, <1>10, RecordedLimits
<1> QED
  BY <1>3, <1>4, <1>5, <1>6, <1>8, <1>9, <1>10 DEF e, p, w, H

\* Acknowledging the row just recorded, or not, keeps every id its sample's.
LEMMA AcksExtend ==
  ASSUME NEW w, NEW v, NEW H, NEW A, AckInv(w, H, A), LimitInv(w, H), w.next \in Nat,
         A \subseteq Nat \X Samples,
         v.next = w.next + 1, NEW r \in Row, r.id = w.next
  PROVE  AckInv(v, H \cup {r}, A) /\ AckInv(v, H \cup {r}, A \cup {<<w.next, r.key>>})
<1>1. \A a \in A : a[1] \in Nat /\ a[1] < w.next
  BY DEF AckInv
<1>2. \A q \in H : q.id \in Nat /\ q.id < w.next
  BY DEF LimitInv, Below, Row
<1>3. AckInv(v, H \cup {r}, A)
  BY <1>1, <1>2 DEF AckInv
<1>4. AckInv(v, H \cup {r}, A \cup {<<w.next, r.key>>})
  BY <1>1, <1>2, <1>3 DEF AckInv
<1> QED
  BY <1>3, <1>4

LEMMA AddLimits ==
  ASSUME LInv, NEW s \in Samples, Add(s)
  PROVE  LInv' /\ OneRow(s)
<1> DEFINE p == EnsuredParts(writer, s, parts)
           w == Recorded(Ensured(writer, s), s)
           H == Held(writer, parts)
<1>1. /\ IInv' /\ status = "open" /\ status' = status /\ stranded' = stranded
      /\ acked \subseteq Nat \X Samples /\ writer.next \in Nat
  BY AddInv, WriterFields DEF LInv, IInv, TypeOK, Add, CanAdd
<1>2. WriterInv(w, p) /\ w.open /\ w.next = writer.next + 1
  BY AddedRow DEF Add
<1>3. PICK r \in Row :
        /\ r.id = writer.next /\ r.key = s
        /\ Held(w, p) = H \cup {r}
        /\ \A v \in WriterType :
             v.next = w.next /\ v.sid = w.sid /\ (Dedicated(s) => ~v.open) =>
               LimitInv(v, H \cup {r})
  BY AddedRow DEF Add
<1>4. /\ writer' = IF Dedicated(s) THEN Finish(w) ELSE w
      /\ parts' = IF Dedicated(s) THEN FinishParts(w, p) ELSE p
      /\ acked' = acked \cup {<<Returned(writer'), s>>}
  BY DEF Add
<1> HIDE DEF p, w, H
<1>5. /\ Finish(w) \in WriterType /\ w \in WriterType /\ Finish(w).sid = w.sid
      /\ Finish(w).next = w.next /\ ~Finish(w).open
      /\ Waiting(w) => Finish(w).rows = <<>>
  BY <1>2, FinishedFields
<1>6. /\ writer' \in WriterType /\ writer'.next = w.next /\ writer'.sid = w.sid
      /\ Dedicated(s) => ~writer'.open
      /\ Waiting(writer')
  BY <1>2, <1>4, <1>5 DEF Waiting
<1>7. Held(writer', parts') = H \cup {r}
  BY <1>2, <1>3, <1>4, HeldFinished
<1>8. Returned(writer') = writer.next
  BY <1>1, <1>2, <1>6 DEF Returned
<1>9. AckInv(writer', H \cup {r}, acked')
  <2>1. AckInv(writer, H, acked) /\ LimitInv(writer, H)
    BY DEF LInv, H
  <2>2. writer'.next = writer.next + 1
    BY <1>2, <1>6
  <2>3. AckInv(writer', H \cup {r}, acked \cup {<<writer.next, r.key>>})
    BY <1>1, <1>3, <2>1, <2>2, AcksExtend
  <2> QED
    BY <1>3, <1>4, <1>8, <2>3
<1>10. LimitInv(writer', H \cup {r})
  BY <1>3, <1>6
<1> QED
  BY <1>1, <1>2, <1>3, <1>6, <1>7, <1>9, <1>10 DEF LInv, OneRow, H

LEMMA AddTailFailsLimits ==
  ASSUME LInv, NEW s \in Samples, AddTailFails(s)
  PROVE  LInv' /\ OneRow(s)
<1> DEFINE p == EnsuredParts(writer, s, parts)
           w == Recorded(Ensured(writer, s), s)
           H == Held(writer, parts)
<1>1. /\ IInv' /\ status = "open" /\ status' = status /\ stranded' = TRUE
      /\ acked \subseteq Nat \X Samples /\ writer.next \in Nat /\ acked' = acked
  BY AddTailFailsInv, WriterFields DEF LInv, IInv, TypeOK, AddTailFails, CanAdd
<1>2. WriterInv(w, p) /\ w.open /\ w.next = writer.next + 1
  BY AddedRow DEF AddTailFails
<1>3. PICK r \in Row :
        /\ r.id = writer.next /\ r.key = s
        /\ Held(w, p) = H \cup {r}
        /\ \A v \in WriterType :
             v.next = w.next /\ v.sid = w.sid /\ (Dedicated(s) => ~v.open) =>
               LimitInv(v, H \cup {r})
  BY AddedRow DEF AddTailFails
<1>4. writer' = FinishFailed(w) /\ parts' \in TornParts(w, p)
  BY DEF AddTailFails
<1> HIDE DEF p, w, H
<1>5. /\ writer' \in WriterType /\ writer'.sid = w.sid /\ writer'.next = w.next /\ ~writer'.open
  BY <1>2, <1>4, TakeInv DEF FinishFailed, WriterInv
<1>6. Held(writer', parts') = H \cup {r}
  BY <1>2, <1>3, <1>4, HeldTorn
<1>7. LimitInv(writer', H \cup {r})
  BY <1>3, <1>5
<1>8. AckInv(writer', H \cup {r}, acked')
  <2>1. AckInv(writer, H, acked) /\ LimitInv(writer, H)
    BY DEF LInv, H
  <2>2. writer'.next = writer.next + 1
    BY <1>2, <1>5
  <2> QED
    BY <1>1, <1>3, <2>1, <2>2, AcksExtend
<1> QED
  BY <1>1, <1>2, <1>3, <1>5, <1>6, <1>7, <1>8 DEF LInv, OneRow, H

LEMMA AddRollFailsLimits ==
  ASSUME LInv, NEW s \in Samples, AddRollFails(s)
  PROVE  LInv' /\ NoRow
<1>1. IInv' /\ WriterInv(writer, parts) /\ writer.sid \in Int
  BY AddRollFailsInv, WriterFields DEF LInv, IInv, WriterInv
<1>2. /\ writer' \in WriterType /\ writer'.sid = writer.sid /\ writer'.next = writer.next
      /\ ~writer'.open
  BY <1>1, TakeInv DEF AddRollFails, FinishFailed, WriterInv
<1>3. Held(writer', parts') = Held(writer, parts)
  BY <1>1, HeldTorn DEF AddRollFails
<1> QED
  BY <1>1, <1>2, <1>3, KeepsRows DEF AddRollFails, CanAdd, NoRow

LEMMA AddCreateFailsLimits ==
  ASSUME LInv, NEW s \in Samples, AddCreateFails(s)
  PROVE  LInv' /\ NoRow
<1> DEFINE u == [Finish(writer) EXCEPT !.sid = @ + 1]
<1>1. IInv' /\ WriterInv(writer, parts) /\ writer.sid \in Int /\ writer.sid + 1 \in ShardIds
  BY AddCreateFailsInv, WriterFields DEF LInv, IInv, WriterInv, AddCreateFails, CanAdd
<1>2. /\ u \in WriterType /\ u.sid = writer.sid + 1 /\ u.next = writer.next
      /\ u.rows = Finish(writer).rows /\ u.dir = Finish(writer).dir
  BY <1>1, RolledFields
<1>3. writer' = u /\ parts' = FinishParts(writer, parts)
  BY DEF AddCreateFails
<1> HIDE DEF u
<1>4. Held(writer', parts') = Held(writer, parts)
  <2>1. Held(Finish(writer), FinishParts(writer, parts)) = Held(writer, parts)
    BY <1>1, HeldFinished
  <2>2. Held(u, FinishParts(writer, parts)) = Held(Finish(writer), FinishParts(writer, parts))
    BY <1>2 DEF Held
  <2> QED
    BY <1>3, <2>1, <2>2
<1>5. Waiting(writer) => Waiting(writer')
  BY <1>1, <1>2, <1>3, FinishedFields DEF Waiting
<1>6. writer.sid <= writer'.sid /\ writer.sid # writer'.sid
  BY <1>1, <1>2, <1>3
<1> QED
  BY <1>1, <1>2, <1>3, <1>4, <1>5, <1>6, KeepsRows DEF AddCreateFails, CanAdd, NoRow

LEMMA AddAppendFailsLimits ==
  ASSUME LInv, NEW s \in Samples, AddAppendFails(s)
  PROVE  LInv' /\ NoRow
<1> DEFINE e == Ensured(writer, s)
           p == EnsuredParts(writer, s, parts)
           H == Held(writer, parts)
<1>1. IInv' /\ WriterInv(writer, parts) /\ LimitInv(writer, H)
  BY AddAppendFailsInv DEF LInv, IInv
<1>2. NeedNew(writer, s) => writer.sid + 1 \in ShardIds
  BY DEF AddAppendFails, CanAdd
<1>3. WriterInv(e, p) /\ e.open /\ e.next = writer.next /\ e \in WriterType
  BY <1>1, <1>2, EnsuredInv DEF WriterInv
<1>4. Held(e, p) = H /\ LimitInv(e, H)
  BY <1>1, <1>2, EnsuredRoom
<1>5. PICK n \in 0 .. Extent[s] - 1, t \in {0, 1} :
        writer' = [e EXCEPT !.pos = @ + n, !.cursor = @ + n + t]
  BY DEF AddAppendFails
<1>6. parts' = p /\ acked' = acked /\ stranded' = stranded /\ status = "open" /\ status' = "open"
  BY DEF AddAppendFails, CanAdd
<1> HIDE DEF e, p, H
<1>7. /\ writer'.rows = e.rows /\ writer'.dir = e.dir /\ writer'.next = e.next
      /\ writer'.sid = e.sid /\ writer'.open = e.open
  BY <1>3, <1>5 DEF WriterType
<1>8. writer' \in WriterType
  BY <1>1 DEF IInv, TypeOK
<1>9. Held(writer', parts') = H
  BY <1>4, <1>6, <1>7 DEF Held
<1>10. e.sid \in Int
  BY <1>3, WriterFields
<1>11. LimitInv(writer', H)
  BY <1>3, <1>4, <1>7, <1>8, <1>10, MovesOn
<1>12. AckInv(writer', H, acked')
  BY <1>3, <1>6, <1>7 DEF LInv, AckInv, H
<1> QED
  BY <1>1, <1>3, <1>6, <1>7, <1>9, <1>11, <1>12 DEF LInv, Waiting, NoRow, H

LEMMA CloseLimits ==
  ASSUME LInv, Close
  PROVE  LInv' /\ NoRow
<1> DEFINE H == Held(writer, parts)
<1>1. IInv' /\ WriterInv(writer, parts) /\ writer.sid \in Int
  BY CloseInv, WriterFields DEF LInv, IInv, WriterInv
<1>2. /\ writer' = Finish(writer) /\ parts' = FinishParts(writer, parts)
      /\ acked' = acked /\ stranded' = stranded
  BY DEF Close
<1>3. /\ writer' \in WriterType /\ writer \in WriterType /\ writer'.sid = writer.sid
      /\ writer'.next = writer.next /\ ~writer'.open
      /\ Waiting(writer) => writer'.rows = <<>>
  BY <1>1, <1>2, FinishedFields
<1>4. Held(writer', parts') = H
  BY <1>1, <1>2, HeldFinished
<1>5. LimitInv(writer', H)
  BY <1>1, <1>3, MovesOn DEF LInv
<1>6. AckInv(writer', H, acked')
  BY <1>2, <1>3 DEF LInv, AckInv
<1>7. ~stranded' => Waiting(writer')
  BY <1>2, <1>3 DEF LInv, Waiting
<1> HIDE DEF H
<1> QED
  BY <1>1, <1>3, <1>4, <1>5, <1>6, <1>7 DEF LInv, Close, NoRow, H

\* A writer that starts from nothing, or is gone, holds no row and owes none.
LEMMA EmptyLimits ==
  ASSUME IInv', writer' = Created, acked' = {}, status' # "closed"
  PROVE  LInv'
<1>1. Held(writer', parts') = {}
  BY HeldCreated
<1>2. LimitInv(writer', {}) /\ AckInv(writer', {}, acked')
  BY DEF LimitInv, Below, DedicatedLeft, Alone, Fits, AckInv
<1>3. Waiting(writer')
  BY DEF Created, Waiting
<1> QED
  BY <1>1, <1>2, <1>3 DEF LInv

LEMMA StepLimits ==
  ASSUME LInv, [Next]_vars
  PROVE  LInv'
<1>1. CASE UNCHANGED vars
  BY <1>1, StepInv DEF vars, LInv, Held
<1>2. ASSUME NEW s \in Samples,
             Add(s) \/ AddRollFails(s) \/ AddCreateFails(s)
               \/ AddAppendFails(s) \/ AddTailFails(s)
      PROVE  LInv'
  BY <1>2, AddLimits, AddRollFailsLimits, AddCreateFailsLimits, AddAppendFailsLimits,
     AddTailFailsLimits
<1>3. CASE Close
  BY <1>3, CloseLimits
<1>4. CASE CloseFails \/ Crash
  <2>1. IInv'
    BY <1>4, CloseFailsInv, CrashInv DEF LInv
  <2> QED
    BY <1>4, <2>1, EmptyLimits DEF CloseFails, Crash, Dropped
<1>5. CASE Create
  <2>1. IInv'
    BY <1>5, CreateInv DEF LInv
  <2> QED
    BY <1>5, <2>1, EmptyLimits DEF LInv, Create
<1>6. CASE Done
  BY <1>1, <1>6 DEF Done
<1> QED
  BY <1>1, <1>2, <1>3, <1>4, <1>5, <1>6 DEF Next

LEMMA LimitsInvariant == Spec => []LInv
BY InitLimits, StepLimits, PTL DEF Spec

\* The rows a published manifest names are rows held.
LEMMA PublishedHeld ==
  ASSUME IInv
  PROVE  PublishedRows \subseteq Held(writer, parts)
<1>1. CASE Published
  BY <1>1 DEF IInv, PublishedFrom, Published, PublishedRows, RowsIn, Held
<1>2. CASE ~Published
  BY <1>2, EmptySeq DEF Published, NoManifest, PublishedRows, RowsIn
<1> QED BY <1>1, <1>2
-----------------------------------------------------------------------------
\* dataset.rs add and close: the id add returned is, once published, the row of the
\* sample it was returned for, and every sample add accepted is in the published
\* dataset, as long as no finish_shard of this writer has failed.
THEOREM AckedAlwaysHonoured == Spec => []AckedHonoured
<1>1. LInv => AckedHonoured
  <2> SUFFICES ASSUME LInv, Published, NEW a \in acked
               PROVE  /\ \A r \in PublishedRows : r.id = a[1] => r.key = a[2]
                      /\ stranded \/ a[1] < manifest.rows
    BY DEF AckedHonoured
  <2>1. \A r \in PublishedRows : r.id = a[1] => r.key = a[2]
    BY PublishedHeld DEF LInv, AckInv
  <2>2. ASSUME ~stranded PROVE a[1] < manifest.rows
    <3>1. status = "closed" /\ manifest.rows = writer.total
      BY DEF LInv, IInv, PublishedFrom, Published
    <3>2. writer.rows = <<>>
      BY <2>2, <3>1 DEF LInv, Waiting
    <3>3. writer.next = writer.total + Len(writer.rows) /\ writer.total \in Nat
      BY WriterFields DEF LInv, IInv, WriterInv, RowsContinue
    <3>4. Len(writer.rows) = 0
      BY <3>2, EmptySeq
    <3>5. writer.next = writer.total
      BY <3>3, <3>4
    <3> QED
      BY <3>1, <3>5 DEF LInv, AckInv
  <2> QED
    BY <2>1, <2>2
<1> QED
  BY LimitsInvariant, <1>1, PTL

\* ensure_shard and add's last lines: a sample over max_member_bytes shares its
\* shard with no other row, also when the finish that should follow it failed, and a
\* row joins a shard that holds another only while its blobs fit under
\* shard_bytes_target, whatever bytes failed appends left in the shard.
THEOREM LimitsAlwaysRespected == Spec => []LimitsRespected
<1>1. LInv => LimitsRespected
  BY PublishedHeld DEF LInv, LimitInv, Alone, Fits, LimitsRespected
<1> QED
  BY LimitsInvariant, <1>1, PTL
-----------------------------------------------------------------------------
(* Refinement of SampleLog.  Each id below next_id is the id of exactly one   *)
(* row held, so the log of the rows' contents is well defined and grows by    *)
(* one sample at a time.                                                      *)

Numbered(H, n) ==
  /\ \A k \in 0 .. n - 1 : \E r \in H : r.id = k
  /\ \A r, q \in H : r.id = q.id => r = q

\* What the rows H say was recorded, in the order of their ids.
KeyAt(H, k) == {r.key : r \in {q \in H : q.id = k}}
KeyLog(H, n) == [k \in 1 .. n |-> KeyAt(H, k - 1)]

RInv ==
  /\ LInv
  /\ ReadInv(writer, shards, parts)
  /\ Numbered(Held(writer, parts), writer.next)
  /\ status = "dead" => writer = Created

LEMMA KeyLogIsSeq ==
  ASSUME NEW H \in SUBSET Row, NEW n \in Nat
  PROVE  KeyLog(H, n) \in Seq(SUBSET Samples) /\ Len(KeyLog(H, n)) = n
<1>1. \A k : KeyAt(H, k) \in SUBSET Samples
  BY DEF KeyAt, Row
<1>2. KeyLog(H, n) \in [1 .. n -> SUBSET Samples]
  BY <1>1 DEF KeyLog
<1>3. KeyLog(H, n) \in Seq(SUBSET Samples)
  BY <1>2, SeqDef
<1>4. Len(KeyLog(H, n)) \in Nat /\ 1 .. n = 1 .. Len(KeyLog(H, n))
  BY <1>2, <1>3, LenProperties
<1>5. Len(KeyLog(H, n)) = n
  BY <1>4
<1> QED
  BY <1>3, <1>5

\* The empty log of a writer that has recorded nothing.
LEMMA KeyLogEmpty ==
  ASSUME NEW H \in SUBSET Row
  PROVE  KeyLog(H, 0) = <<>>
<1>1. KeyLog(H, 0) \in Seq(SUBSET Samples) /\ Len(KeyLog(H, 0)) = 0
  BY KeyLogIsSeq
<1> QED
  BY <1>1, EmptySeq

LEMMA KeyLogPrefix ==
  ASSUME NEW H \in SUBSET Row, NEW n \in Nat, NEW m \in 0 .. n
  PROVE  KeyLog(H, m) = SubSeq(KeyLog(H, n), 1, m)
<1> DEFINE a == KeyLog(H, n)
           b == KeyLog(H, m)
           c == SubSeq(a, 1, m)
<1>1. /\ a \in Seq(SUBSET Samples) /\ Len(a) = n
      /\ b \in Seq(SUBSET Samples) /\ Len(b) = m
  BY KeyLogIsSeq
<1>2. \A i \in 1 .. m : b[i] = a[i]
  BY DEF KeyLog
<1> HIDE DEF a, b, c
<1>3. \A i \in 1 .. m : a[i] \in SUBSET Samples
  BY <1>1, ElementOfSeq
<1>4. /\ c \in Seq(SUBSET Samples)
      /\ Len(c) = IF 1 <= m THEN m - 1 + 1 ELSE 0
      /\ \A i \in 1 .. m - 1 + 1 : c[i] = a[1 + i - 1]
  BY <1>3, SubSeqProperties DEF c
<1>5. Len(c) = m /\ \A i \in 1 .. m : c[i] = a[i]
  BY <1>4
<1>6. b = c
  BY <1>1, <1>2, <1>4, <1>5, SeqEqual
<1> QED
  BY <1>6 DEF a, b, c

LEMMA CreatedNumbered ==
  ASSUME NEW p
  PROVE  Numbered(Held(Created, p), Created.next)
<1>1. Held(Created, p) = {} /\ Created.next = 0
  BY HeldCreated DEF Created
<1> HIDE DEF Created
<1> QED
  BY <1>1 DEF Numbered

LEMMA OneMoreNumbered ==
  ASSUME NEW H \in SUBSET Row, NEW n \in Nat, Numbered(H, n),
         NEW r \in Row, r.id = n, \A q \in H : q.id < n
  PROVE  /\ Numbered(H \cup {r}, n + 1)
         /\ KeyLog(H \cup {r}, n + 1) = Append(KeyLog(H, n), {r.key})
<1>0. ASSUME NEW q \in H PROVE q.id # n
  <2>1. q.id < n
    OBVIOUS
  <2> QED BY <2>1
<1>1. Numbered(H \cup {r}, n + 1)
  <2>1. ASSUME NEW k \in 0 .. (n + 1) - 1
        PROVE  \E q \in H \cup {r} : q.id = k
    <3>1. CASE k = n
      BY <3>1
    <3>2. CASE k # n
      <4>1. k \in 0 .. n - 1
        BY <3>2
      <4> QED
        BY <4>1 DEF Numbered
    <3> QED BY <3>1, <3>2
  <2>2. ASSUME NEW x \in H \cup {r}, NEW y \in H \cup {r}, x.id = y.id
        PROVE  x = y
    BY <1>0, <2>2 DEF Numbered
  <2> QED
    BY <2>1, <2>2 DEF Numbered
<1> DEFINE G == H \cup {r}
           a == KeyLog(H, n)
           b == KeyLog(G, n + 1)
           c == Append(a, {r.key})
<1>2. ASSUME NEW k \in 1 .. n
      PROVE  b[k] = a[k]
  <2>1. k - 1 # n /\ k \in 1 .. n + 1
    OBVIOUS
  <2>2. {q \in G : q.id = k - 1} = {q \in H : q.id = k - 1}
    BY <2>1
  <2> QED
    BY <2>1, <2>2 DEF KeyLog, KeyAt
<1>3. b[n + 1] = {r.key}
  <2>1. (n + 1) - 1 = n /\ n + 1 \in 1 .. n + 1
    OBVIOUS
  <2>2. {q \in G : q.id = n} = {r}
    BY <1>0, Zenon
  <2>3. {q.key : q \in {r}} = {r.key}
    OBVIOUS
  <2>4. KeyAt(G, n) = {r.key}
    BY <2>2, <2>3, Zenon DEF KeyAt
  <2>5. b[n + 1] = KeyAt(G, (n + 1) - 1)
    BY <2>1 DEF KeyLog
  <2> QED
    BY <2>1, <2>4, <2>5
<1>4. G \in SUBSET Row /\ {r.key} \in SUBSET Samples
  BY DEF Row
<1>5. /\ a \in Seq(SUBSET Samples) /\ Len(a) = n
      /\ b \in Seq(SUBSET Samples) /\ Len(b) = n + 1
  BY <1>4, KeyLogIsSeq
<1> HIDE DEF G, a, b, c
<1>6. /\ c \in Seq(SUBSET Samples) /\ Len(c) = n + 1
      /\ c[n + 1] = {r.key} /\ \A k \in 1 .. n : c[k] = a[k]
  BY <1>4, <1>5, AppendProperties DEF c
<1>7. \A k \in 1 .. n + 1 : b[k] = c[k]
  <2>1. \A k \in 1 .. n + 1 : k = n + 1 \/ k \in 1 .. n
    OBVIOUS
  <2> QED
    BY <1>2, <1>3, <1>6, <2>1
<1>8. b = c
  BY <1>5, <1>6, <1>7, SeqEqual
<1> QED
  BY <1>1, <1>8 DEF G, a, b, c
-----------------------------------------------------------------------------
(* The refinement mapping, in terms of the rows held.                        *)

\* The rows a published dataset reads are those with an id below its rows.
LEMMA LiveIsHeld ==
  ASSUME RInv
  PROVE  /\ LiveRows \subseteq Held(writer, parts)
         /\ \A k \in 0 .. Recording - 1 : \E r \in LiveRows : r.id = k
         /\ Recording \in Nat /\ Recording <= writer.next
<1> DEFINE H == Held(writer, parts)
<1>1. /\ WriterInv(writer, parts) /\ Numbered(H, writer.next)
      /\ writer.rows \in Seq(Row) /\ Len(writer.rows) \in Nat
      /\ writer.total \in Nat /\ writer.next \in Nat
  BY WriterFields DEF RInv, LInv, IInv, WriterInv
<1>2. H = RowsIn(writer.dir) \cup RowsOf(writer.rows)
  BY DEF Held, RowsIn
<1> HIDE DEF H
<1>3. CASE Published
  <2>1. LiveRows = RowsIn(writer.dir) /\ Recording = writer.total
    BY <1>3 DEF LiveRows, Recording, PublishedRows, RInv, LInv, IInv, PublishedFrom, Published
  <2>2. writer.next = writer.total + Len(writer.rows)
    BY <1>1 DEF WriterInv, RowsContinue
  <2>3. ASSUME NEW k \in 0 .. writer.total - 1
        PROVE  \E r \in RowsIn(writer.dir) : r.id = k
    <3>1. k \in 0 .. writer.next - 1
      BY <1>1, <2>2
    <3>2. PICK r \in H : r.id = k
      BY <3>1, <1>1 DEF Numbered
    <3>3. ASSUME NEW i \in 1 .. Len(writer.rows)
          PROVE  writer.rows[i].id # k
      <4>1. writer.rows[i].id = writer.total + i - 1
        BY <1>1 DEF WriterInv, RowsContinue
      <4> QED
        BY <4>1, <1>1
    <3>4. r \notin RowsOf(writer.rows)
      BY <3>2, <3>3 DEF RowsOf
    <3> QED
      BY <3>2, <3>4, <1>2
  <2>4. writer.total <= writer.next
    BY <1>1, <2>2
  <2> QED
    BY <1>1, <1>2, <2>1, <2>3, <2>4 DEF H
<1>4. CASE ~Published
  <2>1. LiveRows = H /\ Recording = writer.next
    BY <1>2, <1>4 DEF LiveRows, Recording
  <2> QED
    BY <1>1, <2>1 DEF Numbered, H
<1> QED BY <1>3, <1>4

\* A row that is held reads back its own sample.
LEMMA ContentIsKey ==
  ASSUME RInv, NEW r \in Held(writer, parts)
  PROVE  Content(r) = {r.key}
<1>1. /\ r \in Row /\ Extent[r.key] \in Nat
  BY WriterAssumption DEF RInv, LInv, LimitInv, Row
<1>2. RowGood(r, writer, shards)
  BY DEF RInv, ReadInv, Held, RowsOf
<1>3. CASE Extent[r.key] = 0
  BY <1>3 DEF Content
<1>4. CASE Extent[r.key] > 0
  BY <1>2, <1>4 DEF Content, Bytes, RowGood, Reads
<1> QED
  BY <1>1, <1>3, <1>4

LEMMA LogIsKeys ==
  ASSUME RInv, status # "dead"
  PROVE  LogBar = KeyLog(Held(writer, parts), Recording)
<1> DEFINE H == Held(writer, parts)
<1>1. ASSUME NEW k \in 1 .. Recording
      PROVE  Content(RowOf(k - 1)) = KeyAt(H, k - 1)
  <2>1. k - 1 \in 0 .. Recording - 1
    BY LiveIsHeld
  <2>2. PICK q \in LiveRows : q.id = k - 1
    BY <2>1, LiveIsHeld
  <2> DEFINE r == RowOf(k - 1)
  <2>3. r \in LiveRows /\ r.id = k - 1
    BY <2>2 DEF RowOf
  <2>4. r \in H
    BY <2>3, LiveIsHeld
  <2> HIDE DEF r
  <2>5. \A x \in H : x.id = k - 1 => x = r
    BY <2>3, <2>4 DEF RInv, Numbered
  <2> HIDE DEF H
  <2>6. {x \in H : x.id = k - 1} = {r}
    BY <2>3, <2>4, <2>5, Zenon
  <2>7. {x.key : x \in {r}} = {r.key}
    OBVIOUS
  <2>8. KeyAt(H, k - 1) = {r.key}
    BY <2>6, <2>7, Zenon DEF KeyAt
  <2>9. Content(r) = {r.key}
    BY <2>4, ContentIsKey DEF H
  <2> QED
    BY <2>8, <2>9 DEF r
<1> QED
  BY <1>1 DEF LogBar, KeyLog

\* While the writer is open, the log is what it has recorded; once published, the
\* first rows of that; and nothing when the writer is gone.
LogIs ==
  RInv =>
    /\ Published <=> status = "closed"
    /\ status = "open" => LogBar = KeyLog(Held(writer, parts), writer.next)
    /\ status = "closed" => LogBar = KeyLog(Held(writer, parts), writer.total)
    /\ status = "dead" => LogBar = <<>>

LEMMA LogAlways == LogIs
<1> SUFFICES ASSUME RInv
             PROVE  /\ Published <=> status = "closed"
                    /\ status = "open" => LogBar = KeyLog(Held(writer, parts), writer.next)
                    /\ status = "closed" => LogBar = KeyLog(Held(writer, parts), writer.total)
                    /\ status = "dead" => LogBar = <<>>
  BY DEF LogIs
<1>1. Published <=> status = "closed"
  <2>1. CASE status = "closed"
    <3>1. manifest.rows = writer.total /\ writer.total \in Nat
      BY <2>1, WriterFields DEF RInv, LInv, IInv, PublishedFrom, WriterInv
    <3>2. \A n \in Nat : n # -1
      OBVIOUS
    <3> QED
      BY <2>1, <3>1, <3>2 DEF Published, NoManifest
  <2>2. CASE status # "closed"
    BY <2>2 DEF RInv, LInv, IInv, PublishedFrom, Published
  <2> QED BY <2>1, <2>2
<1>2. status = "closed" => manifest.rows = writer.total
  BY DEF RInv, LInv, IInv, PublishedFrom
<1> QED
  BY <1>1, <1>2, LogIsKeys DEF Recording, LogBar

LEMMA LogNext == LogIs'
BY LogAlways, PTL
-----------------------------------------------------------------------------
(* Each step maps to a step of the log or to none.                           *)

LEMMA InitRefines ==
  ASSUME Init
  PROVE  RInv /\ Log!Init
<1>1. LInv /\ ReadInv(writer, shards, parts)
  BY InitLimits, InitReads
<1>2. RInv
  BY <1>1, CreatedNumbered DEF Init, RInv
<1>3. Held(writer, parts) = {} /\ writer.next = 0
  BY HeldCreated DEF Init, Created
<1>4. KeyLog({}, 0) = <<>>
  BY KeyLogEmpty
<1>5. LogBar = <<>> /\ ~Published
  BY <1>2, <1>3, <1>4, LogAlways DEF LogIs, Init
<1> QED
  BY <1>2, <1>5 DEF Log!Init

\* What the proofs below need of the invariant.
LEMMA HeldFacts ==
  ASSUME RInv
  PROVE  /\ LInv /\ ReadInv(writer, shards, parts)
         /\ Held(writer, parts) \in SUBSET Row
         /\ Numbered(Held(writer, parts), writer.next)
         /\ \A q \in Held(writer, parts) : q.id < writer.next
         /\ writer.next \in Nat /\ writer.total \in 0 .. writer.next
<1>1. /\ LInv /\ WriterInv(writer, parts) /\ writer.next \in Nat /\ writer.total \in Nat
      /\ Len(writer.rows) \in Nat
  BY WriterFields DEF RInv, LInv, IInv, WriterInv
<1>2. writer.total \in 0 .. writer.next
  BY <1>1 DEF WriterInv, RowsContinue
<1> QED
  BY <1>1, <1>2 DEF RInv, LInv, LimitInv, Below

\* An add that records its row appends one sample to the log.
LEMMA RowAppends ==
  ASSUME RInv, NEW s \in Samples, OneRow(s), LInv', ReadInv(writer, shards, parts)',
         status = "open", status' = "open"
  PROVE  RInv' /\ \E x \in {{t} : t \in Samples} : Log!Append1(x)
<1> DEFINE H == Held(writer, parts)
           n == writer.next
<1>1. PICK r \in Row : /\ r.id = n /\ r.key = s
                       /\ Held(writer', parts') = H \cup {r}
  BY DEF OneRow
<1>2. writer'.next = n + 1
  BY DEF OneRow
<1>3. /\ H \in SUBSET Row /\ Numbered(H, n) /\ n \in Nat /\ \A q \in H : q.id < n
  BY HeldFacts
<1> HIDE DEF H, n
<1>4. /\ Numbered(H \cup {r}, n + 1)
      /\ KeyLog(H \cup {r}, n + 1) = Append(KeyLog(H, n), {r.key})
  BY <1>1, <1>3, OneMoreNumbered
<1>5. RInv'
  BY <1>1, <1>2, <1>4 DEF RInv
<1>6. LogBar = KeyLog(H, n) /\ ~Published
  BY LogAlways DEF LogIs, H, n
<1>7. LogBar' = KeyLog(Held(writer', parts'), writer'.next) /\ ~Published'
  BY <1>5, LogNext DEF LogIs
<1>8. LogBar' = Append(LogBar, {s})
  BY <1>1, <1>2, <1>4, <1>6, <1>7
<1>9. Published' = Published
  <2>1. ~Published /\ ~Published'
    BY <1>6, <1>7
  <2> QED
    BY <2>1 DEF Published
<1>10. Log!Append1({s})
  BY <1>6, <1>8, <1>9 DEF Log!Append1
<1>11. {s} \in {{t} : t \in Samples}
  OBVIOUS
<1> QED
  BY <1>5, <1>10, <1>11

\* A call that records none leaves the log as it is.
LEMMA NoRowStutters ==
  ASSUME RInv, NoRow, LInv', ReadInv(writer, shards, parts)', status = "open", status' = "open"
  PROVE  RInv' /\ UNCHANGED Log!vars
<1>1. RInv'
  BY DEF RInv, NoRow
<1>2. LogBar' = LogBar
  BY <1>1, LogAlways, LogNext DEF LogIs, NoRow
<1>3. Published' = Published
  <2>1. ~Published /\ ~Published'
    BY <1>1, LogAlways, LogNext DEF LogIs
  <2> QED
    BY <2>1 DEF Published
<1> QED
  BY <1>1, <1>2, <1>3 DEF Log!vars

\* close publishes the rows flushed, a prefix of the log.
LEMMA ClosePublishes ==
  ASSUME RInv, NoRow, LInv', ReadInv(writer, shards, parts)', status = "open", status' = "closed"
  PROVE  RInv' /\ Log!Publish
<1> DEFINE H == Held(writer, parts)
           n == writer.next
           m == writer'.total
<1>1. RInv'
  BY DEF RInv, NoRow
<1>2. /\ H \in SUBSET Row /\ n \in Nat
  BY HeldFacts
<1>3. m \in 0 .. n
  <2>1. writer' \in WriterType /\ WriterInv(writer', parts') /\ writer'.next = n
    BY <1>1 DEF RInv, LInv, IInv, WriterInv, NoRow
  <2>2. writer'.total \in Nat /\ Len(writer'.rows) \in Nat
    BY <2>1, WriterFields
  <2>3. writer'.next = writer'.total + Len(writer'.rows)
    BY <2>1 DEF WriterInv, RowsContinue
  <2> QED
    BY <2>1, <2>2, <2>3
<1>4. LogBar = KeyLog(H, n) /\ ~Published
  BY LogAlways DEF LogIs
<1>5. LogBar' = KeyLog(H, m) /\ Published'
  BY <1>1, LogNext DEF LogIs, NoRow
<1> HIDE DEF H, n, m
<1>6. KeyLog(H, m) = SubSeq(KeyLog(H, n), 1, m) /\ Len(KeyLog(H, n)) = n
  BY <1>2, <1>3, KeyLogPrefix, KeyLogIsSeq
<1>7. Published' = TRUE
  BY <1>5 DEF Published
<1> QED
  BY <1>1, <1>3, <1>4, <1>5, <1>6, <1>7 DEF Log!Publish

\* A writer that is gone, or starts again, has an empty log.
LEMMA EmptyRestarts ==
  ASSUME RInv, LInv', ReadInv(writer, shards, parts)', writer' = Created,
         \/ status = "open" /\ status' = "dead"
         \/ status = "dead" /\ status' = "open"
  PROVE  RInv' /\ [Log!Next]_(Log!vars)
<1>1. RInv'
  BY CreatedNumbered DEF RInv
<1>2. LogBar' = <<>>
  <2>1. CASE status' = "dead"
    BY <1>1, <2>1, LogNext DEF LogIs
  <2>2. CASE status' = "open"
    <3>1. Held(writer', parts') = {} /\ writer'.next = 0
      BY HeldCreated DEF Created
    <3>2. KeyLog({}, 0) = <<>>
      BY KeyLogEmpty
    <3> QED
      BY <1>1, <2>2, <3>1, <3>2, LogNext DEF LogIs
  <2> QED BY <2>1, <2>2
<1>3. ~Published /\ ~Published'
  BY <1>1, LogAlways, LogNext DEF LogIs
<1>4. Published' = Published
  BY <1>3 DEF Published
<1> QED
  BY <1>1, <1>2, <1>3, <1>4 DEF Log!Next, Log!Restart

LEMMA StepRefines ==
  ASSUME "torn" \notin Faults, RInv, [Next]_vars
  PROVE  RInv' /\ [Log!Next]_(Log!vars)
<1>1. LInv /\ LInv' /\ ReadInv(writer, shards, parts)'
  BY StepLimits, StepReads DEF RInv, LInv
<1>2. CASE UNCHANGED vars
  <2>1. RInv'
    BY <1>1, <1>2 DEF vars, RInv, Held
  <2>2. LogBar' = LogBar /\ Published' = Published
    BY <1>2 DEF vars, LogBar, Published, Recording, Content, Bytes, RowOf, LiveRows,
                PublishedRows, RowsIn
  <2> QED
    BY <2>1, <2>2 DEF Log!vars
<1>3. ASSUME NEW s \in Samples, Add(s) \/ AddTailFails(s)
      PROVE  RInv' /\ [Log!Next]_(Log!vars)
  <2>1. OneRow(s)
    BY <1>1, <1>3, AddLimits, AddTailFailsLimits
  <2>2. status = "open" /\ status' = "open"
    BY <1>3 DEF Add, AddTailFails, CanAdd
  <2> QED
    BY <1>1, <2>1, <2>2, RowAppends DEF Log!Next
<1>4. ASSUME NEW s \in Samples, AddRollFails(s) \/ AddCreateFails(s) \/ AddAppendFails(s)
      PROVE  RInv' /\ [Log!Next]_(Log!vars)
  <2>1. NoRow
    BY <1>1, <1>4, AddRollFailsLimits, AddCreateFailsLimits, AddAppendFailsLimits
  <2>2. status = "open" /\ status' = "open"
    BY <1>4 DEF AddRollFails, AddCreateFails, AddAppendFails, CanAdd
  <2> QED
    BY <1>1, <2>1, <2>2, NoRowStutters
<1>5. CASE Close
  <2>1. NoRow
    BY <1>1, <1>5, CloseLimits
  <2> QED
    BY <1>1, <1>5, <2>1, ClosePublishes DEF Close, Log!Next
<1>6. CASE CloseFails \/ Crash
  BY <1>1, <1>6, EmptyRestarts DEF CloseFails, Crash, Dropped
<1>7. CASE Create
  BY <1>1, <1>7, EmptyRestarts DEF Create
<1>8. CASE Done
  BY <1>2, <1>8 DEF Done
<1> QED
  BY <1>2, <1>3, <1>4, <1>5, <1>6, <1>7, <1>8 DEF Next

\* The base write path implements the abstract log: the samples it has recorded,
\* read back from the shards at the offsets in their rows, grow by one at a time,
\* are thrown away by a death before close, and close publishes a prefix of them.
THEOREM WriterRefinesLog ==
  ASSUME "torn" \notin Faults
  PROVE  Spec => RefinesLog
<1>1. Init => RInv /\ Log!Init
  BY InitRefines
<1>2. RInv /\ [Next]_vars => RInv' /\ [Log!Next]_(Log!vars)
  BY StepRefines
<1> QED
  BY <1>1, <1>2, PTL DEF Spec, RefinesLog, Log!Spec
=============================================================================
