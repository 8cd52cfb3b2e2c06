-------------------------- MODULE LayerFilesProofs --------------------------
(***************************************************************************)
(* What LayerWriter::add does to the shard files and to the rows that are  *)
(* in them, for one writer among any others: the facts the proofs about    *)
(* LocalMap and DistMap rest on.                                           *)
(***************************************************************************)
EXTENDS LayerFiles, SequenceTheorems, FiniteSetTheorems, WellFoundedInduction,
        NaturalsInduction, TLAPS

\* An index file that is missing or torn is not one that holds rows.
FilesDiffer == \A S : Absent \notin Seq(S) /\ Torn \notin Seq(S)

IsList(s) == \E S : s \in Seq(S)

\* The shard files a writer of the parts P may create.
NamesOf(P, M) == P \X (0 .. M - 1)

\* A list of rows that name shard files of N.
RowList(rows, N) == IsList(rows) /\ \A k \in 1 .. Len(rows) : rows[k].shard \in N

\* The LayerWriter of part p.
WriterOK(x, p, M) ==
  /\ \E S : x \in [part : {p}, rows : Seq(S), sid : -1 .. M - 1, open : BOOLEAN]
  /\ RowList(x.rows, NamesOf({p}, M))
  /\ x.open => x.sid >= 0

ShardsOK(d, N) == \E S : d \in [N -> Seq(S)]

\* The row reads back, and what x has still to write is not in its shard, or after it.
Below(r, x) == r.val # NoBlob /\ r.shard[1] = x.part => r.shard[2] <= x.sid
Good(r, d, x) == ReadsBack(r, d) /\ Below(r, x)
GoodRows(rows, d, x) == \A k \in 1 .. Len(rows) : Good(rows[k], d, x)
-----------------------------------------------------------------------------
\* The shard number after the last one of an index is above every row's.
LEMMA HighestExists ==
  ASSUME NEW N \in Nat, NEW T, T \subseteq 0 .. N - 1, T # {}
  PROVE  \E n \in T : \A m \in T : m <= n
<1> DEFINE D == {N - n : n \in T}
<1>1. D \subseteq Nat /\ D # {}
  OBVIOUS
<1>2. PICK x \in D : \A y \in D : ~(<<y, x>> \in OpToRel(<, Nat))
  BY <1>1, NatLessThanWellFounded, WFMin
<1>3. PICK n \in T : x = N - n
  BY <1>2
<1>4. ASSUME NEW m \in T PROVE m <= n
  <2>1. N - m \in D /\ N - m \in Nat /\ x \in Nat
    BY <1>1
  <2>2. ~(N - m < x)
    BY <1>2, <2>1 DEF OpToRel
  <2> QED
    BY <1>3, <2>2
<1> QED
  BY <1>4

LEMMA LastShardFacts ==
  ASSUME NEW P, NEW M \in Nat, NEW rows, RowList(rows, NamesOf(P, M))
  PROVE  /\ LastShard(rows) \in -1 .. M - 1
         /\ \A k \in 1 .. Len(rows) : rows[k].shard[2] <= LastShard(rows)
<1>1. \A k \in 1 .. Len(rows) : rows[k].shard[2] \in 0 .. M - 1
  BY DEF RowList, NamesOf
<1>2. CASE rows = <<>>
  BY <1>2, EmptySeq DEF LastShard
<1>3. CASE rows # <<>>
  <2> DEFINE T == ShardNumbers(rows)
  <2>1. T \subseteq 0 .. M - 1
    BY <1>1 DEF ShardNumbers
  <2>2. T # {}
    <3>1. 1 \in 1 .. Len(rows)
      BY <1>3, EmptySeq DEF RowList, IsList
    <3> QED
      BY <3>1 DEF ShardNumbers
  <2>3. \E n \in T : \A m \in T : m <= n
    BY <2>1, <2>2, HighestExists
  <2>4. LastShard(rows) \in T /\ \A m \in T : m <= LastShard(rows)
    BY <1>3, <2>3 DEF LastShard
  <2>5. LastShard(rows) \in 0 .. M - 1
    BY <2>1, <2>4
  <2> QED
    BY <2>4, <2>5 DEF ShardNumbers
<1> QED BY <1>2, <1>3

LEMMA AppendList ==
  ASSUME NEW rows, IsList(rows), NEW r
  PROVE  /\ IsList(Append(rows, r))
         /\ Len(rows) \in Nat /\ Len(Append(rows, r)) = Len(rows) + 1
         /\ Append(rows, r)[Len(rows) + 1] = r
         /\ \A k \in 1 .. Len(rows) : Append(rows, r)[k] = rows[k]
<1>1. PICK S : rows \in Seq(S)
  BY DEF IsList
<1>2. rows \in Seq(S \cup {r})
  BY <1>1, SeqMonotonic
<1>3. /\ Append(rows, r) \in Seq(S \cup {r})
      /\ Len(rows) \in Nat /\ Len(Append(rows, r)) = Len(rows) + 1
      /\ Append(rows, r)[Len(rows) + 1] = r
      /\ \A k \in 1 .. Len(rows) : Append(rows, r)[k] = rows[k]
  BY <1>2, AppendProperties, LenProperties
<1> QED
  BY <1>3 DEF IsList

\* open_internal: a writer of the rows of its file, past their shards.
LEMMA OpenedFacts ==
  ASSUME NEW M \in Nat, NEW p, NEW file, RowList(RowsIn(file), NamesOf({p}, M))
  PROVE  LET x == Opened(p, file)
         IN  /\ WriterOK(x, p, M) /\ x.rows = RowsIn(file)
             /\ \A k \in 1 .. Len(x.rows) : x.rows[k].shard[2] <= x.sid
<1> DEFINE x == Opened(p, file)
           rows == RowsIn(file)
<1>1. /\ LastShard(rows) \in -1 .. M - 1
      /\ \A k \in 1 .. Len(rows) : rows[k].shard[2] <= LastShard(rows)
  BY LastShardFacts
<1>2. x = [part |-> p, rows |-> rows, sid |-> LastShard(rows), open |-> FALSE]
  BY DEF Opened
<1>3. PICK S : rows \in Seq(S)
  BY DEF RowList, IsList
<1> HIDE DEF x
<1>4. x \in [part : {p}, rows : Seq(S), sid : -1 .. M - 1, open : BOOLEAN]
  BY <1>1, <1>2, <1>3
<1>5. x.rows = rows /\ x.sid = LastShard(rows) /\ ~x.open
  BY <1>2
<1>6. WriterOK(x, p, M)
  BY <1>4, <1>5 DEF WriterOK
<1> QED
  BY <1>1, <1>5, <1>6 DEF x

\* finish_shard, or dropping the writer
LEMMA ClosedFacts ==
  ASSUME NEW M, NEW p, NEW x, WriterOK(x, p, M)
  PROVE  LET y == [x EXCEPT !.open = FALSE]
         IN  WriterOK(y, p, M) /\ y.rows = x.rows /\ y.sid = x.sid /\ y.part = x.part
<1> DEFINE y == [x EXCEPT !.open = FALSE]
<1>1. PICK S : x \in [part : {p}, rows : Seq(S), sid : -1 .. M - 1, open : BOOLEAN]
  BY DEF WriterOK
<1>2. /\ y \in [part : {p}, rows : Seq(S), sid : -1 .. M - 1, open : BOOLEAN]
      /\ y.rows = x.rows /\ y.sid = x.sid /\ y.part = x.part /\ ~y.open
  BY <1>1
<1> HIDE DEF y
<1>3. WriterOK(y, p, M)
  BY <1>2 DEF WriterOK
<1> QED
  BY <1>2, <1>3 DEF y

\* ensure_shard: an open shard, no older one touched, and none but the new one emptied.
LEMMA EnsuredFacts ==
  ASSUME NEW M \in Nat, NEW P, NEW p \in P, NEW x, WriterOK(x, p, M),
         NEW d, ShardsOK(d, NamesOf(P, M)), x.sid + 1 < M
  PROVE  LET e == Ensured(x, d)
             c == EnsuredShards(x, d)
         IN  /\ WriterOK(e, p, M) /\ e.open /\ e.rows = x.rows /\ e.sid >= x.sid
             /\ e.sid \in Nat /\ e.part = p /\ ShardOf(e) \in NamesOf(P, M)
             /\ ShardsOK(c, NamesOf(P, M))
             /\ \A n \in NamesOf(P, M) : (n[1] = p => n[2] <= x.sid) => c[n] = d[n]
<1> DEFINE e == Ensured(x, d)
           c == EnsuredShards(x, d)
           N == NamesOf(P, M)
<1>1. PICK S : x \in [part : {p}, rows : Seq(S), sid : -1 .. M - 1, open : BOOLEAN]
  BY DEF WriterOK
<1>2. PICK T : d \in [N -> Seq(T)]
  BY DEF ShardsOK
<1>3. CASE NeedNew(x, d)
  <2>1. e = [x EXCEPT !.sid = x.sid + 1, !.open = TRUE] /\ c = [d EXCEPT ![<<x.part, x.sid + 1>>] = <<>>]
    BY <1>3 DEF Ensured, EnsuredShards
  <2>2. x.sid + 1 \in 0 .. M - 1
    BY <1>1
  <2>3. <<x.part, x.sid + 1>> \in N
    BY <1>1, <2>2 DEF NamesOf, N
  <2> HIDE DEF e, c
  <2>4. /\ e \in [part : {p}, rows : Seq(S), sid : -1 .. M - 1, open : BOOLEAN]
        /\ e.open /\ e.rows = x.rows /\ e.sid = x.sid + 1 /\ e.part = p
    <3>1. e = [part |-> p, rows |-> x.rows, sid |-> x.sid + 1, open |-> TRUE]
      BY <1>1, <2>1
    <3>2. x.rows \in Seq(S) /\ x.sid + 1 \in -1 .. M - 1
      BY <1>1, <2>2
    <3> QED
      BY <3>1, <3>2
  <2>5. WriterOK(e, p, M)
    BY <2>2, <2>4 DEF WriterOK
  <2>6. c \in [N -> Seq(T)]
    BY <1>2, <2>1, EmptySeq
  <2>7. \A n \in N : (n[1] = p => n[2] <= x.sid) => c[n] = d[n]
    <3>1. \A n \in N : (n[1] = p => n[2] <= x.sid) => n # <<x.part, x.sid + 1>>
      BY <1>1, <2>2 DEF NamesOf, N
    <3> QED
      BY <1>2, <2>1, <3>1
  <2>8. ShardOf(e) \in N
    BY <1>1, <2>3, <2>4 DEF ShardOf
  <2>9. e.sid >= x.sid /\ e.sid \in Nat
    BY <1>1, <2>2, <2>4
  <2> QED
    BY <2>4, <2>5, <2>6, <2>7, <2>8, <2>9 DEF ShardsOK, e, c
<1>4. CASE ~NeedNew(x, d)
  <2>1. e = x /\ c = d /\ x.open
    BY <1>4 DEF Ensured, EnsuredShards, NeedNew
  <2>2. x.sid \in 0 .. M - 1 /\ x.part = p
    BY <1>1, <2>1 DEF WriterOK
  <2>3. ShardOf(x) \in N
    BY <2>2 DEF ShardOf, NamesOf, N
  <2> QED
    BY <2>1, <2>2, <2>3
<1> QED BY <1>3, <1>4

\* add: one row more, which reads back, and every other row still does.
LEMMA AddedFacts ==
  ASSUME NEW M \in Nat, NEW P, NEW p \in P, NEW x, WriterOK(x, p, M),
         NEW d, ShardsOK(d, NamesOf(P, M)), x.sid + 1 < M,
         NEW s, NEW v
  PROVE  LET y == Added(x, d, s, v)
             c == AddedShards(x, d, s, v)
         IN  /\ WriterOK(y, p, M) /\ ShardsOK(c, NamesOf(P, M))
             /\ \E r : /\ y.rows = Append(x.rows, r)
                      /\ r.shard \in NamesOf({p}, M) /\ Good(r, c, y)
                      /\ r.id = s /\ r.val = v /\ r.at \in Nat
             /\ \A q : q.shard \in NamesOf(P, M) /\ Good(q, d, x) => Good(q, c, y)
<1> DEFINE y == Added(x, d, s, v)
           c == AddedShards(x, d, s, v)
           N == NamesOf(P, M)
           L == NamesOf({p}, M)
<1>1. PICK S : x \in [part : {p}, rows : Seq(S), sid : -1 .. M - 1, open : BOOLEAN]
  BY DEF WriterOK
<1>2. IsList(x.rows) /\ \A k \in 1 .. Len(x.rows) : x.rows[k].shard \in L
  BY DEF WriterOK, RowList
<1>3. ASSUME NEW z, NEW r, r.shard \in L, NEW n \in -1 .. M - 1,
             NEW o \in BOOLEAN, o => n >= 0,
             z = [part |-> p, rows |-> Append(x.rows, r), sid |-> n, open |-> o]
      PROVE  WriterOK(z, p, M)
  <2>1. PICK T : Append(x.rows, r) \in Seq(T)
    BY <1>2, AppendList DEF IsList
  <2>2. z \in [part : {p}, rows : Seq(T), sid : -1 .. M - 1, open : BOOLEAN]
    BY <1>3, <2>1
  <2> HIDE DEF L
  <2>3. RowList(Append(x.rows, r), L)
    <3>1. ASSUME NEW k \in 1 .. Len(Append(x.rows, r))
          PROVE  Append(x.rows, r)[k].shard \in L
      <4>1. k = Len(x.rows) + 1 \/ k \in 1 .. Len(x.rows)
        BY <1>2, AppendList
      <4> QED
        BY <1>2, <1>3, <4>1, AppendList
    <3> QED
      BY <1>2, <3>1, AppendList DEF RowList
  <2> QED
    BY <1>3, <2>2, <2>3 DEF WriterOK, L
<1>4. CASE v = NoBlob
  <2> DEFINE r == Row(x, s, 0, v)
  <2>1. y = [x EXCEPT !.rows = Append(x.rows, r)] /\ c = d
    BY <1>4 DEF Added, AddedShards
  <2>2. r.shard \in L /\ r.val = NoBlob /\ r.id = s /\ r.val = v /\ r.at \in Nat
    BY <1>1, <1>4 DEF Row, NamesOf
  <2> HIDE DEF r, y, c
  <2>3. y = [part |-> p, rows |-> Append(x.rows, r), sid |-> x.sid, open |-> x.open]
    BY <1>1, <2>1
  <2>4. WriterOK(y, p, M)
    <3>1. x.sid \in -1 .. M - 1 /\ x.open \in BOOLEAN /\ (x.open => x.sid >= 0)
      BY <1>1 DEF WriterOK
    <3> QED
      BY <1>3, <2>2, <2>3, <3>1
  <2>5. Good(r, c, y)
    BY <2>2 DEF Good, Below, ReadsBack
  <2>6. y.rows = Append(x.rows, r) /\ y.sid = x.sid /\ y.part = x.part
    BY <1>1, <2>3
  <2>7. \A q : Good(q, d, x) => Good(q, c, y)
    BY <2>1, <2>6 DEF Good, Below
  <2> QED
    BY <2>1, <2>2, <2>4, <2>5, <2>6, <2>7 DEF y, c
<1>5. CASE v # NoBlob
  <2> DEFINE e == Ensured(x, d)
             b == EnsuredShards(x, d)
             at == Len(b[ShardOf(e)]) + 1
             r == Row(e, s, at, v)
  <2>1. /\ y = [e EXCEPT !.rows = Append(e.rows, r)]
        /\ c = [b EXCEPT ![ShardOf(e)] = Append(b[ShardOf(e)], <<s, v>>)]
    BY <1>5 DEF Added, AddedShards
  <2>2. /\ WriterOK(e, p, M) /\ e.open /\ e.rows = x.rows /\ e.sid >= x.sid /\ e.sid \in Nat
        /\ e.part = p /\ ShardOf(e) \in N
        /\ ShardsOK(b, N)
        /\ \A n \in N : (n[1] = p => n[2] <= x.sid) => b[n] = d[n]
    BY EnsuredFacts
  <2>3. /\ r.shard = ShardOf(e) /\ r.at = at /\ r.val = v /\ r.id = s
        /\ ShardOf(e)[1] = p /\ ShardOf(e)[2] = e.sid /\ r.shard \in L
    BY <2>2 DEF Row, ShardOf, NamesOf
  <2>4. PICK T : b \in [N -> Seq(T)]
    BY <2>2 DEF ShardsOK
  <2> HIDE DEF e, b, r, y, c
  <2>5. PICK Q : e \in [part : {p}, rows : Seq(Q), sid : -1 .. M - 1, open : BOOLEAN]
    BY <2>2 DEF WriterOK
  <2>6. y = [part |-> p, rows |-> Append(x.rows, r), sid |-> e.sid, open |-> e.open]
    BY <2>1, <2>2, <2>5
  <2>7. WriterOK(y, p, M)
    <3>1. e.sid \in -1 .. M - 1 /\ e.open \in BOOLEAN /\ (e.open => e.sid >= 0)
      BY <2>2, <2>5
    <3> QED
      BY <1>3, <2>2, <2>3, <2>6, <3>1
  <2> DEFINE old == b[ShardOf(e)]
  <2>8. /\ IsList(old) /\ Len(old) \in Nat /\ at = Len(old) + 1
        /\ Len(Append(old, <<s, v>>)) = Len(old) + 1
        /\ Append(old, <<s, v>>)[Len(old) + 1] = <<s, v>>
        /\ \A k \in 1 .. Len(old) : Append(old, <<s, v>>)[k] = old[k]
    <3>1. IsList(old)
      BY <2>2, <2>4 DEF IsList
    <3> QED
      BY <3>1, AppendList
  <2>9. ShardsOK(c, N)
    <3> DEFINE U == T \cup {<<s, v>>}
    <3>1. \A n \in N : b[n] \in Seq(U)
      BY <2>4, SeqMonotonic
    <3>2. Append(old, <<s, v>>) \in Seq(U)
      BY <2>2, <3>1, AppendProperties
    <3> HIDE DEF U
    <3>3. c \in [N -> Seq(U)]
      BY <2>1, <2>2, <2>4, <3>1, <3>2
    <3> QED
      BY <3>3 DEF ShardsOK
  <2>10. /\ c[ShardOf(e)] = Append(old, <<s, v>>)
         /\ \A n \in N : n # ShardOf(e) => c[n] = b[n]
    BY <2>1, <2>2, <2>4
  <2>11. r.at \in Nat
    BY <2>3, <2>8
  <2> HIDE DEF old, at
  <2>12. Good(r, c, y)
    <3>1. at \in 1 .. Len(c[ShardOf(e)]) /\ c[ShardOf(e)][at] = <<s, v>>
      BY <2>8, <2>10
    <3>2. y.sid = e.sid
      BY <2>6
    <3> QED
      BY <2>2, <2>3, <3>1, <3>2 DEF Good, Below, ReadsBack
  <2>13. ASSUME NEW q, q.shard \in N, Good(q, d, x)
         PROVE  Good(q, c, y)
    <3>1. CASE q.val = NoBlob
      BY <3>1 DEF Good, Below, ReadsBack
    <3>2. CASE q.val # NoBlob
      <4>1. /\ q.shard[1] = p => q.shard[2] <= x.sid
            /\ q.at \in 1 .. Len(d[q.shard]) /\ d[q.shard][q.at] = <<q.id, q.val>>
        BY <1>1, <2>13, <3>2 DEF Good, Below, ReadsBack
      <4>2. b[q.shard] = d[q.shard]
        BY <2>2, <2>13, <4>1
      <4>3. q.at \in 1 .. Len(c[q.shard]) /\ c[q.shard][q.at] = d[q.shard][q.at]
        <5>1. CASE q.shard = ShardOf(e)
          <6>1. old = d[q.shard]
            BY <4>2, <5>1 DEF old
          <6> QED
            BY <2>8, <2>10, <4>1, <5>1, <6>1
        <5>2. CASE q.shard # ShardOf(e)
          BY <2>10, <2>13, <4>1, <4>2, <5>2
        <5> QED BY <5>1, <5>2
      <4>4. q.shard[1] = y.part => q.shard[2] <= y.sid
        <5>1. q.shard[2] \in Int /\ x.sid \in Int /\ y.sid = e.sid /\ y.part = p
          BY <1>1, <2>6, <2>13 DEF NamesOf, N
        <5> QED
          BY <2>2, <4>1, <5>1
      <4> QED
        BY <4>1, <4>3, <4>4 DEF Good, Below, ReadsBack
    <3> QED BY <3>1, <3>2
  <2>14. y.rows = Append(x.rows, r)
    BY <2>6
  <2> QED
    BY <2>2, <2>3, <2>7, <2>9, <2>11, <2>12, <2>13, <2>14 DEF y, c
<1> QED BY <1>4, <1>5
-----------------------------------------------------------------------------
\* The row a reader of the list sees for s: the last one with its id.
LEMMA VisibleFacts ==
  ASSUME NEW rows, IsList(rows), NEW s, s \in Ids(rows)
  PROVE  \E k \in 1 .. Len(rows) :
           /\ rows[k].id = s /\ Visible(rows, s) = rows[k]
           /\ \A j \in 1 .. Len(rows) : rows[j].id = s => j <= k
<1> DEFINE at == {k \in 1 .. Len(rows) : rows[k].id = s}
<1>1. Len(rows) \in Nat
  BY LenProperties DEF IsList
<1>2. at # {} /\ at \subseteq 0 .. (Len(rows) + 1) - 1 /\ Len(rows) + 1 \in Nat
  BY <1>1 DEF Ids
<1> DEFINE last == CHOOSE k \in at : \A j \in at : j <= k
<1>3. last \in at /\ \A j \in at : j <= last
  <2>1. \E k \in at : \A j \in at : j <= k
    BY <1>2, HighestExists
  <2> QED
    BY <2>1
<1>4. Visible(rows, s) = rows[last]
  BY DEF Visible
<1> QED
  BY <1>3, <1>4

\* A row added last is the visible one of its sample and hides no other sample.
LEMMA VisibleAppended ==
  ASSUME NEW rows, IsList(rows), NEW r, NEW s
  PROVE  /\ Ids(Append(rows, r)) = Ids(rows) \cup {r.id}
         /\ r.id = s => Visible(Append(rows, r), s) = r
         /\ r.id # s /\ s \in Ids(rows) => Visible(Append(rows, r), s) = Visible(rows, s)
<1> DEFINE more == Append(rows, r)
<1>1. /\ IsList(more)
      /\ Len(rows) \in Nat /\ Len(more) = Len(rows) + 1
      /\ more[Len(rows) + 1] = r
      /\ \A k \in 1 .. Len(rows) : more[k] = rows[k]
  BY AppendList
<1> HIDE DEF more
<1>2. 1 .. Len(more) = (1 .. Len(rows)) \cup {Len(rows) + 1}
  BY <1>1
<1>3. Ids(more) = Ids(rows) \cup {r.id}
  <2>1. Ids(more) = {more[k].id : k \in 1 .. Len(rows)} \cup {more[Len(rows) + 1].id}
    BY <1>2 DEF Ids
  <2>2. {more[k].id : k \in 1 .. Len(rows)} = {rows[k].id : k \in 1 .. Len(rows)}
    BY <1>1
  <2> QED
    BY <1>1, <2>1, <2>2 DEF Ids
<1>4. ASSUME r.id = s PROVE Visible(more, s) = r
  <2>1. s \in Ids(more)
    BY <1>3, <1>4
  <2>2. PICK k \in 1 .. Len(more) :
          /\ more[k].id = s /\ Visible(more, s) = more[k]
          /\ \A j \in 1 .. Len(more) : more[j].id = s => j <= k
    BY <1>1, <2>1, VisibleFacts
  <2>3. Len(rows) + 1 <= k
    BY <1>1, <1>2, <1>4, <2>2
  <2>4. k = Len(rows) + 1
    BY <1>1, <2>2, <2>3
  <2> QED
    BY <1>1, <2>2, <2>4
<1>5. ASSUME r.id # s, s \in Ids(rows) PROVE Visible(more, s) = Visible(rows, s)
  <2>1. PICK k \in 1 .. Len(rows) :
          /\ rows[k].id = s /\ Visible(rows, s) = rows[k]
          /\ \A j \in 1 .. Len(rows) : rows[j].id = s => j <= k
    BY <1>5, VisibleFacts
  <2>2. PICK i \in 1 .. Len(more) :
          /\ more[i].id = s /\ Visible(more, s) = more[i]
          /\ \A j \in 1 .. Len(more) : more[j].id = s => j <= i
    BY <1>1, <1>3, <1>5, VisibleFacts
  <2>3. i \in 1 .. Len(rows)
    BY <1>1, <1>2, <1>5, <2>2
  <2>4. i <= k
    BY <1>1, <2>1, <2>2, <2>3
  <2>5. k <= i
    BY <1>1, <1>2, <2>1, <2>2
  <2>6. i = k
    BY <1>1, <2>3, <2>4, <2>5
  <2> QED
    BY <1>1, <2>1, <2>2, <2>3, <2>6
<1> QED
  BY <1>3, <1>4, <1>5 DEF more
=============================================================================
