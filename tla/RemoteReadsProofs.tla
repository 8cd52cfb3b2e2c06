------------------------- MODULE RemoteReadsProofs -------------------------
(***************************************************************************)
(* For any number of threads, processes, shards, calls and failures: the   *)
(* LRU of decoded index shards stays consistent and bounded although the   *)
(* lock is released between a miss and the insertion of what was loaded; a *)
(* call answers with the bytes of the samples it was asked for, or with    *)
(* the store's error, unless two threads were writing an entry it goes     *)
(* through; and an entry nobody writes any more is whole unless a writer   *)
(* of a raced one did not finish.                                          *)
(*                                                                         *)
(* The invariant RInv says three things at once: what the place of a       *)
(* thread in its call says of what it has in hand (TInv), that cached rows *)
(* are those of their shard (LruRows), and who vouches for the files of a  *)
(* key (KeyInv): a file that is not whole is covered by a thread that      *)
(* truncated it and has written every piece since.                         *)
(***************************************************************************)
EXTENDS RemoteReads, FiniteSetTheorems, SequenceTheorems, WellFoundedInduction,
        NaturalsInduction, TLAPS

Elems(s) == {s[i] : i \in 1 .. Len(s)}
Distinct(s) == \A i, j \in 1 .. Len(s) : s[i] = s[j] => i = j

\* A cache as the code can have it: besides LruAgrees, that order is a sequence
\* and nothing but map and order is kept.
GoodLru(c) ==
  /\ c = [map |-> c.map, order |-> c.order]
  /\ c.order \in Seq(Cached(c))
  /\ Agrees(c)

LInv ==
  /\ lru = [p \in Procs |-> lru[p]]
  /\ \A p \in Procs : GoodLru(lru[p])
-----------------------------------------------------------------------------
(* The recency order.                                                        *)

LEMMA SeqFacts ==
  ASSUME NEW S, NEW s \in Seq(S)
  PROVE  /\ Len(s) \in Nat
         /\ s \in [1 .. Len(s) -> S]
         /\ Elems(s) \subseteq S
BY LenProperties DEF Elems

\* A sequence without repetitions is as long as the set of its elements.
LEMMA DistinctLen ==
  ASSUME NEW S, NEW s \in Seq(S), Distinct(s)
  PROVE  Cardinality(Elems(s)) = Len(s)
<1>1. Len(s) \in Nat /\ s \in [1 .. Len(s) -> S]
  BY SeqFacts
<1>2. s \in Bijection(1 .. Len(s), Elems(s))
  BY <1>1 DEF Bijection, Injection, Surjection, IsInjective, Elems, Distinct
<1> QED
  BY <1>1, <1>2, FS_CountingElements DEF ExistsBijection

\* Without its p-th element, a sequence without repetitions is one that holds
\* all the others.
LEMMA RemoveAtFacts ==
  ASSUME NEW S, NEW s \in Seq(S), Distinct(s), NEW p \in 1 .. Len(s)
  PROVE  /\ RemoveAt(s, p) \in Seq(S)
         /\ Len(RemoveAt(s, p)) = Len(s) - 1
         /\ Distinct(RemoveAt(s, p))
         /\ Elems(RemoveAt(s, p)) = Elems(s) \ {s[p]}
<1> DEFINE r == RemoveAt(s, p)
           at(i) == IF i < p THEN i ELSE i - 1
<1>1. Len(s) \in Nat /\ s \in [1 .. Len(s) -> S] /\ Len(s) - 1 \in Nat
  BY SeqFacts
<1>2. r \in [1 .. Len(s) - 1 -> S]
  BY <1>1 DEF RemoveAt
<1>3. r \in Seq(S) /\ Len(r) = Len(s) - 1
  <2>1. r \in Seq(S)
    BY <1>1, <1>2, SeqDef
  <2>2. Len(r) \in Nat /\ DOMAIN r = 1 .. Len(r)
    BY <2>1, LenProperties
  <2>3. 1 .. Len(r) = 1 .. Len(s) - 1
    BY <1>2, <2>2
  <2>4. \A m, n \in Nat : 1 .. m = 1 .. n => m = n
    OBVIOUS
  <2> QED
    BY <1>1, <2>1, <2>2, <2>3, <2>4
<1>4. \A j \in 1 .. Len(r) : r[j] = s[IF j < p THEN j ELSE j + 1]
  BY <1>1, <1>3 DEF RemoveAt
<1>5. Distinct(r)
  BY <1>1, <1>3, <1>4 DEF Distinct
<1>6. Elems(r) \subseteq Elems(s) \ {s[p]}
  BY <1>1, <1>3, <1>4 DEF Elems, Distinct
<1>7. ASSUME NEW x \in Elems(s), x # s[p]
      PROVE  x \in Elems(r)
  <2>1. PICK i \in 1 .. Len(s) : s[i] = x
    BY DEF Elems
  <2>2. at(i) \in 1 .. Len(r) /\ r[at(i)] = x
    BY <1>1, <1>3, <1>4, <1>7, <2>1
  <2> QED
    BY <2>2 DEF Elems
<1> QED
  BY <1>3, <1>5, <1>6, <1>7

LEMMA AppendFacts ==
  ASSUME NEW S, NEW s \in Seq(S), Distinct(s), NEW x, x \notin Elems(s)
  PROVE  /\ Append(s, x) \in Seq(S \cup {x})
         /\ Len(Append(s, x)) = Len(s) + 1
         /\ Distinct(Append(s, x))
         /\ Elems(Append(s, x)) = Elems(s) \cup {x}
<1>0. s \in Seq(S \cup {x})
  BY SeqFacts, SeqDef
<1>1. Len(s) \in Nat /\ s \in [1 .. Len(s) -> S \cup {x}]
  BY <1>0, SeqFacts
<1>2. /\ Append(s, x) \in Seq(S \cup {x})
      /\ Len(Append(s, x)) = Len(s) + 1
      /\ \A i \in 1 .. Len(s) : Append(s, x)[i] = s[i]
      /\ Append(s, x)[Len(s) + 1] = x
  BY <1>0, AppendProperties
<1>3. Distinct(Append(s, x))
  BY <1>1, <1>2 DEF Distinct, Elems
<1>4. Elems(Append(s, x)) = Elems(s) \cup {x}
  BY <1>1, <1>2 DEF Elems
<1> QED
  BY <1>2, <1>3, <1>4

\* touch lists the shard once, and loses none of the others.
LEMMA TouchFacts ==
  ASSUME NEW S, NEW s \in Seq(S), Distinct(s), NEW k
  PROVE  /\ Touch(s, k) \in Seq(S \cup {k})
         /\ Distinct(Touch(s, k))
         /\ Elems(Touch(s, k)) = Elems(s) \cup {k}
         /\ Len(Touch(s, k)) = IF k \in Elems(s) THEN Len(s) ELSE Len(s) + 1
<1>1. CASE k \notin Elems(s)
  <2>1. Touch(s, k) = Append(s, k)
    BY <1>1 DEF Touch, Elems
  <2>2. /\ Append(s, k) \in Seq(S \cup {k}) /\ Len(Append(s, k)) = Len(s) + 1
        /\ Distinct(Append(s, k)) /\ Elems(Append(s, k)) = Elems(s) \cup {k}
    BY <1>1, AppendFacts
  <2> QED
    BY <1>1, <2>1, <2>2
<1>2. CASE k \in Elems(s)
  <2> DEFINE p == CHOOSE i \in 1 .. Len(s) : s[i] = k
             r == RemoveAt(s, p)
  <2>1. p \in 1 .. Len(s) /\ s[p] = k
    BY <1>2 DEF Elems
  <2>2. Touch(s, k) = Append(r, k)
    BY <1>2 DEF Touch, Elems
  <2> HIDE DEF p
  <2>3. /\ r \in Seq(S) /\ Len(r) = Len(s) - 1 /\ Distinct(r)
        /\ Elems(r) = Elems(s) \ {k}
    BY <2>1, RemoveAtFacts
  <2> HIDE DEF r
  <2>4. /\ Append(r, k) \in Seq(S \cup {k}) /\ Len(Append(r, k)) = Len(r) + 1
        /\ Distinct(Append(r, k)) /\ Elems(Append(r, k)) = Elems(r) \cup {k}
    BY <2>3, AppendFacts
  <2>5. Len(s) \in Nat
    BY SeqFacts
  <2> QED
    BY <1>2, <2>2, <2>3, <2>4, <2>5
<1> QED
  BY <1>1, <1>2
-----------------------------------------------------------------------------
(* The operations of the cache.                                              *)

LEMMA GoodFacts ==
  ASSUME NEW c, GoodLru(c)
  PROVE  /\ c.order \in Seq(Cached(c)) /\ Len(c.order) \in Nat /\ Len(c.order) <= Cap
         /\ Distinct(c.order) /\ Elems(c.order) = Cached(c)
         /\ Cardinality(Cached(c)) = Len(c.order)
<1>1. /\ c.order \in Seq(Cached(c)) /\ Distinct(c.order) /\ Elems(c.order) = Cached(c)
      /\ Len(c.order) <= Cap
  BY DEF GoodLru, Agrees, Distinct, Elems
<1>2. Cardinality(Elems(c.order)) = Len(c.order)
  BY <1>1, DistinctLen
<1> QED
  BY <1>1, <1>2, SeqFacts

LEMMA MakesGood ==
  ASSUME NEW c, c = [map |-> c.map, order |-> c.order], c.order \in Seq(Cached(c)),
         Len(c.order) <= Cap, Distinct(c.order), Elems(c.order) = Cached(c)
  PROVE  GoodLru(c)
BY DEF GoodLru, Agrees, Distinct, Elems

LEMMA TouchedOrder ==
  ASSUME NEW c, GoodLru(c), NEW k
  PROVE  /\ Touch(c.order, k) \in Seq(Cached(c) \cup {k}) /\ Distinct(Touch(c.order, k))
         /\ Elems(Touch(c.order, k)) = Cached(c) \cup {k}
         /\ Len(Touch(c.order, k)) = IF k \in Cached(c) THEN Len(c.order) ELSE Len(c.order) + 1
<1> DEFINE s == c.order
<1>1. s \in Seq(Cached(c)) /\ Distinct(s) /\ Elems(s) = Cached(c)
  BY GoodFacts
<1> HIDE DEF s
<1>2. /\ Touch(s, k) \in Seq(Cached(c) \cup {k}) /\ Distinct(Touch(s, k))
      /\ Elems(Touch(s, k)) = Elems(s) \cup {k}
      /\ Len(Touch(s, k)) = IF k \in Elems(s) THEN Len(s) ELSE Len(s) + 1
  BY <1>1, TouchFacts
<1> QED
  BY <1>1, <1>2 DEF s

LEMMA EmptyIsGood == GoodLru(EmptyLru)
<1>1. EmptyLru.order = <<>> /\ EmptyLru.map = <<>>
  BY DEF EmptyLru
<1>2. Len(<<>>) = 0 /\ DOMAIN <<>> = {} /\ <<>> \in Seq({})
  BY EmptySeq
<1> QED
  BY <1>1, <1>2, CapAssumption DEF EmptyLru, GoodLru, Agrees, Cached

LEMMA UsedIsGood ==
  ASSUME NEW c, GoodLru(c), NEW k \in Cached(c)
  PROVE  GoodLru(Used(c, k))
<1> DEFINE d == Used(c, k)
<1>1. d.order = Touch(c.order, k) /\ d.map = c.map /\ d = [map |-> d.map, order |-> d.order]
  BY DEF Used, GoodLru
<1>2. Cached(d) = Cached(c) /\ Cached(c) \cup {k} = Cached(c)
  BY <1>1 DEF Cached
<1> HIDE DEF d
<1>3. /\ d.order \in Seq(Cached(d)) /\ Distinct(d.order)
      /\ Elems(d.order) = Cached(d) /\ Len(d.order) = Len(c.order)
  <2> DEFINE K == Cached(c) \cup {k}
  <2>1. /\ d.order \in Seq(K) /\ Distinct(d.order) /\ Elems(d.order) = K
        /\ Len(d.order) = Len(c.order)
    BY <1>1, TouchedOrder
  <2>2. K = Cached(d)
    BY <1>2
  <2> QED
    BY <2>1, <2>2
<1>4. Len(c.order) <= Cap
  BY GoodFacts
<1>5. GoodLru(d)
  BY <1>1, <1>3, <1>4, MakesGood
<1> QED
  BY <1>5 DEF d

\* What Put adds fits if there is room for it.
LEMMA PutIsGood ==
  ASSUME NEW c, GoodLru(c), NEW k, NEW v,
         k \in Cached(c) \/ Len(c.order) < Cap
  PROVE  GoodLru(Put(c, k, v))
<1> DEFINE d == Put(c, k, v)
<1>1. d.order = Touch(c.order, k) /\ d = [map |-> d.map, order |-> d.order]
  BY DEF Put
<1>2. Cached(d) = Cached(c) \cup {k}
  BY DEF Put, Cached
<1> HIDE DEF d
<1>3. /\ d.order \in Seq(Cached(d)) /\ Distinct(d.order) /\ Elems(d.order) = Cached(d)
      /\ Len(d.order) = IF k \in Cached(c) THEN Len(c.order) ELSE Len(c.order) + 1
  BY <1>1, <1>2, TouchedOrder
<1>4. Len(d.order) <= Cap
  <2>1. Len(c.order) \in Nat /\ Len(c.order) <= Cap
    BY GoodFacts
  <2> QED
    BY <1>3, <2>1, CapAssumption
<1>5. GoodLru(d)
  BY <1>1, <1>3, <1>4, MakesGood
<1> QED
  BY <1>5 DEF d

\* Popping the least recently used shard makes room for one.
LEMMA PoppedIsGood ==
  ASSUME NEW c, GoodLru(c), c.order # <<>>
  PROVE  GoodLru(Popped(c)) /\ Len(Popped(c).order) < Cap
<1> DEFINE s == c.order  d == Popped(c)
<1>1. /\ s \in Seq(Cached(c)) /\ Len(s) \in Nat /\ Len(s) <= Cap
      /\ Distinct(s) /\ Elems(s) = Cached(c)
  BY GoodFacts DEF GoodLru, Agrees
<1>2. /\ d.order = Tail(s) /\ Cached(d) = Cached(c) \ {Head(s)}
      /\ d = [map |-> d.map, order |-> d.order]
  BY DEF Popped, Cached
<1> HIDE DEF d, s
<1>3. /\ Tail(s) \in Seq(Cached(c)) /\ Len(Tail(s)) = Len(s) - 1 /\ Head(s) = s[1]
      /\ Len(s) > 0 /\ \A i \in 1 .. Len(Tail(s)) : Tail(s)[i] = s[i + 1]
  <2>1. s # <<>>
    BY DEF s
  <2> QED
    BY <1>1, <2>1, HeadTailProperties, EmptySeq
<1>4. Distinct(Tail(s))
  BY <1>1, <1>3 DEF Distinct
<1>5. Elems(Tail(s)) = Cached(c) \ {Head(s)}
  <2>1. Elems(Tail(s)) \subseteq Elems(s) \ {Head(s)}
    BY <1>1, <1>3 DEF Elems, Distinct
  <2>2. ASSUME NEW x \in Elems(s), x # Head(s)
        PROVE  x \in Elems(Tail(s))
    <3>1. PICK i \in 1 .. Len(s) : s[i] = x
      BY DEF Elems
    <3>2. i - 1 \in 1 .. Len(Tail(s)) /\ Tail(s)[i - 1] = x
      BY <1>1, <1>3, <2>2, <3>1
    <3> QED
      BY <3>2 DEF Elems
  <2> QED
    BY <1>1, <2>1, <2>2
<1>6. Tail(s) \in Seq(Cached(d))
  <2>1. \A i \in 1 .. Len(Tail(s)) : Tail(s)[i] \in Cached(d)
    BY <1>2, <1>5 DEF Elems
  <2>2. Tail(s) \in [1 .. Len(Tail(s)) -> Cached(d)] /\ Len(Tail(s)) \in Nat
    BY <1>3, <2>1, LenProperties
  <2> QED
    BY <2>2, SeqDef
<1>7. Len(Tail(s)) < Cap
  BY <1>1, <1>3, CapAssumption
<1>8. GoodLru(d)
  BY <1>2, <1>4, <1>5, <1>6, <1>7, <1>3, <1>1, CapAssumption, MakesGood
<1> QED
  BY <1>2, <1>7, <1>8 DEF d, s

LEMMA InsertedIsGood ==
  ASSUME NEW c, GoodLru(c), NEW k, NEW v
  PROVE  GoodLru(Inserted(c, k, v))
<1>1. CASE Full(c, k)
  <2>1. GoodLru(Popped(c)) /\ Len(Popped(c).order) < Cap
    BY <1>1, PoppedIsGood DEF Full
  <2> QED
    BY <1>1, <2>1, PutIsGood DEF Inserted
<1>2. CASE ~Full(c, k)
  <2>1. k \in Cached(c) \/ Len(c.order) < Cap
    <3>1. c.order = <<>> => Len(c.order) = 0
      BY EmptySeq
    <3> QED
      BY <1>2, <3>1, GoodFacts, CapAssumption DEF Full
  <2> QED
    BY <1>2, <2>1, PutIsGood DEF Inserted
<1> QED
  BY <1>1, <1>2
-----------------------------------------------------------------------------
(* The system.                                                               *)

LEMMA InitGood == Init => LInv
BY EmptyIsGood DEF Init, LInv

\* Replacing one process's cache by a good one.
LEMMA ReplacedIsGood ==
  ASSUME LInv, NEW q, NEW d, q \in Procs => GoodLru(d),
         lru' = [lru EXCEPT ![q] = d]
  PROVE  LInv'
BY DEF LInv

LEMMA NextGood == LInv /\ [Next]_vars => LInv'
<1> SUFFICES ASSUME LInv, [Next]_vars
             PROVE  LInv'
  OBVIOUS
<1>1. ASSUME NEW t, Hit(t)
      PROVE  LInv'
  <2> DEFINE k == Locate(dir, Position(th[t])).shard
             d == Used(lru[proc[t]], k)
  <2>1. k \in Cached(lru[proc[t]]) /\ lru' = [lru EXCEPT ![proc[t]] = d]
    BY <1>1 DEF Hit
  <2>2. proc[t] \in Procs => GoodLru(d)
    BY <2>1, UsedIsGood DEF LInv
  <2> QED
    BY <2>1, <2>2, ReplacedIsGood
<1>2. ASSUME NEW t, Insert(t)
      PROVE  LInv'
  <2> DEFINE k == Locate(dir, Position(th[t])).shard
             d == Inserted(lru[proc[t]], k, RowsOf(dir, k))
  <2>1. CASE lru' = lru
    BY <2>1 DEF LInv
  <2>2. CASE lru' = [lru EXCEPT ![proc[t]] = d]
    <3>1. proc[t] \in Procs => GoodLru(d)
      BY InsertedIsGood DEF LInv
    <3> QED
      BY <2>2, <3>1, ReplacedIsGood
  <2>3. lru' = lru \/ lru' = [lru EXCEPT ![proc[t]] = d]
    BY <1>2 DEF Insert
  <2> QED
    BY <2>1, <2>2, <2>3
<1>3. ASSUME NEW p \in Procs, Crash(p)
      PROVE  LInv'
  <2>1. lru' = [lru EXCEPT ![p] = EmptyLru]
    BY <1>3 DEF Crash
  <2> QED
    BY <2>1, EmptyIsGood, ReplacedIsGood
<1>4. CASE UNCHANGED lru
  BY <1>4 DEF LInv
<1>5. ASSUME NEW t, Step(t)
      PROVE  UNCHANGED lru \/ Hit(t) \/ Insert(t)
  BY <1>5 DEF Step, NotFound, LoadShard, AskBlobs, TakeBlobs, Answer, Look, CreateTmp,
              WritePiece, Rename
<1>6. ASSUME NEW t, FetchFails(t) \/ WriteFails(t) \/ \E a \in Asks : Call(t, a)
      PROVE  UNCHANGED lru
  BY <1>6 DEF FetchFails, WriteFails, Call
<1>7. Rest \/ UNCHANGED vars => UNCHANGED lru
  BY DEF Rest, vars
<1> QED
  BY <1>1, <1>2, <1>3, <1>4, <1>5, <1>6, <1>7 DEF Next

\* LruAgrees, for every number of threads, processes, shards, calls and failures.
THEOREM LruStaysConsistent == Spec => []LruAgrees
<1>1. LInv => LruAgrees
  BY DEF LInv, LruAgrees, GoodLru
<1> QED
  BY <1>1, InitGood, NextGood, PTL DEF Spec
-----------------------------------------------------------------------------
(* The lazy index: prefix sums, and the shard of a position.                 *)

\* A set of naturals has a least element.
LEMMA LeastOf ==
  ASSUME NEW T, T \subseteq Nat, T # {}
  PROVE  \E n \in T : \A m \in T : n <= m
<1>1. PICK x \in T : \A y \in T : ~(<<y, x>> \in OpToRel(<, Nat))
  BY NatLessThanWellFounded, WFMin
<1>2. ASSUME NEW m \in T PROVE x <= m
  <2>1. ~(m < x)
    BY <1>1 DEF OpToRel
  <2> QED
    BY <2>1
<1> QED
  BY <1>2

\* The first n values of PrefixSum(d), which is defined by recursion.
IsPrefix(f, d, n) ==
  f = [k \in 1 .. n |-> IF k = 1 THEN 0 ELSE f[k - 1] + d[k - 1]]

LEMMA PrefixDefined ==
  ASSUME NEW d \in Seq(Nat \ {0})
  PROVE  IsPrefix(PrefixSum(d), d, Len(d) + 1)
<1>1. Len(d) \in Nat
  BY LenProperties
<1> DEFINE Bad == {n \in 1 .. Len(d) + 1 : ~ \E f : IsPrefix(f, d, n)}
<1>2. Bad = {}
  <2> SUFFICES ASSUME Bad # {} PROVE FALSE
    OBVIOUS
  <2>1. PICK n \in Bad : \A m \in Bad : n <= m
    <3>1. Bad \subseteq Nat
      BY <1>1
    <3> QED
      BY <3>1, LeastOf
  <2>2. CASE n = 1
    <3> DEFINE f == [k \in 1 .. 1 |-> 0]
    <3>1. IsPrefix(f, d, 1)
      BY DEF IsPrefix
    <3> QED
      BY <2>1, <2>2, <3>1
  <2>3. CASE n # 1
    <3>1. n - 1 \in 1 .. Len(d) + 1 /\ n \in Nat /\ ~(n <= n - 1)
      BY <1>1, <2>1, <2>3
    <3>2. n - 1 \notin Bad
      <4> HIDE DEF Bad
      <4> QED
        BY <2>1, <3>1
    <3>3. PICK f : IsPrefix(f, d, n - 1)
      BY <3>1, <3>2
    <3> DEFINE g == [k \in 1 .. n |-> IF k = 1 THEN 0 ELSE f[k - 1] + d[k - 1]]
    <3>4. \A k \in 1 .. n - 1 : g[k] = f[k]
      BY <3>1, <3>3 DEF IsPrefix
    <3>5. g = [k \in 1 .. n |-> IF k = 1 THEN 0 ELSE g[k - 1] + d[k - 1]]
      <4>1. n \in Nat
        BY <1>1, <2>1
      <4>2. ASSUME NEW k \in 1 .. n
            PROVE  (IF k = 1 THEN 0 ELSE f[k - 1] + d[k - 1]) = (IF k = 1 THEN 0 ELSE g[k - 1] + d[k - 1])
        <5>1. CASE k = 1
          BY <5>1
        <5>2. CASE k # 1
          <6>1. k - 1 \in 1 .. n - 1
            BY <4>1, <5>2
          <6>2. g[k - 1] = f[k - 1]
            BY <3>4, <6>1
          <6> HIDE DEF g
          <6> QED
            BY <5>2, <6>2
        <5> QED
          BY <5>1, <5>2
      <4> QED
        BY <4>2
    <3>6. IsPrefix(g, d, n)
      BY <3>5 DEF IsPrefix
    <3> QED
      BY <2>1, <3>6
  <2> QED
    BY <2>2, <2>3
<1>3. Len(d) + 1 \in 1 .. Len(d) + 1
  BY <1>1
<1>4. \E f : IsPrefix(f, d, Len(d) + 1)
  BY <1>2, <1>3
<1>5. PrefixSum(d) = CHOOSE f : IsPrefix(f, d, Len(d) + 1)
  BY DEF PrefixSum, IsPrefix
<1> QED
  BY <1>4, <1>5

LEMMA PrefixFacts ==
  ASSUME NEW d \in Seq(Nat \ {0})
  PROVE  /\ Len(d) \in Nat
         /\ PrefixSum(d)[1] = 0
         /\ \A k \in 1 .. Len(d) : d[k] \in Nat \ {0} /\ PrefixSum(d)[k + 1] = PrefixSum(d)[k] + d[k]
         /\ \A k \in 1 .. Len(d) + 1 : PrefixSum(d)[k] \in Nat
<1> DEFINE f == PrefixSum(d)
<1>1. Len(d) \in Nat /\ \A k \in 1 .. Len(d) : d[k] \in Nat \ {0}
  BY LenProperties
<1>2. \A k \in 1 .. Len(d) + 1 : f[k] = IF k = 1 THEN 0 ELSE f[k - 1] + d[k - 1]
  BY <1>1, PrefixDefined DEF IsPrefix
<1> HIDE DEF f
<1>3. f[1] = 0
  BY <1>1, <1>2
<1>4. \A k \in 1 .. Len(d) : f[k + 1] = f[k] + d[k]
  BY <1>1, <1>2
<1> DEFINE Bad == {k \in 1 .. Len(d) + 1 : f[k] \notin Nat}
<1>5. Bad = {}
  <2> SUFFICES ASSUME Bad # {} PROVE FALSE
    OBVIOUS
  <2>1. Bad \subseteq Nat
    BY <1>1
  <2>2. PICK n \in Bad : \A m \in Bad : n <= m
    BY <2>1, LeastOf
  <2>3. n # 1 /\ n - 1 \in 1 .. Len(d)
    BY <1>1, <1>3, <2>2
  <2>4. f[n - 1] \in Nat
    BY <1>1, <2>2, <2>3
  <2>5. f[n] = f[n - 1] + d[n - 1] /\ d[n - 1] \in Nat
    BY <1>1, <1>2, <2>2, <2>3
  <2> QED
    BY <2>2, <2>4, <2>5
<1> QED
  BY <1>1, <1>3, <1>4, <1>5 DEF f

LEMMA StepwiseAscends ==
  ASSUME NEW m \in Nat, NEW f, NEW i \in 1 .. m, NEW j \in 1 .. m, i < j,
         \A k \in 1 .. m : f[k] \in Nat,
         \A k \in 1 .. m : k + 1 \in 1 .. m => f[k] < f[k + 1]
  PROVE  f[i] < f[j]
<1> DEFINE Bad == {k \in 1 .. m : i < k /\ ~(f[i] < f[k])}
<1>1. Bad = {}
  <2> SUFFICES ASSUME Bad # {} PROVE FALSE
    OBVIOUS
  <2>1. Bad \subseteq Nat
    OBVIOUS
  <2>2. PICK n \in Bad : \A k \in Bad : n <= k
    BY <2>1, LeastOf
  <2>3. n \in 1 .. m /\ i < n /\ ~(f[i] < f[n])
    BY <2>2
  <2>4. PICK p \in 1 .. m : n = p + 1
    <3>1. n - 1 \in 1 .. m /\ n = (n - 1) + 1
      BY <2>3
    <3> QED
      BY <3>1
  <2>5. p # i
    BY <2>3, <2>4
  <2>6. i < p /\ p < n
    BY <2>3, <2>4, <2>5
  <2>7. p \notin Bad
    <3> HIDE DEF Bad
    <3>1. p \in Nat /\ n \in Nat /\ ~(n <= p)
      BY <2>3, <2>6
    <3> QED
      BY <2>2, <3>1
  <2>8. f[i] < f[p]
    BY <2>6, <2>7
  <2>9. f[p] < f[n]
    BY <2>3, <2>4
  <2> HIDE DEF Bad
  <2>10. f[i] \in Nat /\ f[p] \in Nat /\ f[n] \in Nat
    BY <2>3
  <2> QED
    BY <2>3, <2>8, <2>9, <2>10
<1> QED
  BY <1>1

LEMMA PrefixAscends ==
  ASSUME NEW d \in Seq(Nat \ {0}), NEW i \in 1 .. Len(d) + 1, NEW j \in 1 .. Len(d) + 1, i < j
  PROVE  PrefixSum(d)[i] < PrefixSum(d)[j]
<1> DEFINE f == PrefixSum(d)
           m == Len(d) + 1
<1>1. /\ Len(d) \in Nat
      /\ \A k \in 1 .. Len(d) : d[k] \in Nat \ {0} /\ f[k + 1] = f[k] + d[k]
      /\ \A k \in 1 .. m : f[k] \in Nat
  BY PrefixFacts
<1> HIDE DEF f
<1>2. ASSUME NEW k \in 1 .. m, k + 1 \in 1 .. m PROVE f[k] < f[k + 1]
  <2>1. k \in 1 .. Len(d)
    BY <1>1, <1>2
  <2>2. PICK x \in Nat, y \in Nat \ {0} : x = f[k] /\ y = d[k] /\ f[k + 1] = x + y
    BY <1>1, <1>2, <2>1
  <2>3. x < x + y
    OBVIOUS
  <2> QED
    BY <2>2, <2>3
<1>3. m \in Nat
  BY <1>1
<1> HIDE DEF m
<1>4. f[i] < f[j]
  <2>1. i \in 1 .. m /\ j \in 1 .. m
    BY DEF m
  <2> QED
    BY <1>1, <1>2, <1>3, <2>1, StepwiseAscends
<1> QED
  BY <1>4 DEF f

\* A row at or after the first one of a shard of y rows has a place in it.
LEMMA PlaceInShard ==
  ASSUME NEW x \in Nat, NEW y \in Nat, NEW i \in Nat, x <= i, i < x + y
  PROVE  i - x + 1 \in 1 .. y /\ x + (i - x + 1) - 1 = i
OBVIOUS

\* The shard that Locate names has the row, at the place it names: at a boundary,
\* at the last row and over one-row shards too.
THEOREM LocateFindsRow ==
  ASSUME NEW d \in Seq(Nat \ {0}), NEW i \in Nat, i < Total(d)
  PROVE  /\ Locate(d, i).shard \in 1 .. Len(d)
         /\ RowsOf(d, Locate(d, i).shard)[Locate(d, i).local] = i
<1> DEFINE f == PrefixSum(d)
           at == {k \in 1 .. Len(d) + 1 : f[k] = i}
           below == {k \in 1 .. Len(d) + 1 : f[k] < i}
           k == IF at # {} THEN CHOOSE j \in at : TRUE ELSE Cardinality(below)
<1>1. /\ Len(d) \in Nat /\ f[1] = 0
      /\ \A j \in 1 .. Len(d) : d[j] \in Nat \ {0} /\ f[j + 1] = f[j] + d[j]
      /\ \A j \in 1 .. Len(d) + 1 : f[j] \in Nat
      /\ \A j, m \in 1 .. Len(d) + 1 : j < m => f[j] < f[m]
  BY PrefixFacts, PrefixAscends
<1>2. Locate(d, i) = [shard |-> k, local |-> i - f[k] + 1]
  BY DEF Locate
<1>3. i < f[Len(d) + 1]
  BY DEF Total
<1>4. ASSUME k \in 1 .. Len(d), f[k] <= i, i < f[k] + d[k]
      PROVE  RowsOf(d, k)[i - f[k] + 1] = i
  <2> DEFINE l == i - f[k] + 1
  <2> HIDE DEF k
  <2>1. f[k] \in Nat /\ d[k] \in Nat
    BY <1>1, <1>4
  <2> HIDE DEF f
  <2>2. l \in 1 .. d[k] /\ f[k] + l - 1 = i
    <3>1. PICK x \in Nat, y \in Nat : x = f[k] /\ y = d[k] /\ x <= i /\ i < x + y
      BY <1>4, <2>1
    <3>2. i - x + 1 \in 1 .. y /\ x + (i - x + 1) - 1 = i
      BY <3>1, PlaceInShard
    <3> QED
      BY <3>1, <3>2
  <2>3. RowsOf(d, k) = [j \in 1 .. d[k] |-> f[k] + j - 1]
    BY DEF RowsOf, f
  <2> QED
    BY <2>2, <2>3
<1>5. CASE at # {}
  <2>1. k \in at
    BY <1>5
  <2> HIDE DEF k, f
  <2>2. k \in 1 .. Len(d) + 1 /\ f[k] = i
    BY <2>1
  <2>3. k \in 1 .. Len(d) /\ d[k] > 0
    BY <1>1, <1>3, <2>2
  <2>4. f[k] <= i /\ i < f[k] + d[k]
    BY <1>1, <2>2, <2>3
  <2> QED
    BY <1>2, <1>4, <2>3, <2>4
<1>6. CASE at = {}
  <2> DEFINE above == {j \in 1 .. Len(d) + 1 : i < f[j]}
  <2> HIDE DEF f
  <2>1. above \subseteq Nat /\ above # {}
    BY <1>1, <1>3
  <2>2. PICK m \in above : \A j \in above : m <= j
    BY <2>1, LeastOf
  <2>3. i # 0 /\ m # 1 /\ m \in 1 .. Len(d) + 1 /\ m - 1 \in 1 .. Len(d)
    BY <1>1, <1>6, <2>2
  <2>4. below = 1 .. m - 1
    <3>1. \A j \in 1 .. Len(d) + 1 : j < m => f[j] < i
      BY <1>1, <1>6, <2>2
    <3>2. ASSUME NEW j \in 1 .. Len(d) + 1, m <= j PROVE ~(f[j] < i)
      <4>1. i < f[m] /\ f[m] \in Nat /\ f[j] \in Nat /\ (m = j \/ m < j)
        BY <1>1, <2>2, <2>3, <3>2
      <4>2. m = j \/ f[m] < f[j]
        BY <1>1, <2>3, <4>1
      <4> QED
        BY <4>1, <4>2
    <3> QED
      BY <1>1, <2>3, <3>1, <3>2
  <2>5. Cardinality(1 .. m - 1) = m - 1
    BY <2>3, FS_Interval
  <2>6. k = m - 1
    BY <1>6, <2>4, <2>5
  <2>7. f[m - 1] < i /\ i < f[m] /\ f[(m - 1) + 1] = f[m - 1] + d[m - 1] /\ (m - 1) + 1 = m
    <3>1. m - 1 \in below
      BY <2>3, <2>4
    <3>2. f[(m - 1) + 1] = f[m - 1] + d[m - 1]
      BY <1>1, <2>3
    <3>3. (m - 1) + 1 = m
      BY <2>3
    <3> QED
      BY <2>2, <3>1, <3>2, <3>3
  <2>8. k \in 1 .. Len(d) /\ f[k] <= i /\ i < f[k] + d[k]
    <3>1. f[m - 1] \in Nat
      BY <1>1, <2>3
    <3>2. f[m - 1] <= i /\ i < f[m - 1] + d[m - 1]
      BY <2>7, <3>1
    <3> HIDE DEF k
    <3> QED
      BY <2>3, <2>6, <3>2
  <2> HIDE DEF k
  <2> QED
    BY <1>2, <1>4, <2>8 DEF f
<1> QED
  BY <1>5, <1>6
-----------------------------------------------------------------------------
(* A thread: what its place in the call says of what it has in hand.         *)

\* What a range can come back as, or Nothing.
Slots == Contents \cup {Nothing}

Kinds == {"none", "ok", "NotFound", "Corrupt", "Panic", "Unavailable"}

ThreadSet ==
  [ pc : Pcs, ask : Asks \cup {<<>>}, plan : Seq(Objects \cup {Nothing}), out : Seq(Slots),
    want : Seq(Objects), got : Seq(Slots), fd : Files \cup {NoFile}, n : 0 .. Chunks,
    res : [kind : Kinds, blobs : Seq(Slots)] ]

Filler == {"fetch", "create", "write", "rename"}

\* What the place in the call says of its other parts.
Shape(x) ==
  /\ x.pc # "idle" => x.ask \in Asks
  /\ Len(x.plan) = Len(x.out) /\ Len(x.plan) <= Len(x.ask)
  /\ (x.pc \in {"write", "rename"}) = (x.fd # NoFile)
  /\ x.pc \notin {"write", "rename"} => x.n = 0
  /\ x.pc = "write" => x.n < Chunks
  /\ x.pc = "rename" => x.n = Chunks
  /\ x.pc = "index" => Len(x.plan) < Len(x.ask)
  /\ x.pc = "blobs" => Len(x.plan) = Len(x.ask)
  /\ x.pc \in {"idle", "index", "blobs"} => x.want = <<>> /\ x.got = <<>>
  /\ x.pc = "look" => Len(x.got) < Len(x.want)
  /\ x.pc \in Filler \cup {"served"} => Len(x.want) > 0 /\ Len(x.got) = Len(x.want)
  /\ x.pc \in Filler => Missing(x) # {}
  /\ x.pc = "served" => Missing(x) = {}

TouchedIn(ask, d) ==
  {CacheKey(BlobOf(ask[p])) : p \in {q \in 1 .. Len(ask) : BlobOf(ask[q]) # Nothing}} \cup
  {CacheKey(IndexShard(Locate(d, ask[p]).shard)) : p \in {q \in 1 .. Len(ask) : ask[q] < Total(d)}}

\* Nobody raced for an entry the call goes through.
Clean(x, d, r) == r \cap TouchedIn(x.ask, d) = {}

\* The slots of a call are those of its positions, in order.
PlanOK(x, d, r) ==
  \A p \in 1 .. Len(x.plan) :
    /\ x.ask[p] < Total(d) /\ x.plan[p] = BlobOf(x.ask[p])
    /\ x.out[p] # Nothing => x.plan[p] # Nothing /\ (Clean(x, d, r) => x.out[p] = Whole(x.plan[p]))

\* It asks the cache for the index shard of its next position, or for blobs of its plan.
WantOK(x, d) ==
  \/ x.want = <<>>
  \/ /\ Len(x.plan) < Len(x.ask) /\ Position(x) < Total(d)
     /\ x.want = <<IndexShard(Locate(d, Position(x)).shard)>>
  \/ /\ Len(x.plan) = Len(x.ask)
     /\ \A j \in 1 .. Len(x.want) : \E p \in 1 .. Len(x.plan) : x.want[j] = x.plan[p]

GotOK(x, d, r) ==
  \A j \in 1 .. Len(x.got) : x.got[j] # Nothing /\ Clean(x, d, r) => x.got[j] = Whole(x.want[j])

ResOK(x, d, r) ==
  x.res.kind # "none" /\ Clean(x, d, r) =>
    \/ x.res.kind = "Unavailable" /\ "store" \in Faults
    \/ x.res.kind = "NotFound" /\ \E p \in 1 .. Len(x.ask) : x.ask[p] >= Total(d)
    \/ x.res.kind = "ok" /\ x.res.blobs = Right(x.ask)

Meaning(x, d, r) == PlanOK(x, d, r) /\ WantOK(x, d) /\ GotOK(x, d, r) /\ ResOK(x, d, r)

\* The invariant of one thread, over dataset d and the keys r raced for.
TInv(x, d, r) == x \in ThreadSet /\ Shape(x) /\ Meaning(x, d, r)
-----------------------------------------------------------------------------
LEMMA NothingFacts ==
  /\ Len(Nothing) = 0 /\ Nothing \notin Objects /\ Nothing \notin Contents
  /\ \A o \in Objects : Whole(o) \in Contents /\ Whole(o) # Nothing /\ ~Short(Whole(o))
<1>1. ASSUME NEW o \in Objects PROVE o # Nothing
  <2>1. \A a, b : <<a, b>> # <<>>
    OBVIOUS
  <2> QED
    BY <2>1 DEF Objects, IndexShard, Blob, Nothing
<1>2. Chunks \in Nat /\ 1 \in 1 .. Chunks /\ Chunks \in 1 .. Chunks
  BY ReadsAssumption
<1>3. Nothing \notin Contents
  BY <1>2 DEF Nothing, Contents
<1>4. Len(Nothing) = 0
  BY EmptySeq DEF Nothing
<1> QED
  BY <1>1, <1>2, <1>3, <1>4 DEF Whole, Contents, Short

LEMMA EmptySlots == <<>> \in Seq(Slots) /\ <<>> \in Seq(Objects) /\ <<>> \in Seq(Objects \cup {Nothing}) /\ Len(<<>>) = 0
BY EmptySeq

\* A position of a call, and where its blob is.
LEMMA BlobTyped ==
  ASSUME NEW ask \in Asks, NEW p \in 1 .. Len(ask)
  PROVE  ask[p] \in Nat /\ BlobOf(ask[p]) \in Objects \cup {Nothing}
<1>1. ask[p] \in Nat /\ ask[p] \in Positions
  BY LenProperties, ReadsAssumption DEF Positions
<1>2. Len(LayerHas) \in Nat
  BY LenProperties, ReadsAssumption
<1>3. \A s \in 0 .. Len(LayerHas) : Blob(s, ask[p]) \in Objects
  BY <1>1 DEF Objects
<1> QED
  BY <1>1, <1>2, <1>3 DEF BlobOf

LEMMA ShardTyped ==
  ASSUME NEW d \in Dirs, NEW i \in Nat, i < Total(d)
  PROVE  IndexShard(Locate(d, i).shard) \in Objects
<1>1. d \in Seq(Nat \ {0})
  BY ReadsAssumption
<1>2. Locate(d, i).shard \in 1 .. Len(d)
  BY <1>1, LocateFindsRow
<1> QED
  BY <1>2 DEF Objects

LEMMA Typed ==
  ASSUME NEW x \in ThreadSet
  PROVE  /\ x.pc \in Pcs /\ x.ask \in Asks \cup {<<>>} /\ x.ask \in Seq(Nat)
         /\ x.plan \in Seq(Objects \cup {Nothing}) /\ Len(x.plan) \in Nat
         /\ x.out \in Seq(Slots) /\ Len(x.out) \in Nat
         /\ x.want \in Seq(Objects) /\ Len(x.want) \in Nat
         /\ \A j \in 1 .. Len(x.want) : x.want[j] \in Objects
         /\ x.got \in Seq(Slots) /\ Len(x.got) \in Nat
         /\ \A j \in 1 .. Len(x.got) : x.got[j] \in Slots
         /\ x.fd \in Files \cup {NoFile} /\ x.n \in 0 .. Chunks
         /\ x.res \in [kind : Kinds, blobs : Seq(Slots)]
         /\ Len(x.ask) \in Nat
<1>1. x.ask \in Seq(Nat)
  <2>1. Asks \subseteq Seq(Nat)
    BY ReadsAssumption
  <2>2. <<>> \in Seq(Nat)
    OBVIOUS
  <2> QED
    BY <2>1, <2>2 DEF ThreadSet
<1> QED
  BY <1>1, LenProperties DEF ThreadSet

LEMMA CleanStays ==
  ASSUME NEW x, NEW d, NEW r, NEW q, r \subseteq q, TInv(x, d, r)
  PROVE  TInv(x, d, q)
BY DEF TInv, Meaning, PlanOK, GotOK, ResOK, Clean

\* What a call asks the cache for is among the keys it touches.
LEMMA WantTouched ==
  ASSUME NEW d \in Dirs, NEW x \in ThreadSet, x.ask \in Asks,
         \A p \in 1 .. Len(x.plan) : x.plan[p] = BlobOf(x.ask[p]),
         WantOK(x, d), Len(x.plan) <= Len(x.ask), NEW j \in 1 .. Len(x.want)
  PROVE  x.want[j] \in TouchedIn(x.ask, d) /\ x.want[j] \in Keys
<1>1. x.want[j] \in Objects /\ x.want # <<>> /\ Len(x.plan) \in Nat /\ Len(x.ask) \in Nat
  BY Typed, EmptySeq
<1>2. x.want[j] \in Keys
  BY <1>1 DEF Keys, CacheKey
<1>3. CASE Len(x.plan) < Len(x.ask) /\ Position(x) < Total(d)
           /\ x.want = <<IndexShard(Locate(d, Position(x)).shard)>>
  <2>1. Len(x.want) = 1 /\ x.want[j] = IndexShard(Locate(d, Position(x)).shard)
    BY <1>3
  <2>2. Len(x.plan) + 1 \in 1 .. Len(x.ask)
    BY <1>1, <1>3
  <2> QED
    BY <1>2, <1>3, <2>1, <2>2 DEF TouchedIn, CacheKey, Position
<1>4. CASE \E p \in 1 .. Len(x.plan) : x.want[j] = x.plan[p]
  <2>1. PICK p \in 1 .. Len(x.plan) : x.want[j] = x.plan[p]
    BY <1>4
  <2>2. p \in 1 .. Len(x.ask) /\ x.want[j] = BlobOf(x.ask[p])
    BY <1>1, <2>1
  <2>3. BlobOf(x.ask[p]) # Nothing
    BY <1>1, <2>2, NothingFacts
  <2> QED
    BY <1>2, <2>2, <2>3 DEF TouchedIn, CacheKey
<1> QED
  BY <1>1, <1>3, <1>4 DEF WantOK
-----------------------------------------------------------------------------
\* A thread that has returned.
Returned(ask, kind, blobs) ==
  [ pc |-> "idle", ask |-> ask, plan |-> <<>>, out |-> <<>>, want |-> <<>>, got |-> <<>>,
    fd |-> NoFile, n |-> 0, res |-> [kind |-> kind, blobs |-> blobs] ]

LEMMA IdleKeeps ==
  ASSUME NEW d, NEW r, NEW ask \in Asks \cup {<<>>}, NEW kind \in Kinds, NEW blobs \in Seq(Slots),
         NEW y, y = Returned(ask, kind, blobs), ResOK(y, d, r)
  PROVE  TInv(y, d, r)
<1>1. /\ y.pc = "idle" /\ y.ask = ask /\ y.plan = <<>> /\ y.out = <<>> /\ y.want = <<>>
      /\ y.got = <<>> /\ y.fd = NoFile /\ y.n = 0
  BY DEF Returned
<1>2. y \in ThreadSet
  <2>1. y = [ pc |-> y.pc, ask |-> y.ask, plan |-> y.plan, out |-> y.out, want |-> y.want,
              got |-> y.got, fd |-> y.fd, n |-> y.n, res |-> y.res ]
    BY DEF Returned
  <2>2. 0 \in 0 .. Chunks /\ y.pc \in Pcs /\ y.res \in [kind : Kinds, blobs : Seq(Slots)]
    BY <1>1, ReadsAssumption, EmptySlots DEF Pcs, Returned
  <2> QED
    BY <1>1, <2>1, <2>2, EmptySlots DEF ThreadSet
<1>3. Len(y.ask) \in Nat
  BY <1>2, Typed
<1>4. Shape(y)
  BY <1>1, <1>3, EmptySlots DEF Shape, Filler
<1>5. Meaning(y, d, r)
  BY <1>1, EmptySlots DEF Meaning, PlanOK, WantOK, GotOK
<1> QED
  BY <1>2, <1>4, <1>5 DEF TInv

LEMMA CallKeeps ==
  ASSUME NEW d, NEW r, NEW ask \in Asks, NEW y, y = [Idle EXCEPT !.pc = "index", !.ask = ask]
  PROVE  TInv(y, d, r)
<1>1. /\ y.pc = "index" /\ y.ask = ask /\ y.plan = <<>> /\ y.out = <<>> /\ y.want = <<>>
      /\ y.got = <<>> /\ y.fd = NoFile /\ y.n = 0 /\ y.res.kind = "none"
  BY DEF Idle
<1>2. y \in ThreadSet
  <2>1. y = [ pc |-> y.pc, ask |-> y.ask, plan |-> y.plan, out |-> y.out, want |-> y.want,
              got |-> y.got, fd |-> y.fd, n |-> y.n, res |-> y.res ]
    BY DEF Idle
  <2>2. 0 \in 0 .. Chunks /\ y.pc \in Pcs
    BY <1>1, ReadsAssumption DEF Pcs
  <2>3. y.res = [kind |-> "none", blobs |-> <<>>]
    BY DEF Idle
  <2>4. y.res \in [kind : Kinds, blobs : Seq(Slots)]
    <3>1. \A kind \in Kinds, blobs \in Seq(Slots) :
            [kind |-> kind, blobs |-> blobs] \in [kind : Kinds, blobs : Seq(Slots)]
      OBVIOUS
    <3>2. "none" \in Kinds
      BY DEF Kinds
    <3> QED
      BY <2>3, <3>1, <3>2, EmptySlots
  <2> QED
    BY <1>1, <2>1, <2>2, <2>4, EmptySlots DEF ThreadSet
<1>3. Len(ask) \in Nat /\ Len(ask) # 0
  BY ReadsAssumption, LenProperties, EmptySeq
<1>4. Shape(y)
  BY <1>1, <1>3, EmptySlots DEF Shape, Filler
<1>5. Meaning(y, d, r)
  BY <1>1, EmptySlots DEF Meaning, PlanOK, WantOK, GotOK, ResOK
<1> QED
  BY <1>2, <1>4, <1>5 DEF TInv

LEMMA LoadKeeps ==
  ASSUME NEW d \in Dirs, NEW r, NEW x, TInv(x, d, r), x.pc = "index", Position(x) < Total(d), NEW y,
         y = [x EXCEPT !.pc = "look", !.want = <<IndexShard(Locate(d, Position(x)).shard)>>]
  PROVE  TInv(y, d, r)
<1> DEFINE o == IndexShard(Locate(d, Position(x)).shard)
<1>1. x \in ThreadSet /\ Shape(x) /\ Meaning(x, d, r)
  BY DEF TInv
<1>2. Position(x) \in Nat
  <2>1. x.ask \in Asks /\ Len(x.plan) + 1 \in 1 .. Len(x.ask)
    BY <1>1, Typed DEF Shape
  <2> QED
    BY <2>1, BlobTyped DEF Position
<1>3. o \in Objects
  BY <1>2, ShardTyped
<1> HIDE DEF o
<1>4. /\ y.pc = "look" /\ y.want = <<o>> /\ y.ask = x.ask /\ y.plan = x.plan /\ y.out = x.out
      /\ y.got = x.got /\ y.fd = x.fd /\ y.n = x.n /\ y.res = x.res
  BY <1>1 DEF ThreadSet, o
<1>5. y \in ThreadSet
  <2>1. <<o>> \in Seq(Objects)
    BY <1>3
  <2> QED
    BY <1>1, <2>1 DEF ThreadSet, Pcs, o
<1>6. Shape(y)
  BY <1>1, <1>4, EmptySlots DEF Shape, Filler
<1>7. Position(y) = Position(x)
  BY <1>4 DEF Position
<1>8. Clean(y, d, r) = Clean(x, d, r) /\ Right(y.ask) = Right(x.ask)
  BY <1>4 DEF Clean
<1>9. PlanOK(y, d, r) /\ ResOK(y, d, r)
  BY <1>1, <1>4, <1>8 DEF Meaning, PlanOK, ResOK
<1>10. WantOK(y, d)
  BY <1>1, <1>4, <1>7 DEF WantOK, Shape, o
<1>11. GotOK(y, d, r)
  BY <1>1, <1>4, EmptySlots DEF GotOK, Shape
<1> QED
  BY <1>5, <1>6, <1>9, <1>10, <1>11 DEF TInv, Meaning

\* The parts of a thread that is not writing.
LEMMA NotWriting ==
  ASSUME NEW x, Shape(x), x.pc \in {"idle", "index", "blobs", "look", "fetch", "create", "served"}
  PROVE  x.fd = NoFile /\ x.n = 0
BY DEF Shape

LEMMA ResolvedKeeps ==
  ASSUME NEW d \in Dirs, NEW r, NEW x, TInv(x, d, r), x.pc \in {"index", "served"},
         Len(x.plan) < Len(x.ask), Position(x) < Total(d),
         NEW rows, NEW local, rows[local] = Position(x), NEW y, y = Resolved(x, rows, local)
  PROVE  TInv(y, d, r)
<1> DEFINE b == BlobOf(rows[local])
           L == Len(x.plan)
<1>1. x \in ThreadSet /\ Shape(x) /\ Meaning(x, d, r) /\ x.fd = NoFile /\ x.n = 0
  BY NotWriting DEF TInv
<1>2. x.ask \in Asks /\ L \in Nat /\ Len(x.out) = L /\ Len(x.ask) \in Nat
  BY <1>1, Typed DEF Shape
<1>3. b \in Objects \cup {Nothing} /\ b = BlobOf(x.ask[L + 1])
  <2>1. L + 1 \in 1 .. Len(x.ask)
    BY <1>2
  <2> QED
    BY <1>2, <2>1, BlobTyped DEF Position
<1> DEFINE at == IF L + 1 = Len(x.ask) THEN "blobs" ELSE "index"
<1>4. y = [x EXCEPT !.plan = Append(x.plan, b), !.out = Append(x.out, Nothing),
                    !.pc = at, !.want = <<>>, !.got = <<>>]
  BY DEF Resolved
<1> HIDE DEF b, at
<1>5. /\ y.pc = at /\ y.plan = Append(x.plan, b) /\ y.out = Append(x.out, Nothing)
      /\ y.want = <<>> /\ y.got = <<>> /\ y.ask = x.ask /\ y.fd = NoFile /\ y.n = 0
      /\ y.res = x.res
  BY <1>1, <1>4 DEF ThreadSet
<1>6. /\ y.plan \in Seq(Objects \cup {Nothing}) /\ Len(y.plan) = L + 1 /\ y.plan[L + 1] = b
      /\ \A p \in 1 .. L : y.plan[p] = x.plan[p]
  <2>1. x.plan \in Seq(Objects \cup {Nothing})
    BY <1>1, Typed
  <2> QED
    BY <1>3, <1>5, <2>1, AppendProperties
<1>7. /\ y.out \in Seq(Slots) /\ Len(y.out) = L + 1 /\ y.out[L + 1] = Nothing
      /\ \A p \in 1 .. L : y.out[p] = x.out[p]
  <2>1. x.out \in Seq(Slots) /\ Nothing \in Slots
    BY <1>1, Typed DEF Slots
  <2> QED
    BY <1>2, <1>5, <2>1, AppendProperties
<1>8. y \in ThreadSet
  <2>1. at \in Pcs
    BY DEF at, Pcs
  <2> QED
    BY <1>1, <1>4, <1>5, <1>6, <1>7, <2>1, EmptySlots DEF ThreadSet
<1>9. Shape(y)
  BY <1>2, <1>5, <1>6, <1>7, EmptySlots DEF Shape, Filler, at
<1>10. Clean(y, d, r) = Clean(x, d, r) /\ Right(y.ask) = Right(x.ask)
  BY <1>5 DEF Clean
<1>11. ASSUME NEW p \in 1 .. L + 1
       PROVE  /\ y.ask[p] < Total(d) /\ y.plan[p] = BlobOf(y.ask[p])
              /\ y.out[p] # Nothing => y.plan[p] # Nothing /\ (Clean(y, d, r) => y.out[p] = Whole(y.plan[p]))
  <2>1. CASE p = L + 1
    BY <1>3, <1>5, <1>6, <1>7, <2>1 DEF Position
  <2>2. CASE p \in 1 .. L
    BY <1>1, <1>5, <1>6, <1>7, <1>10, <2>2 DEF Meaning, PlanOK
  <2> QED
    BY <1>2, <2>1, <2>2
<1>12. PlanOK(y, d, r)
  BY <1>6, <1>11 DEF PlanOK
<1>13. WantOK(y, d) /\ GotOK(y, d, r) /\ ResOK(y, d, r)
  BY <1>1, <1>5, <1>10, EmptySlots DEF WantOK, GotOK, Meaning, ResOK
<1> QED
  BY <1>8, <1>9, <1>12, <1>13 DEF TInv, Meaning

LEMMA ListOf ==
  ASSUME NEW T, NEW c \in Nat, NEW s \in [1 .. c -> T]
  PROVE  s \in Seq(T) /\ Len(s) = c
<1>1. s \in Seq(T)
  BY SeqDef
<1>2. Len(s) \in Nat /\ DOMAIN s = 1 .. Len(s) /\ DOMAIN s = 1 .. c
  BY <1>1, LenProperties
<1>3. \A m, n \in Nat : 1 .. m = 1 .. n => m = n
  OBVIOUS
<1> QED
  BY <1>1, <1>2, <1>3

\* The blobs of the slots ps.
AskedAt(x, ps) == [j \in 1 .. Len(ps) |-> x.plan[ps[j]]]

\* They are the pending ones of a shard, in order.
Asking(x, ps) == [x EXCEPT !.pc = "look", !.want = AskedAt(x, ps)]
SlotsOfShard(x, ps) == \E p \in Pending(x) : ps \in Ascending(InShard(x, x.plan[p][1]))

LEMMA AskKeeps ==
  ASSUME NEW d \in Dirs, NEW r, NEW x, TInv(x, d, r), x.pc = "blobs",
         NEW ps, SlotsOfShard(x, ps)
  PROVE  TInv(Asking(x, ps), d, r)
<1>0. PICK p \in Pending(x) : ps \in Ascending(InShard(x, x.plan[p][1]))
  BY DEF SlotsOfShard
<1> DEFINE S == InShard(x, x.plan[p][1])
           C == Cardinality(S)
           W == AskedAt(x, ps)
           y == Asking(x, ps)
<1>1. x \in ThreadSet /\ Shape(x) /\ Meaning(x, d, r)
  BY DEF TInv
<1>2. /\ x.plan \in Seq(Objects \cup {Nothing}) /\ Len(x.plan) \in Nat
      /\ \A q \in 1 .. Len(x.plan) : x.plan[q] \in Objects \cup {Nothing}
  BY <1>1, Typed, LenProperties
<1>3. p \in S /\ S \subseteq 1 .. Len(x.plan) /\ \A q \in S : x.plan[q] # Nothing
  BY DEF InShard, Pending
<1>4. C \in Nat /\ C # 0
  <2>1. IsFiniteSet(S)
    <3>1. IsFiniteSet(1 .. Len(x.plan))
      <4>1. 1 \in Int /\ Len(x.plan) \in Int
        BY <1>2
      <4> QED
        BY <4>1, FS_Interval
    <3> QED
      BY <1>3, <3>1, FS_Subset
  <2> QED
    BY <1>3, <2>1, FS_CardinalityType, FS_EmptySet
<1>5. ps \in [1 .. C -> S]
  BY <1>0 DEF Ascending
<1> HIDE DEF C, S
<1>6. Len(ps) = C
  BY <1>4, <1>5, ListOf
<1>7. W \in [1 .. C -> Objects] /\ \A j \in 1 .. C : \E q \in 1 .. Len(x.plan) : W[j] = x.plan[q]
  BY <1>2, <1>3, <1>5, <1>6 DEF AskedAt
<1>8. W \in Seq(Objects) /\ Len(W) = C
  <2> HIDE DEF W
  <2> QED
    BY <1>4, <1>7, ListOf
<1>9. y = [x EXCEPT !.pc = "look", !.want = W]
  BY DEF Asking
<1> HIDE DEF W, y
<1>10. /\ y.pc = "look" /\ y.want = W /\ y.ask = x.ask /\ y.plan = x.plan /\ y.out = x.out
       /\ y.got = x.got /\ y.fd = x.fd /\ y.n = x.n /\ y.res = x.res
  BY <1>1, <1>9 DEF ThreadSet
<1>11. y \in ThreadSet
  BY <1>1, <1>8, <1>9 DEF ThreadSet, Pcs
<1>12. Shape(y)
  BY <1>1, <1>4, <1>8, <1>10, EmptySlots DEF Shape, Filler
<1>13. Clean(y, d, r) = Clean(x, d, r) /\ Right(y.ask) = Right(x.ask)
  BY <1>10 DEF Clean
<1>14. PlanOK(y, d, r) /\ ResOK(y, d, r)
  <2>1. PlanOK(x, d, r) /\ ResOK(x, d, r)
    BY <1>1 DEF Meaning
  <2>2. PlanOK(y, d, r)
    BY <1>10, <1>13, <2>1 DEF PlanOK
  <2>3. ResOK(y, d, r)
    BY <1>10, <1>13, <2>1 DEF ResOK
  <2> QED
    BY <2>2, <2>3
<1>15. WantOK(y, d)
  <2>1. Len(y.plan) = Len(y.ask)
    BY <1>1, <1>10 DEF Shape
  <2>2. \A j \in 1 .. Len(y.want) : \E q \in 1 .. Len(y.plan) : y.want[j] = y.plan[q]
    <3>1. \A j \in 1 .. Len(W) : \E q \in 1 .. Len(x.plan) : W[j] = x.plan[q]
      BY <1>7, <1>8
    <3> QED
      BY <1>10, <3>1
  <2> QED
    BY <2>1, <2>2 DEF WantOK
<1>16. GotOK(y, d, r)
  BY <1>1, <1>10, EmptySlots DEF GotOK, Shape
<1>17. Meaning(y, d, r)
  BY <1>14, <1>15, <1>16 DEF Meaning
<1> QED
  BY <1>11, <1>12, <1>17 DEF TInv, y

\* The blobs a get_ranges brought, in their places.
Taken(x) ==
  [p \in 1 .. Len(x.out) |->
     IF \E j \in 1 .. Len(x.want) : x.want[j] = x.plan[p]
     THEN x.got[CHOOSE j \in 1 .. Len(x.want) : x.want[j] = x.plan[p]] ELSE x.out[p]]

LEMMA TakeKeeps ==
  ASSUME NEW d \in Dirs, NEW r, NEW x, TInv(x, d, r), x.pc = "served", Len(x.plan) = Len(x.ask),
         NEW y, y = [x EXCEPT !.pc = "blobs", !.want = <<>>, !.got = <<>>, !.out = Taken(x)]
  PROVE  TInv(y, d, r)
<1> DEFINE L == Len(x.plan)  T == Taken(x)
<1>1. x \in ThreadSet /\ Shape(x) /\ Meaning(x, d, r) /\ x.fd = NoFile /\ x.n = 0
  BY NotWriting DEF TInv
<1>2. /\ x.ask \in Asks /\ L \in Nat /\ Len(x.out) = L /\ Len(x.got) = Len(x.want)
      /\ \A j \in 1 .. Len(x.want) : x.want[j] \in Objects /\ x.got[j] \in Slots
      /\ x.out \in Seq(Slots) /\ \A p \in 1 .. L : x.out[p] \in Slots
  BY <1>1, Typed, LenProperties DEF Shape
<1>3. ASSUME NEW p \in 1 .. L
      PROVE  /\ T[p] \in Slots
             /\ T[p] # Nothing => x.plan[p] # Nothing /\ (Clean(x, d, r) => T[p] = Whole(x.plan[p]))
  <2>1. CASE \E j \in 1 .. Len(x.want) : x.want[j] = x.plan[p]
    <3> DEFINE i == CHOOSE j \in 1 .. Len(x.want) : x.want[j] = x.plan[p]
    <3>1. i \in 1 .. Len(x.want) /\ x.want[i] = x.plan[p]
      BY <2>1
    <3>2. T[p] = x.got[i]
      BY <1>2, <2>1 DEF Taken
    <3> HIDE DEF i, T
    <3>3. x.got[i] # Nothing /\ Clean(x, d, r) => x.got[i] = Whole(x.want[i])
      BY <1>1, <1>2, <3>1 DEF Meaning, GotOK
    <3> QED
      BY <1>2, <3>1, <3>2, <3>3, NothingFacts
  <2>2. CASE ~ \E j \in 1 .. Len(x.want) : x.want[j] = x.plan[p]
    <3>1. T[p] = x.out[p]
      BY <1>2, <2>2 DEF Taken
    <3> QED
      BY <1>1, <1>2, <3>1 DEF Meaning, PlanOK
  <2> QED
    BY <2>1, <2>2
<1>4. T \in Seq(Slots) /\ Len(T) = L
  <2>1. T \in [1 .. L -> Slots]
    <3>1. T = [p \in 1 .. L |-> T[p]]
      BY <1>2 DEF Taken
    <3> HIDE DEF T
    <3> QED
      BY <1>3, <3>1
  <2> HIDE DEF T
  <2>2. T \in Seq(Slots)
    BY <1>2, <2>1, SeqDef
  <2>3. Len(T) \in Nat /\ DOMAIN T = 1 .. Len(T) /\ DOMAIN T = 1 .. L
    BY <2>1, <2>2, LenProperties
  <2>4. \A m, n \in Nat : 1 .. m = 1 .. n => m = n
    OBVIOUS
  <2> QED
    BY <1>2, <2>2, <2>3, <2>4
<1> HIDE DEF T
<1>5. y = [x EXCEPT !.pc = "blobs", !.want = <<>>, !.got = <<>>, !.out = T]
  BY DEF T
<1>6. /\ y.pc = "blobs" /\ y.want = <<>> /\ y.ask = x.ask /\ y.plan = x.plan /\ y.out = T
      /\ y.got = <<>> /\ y.fd = NoFile /\ y.n = 0 /\ y.res = x.res
  BY <1>1, <1>5 DEF ThreadSet
<1>7. y \in ThreadSet
  BY <1>1, <1>4, <1>5, EmptySlots DEF ThreadSet, Pcs
<1>8. Shape(y)
  <2>1. Len(y.out) = Len(y.plan) /\ Len(y.plan) = Len(y.ask)
    BY <1>2, <1>4, <1>6
  <2>2. y.ask \in Asks /\ Len(y.plan) \in Nat /\ Len(y.ask) \in Nat
    BY <1>2, <1>6
  <2> QED
    BY <1>6, <2>1, <2>2 DEF Shape, Filler
<1>9. Clean(y, d, r) = Clean(x, d, r) /\ Right(y.ask) = Right(x.ask)
  BY <1>6 DEF Clean
<1>10. PlanOK(y, d, r)
  BY <1>1, <1>3, <1>6, <1>9 DEF Meaning, PlanOK
<1>11. WantOK(y, d) /\ GotOK(y, d, r) /\ ResOK(y, d, r)
  BY <1>1, <1>6, <1>9, EmptySlots DEF WantOK, GotOK, Meaning, ResOK
<1> QED
  BY <1>7, <1>8, <1>10, <1>11 DEF TInv, Meaning

\* A call whose blobs are all there answers with the right ones.
LEMMA AnswerRes ==
  ASSUME NEW d \in Dirs, NEW r, NEW x, TInv(x, d, r), x.pc = "blobs", Pending(x) = {}, Clean(x, d, r)
  PROVE  x.out = Right(x.ask)
<1> DEFINE L == Len(x.ask)
<1>1. x \in ThreadSet /\ Shape(x) /\ PlanOK(x, d, r)
  BY DEF TInv, Meaning
<1>2. x.out \in Seq(Slots) /\ Len(x.out) = L /\ Len(x.plan) = L /\ L \in Nat
  BY <1>1, Typed DEF Shape
<1>3. x.out = [p \in 1 .. L |-> x.out[p]]
  <2>1. x.out \in [1 .. Len(x.out) -> Slots]
    BY <1>2, LenProperties
  <2> QED
    BY <1>2, <2>1
<1>4. ASSUME NEW p \in 1 .. L
      PROVE  x.out[p] = IF BlobOf(x.ask[p]) = Nothing THEN Nothing ELSE Whole(BlobOf(x.ask[p]))
  <2>1. ~(x.plan[p] # Nothing /\ x.out[p] = Nothing)
    BY <1>2 DEF Pending
  <2>2. /\ x.plan[p] = BlobOf(x.ask[p])
        /\ x.out[p] # Nothing => x.plan[p] # Nothing /\ x.out[p] = Whole(x.plan[p])
    BY <1>1, <1>2 DEF PlanOK
  <2> QED
    BY <2>1, <2>2
<1> QED
  BY <1>3, <1>4 DEF Right

\* No range comes back short for a call whose entries nobody wrote twice at a time.
LEMMA ServedWhole ==
  ASSUME NEW d \in Dirs, NEW r, NEW x, TInv(x, d, r), x.pc = "served", Clean(x, d, r),
         NEW j \in 1 .. Len(x.got)
  PROVE  x.got[j] = Whole(x.want[j]) /\ ~Short(x.got[j])
<1>1. x \in ThreadSet /\ Shape(x) /\ GotOK(x, d, r)
  BY DEF TInv, Meaning
<1>2. x.got[j] # Nothing
  BY <1>1 DEF Shape, Missing
<1>3. x.got[j] = Whole(x.want[j])
  BY <1>1, <1>2 DEF GotOK
<1>4. x.want[j] \in Objects
  BY <1>1, Typed DEF Shape
<1> QED
  BY <1>3, <1>4, NothingFacts
-----------------------------------------------------------------------------
LEMMA LookKeeps ==
  ASSUME NEW d \in Dirs, NEW r, NEW x, TInv(x, d, r), x.pc = "look", NEW v \in Slots,
         v # Nothing /\ Clean(x, d, r) => v = Whole(x.want[Len(x.got) + 1]), NEW y,
         y = [x EXCEPT !.got = Append(x.got, v),
                !.pc = IF Len(Append(x.got, v)) < Len(x.want) THEN "look" ELSE AfterLooks(Append(x.got, v))]
  PROVE  TInv(y, d, r)
<1> DEFINE g == Append(x.got, v)
           G == Len(x.got)
           at == IF Len(g) < Len(x.want) THEN "look" ELSE AfterLooks(g)
<1>1. x \in ThreadSet /\ Shape(x) /\ Meaning(x, d, r) /\ x.fd = NoFile /\ x.n = 0
  BY NotWriting DEF TInv
<1>2. x.got \in Seq(Slots) /\ G \in Nat /\ Len(x.want) \in Nat /\ G < Len(x.want)
  BY <1>1, Typed DEF Shape
<1>3. /\ g \in Seq(Slots) /\ Len(g) = G + 1 /\ g[G + 1] = v
      /\ \A j \in 1 .. G : g[j] = x.got[j]
  BY <1>2, AppendProperties
<1> HIDE DEF g
<1>4. at \in {"look", "fetch", "served"}
  BY DEF AfterLooks
<1>5. y = [x EXCEPT !.got = g, !.pc = at]
  BY DEF g
<1>6. /\ at = "look" => Len(g) < Len(x.want)
      /\ at # "look" => Len(g) = Len(x.want)
      /\ at = "fetch" => \E j \in 1 .. Len(g) : g[j] = Nothing
      /\ at = "served" => ~ \E j \in 1 .. Len(g) : g[j] = Nothing
  BY <1>2, <1>3 DEF AfterLooks
<1> HIDE DEF at
<1>7. /\ y.pc = at /\ y.want = x.want /\ y.ask = x.ask /\ y.plan = x.plan /\ y.out = x.out
      /\ y.got = g /\ y.fd = NoFile /\ y.n = 0 /\ y.res = x.res
  BY <1>1, <1>5 DEF ThreadSet
<1>8. y \in ThreadSet
  <2>1. at \in Pcs
    BY <1>4 DEF Pcs
  <2> QED
    BY <1>1, <1>3, <1>5, <2>1 DEF ThreadSet
<1>9. at = "fetch" => Missing(y) # {}
  BY <1>6, <1>7 DEF Missing
<1>10. at = "served" => Missing(y) = {}
  BY <1>6, <1>7 DEF Missing
<1>11. Shape(y)
  <2>1. /\ y.ask \in Asks /\ Len(y.plan) = Len(y.out) /\ Len(y.plan) <= Len(y.ask)
        /\ Len(y.want) \in Nat /\ Len(y.want) > 0
    BY <1>1, <1>2, <1>7 DEF Shape
  <2>2. /\ y.pc \in {"look", "fetch", "served"} /\ y.fd = NoFile /\ y.n = 0
        /\ y.pc = "look" => Len(y.got) < Len(y.want)
        /\ y.pc # "look" => Len(y.got) = Len(y.want)
        /\ y.pc = "fetch" => Missing(y) # {}
        /\ y.pc = "served" => Missing(y) = {}
    BY <1>4, <1>6, <1>7, <1>9, <1>10
  <2> QED
    BY <2>1, <2>2 DEF Shape, Filler
<1>12. Clean(y, d, r) = Clean(x, d, r) /\ Right(y.ask) = Right(x.ask) /\ Position(y) = Position(x)
  BY <1>7 DEF Clean, Position
<1>13. PlanOK(y, d, r) /\ ResOK(y, d, r) /\ WantOK(y, d)
  BY <1>1, <1>7, <1>12 DEF Meaning, PlanOK, ResOK, WantOK
<1>14. ASSUME NEW j \in 1 .. G + 1, g[j] # Nothing, Clean(x, d, r) PROVE g[j] = Whole(x.want[j])
  <2>1. CASE j = G + 1
    BY <1>3, <1>14, <2>1
  <2>2. CASE j \in 1 .. G
    BY <1>1, <1>3, <1>14, <2>2 DEF Meaning, GotOK
  <2> QED
    BY <1>2, <2>1, <2>2
<1>15. GotOK(y, d, r)
  BY <1>3, <1>7, <1>12, <1>14 DEF GotOK
<1> QED
  BY <1>8, <1>11, <1>13, <1>15 DEF TInv, Meaning

LEMMA FillingFacts ==
  ASSUME NEW x \in ThreadSet, Shape(x), x.pc \in Filler
  PROVE  /\ Filling(x) \in Missing(x) /\ Filling(x) \in 1 .. Len(x.got)
         /\ Filling(x) \in 1 .. Len(x.want) /\ Len(x.got) = Len(x.want)
         /\ x.want[Filling(x)] \in Objects /\ KeyOf(x) = x.want[Filling(x)] /\ KeyOf(x) \in Keys
<1>1. Len(x.got) = Len(x.want) /\ Missing(x) # {} /\ Missing(x) \subseteq 1 .. Len(x.got)
  BY DEF Shape, Missing
<1>2. Missing(x) \subseteq Nat
  BY <1>1
<1>3. \E j \in Missing(x) : \A i \in Missing(x) : j <= i
  BY <1>1, <1>2, LeastOf
<1>4. Filling(x) \in Missing(x)
  BY <1>3 DEF Filling
<1>5. x.want[Filling(x)] \in Objects
  BY <1>1, <1>4, Typed
<1> QED
  BY <1>1, <1>4, <1>5 DEF KeyOf, CacheKey, Keys

LEMMA FilledKeeps ==
  ASSUME NEW d \in Dirs, NEW r, NEW x, TInv(x, d, r), x.pc \in Filler, NEW y, y = Filled(x)
  PROVE  TInv(y, d, r)
<1> DEFINE m == Filling(x)
           g == [x.got EXCEPT ![m] = Whole(x.want[m])]
           at == IF \E j \in 1 .. Len(g) : g[j] = Nothing THEN "create" ELSE "served"
<1>1. x \in ThreadSet /\ Shape(x) /\ Meaning(x, d, r)
  BY DEF TInv
<1>2. /\ m \in 1 .. Len(x.got) /\ Len(x.got) = Len(x.want) /\ Len(x.got) \in Nat /\ Len(x.want) > 0
      /\ x.want[m] \in Objects /\ x.got \in Seq(Slots)
  BY <1>1, FillingFacts, Typed DEF Shape
<1>3. Whole(x.want[m]) \in Slots
  BY <1>2, NothingFacts DEF Slots
<1> DEFINE w == Whole(x.want[m])
<1> HIDE DEF m, w
<1>4. /\ g \in Seq(Slots) /\ Len(g) = Len(x.got) /\ g[m] = w
      /\ \A j \in 1 .. Len(x.got) : j # m => g[j] = x.got[j]
  BY <1>2, <1>3, ExceptSeq DEF w
<1>5. y = [x EXCEPT !.got = g, !.fd = NoFile, !.n = 0, !.pc = at]
  BY DEF Filled, w, m
<1> HIDE DEF g
<1>6. /\ at \in {"create", "served"}
      /\ at = "create" => \E j \in 1 .. Len(g) : g[j] = Nothing
      /\ at = "served" => ~ \E j \in 1 .. Len(g) : g[j] = Nothing
  OBVIOUS
<1> HIDE DEF at
<1>7. /\ y.pc = at /\ y.want = x.want /\ y.ask = x.ask /\ y.plan = x.plan /\ y.out = x.out
      /\ y.got = g /\ y.fd = NoFile /\ y.n = 0 /\ y.res = x.res
  BY <1>1, <1>5 DEF ThreadSet
<1>8. y \in ThreadSet
  <2>1. at \in Pcs
    BY <1>6 DEF Pcs
  <2>2. 0 \in 0 .. Chunks
    BY ReadsAssumption
  <2> QED
    BY <1>1, <1>4, <1>5, <2>1, <2>2 DEF ThreadSet
<1>9. (at = "create" => Missing(y) # {}) /\ (at = "served" => Missing(y) = {})
  BY <1>6, <1>7 DEF Missing
<1>10. Shape(y)
  <2>1. /\ y.ask \in Asks /\ Len(y.plan) = Len(y.out) /\ Len(y.plan) <= Len(y.ask)
        /\ Len(y.want) > 0 /\ Len(y.got) = Len(y.want)
    BY <1>1, <1>2, <1>4, <1>7 DEF Shape, Filler
  <2> QED
    BY <1>6, <1>7, <1>9, <2>1 DEF Shape, Filler
<1>11. Clean(y, d, r) = Clean(x, d, r) /\ Right(y.ask) = Right(x.ask) /\ Position(y) = Position(x)
  BY <1>7 DEF Clean, Position
<1>12. PlanOK(y, d, r) /\ ResOK(y, d, r) /\ WantOK(y, d)
  BY <1>1, <1>7, <1>11 DEF Meaning, PlanOK, ResOK, WantOK
<1>13. GotOK(y, d, r)
  BY <1>1, <1>2, <1>4, <1>7, <1>11 DEF GotOK, Meaning, w
<1> QED
  BY <1>8, <1>10, <1>12, <1>13 DEF TInv, Meaning

\* A thread that begins to write, or has written a piece, is where it was in its call.
Wrote(x, f, n) ==
  [x EXCEPT !.pc = IF n = Chunks THEN "rename" ELSE "write", !.fd = f, !.n = n]

LEMMA WriterKeeps ==
  ASSUME NEW d \in Dirs, NEW r, NEW x, TInv(x, d, r), x.pc \in {"fetch", "create", "write"},
         NEW f \in Files, NEW n \in 0 .. Chunks, NEW y, y = Wrote(x, f, n)
  PROVE  TInv(y, d, r) /\ KeyOf(y) = KeyOf(x) /\ y.fd = f /\ y.n = n
         /\ y.pc \in {"write", "rename"} /\ y.want = x.want
<1> DEFINE at == IF n = Chunks THEN "rename" ELSE "write"
<1>1. x \in ThreadSet /\ Shape(x) /\ Meaning(x, d, r)
  BY DEF TInv
<1>2. at \in {"write", "rename"} /\ (at = "write" => n < Chunks) /\ (at = "rename" => n = Chunks)
  BY ReadsAssumption
<1>3. y = [x EXCEPT !.pc = at, !.fd = f, !.n = n]
  BY DEF Wrote
<1> HIDE DEF at
<1>4. /\ y.pc = at /\ y.want = x.want /\ y.ask = x.ask /\ y.plan = x.plan /\ y.out = x.out
      /\ y.got = x.got /\ y.fd = f /\ y.n = n /\ y.res = x.res
  BY <1>1, <1>3 DEF ThreadSet
<1>5. y \in ThreadSet
  <2>1. at \in Pcs
    BY <1>2 DEF Pcs
  <2> QED
    BY <1>1, <1>3, <2>1 DEF ThreadSet
<1>6. Missing(y) = Missing(x)
  BY <1>4 DEF Missing
<1>7. KeyOf(y) = KeyOf(x)
  BY <1>4, <1>6 DEF KeyOf, Filling
<1>8. Shape(y)
  <2>1. /\ y.ask \in Asks /\ Len(y.plan) = Len(y.out) /\ Len(y.plan) <= Len(y.ask)
        /\ Len(y.want) > 0 /\ Len(y.got) = Len(y.want) /\ Missing(y) # {}
    BY <1>1, <1>4, <1>6 DEF Shape, Filler
  <2>2. y.fd # NoFile
    BY <1>4, ReadsAssumption
  <2> QED
    BY <1>2, <1>4, <2>1, <2>2 DEF Shape, Filler
<1>9. Clean(y, d, r) = Clean(x, d, r) /\ Right(y.ask) = Right(x.ask) /\ Position(y) = Position(x)
  BY <1>4 DEF Clean, Position
<1>10. PlanOK(y, d, r) /\ ResOK(y, d, r) /\ WantOK(y, d) /\ GotOK(y, d, r)
  BY <1>1, <1>4, <1>9 DEF Meaning, PlanOK, ResOK, WantOK, GotOK
<1> QED
  BY <1>2, <1>4, <1>5, <1>7, <1>8, <1>10 DEF TInv, Meaning
-----------------------------------------------------------------------------
(* The system: the types, the threads and the files of a key.                *)

CacheTypes ==
  /\ dir \in Dirs /\ proc \in Placements
  /\ entry \in [Keys -> Files \cup {NoFile}] /\ tmp \in [Keys -> Files \cup {NoFile}]
  /\ file \in [Keys -> [Files -> Contents]]
  /\ raced \subseteq Keys /\ cut \subseteq raced

ThreadsOK ==
  /\ th = [t \in Threads |-> th[t]]
  /\ \A t \in Threads : TInv(th[t], dir, raced)

\* Whoever decoded an index shard, what is cached of it are its rows.
LruRows == \A p \in Procs : \A k \in Cached(lru[p]) : lru[p].map[k] = RowsOf(dir, k)

\* A thread is writing the file, and every piece it has written so far is there.
Covered(k, f) == \E t \in Writers(k) : th[t].fd = f /\ \A c \in 1 .. th[t].n : file[k][f][c] = k
Sound(k, f) == file[k][f] = Whole(k) \/ Covered(k, f)

\* The files of a key.  Unless it was raced for it has one writer, who writes .tmp.
KeyInv(k) ==
  /\ entry[k] # NoFile => entry[k] # tmp[k]
  /\ k \notin raced => \A s, t \in Writers(k) : s = t
  /\ k \notin raced => \A t \in Writers(k) : th[t].fd = tmp[k]
  /\ k \notin cut /\ entry[k] # NoFile => Sound(k, entry[k])
  /\ k \notin cut /\ tmp[k] # NoFile /\ Writers(k) # {} => Sound(k, tmp[k])

\* The inductive invariant.
RInv == CacheTypes /\ ThreadsOK /\ LInv /\ LruRows /\ \A k \in Keys : KeyInv(k)
-----------------------------------------------------------------------------
\* There is a file that no name and no descriptor of the key refers to.
LEMMA NewFileFacts ==
  ASSUME CacheTypes, NEW t \in Threads, NEW k \in Keys, t \notin Writers(k), tmp[k] = NoFile
  PROVE  /\ NewFile(k) \in Files /\ NewFile(k) # entry[k]
         /\ \A s \in Writers(k) : th[s].fd # NewFile(k)
<1> DEFINE W == Writers(k)
           D == {th[s].fd : s \in W}
           U == D \cup {entry[k]}
<1>1. W \subseteq Threads \ {t}
  BY DEF Writers
<1>2. /\ IsFiniteSet(Threads) /\ IsFiniteSet(Files) /\ Cardinality(Threads) < Cardinality(Files)
      /\ NoFile \notin Files /\ Files \subseteq Nat
  BY ReadsAssumption
<1>3. /\ IsFiniteSet(Threads \ {t}) /\ Cardinality(Threads \ {t}) = Cardinality(Threads) - 1
      /\ Cardinality(Threads) \in Nat /\ Cardinality(Files) \in Nat
  BY <1>2, FS_RemoveElement, FS_CardinalityType
<1>4. IsFiniteSet(W) /\ Cardinality(W) <= Cardinality(Threads) - 1 /\ Cardinality(W) \in Nat
  BY <1>1, <1>3, FS_Subset, FS_CardinalityType
<1> HIDE DEF W
<1>5. IsFiniteSet(D) /\ Cardinality(D) <= Cardinality(W) /\ Cardinality(D) \in Nat
  <2>1. IsFiniteSet(D) /\ Cardinality(D) <= Cardinality(W)
    <3> DEFINE fd == [s \in W |-> th[s].fd]
    <3>1. fd \in Surjection(W, D)
      BY DEF Surjection, D
    <3> QED
      BY <1>4, <3>1, FS_Surjection
  <2> QED
    BY <2>1, FS_CardinalityType
<1> HIDE DEF D
<1>6. IsFiniteSet(U) /\ Cardinality(U) <= Cardinality(Threads) /\ Cardinality(U) \in Nat
  <2>1. IsFiniteSet(U) /\ Cardinality(U) \in {Cardinality(D), Cardinality(D) + 1}
    BY <1>5, FS_AddElement
  <2> QED
    BY <1>3, <1>4, <1>5, <2>1
<1> HIDE DEF U
<1>7. ~(Files \subseteq U)
  <2>1. Files \subseteq U => Cardinality(Files) <= Cardinality(U)
    BY <1>6, FS_Subset
  <2> QED
    BY <1>2, <1>3, <1>6, <2>1
<1>8. Unused(k) = Files \ U
  BY <1>2 DEF Unused, U, D, W
<1>9. \E f \in Unused(k) : \A g \in Unused(k) : f <= g
  BY <1>2, <1>7, <1>8, LeastOf
<1>10. NewFile(k) \in Files \ U
  BY <1>8, <1>9 DEF NewFile
<1> QED
  BY <1>10 DEF U, D, W

\* What one thread does to the threads, and to the writers of a key.
LEMMA ThreadChange ==
  ASSUME ThreadsOK, NEW t \in Threads, NEW y, th' = [th EXCEPT ![t] = y]
  PROVE  th'[t] = y /\ \A s \in Threads \ {t} : th'[s] = th[s]
BY DEF ThreadsOK

LEMMA WritersChange ==
  ASSUME ThreadsOK, NEW t \in Threads, NEW y, th' = [th EXCEPT ![t] = y], NEW k
  PROVE  Writers(k)' = IF y.pc \in {"write", "rename"} /\ KeyOf(y) = k
                       THEN Writers(k) \cup {t} ELSE Writers(k) \ {t}
<1>1. th'[t] = y /\ \A s \in Threads \ {t} : th'[s] = th[s]
  BY ThreadChange
<1>2. Writing(t)' = (y.pc \in {"write", "rename"}) /\ KeyOf(th[t])' = KeyOf(y)
  <2>1. th'[t] = y
    BY <1>1
  <2>2. Writing(t)' = (y.pc \in {"write", "rename"})
    BY <2>1 DEF Writing
  <2>3. KeyOf(th[t])' = KeyOf(y)
    BY <2>1 DEF KeyOf, Filling, Missing
  <2> QED
    BY <2>2, <2>3
<1>3. ASSUME NEW s \in Threads \ {t}
      PROVE  Writing(s)' = Writing(s) /\ KeyOf(th[s])' = KeyOf(th[s])
  <2>1. th'[s] = th[s]
    BY <1>1
  <2> QED
    BY <2>1 DEF Writing, KeyOf, Filling, Missing
<1> QED
  BY <1>2, <1>3 DEF Writers

LEMMA ThreadsKeep ==
  ASSUME ThreadsOK, NEW t \in Threads, NEW y, th' = [th EXCEPT ![t] = y],
         dir' = dir, raced \subseteq raced', TInv(y, dir, raced')
  PROVE  ThreadsOK'
<1>1. th'[t] = y /\ \A s \in Threads \ {t} : th'[s] = th[s]
  BY ThreadChange
<1>2. th' = [s \in Threads |-> th'[s]]
  BY DEF ThreadsOK
<1>3. \A s \in Threads : TInv(th[s], dir, raced')
  BY CleanStays DEF ThreadsOK
<1>4. \A s \in Threads : TInv(th'[s], dir', raced')
  BY <1>1, <1>3
<1> QED
  BY <1>2, <1>4 DEF ThreadsOK

\* Writers that leave a key take nothing with them: either none leaves, or the key
\* is cut, or it was never raced for and had no other.
LEMMA LeavingKeeps ==
  ASSUME NEW k, KeyInv(k), NEW D, Writers(k)' = Writers(k) \ D,
         \A s \in Writers(k) \ D : th'[s].fd = th[s].fd /\ th'[s].n = th[s].n,
         entry'[k] = entry[k], tmp'[k] = tmp[k], file'[k] = file[k],
         raced \subseteq raced', cut \subseteq cut',
         Writers(k) \cap D = {} \/ (k \in raced => k \in cut')
  PROVE  KeyInv(k)'
<1> DEFINE W == Writers(k)
<1>1. entry[k] # NoFile => entry[k] # tmp[k]
  BY DEF KeyInv
<1>2. k \notin raced => (\A s, t \in W : s = t) /\ (\A t \in W : th[t].fd = tmp[k])
  BY DEF KeyInv
<1>3. k \notin raced' => (\A s, t \in W \ D : s = t) /\ (\A t \in W \ D : th'[t].fd = tmp'[k])
  BY <1>2
<1>4. ASSUME NEW f, Sound(k, f), k \notin cut', f # NoFile, f = entry[k] \/ (f = tmp[k] /\ W \ D # {})
      PROVE  Sound(k, f)'
  <2>1. CASE file[k][f] = Whole(k)
    BY <2>1 DEF Sound
  <2>2. CASE Covered(k, f)
    <3>1. PICK s \in W : th[s].fd = f /\ \A c \in 1 .. th[s].n : file[k][f][c] = k
      BY <2>2 DEF Covered
    <3>2. s \notin D
      BY <1>1, <1>2, <1>4, <3>1
    <3>3. s \in Writers(k)' /\ th'[s].fd = f /\ \A c \in 1 .. th'[s].n : file'[k][f][c] = k
      BY <3>1, <3>2
    <3> QED
      BY <3>3 DEF Sound, Covered
  <2> QED
    BY <1>4, <2>1, <2>2 DEF Sound
<1>5. k \notin cut' /\ entry'[k] # NoFile => Sound(k, entry[k])'
  BY <1>4 DEF KeyInv
<1>6. k \notin cut' /\ tmp'[k] # NoFile /\ W \ D # {} => Sound(k, tmp[k])'
  BY <1>4 DEF KeyInv
<1> QED
  BY <1>1, <1>3, <1>5, <1>6 DEF KeyInv

\* A step of a thread that is not writing, and does not begin to.
LEMMA PlainKeeps ==
  ASSUME CacheTypes, ThreadsOK, \A k \in Keys : KeyInv(k), NEW t \in Threads, ~Writing(t),
         NEW y, th' = [th EXCEPT ![t] = y], y.pc \notin {"write", "rename"},
         TInv(y, dir, raced), UNCHANGED <<dir, proc, entry, tmp, file, raced, cut>>
  PROVE  CacheTypes' /\ ThreadsOK' /\ \A k \in Keys : KeyInv(k)'
<1>1. CacheTypes'
  BY DEF CacheTypes
<1>2. ThreadsOK'
  BY ThreadsKeep
<1>3. ASSUME NEW k \in Keys PROVE KeyInv(k)'
  <2>1. t \notin Writers(k)
    BY DEF Writers
  <2>2. Writers(k)' = Writers(k) \ {} /\ \A s \in Writers(k) : th'[s] = th[s]
    <3>1. \A s \in Writers(k) : s \in Threads \ {t}
      BY <2>1 DEF Writers
    <3>2. Writers(k)' = Writers(k) \ {t}
      BY WritersChange
    <3>3. \A s \in Threads \ {t} : th'[s] = th[s]
      BY ThreadChange
    <3> QED
      BY <2>1, <3>1, <3>2, <3>3
  <2> QED
    BY <2>2, LeavingKeeps
<1> QED
  BY <1>1, <1>2, <1>3
-----------------------------------------------------------------------------
(* The actions that write the cache directory.                               *)

\* A step of one thread at one key leaves what another key has.
LEMMA OtherKeyKeeps ==
  ASSUME ThreadsOK, NEW k, KeyInv(k), NEW t \in Threads, NEW y, th' = [th EXCEPT ![t] = y],
         Writing(t) => KeyOf(th[t]) # k, y.pc \in {"write", "rename"} => KeyOf(y) # k,
         entry'[k] = entry[k], tmp'[k] = tmp[k], file'[k] = file[k],
         raced \subseteq raced', cut \subseteq cut'
  PROVE  KeyInv(k)'
<1>1. t \notin Writers(k) /\ Writers(k) \subseteq Threads
  BY DEF Writers
<1>2. Writers(k)' = Writers(k) \ {t}
  BY WritersChange
<1>3. \A s \in Threads \ {t} : th'[s] = th[s]
  BY ThreadChange
<1>4. Writers(k)' = Writers(k) \ {} /\ \A s \in Writers(k) : th'[s] = th[s]
  BY <1>1, <1>2, <1>3
<1> QED
  BY <1>4, LeavingKeeps

\* The thread of an action of CachedStorage, and its key.
LEMMA FillerFacts ==
  ASSUME CacheTypes, ThreadsOK, NEW t \in Threads, th[t].pc \in Filler
  PROVE  /\ th[t] \in ThreadSet /\ Shape(th[t]) /\ TInv(th[t], dir, raced) /\ dir \in Dirs
         /\ KeyOf(th[t]) \in Keys /\ KeyOf(th[t]) \in Objects
         /\ KeyOf(th[t]) = th[t].want[Filling(th[t])]
<1>1. th[t] \in ThreadSet /\ Shape(th[t]) /\ TInv(th[t], dir, raced) /\ dir \in Dirs
  BY DEF CacheTypes, ThreadsOK, TInv
<1> QED
  BY <1>1, FillingFacts

LEMMA CreateTmpKeeps ==
  ASSUME CacheTypes, ThreadsOK, \A k \in Keys : KeyInv(k), NEW t \in Threads, CreateTmp(t)
  PROVE  CacheTypes' /\ ThreadsOK' /\ \A k \in Keys : KeyInv(k)'
<1>a. PICK x : x = th[t]
  OBVIOUS
<1>b. PICK k : k = KeyOf(x)
  OBVIOUS
<1>c. PICK f : f = IF tmp[k] # NoFile THEN tmp[k] ELSE NewFile(k)
  OBVIOUS
<1>d. PICK y : y = [x EXCEPT !.pc = "write", !.fd = f]
  OBVIOUS
<1> DEFINE blank == [c \in 1 .. Chunks |-> Nothing]
<1>1. x.pc \in {"fetch", "create"} /\ x.pc \in Filler
  BY <1>a DEF CreateTmp, Filler
<1>2. /\ x \in ThreadSet /\ Shape(x) /\ TInv(x, dir, raced) /\ dir \in Dirs /\ k \in Keys
      /\ Filling(x) \in Missing(x)
  BY <1>1, <1>a, <1>b, FillerFacts, FillingFacts
<1>3. t \notin Writers(k) /\ Writers(k) \subseteq Threads \ {t} /\ ~Writing(t)
  BY <1>1, <1>a DEF Writers, Writing
<1>4. /\ tmp' = [tmp EXCEPT ![k] = f] /\ file' = [file EXCEPT ![k][f] = blank]
      /\ th' = [th EXCEPT ![t] = y] /\ entry' = entry /\ cut' = cut /\ dir' = dir /\ proc' = proc
      /\ raced' = IF Writers(k) = {} THEN raced ELSE raced \cup {k}
  BY <1>a, <1>b, <1>c, <1>d DEF CreateTmp, ThreadsOK
<1>5. /\ f \in Files /\ f # NoFile
      /\ tmp[k] # NoFile => f = tmp[k]
      /\ tmp[k] = NoFile => f # entry[k] /\ \A s \in Writers(k) : th[s].fd # f
  <2>1. tmp[k] \in Files \cup {NoFile}
    BY <1>2 DEF CacheTypes
  <2>2. NoFile \notin Files
    BY ReadsAssumption
  <2> QED
    BY <1>2, <1>3, <1>c, <2>1, <2>2, NewFileFacts
<1>6. blank \in Contents
  BY DEF Contents
<1> HIDE DEF blank
<1>7. CacheTypes'
  BY <1>2, <1>4, <1>5, <1>6 DEF CacheTypes
<1>8. TInv(y, dir, raced) /\ KeyOf(y) = k /\ y.fd = f /\ y.n = 0 /\ y.pc \in {"write", "rename"}
  <2>1. PICK n : n = 0
    OBVIOUS
  <2>2. n \in 0 .. Chunks /\ n # Chunks
    BY <2>1, ReadsAssumption
  <2>3. x.n = n
    BY <1>1, <1>2, <2>1, NotWriting
  <2>4. y = Wrote(x, f, n)
    BY <1>2, <1>d, <2>2, <2>3 DEF ThreadSet, Wrote
  <2>5. TInv(y, dir, raced) /\ KeyOf(y) = KeyOf(x) /\ y.fd = f /\ y.n = n /\ y.pc \in {"write", "rename"}
    <3>1. x.pc \in {"fetch", "create", "write"} /\ TInv(x, dir, raced) /\ dir \in Dirs
      BY <1>1, <1>2
    <3>2. f \in Files /\ n \in 0 .. Chunks
      BY <1>5, <2>2
    <3> QED
      BY <2>4, <3>1, <3>2, WriterKeeps
  <2> QED
    BY <1>b, <2>1, <2>5
<1>9. ThreadsOK'
  <2>1. TInv(y, dir, raced') /\ raced \subseteq raced'
    BY <1>4, <1>8, CleanStays
  <2> QED
    BY <1>4, <2>1, ThreadsKeep
<1>10. Writers(k)' = Writers(k) \cup {t} /\ th'[t] = y /\ \A s \in Writers(k) : th'[s] = th[s]
  <2>1. Writers(k)' = Writers(k) \cup {t}
    BY <1>4, <1>8, WritersChange
  <2> QED
    BY <1>3, <1>4, <2>1, ThreadChange
<1>11. file'[k][f] = blank /\ (\A g \in Files \ {f} : file'[k][g] = file[k][g]) /\ tmp'[k] = f
  BY <1>2, <1>4, <1>5 DEF CacheTypes
<1>12. Sound(k, f)'
  <2>1. t \in Writers(k)' /\ th'[t].fd = f /\ \A c \in 1 .. th'[t].n : file'[k][f][c] = k
    BY <1>8, <1>10
  <2> QED
    BY <2>1 DEF Sound, Covered
<1>13. KeyInv(k)
  BY <1>2
<1>14. entry'[k] = entry[k] /\ (entry[k] # NoFile => entry[k] # f /\ entry[k] \in Files)
  BY <1>2, <1>4, <1>5, <1>13 DEF KeyInv, CacheTypes
<1>15. k \notin cut' /\ entry'[k] # NoFile => Sound(k, entry[k])'
  <2> SUFFICES ASSUME k \notin cut, entry[k] # NoFile PROVE Sound(k, entry[k])'
    BY <1>4, <1>14
  <2>1. file'[k][entry[k]] = file[k][entry[k]]
    BY <1>11, <1>14
  <2>2. CASE file[k][entry[k]] = Whole(k)
    BY <1>14, <2>1, <2>2 DEF Sound
  <2>3. CASE Covered(k, entry[k])
    <3>1. PICK s \in Writers(k) : th[s].fd = entry[k] /\ \A c \in 1 .. th[s].n : file[k][entry[k]][c] = k
      BY <2>3 DEF Covered
    <3>2. s \in Writers(k)' /\ th'[s] = th[s]
      BY <1>10
    <3> QED
      BY <1>14, <2>1, <3>1, <3>2 DEF Sound, Covered
  <2> QED
    BY <1>13, <2>2, <2>3 DEF KeyInv, Sound
<1>16. k \notin raced' => Writers(k)' = {t}
  BY <1>4, <1>10
<1>17. KeyInv(k)'
  BY <1>4, <1>8, <1>10, <1>11, <1>12, <1>14, <1>15, <1>16 DEF KeyInv
<1>18. ASSUME NEW j \in Keys, j # k PROVE KeyInv(j)'
  <2>1. entry'[j] = entry[j] /\ tmp'[j] = tmp[j] /\ file'[j] = file[j]
    BY <1>2, <1>4, <1>18 DEF CacheTypes
  <2>2. raced \subseteq raced' /\ cut \subseteq cut'
    BY <1>4
  <2> QED
    BY <1>3, <1>4, <1>8, <1>18, <2>1, <2>2, OtherKeyKeeps
<1> QED
  BY <1>7, <1>9, <1>17, <1>18

LEMMA WritePieceKeeps ==
  ASSUME CacheTypes, ThreadsOK, \A k \in Keys : KeyInv(k), NEW t \in Threads, WritePiece(t)
  PROVE  CacheTypes' /\ ThreadsOK' /\ \A k \in Keys : KeyInv(k)'
<1>a. PICK x : x = th[t]
  OBVIOUS
<1>b. PICK k : k = KeyOf(x)
  OBVIOUS
<1>c. PICK f : f = x.fd
  OBVIOUS
<1>d. PICK n : n = x.n + 1
  OBVIOUS
<1>e. PICK y : y = Wrote(x, f, n)
  OBVIOUS
<1>1. x.pc = "write" /\ x.pc \in Filler
  BY <1>a DEF WritePiece, Filler
<1>2. /\ x \in ThreadSet /\ Shape(x) /\ TInv(x, dir, raced) /\ dir \in Dirs /\ k \in Keys
      /\ k \in Objects /\ k = x.want[Filling(x)]
  BY <1>1, <1>a, <1>b, FillerFacts
<1>3. t \in Writers(k) /\ Writers(k) \subseteq Threads
  BY <1>1, <1>a, <1>b DEF Writers, Writing
<1>4. n \in 1 .. Chunks /\ f \in Files /\ x.n = n - 1 /\ n \in Nat
  <2>1. x.n \in 0 .. Chunks /\ x.n < Chunks /\ x.fd \in Files \cup {NoFile} /\ x.fd # NoFile
    BY <1>1, <1>2, Typed DEF Shape
  <2> QED
    BY <1>c, <1>d, <2>1, ReadsAssumption
<1>5. /\ file' = [file EXCEPT ![k][f][n] = k] /\ th' = [th EXCEPT ![t] = y]
      /\ tmp' = tmp /\ entry' = entry /\ cut' = cut /\ raced' = raced /\ dir' = dir /\ proc' = proc
  <2>1. th' = [th EXCEPT ![t].n = x.n + 1, ![t].pc = IF x.n + 1 = Chunks THEN "rename" ELSE "write"]
    BY <1>a DEF WritePiece
  <2>2. th[t] = x /\ x.fd = f
    BY <1>a, <1>c
  <2>3. y = [x EXCEPT !.n = n, !.pc = IF n = Chunks THEN "rename" ELSE "write"]
    BY <1>2, <1>c, <1>e DEF Wrote, ThreadSet
  <2>4. th' = [th EXCEPT ![t] = y]
    BY <1>d, <2>1, <2>2, <2>3 DEF ThreadsOK
  <2> QED
    BY <1>2, <1>a, <1>b, <1>c, <1>d, <2>4 DEF WritePiece
<1>6. CacheTypes'
  <2>1. \A g \in Contents : [g EXCEPT ![n] = k] \in Contents
    BY <1>2, <1>4 DEF Contents
  <2> QED
    BY <1>2, <1>4, <1>5, <2>1 DEF CacheTypes
<1>7. TInv(y, dir, raced) /\ KeyOf(y) = k /\ y.fd = f /\ y.n = n /\ y.pc \in {"write", "rename"}
  <2>1. n \in 0 .. Chunks /\ x.pc \in {"fetch", "create", "write"}
    BY <1>1, <1>4
  <2>2. TInv(y, dir, raced) /\ KeyOf(y) = KeyOf(x) /\ y.fd = f /\ y.n = n /\ y.pc \in {"write", "rename"}
    BY <1>2, <1>4, <1>e, <2>1, WriterKeeps
  <2> QED
    BY <1>b, <2>2
<1>8. ThreadsOK'
  BY <1>5, <1>7, ThreadsKeep
<1>9. Writers(k)' = Writers(k) /\ th'[t] = y /\ \A s \in Threads \ {t} : th'[s] = th[s]
  <2>1. Writers(k)' = Writers(k) \cup {t}
    BY <1>5, <1>7, WritersChange
  <2> QED
    BY <1>3, <1>5, <2>1, ThreadChange
<1>10. /\ \A g \in Files \ {f} : file'[k][g] = file[k][g]
       /\ \A c \in 1 .. Chunks : file'[k][f][c] = IF c = n THEN k ELSE file[k][f][c]
       /\ file[k][f] \in Contents /\ file'[k][f] \in Contents
  <2>1. file \in [Keys -> [Files -> Contents]] /\ file' \in [Keys -> [Files -> Contents]]
    BY <1>6 DEF CacheTypes
  <2>2. /\ file[k] \in [Files -> Contents]
        /\ file'[k] = [file[k] EXCEPT ![f] = [file[k][f] EXCEPT ![n] = k]]
    BY <1>2, <1>5, <2>1
  <2>3. file[k][f] \in Contents /\ file'[k][f] = [file[k][f] EXCEPT ![n] = k]
    BY <1>4, <2>2
  <2>4. \A c \in 1 .. Chunks : file'[k][f][c] = IF c = n THEN k ELSE file[k][f][c]
    BY <2>3 DEF Contents
  <2>5. file'[k][f] \in Contents
    BY <1>2, <1>4, <2>1
  <2> QED
    BY <1>4, <2>2, <2>3, <2>4, <2>5
<1>11. KeyInv(k)
  BY <1>2
<1>12. ASSUME NEW g \in Files, Sound(k, g) PROVE Sound(k, g)'
  <2>1. CASE file[k][g] = Whole(k)
    <3>1. file'[k][g] = Whole(k)
      <4>1. CASE g # f
        BY <1>10, <2>1, <4>1
      <4>2. CASE g = f
        <5>1. \A c \in 1 .. Chunks : file'[k][f][c] = k
          BY <1>10, <2>1, <4>2 DEF Whole
        <5> QED
          BY <1>10, <4>2, <5>1 DEF Whole, Contents
      <4> QED
        BY <4>1, <4>2
    <3> QED
      BY <3>1 DEF Sound
  <2>2. CASE Covered(k, g)
    <3>1. PICK s \in Writers(k) : th[s].fd = g /\ \A c \in 1 .. th[s].n : file[k][g][c] = k
      BY <2>2 DEF Covered
    <3>2. th[s] \in ThreadSet /\ th[s].n \in 0 .. Chunks
      BY <1>3, <3>1, Typed DEF ThreadsOK, TInv
    <3>3. CASE s = t
      <4>1. g = f /\ \A c \in 1 .. n - 1 : file[k][f][c] = k
        BY <1>4, <1>a, <1>c, <3>1, <3>3
      <4>2. \A c \in 1 .. n : file'[k][f][c] = k
        BY <1>4, <1>10, <4>1, ReadsAssumption
      <4> QED
        BY <1>3, <1>7, <1>9, <4>1, <4>2 DEF Sound, Covered
    <3>4. CASE s # t
      <4>1. th'[s] = th[s] /\ s \in Writers(k)'
        BY <1>3, <1>9, <3>1, <3>4
      <4>2. \A c \in 1 .. th[s].n : file'[k][g][c] = k
        <5>1. 1 .. th[s].n \subseteq 1 .. Chunks
          BY <3>2, ReadsAssumption
        <5> QED
          BY <1>10, <3>1, <5>1
      <4> QED
        BY <3>1, <4>1, <4>2 DEF Sound, Covered
    <3> QED
      BY <3>3, <3>4
  <2> QED
    BY <1>12, <2>1, <2>2 DEF Sound
<1>13. KeyInv(k)'
  <2>1. entry[k] \in Files \cup {NoFile} /\ tmp[k] \in Files \cup {NoFile}
    BY <1>2 DEF CacheTypes
  <2>2. \A s \in Writers(k) : th'[s].fd = th[s].fd
    BY <1>3, <1>7, <1>9, <1>a, <1>c
  <2>3. k \notin cut' /\ entry'[k] # NoFile => Sound(k, entry[k])'
    BY <1>5, <1>11, <1>12, <2>1 DEF KeyInv
  <2>4. k \notin cut' /\ tmp'[k] # NoFile /\ Writers(k)' # {} => Sound(k, tmp[k])'
    BY <1>5, <1>9, <1>11, <1>12, <2>1 DEF KeyInv
  <2> QED
    BY <1>5, <1>9, <1>11, <2>2, <2>3, <2>4 DEF KeyInv
<1>14. ASSUME NEW j \in Keys, j # k PROVE KeyInv(j)'
  <2>1. entry'[j] = entry[j] /\ tmp'[j] = tmp[j] /\ file'[j] = file[j]
    BY <1>2, <1>5, <1>14 DEF CacheTypes
  <2>2. raced \subseteq raced' /\ cut \subseteq cut'
    BY <1>5
  <2>3. KeyOf(th[t]) # j
    BY <1>14, <1>a, <1>b
  <2> QED
    BY <1>5, <1>7, <1>14, <2>1, <2>2, <2>3, OtherKeyKeeps
<1> QED
  BY <1>6, <1>8, <1>13, <1>14

LEMMA FilledPc ==
  ASSUME NEW x \in ThreadSet
  PROVE  Filled(x).pc \in {"create", "served"}
BY DEF Filled, ThreadSet

LEMMA RenameKeeps ==
  ASSUME CacheTypes, ThreadsOK, \A k \in Keys : KeyInv(k), NEW t \in Threads, Rename(t)
  PROVE  CacheTypes' /\ ThreadsOK' /\ \A k \in Keys : KeyInv(k)'
<1>a. PICK x : x = th[t]
  OBVIOUS
<1>b. PICK k : k = KeyOf(x)
  OBVIOUS
<1>c. PICK y : y = Filled(x)
  OBVIOUS
<1>1. x.pc = "rename" /\ x.pc \in Filler
  BY <1>a DEF Rename, Filler
<1>2. /\ x \in ThreadSet /\ Shape(x) /\ TInv(x, dir, raced) /\ dir \in Dirs /\ k \in Keys
      /\ x.n = Chunks
  BY <1>1, <1>a, <1>b, FillerFacts DEF Shape
<1>3. t \in Writers(k)
  BY <1>1, <1>a, <1>b DEF Writers, Writing
<1>4. /\ th' = [th EXCEPT ![t] = y] /\ file' = file /\ cut' = cut /\ raced' = raced
      /\ dir' = dir /\ proc' = proc
      /\ \/ tmp[k] = NoFile /\ entry' = entry /\ tmp' = tmp
         \/ /\ tmp[k] # NoFile /\ entry' = [entry EXCEPT ![k] = tmp[k]]
            /\ tmp' = [tmp EXCEPT ![k] = NoFile]
  BY <1>a, <1>b, <1>c DEF Rename
<1>5. CacheTypes'
  BY <1>2, <1>4 DEF CacheTypes
<1>6. TInv(y, dir, raced) /\ y.pc \notin {"write", "rename"}
  BY <1>1, <1>2, <1>c, FilledKeeps, FilledPc
<1>7. ThreadsOK'
  BY <1>4, <1>6, ThreadsKeep
<1>8. Writers(k)' = Writers(k) \ {t} /\ \A s \in Writers(k) \ {t} : th'[s] = th[s]
  <2>1. Writers(k)' = Writers(k) \ {t}
    BY <1>4, <1>6, WritersChange
  <2>2. Writers(k) \subseteq Threads
    BY DEF Writers
  <2> QED
    BY <1>4, <2>1, <2>2, ThreadChange
<1>9. ASSUME NEW g \in Files, Sound(k, g) PROVE Sound(k, g)'
  <2>1. CASE file[k][g] = Whole(k)
    BY <1>4, <2>1 DEF Sound
  <2>2. CASE Covered(k, g)
    <3>1. PICK s \in Writers(k) : th[s].fd = g /\ \A c \in 1 .. th[s].n : file[k][g][c] = k
      BY <2>2 DEF Covered
    <3>2. CASE s = t
      <4>1. \A c \in 1 .. Chunks : file[k][g][c] = k
        BY <1>2, <1>a, <3>1, <3>2
      <4>2. file[k][g] \in [1 .. Chunks -> Objects \cup {Nothing}]
        BY <1>2 DEF CacheTypes, Contents
      <4>3. file[k][g] = Whole(k)
        BY <4>1, <4>2 DEF Whole
      <4> QED
        BY <1>4, <4>3 DEF Sound
    <3>3. CASE s # t
      BY <1>4, <1>8, <3>1, <3>3 DEF Sound, Covered
    <3> QED
      BY <3>2, <3>3
  <2> QED
    BY <1>9, <2>1, <2>2 DEF Sound
<1>10. KeyInv(k) /\ entry[k] \in Files \cup {NoFile} /\ tmp[k] \in Files \cup {NoFile}
  BY <1>2 DEF CacheTypes
<1>11. k \notin raced => Writers(k)' = {}
  BY <1>3, <1>8, <1>10 DEF KeyInv
<1>12. /\ k \notin raced' => \A s, u \in Writers(k)' : s = u
       /\ k \notin raced' => \A s \in Writers(k)' : th'[s].fd = tmp'[k]
  BY <1>4, <1>11
<1>13. tmp'[k] = NoFile /\ (k \notin cut' /\ entry'[k] # NoFile => Sound(k, entry[k])')
  <2>1. PICK g : g = entry'[k]
    OBVIOUS
  <2>2. CASE tmp[k] = NoFile
    <3>1. g = entry[k] /\ tmp'[k] = NoFile
      BY <1>4, <2>1, <2>2
    <3>2. k \notin cut /\ g # NoFile => Sound(k, g)
      BY <1>10, <3>1 DEF KeyInv
    <3>3. k \notin cut' /\ g # NoFile => Sound(k, g)'
      BY <1>4, <1>9, <1>10, <3>1, <3>2
    <3> QED
      BY <2>1, <3>1, <3>3 DEF Sound, Covered
  <2>3. CASE tmp[k] # NoFile
    <3>1. g = tmp[k] /\ tmp'[k] = NoFile
      BY <1>2, <1>4, <2>1, <2>3 DEF CacheTypes
    <3>2. k \notin cut => Sound(k, g)
      BY <1>3, <1>10, <2>3, <3>1 DEF KeyInv
    <3>3. k \notin cut' => Sound(k, g)'
      BY <1>4, <1>9, <1>10, <2>3, <3>1, <3>2
    <3> QED
      BY <2>1, <3>1, <3>3 DEF Sound, Covered
  <2> QED
    BY <2>2, <2>3
<1>14. KeyInv(k)'
  BY <1>12, <1>13 DEF KeyInv
<1>15. ASSUME NEW j \in Keys, j # k PROVE KeyInv(j)'
  <2>1. entry'[j] = entry[j] /\ tmp'[j] = tmp[j] /\ file'[j] = file[j]
    BY <1>2, <1>4, <1>15 DEF CacheTypes
  <2>2. raced \subseteq raced' /\ cut \subseteq cut' /\ KeyOf(th[t]) # j
    BY <1>4, <1>15, <1>a, <1>b
  <2> QED
    BY <1>4, <1>6, <1>15, <2>1, <2>2, OtherKeyKeeps
<1> QED
  BY <1>5, <1>7, <1>14, <1>15

LEMMA WriteFailsKeeps ==
  ASSUME CacheTypes, ThreadsOK, \A k \in Keys : KeyInv(k), NEW t \in Threads, WriteFails(t)
  PROVE  CacheTypes' /\ ThreadsOK' /\ \A k \in Keys : KeyInv(k)'
<1>a. PICK x : x = th[t]
  OBVIOUS
<1>b. PICK y : y = Filled(x)
  OBVIOUS
<1>1. x.pc \in {"fetch", "create", "write"} /\ x.pc \in Filler
  BY <1>a DEF WriteFails, Filler
<1>2. /\ x \in ThreadSet /\ Shape(x) /\ TInv(x, dir, raced) /\ dir \in Dirs /\ KeyOf(x) \in Keys
  BY <1>1, <1>a, FillerFacts
<1>3. /\ th' = [th EXCEPT ![t] = y] /\ file' = file /\ raced' = raced
      /\ dir' = dir /\ proc' = proc /\ entry' = entry /\ tmp' = tmp
      /\ cut' = IF Writing(t) /\ KeyOf(x) \in raced THEN cut \cup {KeyOf(x)} ELSE cut
  BY <1>a, <1>b DEF WriteFails, Fails, AfterWriteError
<1>4. CacheTypes'
  BY <1>3 DEF CacheTypes
<1>5. TInv(y, dir, raced) /\ y.pc \notin {"write", "rename"}
  BY <1>1, <1>2, <1>b, FilledKeeps, FilledPc
<1>6. ThreadsOK'
  BY <1>3, <1>5, ThreadsKeep
<1>7. ASSUME NEW k \in Keys PROVE KeyInv(k)'
  <2>1. Writers(k)' = Writers(k) \ {t}
    BY <1>3, <1>5, WritersChange
  <2>2. \A s \in Writers(k) \ {t} : th'[s] = th[s]
    <3>1. Writers(k) \subseteq Threads
      BY DEF Writers
    <3> QED
      BY <1>3, <3>1, ThreadChange
  <2>3. Writers(k) \cap {t} = {} \/ (k \in raced => k \in cut')
    BY <1>3, <1>a DEF Writers
  <2>4. raced \subseteq raced' /\ cut \subseteq cut'
    BY <1>3
  <2> QED
    BY <1>3, <2>1, <2>2, <2>3, <2>4, LeavingKeeps
<1> QED
  BY <1>4, <1>6, <1>7

LEMMA IdleOK == ASSUME NEW d, NEW r PROVE TInv(Idle, d, r)
<1>1. Idle = Returned(<<>>, "none", <<>>)
  BY DEF Idle, Returned
<1>2. ResOK(Idle, d, r)
  BY DEF ResOK, Idle
<1>3. "none" \in Kinds
  BY DEF Kinds
<1> QED
  BY <1>1, <1>2, <1>3, EmptySlots, IdleKeeps

LEMMA CrashKeeps ==
  ASSUME CacheTypes, ThreadsOK, \A k \in Keys : KeyInv(k), NEW p, Crash(p)
  PROVE  CacheTypes' /\ ThreadsOK' /\ \A k \in Keys : KeyInv(k)'
<1> DEFINE dead == {t \in Threads : proc[t] = p}
<1>1. PICK D : D = dead
  OBVIOUS
<1>2. /\ th' = [t \in Threads |-> IF t \in D THEN Idle ELSE th[t]]
      /\ cut' = cut \cup (raced \cap {KeyOf(th[t]) : t \in {d \in D : Writing(d)}})
      /\ entry' = entry /\ tmp' = tmp /\ file' = file /\ raced' = raced /\ dir' = dir /\ proc' = proc
  BY <1>1 DEF Crash, Fails
<1>3. CacheTypes'
  BY <1>2 DEF CacheTypes
<1>4. ThreadsOK'
  <2>1. \A t \in Threads : TInv(th'[t], dir, raced)
    BY <1>2, IdleOK DEF ThreadsOK
  <2> QED
    BY <1>2, <2>1 DEF ThreadsOK
<1>5. Idle.pc = "idle"
  BY DEF Idle
<1>6. ASSUME NEW k \in Keys PROVE KeyInv(k)'
  <2>1. \A s \in Threads \ D : th'[s] = th[s]
    BY <1>2
  <2>2. \A s \in D : ~Writing(s)'
    <3>1. D \subseteq Threads
      BY <1>1
    <3> QED
      BY <1>2, <1>5, <3>1 DEF Writing
  <2>3. \A s \in Threads \ D : Writing(s)' = Writing(s) /\ KeyOf(th[s])' = KeyOf(th[s])
    BY <2>1 DEF Writing, KeyOf, Filling, Missing
  <2>4. Writers(k)' = Writers(k) \ D
    BY <2>2, <2>3 DEF Writers
  <2>5. Writers(k) \cap D = {} \/ (k \in raced => k \in cut')
    BY <1>2 DEF Writers
  <2>6. raced \subseteq raced' /\ cut \subseteq cut' /\ Writers(k) \subseteq Threads
    BY <1>2 DEF Writers
  <2> QED
    BY <1>2, <2>1, <2>4, <2>5, <2>6, LeavingKeeps
<1> QED
  BY <1>3, <1>4, <1>6
-----------------------------------------------------------------------------
(* The other actions.                                                        *)

Others == <<dir, proc, entry, tmp, file, raced, cut>>

\* What is known of a thread of the system.
LEMMA ThreadFacts ==
  ASSUME CacheTypes, ThreadsOK, NEW t \in Threads
  PROVE  /\ TInv(th[t], dir, raced) /\ th[t] \in ThreadSet /\ Shape(th[t]) /\ Meaning(th[t], dir, raced)
         /\ dir \in Dirs /\ dir \in Seq(Nat \ {0})
BY ReadsAssumption DEF CacheTypes, ThreadsOK, TInv

\* The next position of a call that is at the index is in one of the shards.
LEMMA PositionFacts ==
  ASSUME CacheTypes, ThreadsOK, NEW t \in Threads, th[t].pc # "idle",
         Len(th[t].plan) < Len(th[t].ask)
  PROVE  /\ Position(th[t]) \in Nat /\ Len(th[t].plan) + 1 \in 1 .. Len(th[t].ask)
         /\ Position(th[t]) < Total(dir) =>
              LET at == Locate(dir, Position(th[t]))
              IN RowsOf(dir, at.shard)[at.local] = Position(th[t])
<1>1. th[t].ask \in Asks /\ Len(th[t].plan) \in Nat /\ Len(th[t].ask) \in Nat
  BY ThreadFacts, Typed DEF Shape
<1>2. Len(th[t].plan) + 1 \in 1 .. Len(th[t].ask)
  BY <1>1
<1>3. Position(th[t]) \in Nat
  BY <1>1, <1>2, BlobTyped DEF Position
<1> QED
  BY <1>2, <1>3, ThreadFacts, LocateFindsRow

\* What Return leaves of a thread.
LEMMA ReturnKeeps ==
  ASSUME CacheTypes, ThreadsOK, \A k \in Keys : KeyInv(k), NEW t \in Threads, ~Writing(t),
         NEW kind \in Kinds, NEW blobs \in Seq(Slots), Return(t, kind, blobs), UNCHANGED Others,
         ResOK(Returned(th[t].ask, kind, blobs), dir, raced)
  PROVE  CacheTypes' /\ ThreadsOK' /\ \A k \in Keys : KeyInv(k)'
<1>1. PICK y : y = Returned(th[t].ask, kind, blobs)
  OBVIOUS
<1>2. th' = [th EXCEPT ![t] = y]
  <2>1. PICK z : z = [Idle EXCEPT !.ask = th[t].ask, !.res = [kind |-> kind, blobs |-> blobs]]
    OBVIOUS
  <2>2. /\ z.pc = "idle" /\ z.ask = th[t].ask /\ z.plan = <<>> /\ z.out = <<>> /\ z.want = <<>>
        /\ z.got = <<>> /\ z.fd = NoFile /\ z.n = 0 /\ z.res = [kind |-> kind, blobs |-> blobs]
        /\ z = [ pc |-> z.pc, ask |-> z.ask, plan |-> z.plan, out |-> z.out, want |-> z.want,
                 got |-> z.got, fd |-> z.fd, n |-> z.n, res |-> z.res ]
    BY <2>1 DEF Idle
  <2>3. z = y
    BY <1>1, <2>2 DEF Returned
  <2> QED
    BY <2>1, <2>3 DEF Return
<1>3. th[t].ask \in Asks \cup {<<>>}
  BY ThreadFacts, Typed
<1>4. TInv(y, dir, raced) /\ y.pc = "idle"
  BY <1>1, <1>3, IdleKeeps DEF Returned
<1> QED
  BY <1>2, <1>4, PlainKeeps DEF Others

LEMMA NotFoundKeeps ==
  ASSUME CacheTypes, ThreadsOK, \A k \in Keys : KeyInv(k), NEW t \in Threads, NotFound(t)
  PROVE  CacheTypes' /\ ThreadsOK' /\ \A k \in Keys : KeyInv(k)'
<1>1. th[t].pc = "index" /\ ~Writing(t) /\ Len(th[t].plan) < Len(th[t].ask)
  BY ThreadFacts DEF NotFound, Writing, Shape
<1>2. \E p \in 1 .. Len(th[t].ask) : th[t].ask[p] >= Total(dir)
  BY <1>1, PositionFacts DEF NotFound, Position
<1>3. ResOK(Returned(th[t].ask, "NotFound", <<>>), dir, raced)
  BY <1>2 DEF ResOK, Returned
<1>4. "NotFound" \in Kinds /\ Return(t, "NotFound", <<>>) /\ UNCHANGED Others
  BY DEF NotFound, Fail, Kinds, Cache, Others
<1> QED
  BY <1>1, <1>3, <1>4, EmptySlots, ReturnKeeps

LEMMA FetchFailsKeeps ==
  ASSUME CacheTypes, ThreadsOK, \A k \in Keys : KeyInv(k), NEW t \in Threads, FetchFails(t)
  PROVE  CacheTypes' /\ ThreadsOK' /\ \A k \in Keys : KeyInv(k)'
<1>1. ~Writing(t) /\ "store" \in Faults
  BY DEF FetchFails, Fails, Writing
<1>2. ResOK(Returned(th[t].ask, "Unavailable", <<>>), dir, raced)
  BY <1>1 DEF ResOK, Returned
<1>3. "Unavailable" \in Kinds /\ Return(t, "Unavailable", <<>>) /\ UNCHANGED Others
  BY DEF FetchFails, Fails, Fail, Kinds, Cache, Others
<1> QED
  BY <1>1, <1>2, <1>3, EmptySlots, ReturnKeeps

LEMMA AnswerKeeps ==
  ASSUME CacheTypes, ThreadsOK, \A k \in Keys : KeyInv(k), NEW t \in Threads, Answer(t)
  PROVE  CacheTypes' /\ ThreadsOK' /\ \A k \in Keys : KeyInv(k)'
<1>1. th[t].pc = "blobs" /\ Pending(th[t]) = {} /\ ~Writing(t)
  BY DEF Answer, Writing
<1>2. ResOK(Returned(th[t].ask, "ok", th[t].out), dir, raced)
  <2>1. Clean(th[t], dir, raced) => th[t].out = Right(th[t].ask)
    BY <1>1, ThreadFacts, AnswerRes
  <2> QED
    BY <2>1 DEF ResOK, Returned, Clean
<1>3. "ok" \in Kinds /\ Return(t, "ok", th[t].out) /\ UNCHANGED Others /\ th[t].out \in Seq(Slots)
  BY ThreadFacts, Typed DEF Answer, Kinds, Cache, Others
<1> QED
  BY <1>1, <1>2, <1>3, ReturnKeeps

LEMMA CallStepKeeps ==
  ASSUME CacheTypes, ThreadsOK, \A k \in Keys : KeyInv(k), NEW t \in Threads,
         NEW ask \in Asks, Call(t, ask)
  PROVE  CacheTypes' /\ ThreadsOK' /\ \A k \in Keys : KeyInv(k)'
<1>1. PICK y : y = [Idle EXCEPT !.pc = "index", !.ask = ask]
  OBVIOUS
<1>2. TInv(y, dir, raced) /\ y.pc = "index"
  BY <1>1, CallKeeps DEF Idle
<1> QED
  BY <1>1, <1>2, PlainKeeps DEF Call, Writing, Cache

LEMMA LoadShardKeeps ==
  ASSUME CacheTypes, ThreadsOK, \A k \in Keys : KeyInv(k), NEW t \in Threads, LoadShard(t)
  PROVE  CacheTypes' /\ ThreadsOK' /\ \A k \in Keys : KeyInv(k)'
<1>1. PICK o : o = IndexShard(Locate(dir, Position(th[t])).shard)
  OBVIOUS
<1>2. PICK y : y = [th[t] EXCEPT !.pc = "look", !.want = <<o>>]
  OBVIOUS
<1>3. /\ th[t].pc = "index" /\ Position(th[t]) < Total(dir) /\ UNCHANGED Others
      /\ th' = [th EXCEPT ![t].pc = "look", ![t].want = <<o>>]
  BY <1>1 DEF LoadShard, Cache, Others
<1>4. th' = [th EXCEPT ![t] = y] /\ y.pc = "look"
  BY <1>2, <1>3, ThreadFacts DEF ThreadsOK, ThreadSet
<1>5. TInv(y, dir, raced)
  BY <1>1, <1>2, <1>3, ThreadFacts, LoadKeeps
<1> QED
  BY <1>3, <1>4, <1>5, PlainKeeps DEF Others, Writing

LEMMA AskBlobsKeeps ==
  ASSUME CacheTypes, ThreadsOK, \A k \in Keys : KeyInv(k), NEW t \in Threads, AskBlobs(t)
  PROVE  CacheTypes' /\ ThreadsOK' /\ \A k \in Keys : KeyInv(k)'
<1>0. PICK p \in Pending(th[t]) :
        \E ps \in Ascending(InShard(th[t], th[t].plan[p][1])) :
          th' = [th EXCEPT ![t].pc = "look",
                           ![t].want = [j \in 1 .. Len(ps) |-> th[t].plan[ps[j]]]]
  BY DEF AskBlobs
<1>1. PICK ps \in Ascending(InShard(th[t], th[t].plan[p][1])) :
        th' = [th EXCEPT ![t].pc = "look", ![t].want = AskedAt(th[t], ps)]
  BY <1>0 DEF AskedAt
<1>2. PICK y : y = Asking(th[t], ps)
  OBVIOUS
<1>3. th' = [th EXCEPT ![t] = y] /\ y.pc = "look"
  BY <1>1, <1>2, ThreadFacts DEF ThreadsOK, ThreadSet, Asking
<1>4. th[t].pc = "blobs" /\ UNCHANGED Others /\ ~Writing(t)
  BY DEF AskBlobs, Others, Cache, Writing
<1>5. TInv(y, dir, raced)
  <2>1. TInv(th[t], dir, raced) /\ dir \in Dirs
    BY ThreadFacts
  <2>2. th[t].pc = "blobs" /\ SlotsOfShard(th[t], ps)
    BY <1>1, <1>4 DEF SlotsOfShard
  <2> QED
    BY <1>2, <2>1, <2>2, AskKeeps
<1> QED
  BY <1>3, <1>4, <1>5, PlainKeeps DEF Others

LEMMA TakeBlobsKeeps ==
  ASSUME CacheTypes, ThreadsOK, \A k \in Keys : KeyInv(k), NEW t \in Threads, TakeBlobs(t)
  PROVE  CacheTypes' /\ ThreadsOK' /\ \A k \in Keys : KeyInv(k)'
<1>1. PICK x : x = th[t]
  OBVIOUS
<1>2. /\ x.pc = "served" /\ Len(x.plan) = Len(x.ask) /\ UNCHANGED Others /\ ~Writing(t)
      /\ x \in ThreadSet /\ TInv(x, dir, raced) /\ dir \in Dirs
  BY <1>1, ThreadFacts DEF TakeBlobs, Others, Cache, Writing
<1>3. CASE Fail(t, "Panic") /\ \E j \in 1 .. Len(x.got) : Short(x.got[j])
  <2>1. ~Clean(x, dir, raced)
    BY <1>2, <1>3, ServedWhole
  <2>2. ResOK(Returned(th[t].ask, "Panic", <<>>), dir, raced)
    BY <1>1, <2>1 DEF ResOK, Returned, Clean
  <2>3. "Panic" \in Kinds /\ Return(t, "Panic", <<>>)
    BY <1>3 DEF Fail, Kinds
  <2> QED
    BY <1>2, <2>2, <2>3, EmptySlots, ReturnKeeps
<1>4. CASE th' = [th EXCEPT ![t].pc = "blobs", ![t].want = <<>>, ![t].got = <<>>, ![t].out = Taken(x)]
  <2>1. PICK y : y = [x EXCEPT !.pc = "blobs", !.want = <<>>, !.got = <<>>, !.out = Taken(x)]
    OBVIOUS
  <2>2. th' = [th EXCEPT ![t] = y] /\ y.pc = "blobs"
    BY <1>1, <1>2, <1>4, <2>1 DEF ThreadsOK, ThreadSet
  <2>3. TInv(y, dir, raced)
    BY <1>2, <2>1, TakeKeeps
  <2> QED
    BY <1>2, <2>2, <2>3, PlainKeeps DEF Others
<1>5. \/ Fail(t, "Panic") /\ \E j \in 1 .. Len(x.got) : Short(x.got[j])
      \/ th' = [th EXCEPT ![t].pc = "blobs", ![t].want = <<>>, ![t].got = <<>>, ![t].out = Taken(x)]
  <2>1. \/ Fail(t, "Panic") /\ \E j \in 1 .. Len(th[t].got) : Short(th[t].got[j])
        \/ th' = [th EXCEPT ![t].pc = "blobs", ![t].want = <<>>, ![t].got = <<>>,
                          ![t].out = Taken(th[t])]
    BY DEF TakeBlobs, Taken
  <2> QED
    BY <1>1, <2>1
<1> QED
  BY <1>3, <1>4, <1>5

\* An entry a call looks up is whole, if nobody ever raced for it.
LEMMA LookedUp ==
  ASSUME NEW k, KeyInv(k), k \notin raced, cut \subseteq raced, entry[k] # NoFile
  PROVE  file[k][entry[k]] = Whole(k)
BY DEF KeyInv, Sound, Covered

LEMMA LookStepKeeps ==
  ASSUME CacheTypes, ThreadsOK, \A k \in Keys : KeyInv(k), NEW t \in Threads, Look(t)
  PROVE  CacheTypes' /\ ThreadsOK' /\ \A k \in Keys : KeyInv(k)'
<1>1. PICK x : x = th[t]
  OBVIOUS
<1>2. PICK k : k = x.want[Len(x.got) + 1]
  OBVIOUS
<1>3. PICK v : v = IF entry[k] = NoFile THEN Nothing ELSE file[k][entry[k]]
  OBVIOUS
<1>4. /\ x.pc = "look" /\ UNCHANGED Others /\ ~Writing(t) /\ x \in ThreadSet /\ Shape(x)
      /\ TInv(x, dir, raced) /\ dir \in Dirs /\ Meaning(x, dir, raced)
  BY <1>1, ThreadFacts DEF Look, Others, Cache, Writing
<1>5. Len(x.got) + 1 \in 1 .. Len(x.want) /\ x.ask \in Asks /\ Len(x.plan) <= Len(x.ask)
  BY <1>4, Typed DEF Shape
<1>6. k \in TouchedIn(x.ask, dir) /\ k \in Keys
  <2>1. \A p \in 1 .. Len(x.plan) : x.plan[p] = BlobOf(x.ask[p])
    BY <1>4 DEF Meaning, PlanOK
  <2>2. WantOK(x, dir)
    BY <1>4 DEF Meaning
  <2> QED
    BY <1>2, <1>4, <1>5, <2>1, <2>2, WantTouched
<1>7. v \in Slots
  <2>1. entry[k] \in Files \cup {NoFile} /\ file[k] \in [Files -> Contents]
    BY <1>6 DEF CacheTypes
  <2> QED
    BY <1>3, <2>1 DEF Slots
<1>8. v # Nothing /\ Clean(x, dir, raced) => v = Whole(k)
  <2> SUFFICES ASSUME v # Nothing, Clean(x, dir, raced) PROVE v = Whole(k)
    OBVIOUS
  <2>1. k \notin raced /\ cut \subseteq raced /\ entry[k] # NoFile
    BY <1>3, <1>6 DEF Clean, CacheTypes
  <2> QED
    BY <1>3, <1>6, <2>1, LookedUp
<1>9. PICK g : g = Append(x.got, v)
  OBVIOUS
<1>10. PICK at : at = IF Len(g) < Len(x.want) THEN "look" ELSE AfterLooks(g)
  OBVIOUS
<1>11. PICK y : y = [x EXCEPT !.got = g, !.pc = at]
  OBVIOUS
<1>12. th' = [th EXCEPT ![t].got = g, ![t].pc = at]
  BY <1>1, <1>2, <1>3, <1>9, <1>10 DEF Look, CacheKey
<1>13. th' = [th EXCEPT ![t] = y] /\ y.pc = at
  BY <1>1, <1>4, <1>11, <1>12 DEF ThreadsOK, ThreadSet
<1>14. TInv(y, dir, raced)
  BY <1>2, <1>4, <1>7, <1>8, <1>9, <1>10, <1>11, LookKeeps
<1>15. y.pc \notin {"write", "rename"}
  BY <1>10, <1>13 DEF AfterLooks
<1> QED
  BY <1>4, <1>13, <1>14, <1>15, PlainKeeps DEF Others

LEMMA HitKeeps ==
  ASSUME CacheTypes, ThreadsOK, LruRows, \A k \in Keys : KeyInv(k), NEW t \in Threads, Hit(t)
  PROVE  CacheTypes' /\ ThreadsOK' /\ \A k \in Keys : KeyInv(k)'
<1>1. PICK at : at = Locate(dir, Position(th[t]))
  OBVIOUS
<1>2. PICK rows : rows = lru[proc[t]].map[at.shard]
  OBVIOUS
<1>3. PICK y : y = Resolved(th[t], rows, at.local)
  OBVIOUS
<1>4. /\ th[t].pc = "index" /\ Position(th[t]) < Total(dir) /\ UNCHANGED Others /\ ~Writing(t)
      /\ at.shard \in Cached(lru[proc[t]]) /\ th' = [th EXCEPT ![t] = y]
  BY <1>1, <1>2, <1>3 DEF Hit, Others, Cache, Writing
<1>5. Len(th[t].plan) < Len(th[t].ask)
  BY <1>4, ThreadFacts DEF Shape
<1>6. rows = RowsOf(dir, at.shard)
  <2>1. proc[t] \in Procs
    BY ReadsAssumption DEF CacheTypes
  <2> QED
    BY <1>2, <1>4, <2>1 DEF LruRows
<1>7. rows[at.local] = Position(th[t])
  BY <1>1, <1>4, <1>5, <1>6, PositionFacts
<1>8. TInv(y, dir, raced)
  BY <1>3, <1>4, <1>5, <1>7, ThreadFacts, ResolvedKeeps
<1>9. y.pc \notin {"write", "rename"}
  BY <1>3, ThreadFacts DEF Resolved, ThreadSet
<1> QED
  BY <1>4, <1>8, <1>9, PlainKeeps DEF Others

\* A thread that has what it asked of the index asked for a shard.
LEMMA InsertFacts ==
  ASSUME CacheTypes, ThreadsOK, NEW t \in Threads, th[t].pc = "served",
         Len(th[t].plan) < Len(th[t].ask)
  PROVE  Position(th[t]) < Total(dir) /\ 1 \in 1 .. Len(th[t].got)
<1>1. Shape(th[t]) /\ WantOK(th[t], dir) /\ th[t] \in ThreadSet
  BY ThreadFacts DEF Meaning
<1>2. Len(th[t].want) > 0 /\ Len(th[t].got) = Len(th[t].want) /\ Len(th[t].want) \in Nat
  BY <1>1, Typed DEF Shape
<1>3. th[t].want # <<>>
  BY <1>2, EmptySlots
<1>4. Len(th[t].plan) # Len(th[t].ask)
  BY <1>1, Typed
<1> QED
  BY <1>1, <1>2, <1>3, <1>4 DEF WantOK

LEMMA InsertKeeps ==
  ASSUME CacheTypes, ThreadsOK, \A k \in Keys : KeyInv(k), NEW t \in Threads, Insert(t)
  PROVE  CacheTypes' /\ ThreadsOK' /\ \A k \in Keys : KeyInv(k)'
<1>1. PICK at : at = Locate(dir, Position(th[t]))
  OBVIOUS
<1>2. PICK rows : rows = RowsOf(dir, at.shard)
  OBVIOUS
<1>3. PICK y : y = Resolved(th[t], rows, at.local)
  OBVIOUS
<1>4. /\ th[t].pc = "served" /\ Len(th[t].plan) < Len(th[t].ask) /\ UNCHANGED Others /\ ~Writing(t)
      /\ \/ th' = [th EXCEPT ![t] = y]
         \/ th[t].got[1] # Whole(th[t].want[1]) /\ Fail(t, "Corrupt")
  BY <1>1, <1>2, <1>3 DEF Insert, Others, Cache, Writing
<1>5. Position(th[t]) < Total(dir) /\ 1 \in 1 .. Len(th[t].got)
  BY <1>4, InsertFacts
<1>6. CASE th' = [th EXCEPT ![t] = y]
  <2>1. rows[at.local] = Position(th[t])
    BY <1>1, <1>2, <1>4, <1>5, PositionFacts
  <2>2. TInv(y, dir, raced)
    BY <1>3, <1>4, <1>5, <2>1, ThreadFacts, ResolvedKeeps
  <2>3. y.pc \notin {"write", "rename"}
    BY <1>3, ThreadFacts DEF Resolved, ThreadSet
  <2> QED
    BY <1>4, <1>6, <2>2, <2>3, PlainKeeps DEF Others
<1>7. CASE th[t].got[1] # Whole(th[t].want[1]) /\ Fail(t, "Corrupt")
  <2>1. ~Clean(th[t], dir, raced)
    BY <1>4, <1>5, <1>7, ThreadFacts, ServedWhole
  <2>2. ResOK(Returned(th[t].ask, "Corrupt", <<>>), dir, raced)
    BY <2>1 DEF ResOK, Returned, Clean
  <2>3. "Corrupt" \in Kinds /\ Return(t, "Corrupt", <<>>)
    BY <1>7 DEF Fail, Kinds
  <2> QED
    BY <1>4, <2>2, <2>3, EmptySlots, ReturnKeeps
<1> QED
  BY <1>4, <1>6, <1>7
-----------------------------------------------------------------------------
(* The invariant, and what it implies.                                       *)

RowsKept(c, d) == \A k \in Cached(c) : c.map[k] = RowsOf(d, k)

LEMMA UsedRows ==
  ASSUME NEW c, GoodLru(c), NEW d, RowsKept(c, d), NEW k
  PROVE  RowsKept(Used(c, k), d)
<1>1. Used(c, k).map = c.map
  BY DEF Used, GoodLru
<1> QED
  BY <1>1 DEF RowsKept, Cached

LEMMA InsertedRows ==
  ASSUME NEW c, NEW d, RowsKept(c, d), NEW k
  PROVE  RowsKept(Inserted(c, k, RowsOf(d, k)), d)
<1>1. RowsKept(Popped(c), d)
  BY DEF RowsKept, Popped, Cached
<1>2. ASSUME NEW e, RowsKept(e, d) PROVE RowsKept(Put(e, k, RowsOf(d, k)), d)
  BY <1>2 DEF RowsKept, Put, Cached
<1> QED
  BY <1>1, <1>2 DEF Inserted

LEMMA RowsReplaced ==
  ASSUME LInv, LruRows, dir' = dir, NEW q, NEW e, q \in Procs => RowsKept(e, dir),
         lru' = [lru EXCEPT ![q] = e]
  PROVE  LruRows'
<1>1. \A p \in Procs : RowsKept(lru'[p], dir)
  BY DEF LInv, LruRows, RowsKept
<1> QED
  BY <1>1 DEF LruRows, RowsKept

LEMMA InitHolds == Init => RInv
<1> SUFFICES ASSUME Init PROVE RInv
  OBVIOUS
<1>1. CacheTypes
  <2>1. [c \in 1 .. Chunks |-> Nothing] \in Contents
    BY DEF Contents
  <2> QED
    BY <2>1 DEF Init, CacheTypes
<1>2. ThreadsOK
  <2>1. th = [t \in Threads |-> Idle]
    BY DEF Init
  <2> QED
    BY <2>1, IdleOK DEF ThreadsOK
<1>3. LInv
  BY InitGood
<1>4. LruRows
  <2>1. Cached(EmptyLru) = {}
    BY EmptySeq DEF Cached, EmptyLru
  <2> QED
    BY <2>1 DEF Init, LruRows
<1>5. ASSUME NEW k \in Keys PROVE KeyInv(k)
  <2>1. Writers(k) = {}
    BY DEF Init, Writers, Writing, Idle
  <2> QED
    BY <1>5, <2>1 DEF Init, KeyInv
<1> QED
  BY <1>1, <1>2, <1>3, <1>4, <1>5 DEF RInv

LEMMA LruRowsKeep == RInv /\ [Next]_vars => LruRows'
<1> SUFFICES ASSUME RInv, [Next]_vars PROVE LruRows'
  OBVIOUS
<1>0. LInv /\ LruRows /\ \A p \in Procs : RowsKept(lru[p], dir) /\ GoodLru(lru[p])
  BY DEF RInv, LruRows, RowsKept, LInv
<1>1. ASSUME NEW t \in Threads, Hit(t) PROVE LruRows'
  <2>1. PICK k : k = Locate(dir, Position(th[t])).shard
    OBVIOUS
  <2>2. lru' = [lru EXCEPT ![proc[t]] = Used(lru[proc[t]], k)] /\ dir' = dir
    BY <1>1, <2>1 DEF Hit
  <2> QED
    BY <1>0, <2>2, UsedRows, RowsReplaced
<1>2. ASSUME NEW t \in Threads, Insert(t) PROVE LruRows'
  <2>1. PICK k : k = Locate(dir, Position(th[t])).shard
    OBVIOUS
  <2>2. \/ lru' = lru /\ dir' = dir
        \/ lru' = [lru EXCEPT ![proc[t]] = Inserted(lru[proc[t]], k, RowsOf(dir, k))] /\ dir' = dir
    BY <1>2, <2>1 DEF Insert
  <2>3. CASE lru' = lru /\ dir' = dir
    BY <1>0, <2>3 DEF LruRows
  <2>4. CASE lru' = [lru EXCEPT ![proc[t]] = Inserted(lru[proc[t]], k, RowsOf(dir, k))] /\ dir' = dir
    BY <1>0, <2>4, InsertedRows, RowsReplaced
  <2> QED
    BY <2>2, <2>3, <2>4
<1>3. ASSUME NEW p \in Procs, Crash(p) PROVE LruRows'
  <2>1. RowsKept(EmptyLru, dir)
    BY EmptySeq DEF RowsKept, Cached, EmptyLru
  <2> QED
    BY <1>0, <1>3, <2>1, RowsReplaced DEF Crash, Fails
<1>4. CASE UNCHANGED <<lru, dir>>
  BY <1>0, <1>4 DEF LruRows
<1>5. ASSUME NEW t \in Threads, Step(t) PROVE UNCHANGED <<lru, dir>> \/ Hit(t) \/ Insert(t)
  BY <1>5 DEF Step, NotFound, LoadShard, AskBlobs, TakeBlobs, Answer, Look, CreateTmp,
              WritePiece, Rename
<1>6. ASSUME NEW t \in Threads, FetchFails(t) \/ WriteFails(t) \/ \E a \in Asks : Call(t, a)
      PROVE  UNCHANGED <<lru, dir>>
  BY <1>6 DEF FetchFails, WriteFails, Call, Fails
<1>7. Rest \/ UNCHANGED vars => UNCHANGED <<lru, dir>>
  BY DEF Rest, vars
<1> QED
  BY <1>1, <1>2, <1>3, <1>4, <1>5, <1>6, <1>7 DEF Next

LEMMA NextHolds == RInv /\ [Next]_vars => RInv'
<1> SUFFICES ASSUME RInv, [Next]_vars PROVE RInv'
  OBVIOUS
<1>0. CacheTypes /\ ThreadsOK /\ LInv /\ LruRows /\ \A k \in Keys : KeyInv(k)
  BY DEF RInv
<1> DEFINE Kept == CacheTypes' /\ ThreadsOK' /\ \A k \in Keys : KeyInv(k)'
<1>1. ASSUME NEW t \in Threads, Step(t) PROVE Kept
  <2>1. CASE NotFound(t)  BY <1>0, <2>1, NotFoundKeeps
  <2>2. CASE Hit(t)  BY <1>0, <2>2, HitKeeps
  <2>3. CASE LoadShard(t)  BY <1>0, <2>3, LoadShardKeeps
  <2>4. CASE Insert(t)  BY <1>0, <2>4, InsertKeeps
  <2>5. CASE AskBlobs(t)  BY <1>0, <2>5, AskBlobsKeeps
  <2>6. CASE TakeBlobs(t)  BY <1>0, <2>6, TakeBlobsKeeps
  <2>7. CASE Answer(t)  BY <1>0, <2>7, AnswerKeeps
  <2>8. CASE Look(t)  BY <1>0, <2>8, LookStepKeeps
  <2>9. CASE CreateTmp(t)  BY <1>0, <2>9, CreateTmpKeeps
  <2>10. CASE WritePiece(t)  BY <1>0, <2>10, WritePieceKeeps
  <2>11. CASE Rename(t)  BY <1>0, <2>11, RenameKeeps
  <2> QED
    BY <1>1, <2>1, <2>2, <2>3, <2>4, <2>5, <2>6, <2>7, <2>8, <2>9, <2>10, <2>11 DEF Step
<1>2. ASSUME NEW t \in Threads, FetchFails(t) \/ WriteFails(t) \/ \E a \in Asks : Call(t, a)
      PROVE  Kept
  BY <1>0, <1>2, FetchFailsKeeps, WriteFailsKeeps, CallStepKeeps
<1>3. ASSUME NEW p \in Procs, Crash(p) PROVE Kept
  BY <1>0, <1>3, CrashKeeps
<1>4. ASSUME Rest \/ UNCHANGED vars PROVE Kept
  <2>1. UNCHANGED vars
    BY <1>4 DEF Rest
  <2>2. CacheTypes' /\ ThreadsOK'
    BY <1>0, <2>1 DEF vars, CacheTypes, ThreadsOK
  <2>3. \A k \in Keys : KeyInv(k)'
    <3> TAKE k \in Keys
    <3>1. Writers(k)' = Writers(k) \ {}
      BY <2>1 DEF vars, Writers, Writing, KeyOf, Filling, Missing
    <3>2. /\ th' = th /\ entry'[k] = entry[k] /\ tmp'[k] = tmp[k] /\ file'[k] = file[k]
          /\ raced \subseteq raced' /\ cut \subseteq cut'
      BY <2>1 DEF vars
    <3>3. Writers(k) \cap {} = {}
      OBVIOUS
    <3> QED
      BY <1>0, <3>1, <3>2, <3>3, LeavingKeeps
  <2> QED
    BY <2>2, <2>3
<1> HIDE DEF Kept
<1>5. Kept
  BY <1>1, <1>2, <1>3, <1>4 DEF Next
<1>6. LInv' /\ LruRows'
  BY <1>0, NextGood, LruRowsKeep
<1> QED
  BY <1>5, <1>6 DEF RInv, Kept

LEMMA RInvTypes == RInv => TypeOK
<1> SUFFICES ASSUME RInv PROVE TypeOK
  OBVIOUS
<1>1. CacheTypes /\ ThreadsOK
  BY DEF RInv
<1>2. ASSUME NEW t \in Threads
      PROVE  /\ th[t].pc \in Pcs
             /\ Len(th[t].plan) = Len(th[t].out) /\ Len(th[t].plan) <= Len(th[t].ask)
             /\ \A j \in 1 .. Len(th[t].want) : th[t].want[j] \in Objects
             /\ \A j \in 1 .. Len(th[t].got) : th[t].got[j] \in Contents \cup {Nothing}
             /\ th[t].n \in 0 .. Chunks
             /\ Writing(t) = (th[t].fd # NoFile)
  <2>1. th[t] \in ThreadSet /\ Shape(th[t])
    BY <1>1, ThreadFacts
  <2>2. /\ th[t].pc \in Pcs /\ th[t].n \in 0 .. Chunks
        /\ \A j \in 1 .. Len(th[t].want) : th[t].want[j] \in Objects
        /\ \A j \in 1 .. Len(th[t].got) : th[t].got[j] \in Contents \cup {Nothing}
    BY <2>1, Typed DEF Slots
  <2>3. /\ Len(th[t].plan) = Len(th[t].out) /\ Len(th[t].plan) <= Len(th[t].ask)
        /\ Writing(t) = (th[t].fd # NoFile)
    BY <2>1 DEF Shape, Writing
  <2> QED
    BY <2>2, <2>3
<1> QED
  BY <1>1, <1>2 DEF TypeOK, CacheTypes

LEMMA RInvAnswers == RInv => AnswerRight
<1> SUFFICES ASSUME RInv, NEW t \in Threads
             PROVE  LET res == th[t].res
                    IN res.kind # "none" /\ raced \cap Touched(th[t].ask) = {} =>
                         \/ res.kind = "Unavailable" /\ "store" \in Faults
                         \/ res.kind = "NotFound" /\ \E p \in 1 .. Len(th[t].ask) : th[t].ask[p] >= Total(dir)
                         \/ res.kind = "ok" /\ res.blobs = Right(th[t].ask)
  BY DEF AnswerRight
<1>1. ResOK(th[t], dir, raced)
  BY ThreadFacts DEF RInv, Meaning
<1>2. Touched(th[t].ask) = TouchedIn(th[t].ask, dir)
  BY DEF Touched, TouchedIn
<1> QED
  BY <1>1, <1>2 DEF ResOK, Clean

LEMMA RInvAtRest == RInv => AtRestWhole
<1> SUFFICES ASSUME RInv, NEW o \in Objects, entry[o] # NoFile, Writers(o) = {}, o \notin cut
             PROVE  file[o][entry[o]] = Whole(o)
  BY DEF AtRestWhole, CacheKey
<1>1. KeyInv(o)
  BY DEF RInv, Keys, CacheKey
<1> QED
  BY <1>1 DEF KeyInv, Sound, Covered

LEMMA Holds == Spec => []RInv
BY InitHolds, NextHolds, PTL DEF Spec

\* The types of RemoteReads, and that a thread has a .tmp file open exactly while
\* it writes through, whatever fails.
THEOREM TypesKept == Spec => []TypeOK
BY Holds, RInvTypes, PTL

\* read_blob and read_blobs_contig return the bytes of the samples asked for, each
\* in its place, for every dataset, cache directory left behind and interleaving.
THEOREM AnswersRight == Spec => []AnswerRight
BY Holds, RInvAnswers, PTL

\* Two threads may fill one .tmp, and one may publish what the other is writing: the
\* entry is whole when the last of them is done.
THEOREM EntriesRestWhole == Spec => []AtRestWhole
BY Holds, RInvAtRest, PTL
=============================================================================
