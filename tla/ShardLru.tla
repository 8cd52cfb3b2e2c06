------------------------------ MODULE ShardLru ------------------------------
(***************************************************************************)
(* ShardCache of the lazy index: the decoded index shards that stay in     *)
(* memory.  `map` holds them by shard number, `order` their numbers from   *)
(* the least to the most recently used.                                    *)
(***************************************************************************)
EXTENDS Integers, Sequences, FiniteSets

CONSTANT Cap     \* cache_cap.max(1)

ASSUME CapAssumption == Cap \in Nat \ {0}

EmptyLru == [map |-> <<>>, order |-> <<>>]

Cached(c) == DOMAIN c.map

\* order.remove(p)
RemoveAt(s, p) == [j \in 1 .. Len(s) - 1 |-> IF j < p THEN s[j] ELSE s[j + 1]]

TouchAppends(order, k) == Append(order, k)   \* slip: the old position is not removed

\* touch: k becomes the most recently used
Touch(order, k) ==
  IF \E p \in 1 .. Len(order) : order[p] = k
  THEN Append(RemoveAt(order, CHOOSE p \in 1 .. Len(order) : order[p] = k), k)
  ELSE Append(order, k)

\* get of a shard that is there
Used(c, k) == [c EXCEPT !.order = Touch(@, k)]

\* One turn of insert's loop: pop the least recently used shard.  The loop ends
\* after one turn, because map never holds more than Cap shards (LruAgrees).
Popped(c) == [map |-> [k \in Cached(c) \ {Head(c.order)} |-> c.map[k]],
              order |-> Tail(c.order)]

Full(c, k) == k \notin Cached(c) /\ Cardinality(Cached(c)) >= Cap /\ c.order # <<>>

Put(c, k, v) == [map |-> [j \in Cached(c) \cup {k} |-> IF j = k THEN v ELSE c.map[j]],
                 order |-> Touch(c.order, k)]

Inserted(c, k, v) == Put(IF Full(c, k) THEN Popped(c) ELSE c, k, v)

\* order lists the cached shards, each once, and there are at most Cap of them.
Agrees(c) ==
  /\ Len(c.order) <= Cap
  /\ \A i, j \in 1 .. Len(c.order) : c.order[i] = c.order[j] => i = j
  /\ Cached(c) = {c.order[i] : i \in 1 .. Len(c.order)}
=============================================================================
