--------------------------- MODULE MCEpochLoader ---------------------------
(* Four rows in two index shards, of three rows (two row groups) and of one,   *)
(* with the metadata key x of every type, and a key named like a flag.         *)
EXTENDS EpochLoader

Num(v) == Value("num", v)
Str(v) == Value("str", v)

MCFlagOf == [c \in {"img_present"} |-> "img"]
MCOffsetOf == [c \in {"img_off"} |-> "img"]

Row(meta, has) == [meta |-> meta, has |-> has]
X(v) == [c \in {"x"} |-> v]
NoMeta == [c \in {} |-> Absent]

\* Integers, one of them absent; strings and mixtures; structured values.
Columns3 ==
  {<<X(Num(1)), X(Num(2)), NoMeta>>, <<X(Num(2)), X(Num(2)), X(Num(1))>>,
   <<X(Str(4)), X(Str(4)), X(Str(1))>>, <<X(Num(1)), X(Str(4)), X(Value("bool", 1))>>,
   <<X(Value("list", 1)), X(Str(3)), X(Str(4))>>, <<X(Value("bool", 1)), NoMeta, X(Value("bool", 0))>>,
   <<[c \in {"img_present"} |-> Value("bool", 0)], NoMeta, X(Num(2))>>}
Has == {<<{"img"}, {}, {"img"}>>, <<{}, {"img"}, {}>>}
MCDatasets ==
  {<<[i \in 1 .. 3 |-> Row(m[i], h[i])], <<Row(l, {"img"})>> >> :
   m \in Columns3, h \in Has, l \in {X(Num(1)), X(Str(4))}}

Cmp(c, op, v) == [k |-> "cmp", col |-> c, op |-> op, val |-> v]
Truthy(c) == [k |-> "truthy", col |-> c]
Not(i) == [k |-> "not", a |-> i]
And(i, j) == [k |-> "and", a |-> i, b |-> j]
Or(i, j) == [k |-> "or", a |-> i, b |-> j]
MCAst ==
  << Cmp("x", "=", Num(2)), Cmp("x", "!=", Num(2)), Cmp("x", "<", Num(2)), Cmp("x", "<=", Num(2)),
     Cmp("x", ">", Num(2)), Cmp("x", ">=", Num(2)), Cmp("x", "=", Num(1)), Cmp("x", ">", Num(1)),
     Cmp("x", "=", Str(4)), Cmp("x", "!=", Str(4)), Cmp("x", "<", Str(4)), Cmp("x", "!=", Str(3)),
     Cmp("x", "=", Value("bool", 0)), Truthy("x"), Truthy("img_present"), Cmp("img_off", "<", Num(2)),
     [k |-> "const", val |-> Value("bool", 0)],
     Not(1), Not(15), Not(8), And(6, 20), Or(7, 15) >>
MCWheres == (1 .. Len(MCAst)) \ {20}

Setup(mode, ranks, workers, batch, drop, depth, shuffle, block, buffer) ==
  [mode |-> mode, ranks |-> ranks, workers |-> workers, batch_size |-> batch, drop_last |-> drop,
   depth |-> depth, shuffle |-> shuffle, block |-> block, buffer |-> buffer]
MCSetups ==
  {Setup("sampler", 2, 1, 1, FALSE, 1, FALSE, 2, 1), Setup("sampler", 1, 2, 2, FALSE, 1, TRUE, 2, 1),
   Setup("sampler", 1, 1, 3, TRUE, 1, TRUE, 3, 1), Setup("sampler", 1, 1, 2, FALSE, 2, TRUE, 2, 1),
   Setup("stream", 1, 2, 2, FALSE, 1, TRUE, 1, 1), Setup("stream", 2, 1, 2, TRUE, 1, FALSE, 1, 1),
   Setup("stream", 1, 1, 3, FALSE, 1, TRUE, 2, 2)}
=============================================================================
