---------------------------- MODULE SubsetQuery ----------------------------
(***************************************************************************)
(* Dataset::subset: the WHERE predicate over the metadata of an index.     *)
(*                                                                         *)
(* A dataset is a sequence of index shards, a shard a sequence of rows     *)
(*   [meta |-> the metadata given to add, by key,                          *)
(*    has  |-> the modalities of the sample]                               *)
(* whose sample_ids are their positions, from 0.  ParquetIndex::write      *)
(* stores one column per key with one type for the whole shard, in row     *)
(* groups of GroupSize rows.  subset reads the predicate's columns of the  *)
(* groups whose statistics do not rule them out.                           *)
(*                                                                         *)
(* A value is [t |-> type, v |-> Int].  A text (type "str") is a number in *)
(* byte order; TextOf is how serde_json writes the other values, and the   *)
(* texts that start with '[' are those of "list" values.  The parser is    *)
(* not modelled: a predicate is a node of the syntax trees in Ast.         *)
(***************************************************************************)
EXTENDS Integers, Sequences, FiniteSets

CONSTANTS
  GroupSize,   \* ROW_GROUP_SIZE
  Ast,         \* the nodes of predicates: a sequence, operands before their operators
  FlagOf,      \* the modality of each name `<modality>_present`
  OffsetOf     \* the modality of each name `<modality>_off`

Value(t, v) == [t |-> t, v |-> v]
Absent == Value("absent", 0)

Ops == {"=", "!=", "<", "<=", ">", ">="}

ASSUME QueryAssumption ==
  /\ GroupSize \in Nat \ {0}
  /\ Len(Ast) \in Nat /\ DOMAIN Ast = 1 .. Len(Ast)
  /\ \A e \in DOMAIN Ast :
       /\ Ast[e].k \in {"and", "or", "not", "const", "truthy", "cmp"}
       /\ Ast[e].k \in {"and", "or"} => {Ast[e].a, Ast[e].b} \subseteq 1 .. e - 1
       /\ Ast[e].k = "not" => Ast[e].a \in 1 .. e - 1
       /\ Ast[e].k = "cmp" => /\ Ast[e].op \in Ops
                              /\ Ast[e].val \in [t : {"bool", "num", "str"}, v : Int]

\* "1" < "2" < "[1]" < "a" < "false" < "true"
TextOf(x) ==
  CASE x.t \in {"str", "num"} -> x.v
    [] x.t = "list" -> 2 + x.v
    [] x.t = "bool" -> 5 + x.v
Structured(text) == text = 3

\* What add accepts as metadata: of the structured values, one.
RowOK(row) ==
  \A c \in DOMAIN row.meta :
    /\ row.meta[c] \in [t : {"bool", "num", "str", "list"}, v : Int]
    /\ row.meta[c].t = "list" => Structured(TextOf(row.meta[c]))
RowsOK(rows) == Len(rows) \in Nat /\ \A i \in 1 .. Len(rows) : RowOK(rows[i])
-----------------------------------------------------------------------------
(* The stored columns.                                                       *)

Keys(rows) == UNION {DOMAIN rows[i].meta : i \in 1 .. Len(rows)}
Written(row, c) == IF c \in DOMAIN row.meta THEN row.meta[c] ELSE Absent
Values(rows, c) == {Written(rows[i], c) : i \in 1 .. Len(rows)} \ {Absent}

\* infer_kind: integers and floats are one kind here, strings and mixtures are
\* both Utf8 columns
InferKind(rows, c) ==
  CASE \A x \in Values(rows, c) : x.t = "bool" -> "bool"
    [] \A x \in Values(rows, c) : x.t = "num" -> "num"
    [] OTHER -> "str"

\* The cell of column c: an offset, or the value of a key, a text in a Utf8 column.
Cell(rows, c, i) ==
  LET x == Written(rows[i], c)
  IN IF c \in DOMAIN OffsetOf THEN IF OffsetOf[c] \in rows[i].has THEN Value("num", 1) ELSE Absent
     ELSE IF x # Absent /\ InferKind(rows, c) = "str" THEN Value("str", TextOf(x)) ELSE x

\* arrow_value_to_json: structured texts are parsed, also those that were strings
Decoded(cell) ==
  IF cell.t = "str" /\ Structured(cell.v) THEN Value("list", cell.v - 2) ELSE cell

\* The metadata of row i as rows_from_batch reads it with the columns `want`,
\* and the flags Predicate::matches adds.  An offset column that is read without
\* its length column is not a modality's: it is taken for metadata.
ReadMeta(rows, want, i) ==
  LET flags == {f \in DOMAIN FlagOf : FlagOf[f] \in rows[i].has /\ FlagOf[f] \in want}
      offs == {o \in DOMAIN OffsetOf : OffsetOf[o] \notin want}
      cols == {c \in (Keys(rows) \cup offs) \cap want : Cell(rows, c, i) # Absent}
  IN [c \in cols \cup flags |->
        IF c \in flags THEN Value("bool", 1) ELSE Decoded(Cell(rows, c, i))]
-----------------------------------------------------------------------------
(* Predicate: eval, referenced columns, row-group pruning.                   *)

CmpNum(a, op, b) ==
  CASE op = "=" -> a = b   [] op = "!=" -> a # b
    [] op = "<" -> a < b   [] op = "<=" -> a <= b
    [] op = ">" -> a > b   [] op = ">=" -> a >= b

\* Only numbers are ordered; anything else is equal to the literal or not.
Compare(lhs, op, val) ==
  IF lhs.t = "num" /\ val.t = "num" THEN CmpNum(lhs.v, op, val.v)
  ELSE (op = "=" /\ lhs = val) \/ (op = "!=" /\ lhs # val)

Eval(expr, meta) ==
  LET eval[i \in DOMAIN Ast] ==
        LET e == Ast[i]
        IN CASE e.k = "and" -> eval[e.a] /\ eval[e.b]
             [] e.k = "or" -> eval[e.a] \/ eval[e.b]
             [] e.k = "not" -> ~eval[e.a]
             [] e.k = "const" -> e.val.v = 1
             [] e.k = "truthy" -> e.col \in DOMAIN meta /\ meta[e.col] = Value("bool", 1)
             [] e.k = "cmp" -> e.col \in DOMAIN meta /\ Compare(meta[e.col], e.op, e.val)
  IN eval[expr]

\* collect_cols: the leaves of a predicate, and the columns they name
Leaves(expr) ==
  LET leaves[i \in DOMAIN Ast] ==
        CASE Ast[i].k \in {"and", "or"} -> leaves[Ast[i].a] \cup leaves[Ast[i].b]
          [] Ast[i].k = "not" -> leaves[Ast[i].a]
          [] OTHER -> {i}
  IN leaves[expr]

Columns(expr) ==
  {Ast[i].col : i \in {j \in Leaves(expr) : Ast[j].k \in {"cmp", "truthy"}}}

\* projection_want: a flag stands for both columns of its modality
Want(expr) ==
  {IF c \in DOMAIN FlagOf THEN FlagOf[c] ELSE c : c \in Columns(expr)}

\* The statistics of a column in the row group of the rows `at`: nulls have none.
Stats(rows, at, c) ==
  LET cells == {Cell(rows, c, i) : i \in at} \ {Absent}
      vs == {x.v : x \in cells}
  IN IF \E x \in cells : x.t \in {"num", "str"}
     THEN [t |-> (CHOOSE x \in cells : TRUE).t,
           min |-> CHOOSE v \in vs : \A u \in vs : v <= u,
           max |-> CHOOSE v \in vs : \A u \in vs : v >= u]
     ELSE [t |-> "unknown", min |-> 0, max |-> 0]

OrdStrict(min, max, op, v) ==   \* slip: the group's maximum itself is forgotten
  CASE op = "=" -> v >= min /\ v < max
    [] op = "!=" -> ~(min = max /\ min = v)
    [] op \in {"<", ">"} -> (op = "<" /\ min < v) \/ (op = ">" /\ max > v)
    [] OTHER -> (op = "<=" /\ min <= v) \/ (op = ">=" /\ max > v)

\* ord_rg_can_match
OrdCanMatch(min, max, op, v) ==
  CASE op = "=" -> v >= min /\ v <= max
    [] op = "!=" -> ~(min = max /\ min = v)
    [] op = "<" -> min < v   [] op = "<=" -> min <= v
    [] op = ">" -> max > v   [] op = ">=" -> max >= v

\* rg_can_match: NOT and truthiness never prune
CanMatch(expr, rows, at) ==
  LET can[i \in DOMAIN Ast] ==
        LET e == Ast[i]
        IN CASE e.k = "and" -> can[e.a] /\ can[e.b]
             [] e.k = "or" -> can[e.a] \/ can[e.b]
             [] e.k \in {"not", "truthy"} -> TRUE
             [] e.k = "const" -> e.val.v = 1
             [] e.k = "cmp" -> LET s == Stats(rows, at, e.col)
                               IN s.t = e.val.t => OrdCanMatch(s.min, s.max, e.op, e.val.v)
  IN can[expr]

Group(rows, i) == {j \in 1 .. Len(rows) : (j - 1) \div GroupSize = (i - 1) \div GroupSize}

\* subset_shard: the rows of one shard that match
SubsetShard(rows, expr) ==
  {i \in 1 .. Len(rows) : /\ CanMatch(expr, rows, Group(rows, i))
                          /\ Eval(expr, ReadMeta(rows, Want(expr), i))}
-----------------------------------------------------------------------------
(* sample_ids over all the shards.                                           *)

RowsBefore(shards, k) ==
  LET n[j \in 1 .. k] == IF j = 1 THEN 0 ELSE n[j - 1] + Len(shards[j - 1])
  IN n[k]

Places(shards) == UNION {{<<k, i>> : i \in 1 .. Len(shards[k])} : k \in 1 .. Len(shards)}
IdsAt(shards, places) == {RowsBefore(shards, p[1]) + p[2] - 1 : p \in places}

\* subset_ids_streaming, before it sorts
StreamedIds(shards, expr) ==
  IdsAt(shards, UNION {{<<k, i>> : i \in SubsetShard(shards[k], expr)} : k \in 1 .. Len(shards)})

\* subset_ids over the rows ParquetIndex::read gives: every column, every group.
\* All of them: an offset column comes with its length column, so it is no key.
AllColumns(rows) ==
  Keys(rows) \cup {FlagOf[f] : f \in DOMAIN FlagOf} \cup {OffsetOf[o] : o \in DOMAIN OffsetOf}
EagerIds(shards, expr) ==
  IdsAt(shards, {p \in Places(shards) :
                   Eval(expr, ReadMeta(shards[p[1]], AllColumns(shards[p[1]]), p[2]))})

\* The rows whose metadata, as it was given to add, satisfies the predicate.
GivenMeta(row) ==
  LET flags == {f \in DOMAIN FlagOf : FlagOf[f] \in row.has}
  IN [c \in DOMAIN row.meta \cup flags |->
        IF c \in flags THEN Value("bool", 1) ELSE row.meta[c]]
GivenIds(shards, expr) ==
  IdsAt(shards, {p \in Places(shards) : Eval(expr, GivenMeta(shards[p[1]][p[2]]))})
=============================================================================
