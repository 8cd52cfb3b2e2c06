--------------------------- MODULE LocalMapProofs ---------------------------
(***************************************************************************)
(* What Dataset.map on one process guarantees for any samples, views, runs *)
(* and target, and for deaths anywhere: the layer index reads back and     *)
(* grows, no sample is mapped twice, a forced run wins; index and manifest *)
(* agree and a map that returned is registered until a run dies between    *)
(* the two; and the map implements LayerTable, where a run brings its      *)
(* results to the readers whole or not at all.                             *)
(***************************************************************************)
EXTENDS LocalMap, LayerFilesProofs

\* LocalMap's Names, as the lemmas about LayerFiles have them.
LayerNames == NamesOf({Single}, MaxShards)

SavedIsPrefix == \A k \in 1 .. Len(saved) : k <= Len(w.rows) /\ w.rows[k] = saved[k]

\* What every step keeps: the rows of a run under way are those saved before, then
\* its own, and all of them are in the shards up to the current one.
MapInv ==
  /\ pc \in Phases
  /\ WriterOK(w, Single, MaxShards) /\ ShardsOK(shards, LayerNames) /\ RowList(saved, LayerNames)
  /\ pc # "idle" => GoodRows(w.rows, shards, w) /\ SavedIsPrefix
  /\ \A k \in 1 .. Len(saved) : ReadsBack(saved[k], shards)
  /\ Complete(index) => index = saved
  /\ index = Absent => saved = <<>>
  /\ pc = "register" => Complete(index) /\ index = w.rows

LEMMA InitMapInv == ASSUME MaxShards \in Nat, Init PROVE MapInv
<1>1. RowList(<<>>, LayerNames)
  <2>1. <<>> \in Seq({}) /\ Len(<<>>) = 0
    OBVIOUS
  <2> QED
    BY <2>1 DEF RowList, IsList
<1>2. w = [part |-> Single, rows |-> <<>>, sid |-> -1, open |-> FALSE]
  BY DEF Init, Opened, LastShard, RowsIn, Complete
<1>3. WriterOK(w, Single, MaxShards)
  <2>1. w \in [part : {Single}, rows : Seq({}), sid : -1 .. MaxShards - 1, open : BOOLEAN]
    <3>1. -1 \in -1 .. MaxShards - 1 /\ <<>> \in Seq({}) /\ FALSE \in BOOLEAN
      OBVIOUS
    <3> QED
      BY <1>2, <3>1
  <2> QED
    BY <1>1, <1>2, <2>1 DEF WriterOK, LayerNames
<1>4. ShardsOK(shards, LayerNames)
  <2>1. shards \in [LayerNames -> Seq({})]
    BY DEF Init, Names, LayerNames, NamesOf
  <2> QED
    BY <2>1 DEF ShardsOK
<1>5. saved = <<>> /\ Len(saved) = 0 /\ index = Absent /\ pc = "idle"
  BY DEF Init
<1> QED
  BY <1>1, <1>3, <1>4, <1>5 DEF MapInv, Phases, Complete

\* A run that opens an index that is not torn starts from its rows.
LEMMA StartKeeps ==
  ASSUME MaxShards \in Nat, MapInv, NEW view, NEW resume, Start(view, resume)
  PROVE  MapInv'
<1>1. RowsIn(index) = saved
  BY DEF MapInv, Start, RowsIn, Complete
<1>2. w' = Opened(Single, index) /\ UNCHANGED <<index, shards, saved>> /\ pc' = "map"
  BY DEF Start
<1>3. /\ WriterOK(w', Single, MaxShards) /\ w'.rows = saved
      /\ \A k \in 1 .. Len(saved) : saved[k].shard[2] <= w'.sid
  BY <1>1, <1>2, OpenedFacts DEF MapInv, LayerNames
<1>4. GoodRows(w'.rows, shards', w')
  BY <1>2, <1>3 DEF GoodRows, Good, Below, MapInv
<1>5. Len(saved) \in Nat
  BY LenProperties DEF MapInv, RowList, IsList
<1>6. SavedIsPrefix'
  BY <1>2, <1>3, <1>5 DEF SavedIsPrefix
<1> QED
  BY <1>2, <1>3, <1>4, <1>6 DEF MapInv, Phases, Complete

\* add touches no row that is already there.
LEMMA ProcessKeeps ==
  ASSUME MaxShards \in Nat, MapInv, NEW i, NEW v, Process(i, v)
  PROVE  MapInv'
<1>1. WriterOK(w, Single, MaxShards) /\ ShardsOK(shards, LayerNames)
      /\ w.sid + 1 < MaxShards /\ pc = "map" /\ RowList(saved, LayerNames)
  BY DEF MapInv, Process
<1>2. /\ w' = Added(w, shards, run.view[i], v)
      /\ shards' = AddedShards(w, shards, run.view[i], v)
      /\ UNCHANGED <<pc, index, saved>>
  BY DEF Process
<1>3. /\ WriterOK(w', Single, MaxShards) /\ ShardsOK(shards', LayerNames)
      /\ \E r : w'.rows = Append(w.rows, r) /\ r.shard \in LayerNames /\ Good(r, shards', w')
      /\ \A q : q.shard \in LayerNames /\ Good(q, shards, w) => Good(q, shards', w')
  BY <1>1, <1>2, AddedFacts DEF LayerNames
<1>4. PICK r : w'.rows = Append(w.rows, r) /\ r.shard \in LayerNames /\ Good(r, shards', w')
  BY <1>3
<1>5. RowList(w.rows, LayerNames) /\ GoodRows(w.rows, shards, w) /\ SavedIsPrefix
  BY <1>1 DEF MapInv, WriterOK, LayerNames
<1>6. /\ Len(w.rows) \in Nat /\ Len(w'.rows) = Len(w.rows) + 1
      /\ w'.rows[Len(w.rows) + 1] = r
      /\ \A k \in 1 .. Len(w.rows) : w'.rows[k] = w.rows[k]
  BY <1>4, <1>5, AppendList DEF RowList
<1>7. GoodRows(w'.rows, shards', w')
  <2>1. ASSUME NEW k \in 1 .. Len(w'.rows)
        PROVE  Good(w'.rows[k], shards', w')
    <3>1. k = Len(w.rows) + 1 \/ k \in 1 .. Len(w.rows)
      BY <1>6
    <3>2. CASE k = Len(w.rows) + 1
      BY <1>4, <1>6, <3>2
    <3>3. CASE k \in 1 .. Len(w.rows)
      <4>1. w.rows[k].shard \in LayerNames /\ Good(w.rows[k], shards, w)
        BY <1>5, <3>3 DEF RowList, GoodRows
      <4> QED
        BY <1>3, <1>6, <3>3, <4>1
    <3> QED BY <3>1, <3>2, <3>3
  <2> QED
    BY <2>1 DEF GoodRows
<1>8. Len(saved) \in Nat /\ saved' = saved
  BY <1>1, <1>2, LenProperties DEF RowList, IsList
<1>9. SavedIsPrefix'
  BY <1>5, <1>6, <1>8 DEF SavedIsPrefix
<1>10. \A k \in 1 .. Len(saved') : ReadsBack(saved'[k], shards')
  <2>1. ASSUME NEW k \in 1 .. Len(saved)
        PROVE  ReadsBack(saved[k], shards')
    <3>1. k \in 1 .. Len(w'.rows) /\ w'.rows[k] = saved[k]
      BY <1>5, <1>6, <1>8 DEF SavedIsPrefix
    <3> QED
      BY <1>7, <3>1 DEF GoodRows, Good
  <2> QED
    BY <1>8, <2>1
<1> QED
  BY <1>1, <1>2, <1>3, <1>7, <1>9, <1>10 DEF MapInv, Phases, Complete

\* Closing the shard, or dying, leaves the rows and the files.
LEMMA WriterClosed ==
  ASSUME WriterOK(w, Single, MaxShards), w' = [w EXCEPT !.open = FALSE]
  PROVE  WriterOK(w', Single, MaxShards) /\ w'.rows = w.rows /\ w'.sid = w.sid /\ w'.part = w.part
BY ClosedFacts

\* The completed index holds all the rows of the run, every one readable.
LEMMA WriteIndexKeeps ==
  ASSUME FilesDiffer, MapInv, WriteIndex PROVE MapInv'
<1>1. RowList(w.rows, LayerNames) /\ IsList(w.rows) /\ GoodRows(w.rows, shards, w) /\ WriterOK(w, Single, MaxShards)
  BY DEF MapInv, WriteIndex, WriterOK, RowList, LayerNames
<1>2. /\ index' = w.rows /\ saved' = w.rows /\ w' = w /\ shards' = shards
      /\ pc' = "register"
  BY DEF WriteIndex, IndexRows
<1>3. w.rows # Absent /\ w.rows # Torn /\ Len(w.rows) \in Nat
  BY <1>1, LenProperties DEF FilesDiffer, IsList
<1>4. SavedIsPrefix'
  BY <1>2, <1>3 DEF SavedIsPrefix
<1>5. \A k \in 1 .. Len(saved') : ReadsBack(saved'[k], shards')
  BY <1>1, <1>2 DEF GoodRows, Good
<1> QED
  BY <1>1, <1>2, <1>3, <1>4, <1>5 DEF MapInv, Phases, Complete

LEMMA MapStepKeeps ==
  ASSUME FilesDiffer, MaxShards \in Nat, MapInv, [Next]_vars
  PROVE  MapInv'
<1>1. ASSUME NEW view \in Views, NEW resume \in Resumes, Start(view, resume) PROVE MapInv'
  BY <1>1, StartKeeps
<1>2. ASSUME NEW k, NEW v, Process(k, v) PROVE MapInv'
  BY <1>2, ProcessKeeps
<1>3. CASE ReturnEarly
  BY <1>3 DEF ReturnEarly, MapInv, Phases, SavedIsPrefix
<1>4. CASE CloseShard
  BY <1>4, WriterClosed DEF CloseShard, MapInv, Phases, SavedIsPrefix, GoodRows, Good, Below
<1>5. CASE CreateIndex
  <2>1. index' = Torn /\ pc' = "write" /\ UNCHANGED <<w, shards, saved>> /\ pc # "idle"
    BY <1>5 DEF CreateIndex
  <2> QED
    BY <2>1, LayerAssumption DEF MapInv, Phases, SavedIsPrefix, Complete
<1>6. CASE WriteIndex
  BY <1>6, WriteIndexKeeps
<1>7. CASE Register
  BY <1>7 DEF Register, MapInv, Phases, SavedIsPrefix
<1>8. CASE Crash
  BY <1>8, WriterClosed DEF Crash, MapInv, Phases
<1>9. CASE Rest \/ UNCHANGED vars
  BY <1>9 DEF Rest, vars, MapInv, SavedIsPrefix
<1> QED
  BY <1>1, <1>2, <1>3, <1>4, <1>5, <1>6, <1>7, <1>8, <1>9 DEF Next

\* While no run is between creating the index and registering, the manifest agrees
\* with the index.
Agrees ==
  ~late /\ pc \in {"idle", "map", "index"} =>
    \/ registered = Unregistered /\ index = Absent
    \/ Complete(index) /\ registered = Len(index)

LEMMA AgreesStep ==
  ASSUME FilesDiffer, MapInv, Agrees, [Next]_vars
  PROVE  Agrees'
<1>1. CASE \E view \in Views, resume \in Resumes : Start(view, resume)
  BY <1>1 DEF Start, Agrees, Complete
<1>2. CASE \E k \in todo, v \in {run.n} \cup (IF NoneAllowed THEN {NoBlob} ELSE {}) : Process(k, v)
  BY <1>2 DEF Process, Agrees, Complete
<1>3. CASE ReturnEarly
  BY <1>3 DEF ReturnEarly, Agrees, Complete
<1>4. CASE CloseShard
  BY <1>4 DEF CloseShard, Agrees, Complete
<1>5. CASE CreateIndex
  BY <1>5 DEF CreateIndex, Agrees
<1>6. CASE WriteIndex
  BY <1>6 DEF WriteIndex, Agrees
<1>7. CASE Register
  BY <1>7 DEF Register, RegisteredRows, Agrees, Complete, MapInv
<1>8. CASE Crash
  <2>1. /\ UNCHANGED <<index, registered>> /\ pc' = "idle"
        /\ late' = (late \/ pc \in {"write", "register"})
        /\ pc \in {"map", "index", "write", "register"}
    BY <1>8, LocalAssumption DEF Crash, Phases
  <2> QED
    BY <2>1 DEF Agrees, Complete
<1>9. CASE Rest \/ UNCHANGED vars
  BY <1>9 DEF Rest, vars, Agrees, Complete
<1> QED
  BY <1>1, <1>2, <1>3, <1>4, <1>5, <1>6, <1>7, <1>8, <1>9 DEF Next

\* Every state a sequence of runs can reach, whatever dies and whoever reads.
THEOREM MapInvariant == ASSUME FilesDiffer PROVE Spec => []MapInv
<1>1. MaxShards \in Nat
  BY LocalAssumption
<1>2. Init => MapInv
  BY <1>1, InitMapInv
<1>3. MapInv /\ [Next]_vars => MapInv'
  BY <1>1, MapStepKeeps
<1> QED
  BY <1>2, <1>3, PTL DEF Spec

\* Every row of the layer index reads back the bytes it was added with, whatever
\* later runs write and wherever runs die.
THEOREM IndexAlwaysReadsBack == ASSUME FilesDiffer PROVE Spec => []IndexReadsBack
<1>1. MapInv => IndexReadsBack
  <2> SUFFICES ASSUME MapInv PROVE IndexReadsBack
    OBVIOUS
  <2>1. CASE Complete(index)
    <3>1. RowsIn(index) = saved
      BY <2>1 DEF RowsIn, MapInv
    <3> QED
      BY <3>1 DEF IndexReadsBack, RowSet, MapInv
  <2>2. CASE ~Complete(index)
    <3>1. RowsIn(index) = <<>> /\ RowSet(<<>>) = {}
      BY <2>2 DEF RowsIn, RowSet
    <3> QED
      BY <3>1 DEF IndexReadsBack
  <2> QED BY <2>1, <2>2
<1> QED
  BY <1>1, MapInvariant, PTL

\* A later run never loses or alters a row an earlier run completed.
RowsOnlyAppended ==
  [][Complete(index') =>
       \A k \in 1 .. Len(saved) : k <= Len(index') /\ index'[k] = saved[k]]_vars

\* A completed index begins with the rows of the one completed before it: writing it
\* in place loses nothing, unless the run dies while it does.
THEOREM IndexOnlyGrows == ASSUME FilesDiffer PROVE Spec => RowsOnlyAppended
<1> DEFINE Kept == Complete(index') =>
                     \A k \in 1 .. Len(saved) : k <= Len(index') /\ index'[k] = saved[k]
<1>1. ASSUME MapInv, [Next]_vars PROVE Kept
  <2>1. Len(saved) \in Nat
    BY <1>1, LenProperties DEF MapInv, RowList, IsList
  <2>2. CASE WriteIndex
    BY <1>1, <2>2 DEF WriteIndex, IndexRows, MapInv, SavedIsPrefix
  <2>3. CASE CreateIndex
    BY <2>3 DEF CreateIndex, Complete
  <2>4. CASE ~WriteIndex /\ ~CreateIndex
    <3>1. index' = index
      BY <1>1, <2>4 DEF Next, Start, Process, ReturnEarly, CloseShard, Register, Crash, Rest, vars
    <3> QED
      BY <1>1, <2>1, <3>1 DEF MapInv, Complete
  <2> QED BY <2>2, <2>3, <2>4
<1>2. MapInv /\ [Next]_vars => [Kept]_vars
  BY <1>1
<1> HIDE DEF Kept
<1>3. Spec => [][Kept]_vars
  BY <1>2, MapInvariant, PTL DEF Spec
<1> QED
  BY <1>3 DEF RowsOnlyAppended, Kept

\* Between runs the manifest's row count is the layer index's, until a run dies after
\* it created the index: that one leaves an index the manifest does not know, as the
\* run map_unregistered shows.
THEOREM ManifestAgrees == ASSUME FilesDiffer PROVE Spec => []ManifestMatchesIndex
<1>1. Init => Agrees
  BY DEF Init, Agrees
<1>2. MapInv /\ Agrees /\ [Next]_vars => Agrees'
  BY AgreesStep
<1>3. Agrees => ManifestMatchesIndex
  BY DEF Agrees, ManifestMatchesIndex
<1> QED
  BY <1>1, <1>2, <1>3, MapInvariant, PTL DEF Spec
-----------------------------------------------------------------------------
Typed(rows) == \A k \in 1 .. Len(rows) : RowType(rows[k])

\* What TypeOK needs of the history to be kept.
MapTypes ==
  /\ run \in [ n : 0 .. MaxRuns, view : Views \cup {<<>>}, tried : SUBSET Samples,
               none : SUBSET Samples, forced : BOOLEAN, anyForced : BOOLEAN ]
  /\ todo \subseteq 1 .. Len(run.view)
  /\ Typed(w.rows) /\ Typed(saved)
  /\ registered \in Nat \cup {Unregistered}
  /\ returned \in BOOLEAN /\ crashes \in Nat /\ late \in BOOLEAN

\* The row add appends is that of the sample and value it was given.
LEMMA ProcessRow ==
  ASSUME MapInv, NEW k, NEW v, Process(k, v)
  PROVE  \E r : /\ w'.rows = Append(w.rows, r) /\ IsList(w.rows)
                /\ r.id = run.view[k] /\ r.val = v /\ r.shard \in Names /\ r.at \in Nat
<1>1. /\ WriterOK(w, Single, MaxShards) /\ ShardsOK(shards, LayerNames)
      /\ w.sid + 1 < MaxShards /\ w' = Added(w, shards, run.view[k], v) /\ MaxShards \in Nat
  BY LocalAssumption DEF MapInv, Process
<1>2. \E r : /\ w'.rows = Append(w.rows, r) /\ r.shard \in LayerNames
             /\ r.id = run.view[k] /\ r.val = v /\ r.at \in Nat
  BY <1>1, AddedFacts DEF LayerNames
<1>3. IsList(w.rows)
  BY <1>1 DEF WriterOK, RowList
<1> QED
  BY <1>2, <1>3 DEF LayerNames, NamesOf, Names

LEMMA TypesInit == ASSUME Init PROVE MapTypes
<1>1. Len(<<>>) = 0 /\ w.rows = <<>> /\ 0 \in 0 .. MaxRuns
  BY LocalAssumption DEF Init, Opened, RowsIn, Complete
<1>2. run \in [ n : 0 .. MaxRuns, view : Views \cup {<<>>}, tried : SUBSET Samples,
                none : SUBSET Samples, forced : BOOLEAN, anyForced : BOOLEAN ]
  <2>1. run = [n |-> 0, view |-> <<>>, tried |-> {}, none |-> {}, forced |-> FALSE, anyForced |-> FALSE]
    BY DEF Init
  <2>2. 0 \in 0 .. MaxRuns /\ <<>> \in Views \cup {<<>>} /\ {} \in SUBSET Samples
    BY <1>1
  <2> QED
    BY <2>1, <2>2
<1>3. Typed(w.rows) /\ Typed(saved) /\ todo \subseteq 1 .. Len(run.view)
  BY <1>1 DEF Init, Typed
<1>4. /\ registered \in Nat \cup {Unregistered} /\ returned \in BOOLEAN /\ crashes \in Nat
      /\ late \in BOOLEAN
  BY DEF Init
<1> QED
  BY <1>2, <1>3, <1>4 DEF MapTypes

LEMMA TypesStep ==
  ASSUME MapInv, MapTypes, [Next]_vars PROVE MapTypes'
<1>1. ASSUME NEW view \in Views, NEW resume \in Resumes, Start(view, resume) PROVE MapTypes'
  <2>1. /\ run' = [n |-> run.n + 1, view |-> view, tried |-> {}, none |-> {}, forced |-> ~resume,
                   anyForced |-> run.anyForced \/ ~resume]
        /\ run.n < MaxRuns /\ run.n + 1 \in 0 .. MaxRuns /\ resume \in BOOLEAN
    BY <1>1, LocalAssumption DEF Start, MapTypes
  <2>2. run' \in [ n : 0 .. MaxRuns, view : Views \cup {<<>>}, tried : SUBSET Samples,
                   none : SUBSET Samples, forced : BOOLEAN, anyForced : BOOLEAN ]
    BY <2>1 DEF MapTypes
  <2>3. todo' \subseteq 1 .. Len(run'.view)
    BY <1>1, <2>1 DEF Start, Todo
  <2>4. w'.rows = saved
    BY <1>1 DEF Start, Opened, RowsIn, MapInv, Complete
  <2> QED
    BY <1>1, <2>2, <2>3, <2>4 DEF Start, MapTypes, Typed
<1>2. ASSUME NEW k \in todo, NEW v \in {run.n} \cup (IF NoneAllowed THEN {NoBlob} ELSE {}),
             Process(k, v)
      PROVE  MapTypes'
  <2>1. run.view[k] \in Samples
    <3>1. run.view \in Seq(Samples) /\ k \in 1 .. Len(run.view)
      BY LocalAssumption DEF MapTypes
    <3> QED
      BY <3>1, ElementOfSeq
  <2>2. v \in 0 .. MaxRuns
    BY LocalAssumption DEF MapTypes, NoBlob
  <2>3. PICK r : /\ w'.rows = Append(w.rows, r) /\ IsList(w.rows)
                 /\ r.id = run.view[k] /\ r.val = v /\ r.shard \in Names /\ r.at \in Nat
    BY <1>2, ProcessRow
  <2>4. RowType(r)
    BY <2>1, <2>2, <2>3 DEF RowType
  <2>5. Typed(w'.rows)
    <3>1. /\ Len(w.rows) \in Nat /\ Len(w'.rows) = Len(w.rows) + 1
          /\ w'.rows[Len(w.rows) + 1] = r
          /\ \A i \in 1 .. Len(w.rows) : w'.rows[i] = w.rows[i]
      BY <2>3, AppendList
    <3>2. ASSUME NEW i \in 1 .. Len(w'.rows) PROVE RowType(w'.rows[i])
      <4>1. i = Len(w.rows) + 1 \/ i \in 1 .. Len(w.rows)
        BY <3>1
      <4> QED
        BY <2>4, <3>1, <4>1 DEF MapTypes, Typed
    <3> QED
      BY <3>2 DEF Typed
  <2>6. run' = [run EXCEPT !.tried = run.tried \cup {run.view[k]},
                           !.none = IF v = NoBlob THEN run.none \cup {run.view[k]} ELSE run.none]
    BY <1>2 DEF Process
  <2>7. /\ run' \in [ n : 0 .. MaxRuns, view : Views \cup {<<>>}, tried : SUBSET Samples,
                      none : SUBSET Samples, forced : BOOLEAN, anyForced : BOOLEAN ]
        /\ run'.view = run.view
    BY <2>1, <2>6 DEF MapTypes
  <2> QED
    BY <1>2, <2>5, <2>7 DEF Process, MapTypes, Typed
<1>3. CASE ReturnEarly
  BY <1>3 DEF ReturnEarly, MapTypes, Typed
<1>4. CASE CloseShard
  BY <1>4, WriterClosed DEF CloseShard, MapTypes, MapInv, Typed
<1>5. CASE CreateIndex
  BY <1>5 DEF CreateIndex, MapTypes, Typed
<1>6. CASE WriteIndex
  BY <1>6 DEF WriteIndex, IndexRows, MapTypes, Typed
<1>7. CASE Register
  <2>1. Len(w.rows) \in Nat
    BY LenProperties DEF MapInv, WriterOK, RowList, IsList
  <2> QED
    BY <1>7, <2>1 DEF Register, RegisteredRows, MapTypes, Typed
<1>8. CASE Crash
  <2>1. crashes + 1 \in Nat /\ late' \in BOOLEAN
    BY <1>8 DEF Crash, MapTypes
  <2> QED
    BY <1>8, <2>1, WriterClosed DEF Crash, MapTypes, MapInv, Typed
<1>9. CASE Rest \/ UNCHANGED vars
  BY <1>9 DEF Rest, vars, MapTypes, Typed
<1> QED
  BY <1>1, <1>2, <1>3, <1>4, <1>5, <1>6, <1>7, <1>8, <1>9 DEF Next

\* Every variable keeps its type, and every row of writer and index is one a writer
\* of this layer may make.
THEOREM MapTypeCorrect == ASSUME FilesDiffer PROVE Spec => []TypeOK
<1>1. MapInv /\ MapTypes => TypeOK
  <2> SUFFICES ASSUME MapInv, MapTypes PROVE TypeOK
    OBVIOUS
  <2>1. w.sid \in -1 .. MaxShards - 1 /\ w.open \in BOOLEAN
    BY DEF MapInv, WriterOK
  <2>2. DOMAIN shards = Names
    BY DEF MapInv, ShardsOK, LayerNames, NamesOf, Names
  <2>3. index \in {Absent, Torn} \/ \A k \in 1 .. Len(index) : RowType(index[k])
    BY DEF MapInv, MapTypes, Typed, Complete
  <2> QED
    BY <2>1, <2>2, <2>3 DEF TypeOK, MapInv, MapTypes, Typed
<1> QED
  BY <1>1, TypesInit, TypesStep, MapInvariant, PTL DEF Spec
-----------------------------------------------------------------------------
Viewed == 1 .. Len(run.view)

\* Every position of the view is still to process or has a row, and a run that has
\* added nothing leaves the index as it is.
Handled ==
  /\ returned => pc = "idle"
  /\ pc \in {"index", "write", "register"} => todo = {}
  /\ pc # "idle" => \A k \in Viewed : k \in todo \/ run.view[k] \in Ids(w.rows)
  /\ pc = "map" /\ run.tried = {} => w.rows = RowsIn(index)
  /\ returned => \A k \in Viewed : run.view[k] \in Ids(RowsIn(index))

LEMMA ProcessVisible ==
  ASSUME MapInv, NEW k, NEW v, Process(k, v)
  PROVE  /\ Ids(w'.rows) = Ids(w.rows) \cup {run.view[k]}
         /\ Visible(w'.rows, run.view[k]).val = v
         /\ \A s \in Ids(w.rows) : s # run.view[k] => Visible(w'.rows, s) = Visible(w.rows, s)
<1>1. PICK r : /\ w'.rows = Append(w.rows, r) /\ IsList(w.rows)
               /\ r.id = run.view[k] /\ r.val = v
  BY ProcessRow
<1>2. Ids(w'.rows) = Ids(w.rows) \cup {run.view[k]}
  BY <1>1, VisibleAppended
<1>3. Visible(w'.rows, run.view[k]) = r
  BY <1>1, VisibleAppended
<1>4. ASSUME NEW s \in Ids(w.rows), s # run.view[k]
      PROVE  Visible(w'.rows, s) = Visible(w.rows, s)
  BY <1>1, <1>4, VisibleAppended
<1> QED
  BY <1>1, <1>2, <1>3, <1>4

LEMMA HandledStep ==
  ASSUME MapInv, MapTypes, Handled, [Next]_vars PROVE Handled'
<1>1. ASSUME NEW view, NEW resume, Start(view, resume) PROVE Handled'
  <2>1. /\ pc' = "map" /\ returned' = FALSE /\ run'.view = view /\ index' = index
        /\ w'.rows = RowsIn(index)
        /\ todo' = {k \in 1 .. Len(view) : view[k] \notin DoneIds(RowsIn(index), resume)}
    BY <1>1 DEF Start, Todo, Opened
  <2> QED
    BY <2>1 DEF Handled, DoneIds, Viewed
<1>2. ASSUME NEW k \in todo, NEW v, Process(k, v) PROVE Handled'
  <2>1. /\ pc = "map" /\ pc' = pc /\ run'.view = run.view /\ run'.tried = run.tried \cup {run.view[k]}
        /\ todo' = todo \ {k} /\ returned' = returned /\ index' = index
    <3>1. run' = [run EXCEPT !.tried = run.tried \cup {run.view[k]},
                           !.none = IF v = NoBlob THEN run.none \cup {run.view[k]} ELSE run.none]
      BY <1>2 DEF Process
    <3> QED
      BY <1>2, <3>1 DEF Process, MapTypes
  <2>2. Ids(w'.rows) = Ids(w.rows) \cup {run.view[k]}
    BY <1>2, ProcessVisible
  <2> QED
    BY <2>1, <2>2 DEF Handled, Viewed
<1>3. CASE ReturnEarly
  BY <1>3 DEF ReturnEarly, NeedsClose, Handled, Viewed
<1>4. CASE CloseShard
  BY <1>4, WriterClosed DEF CloseShard, Handled, MapInv, Viewed
<1>5. CASE CreateIndex
  BY <1>5 DEF CreateIndex, Handled, Viewed
<1>6. CASE WriteIndex
  BY <1>6 DEF WriteIndex, Handled, Viewed
<1>7. CASE Register
  <2>1. RowsIn(index) = w.rows
    BY <1>7 DEF Register, MapInv, RowsIn
  <2> QED
    BY <1>7, <2>1 DEF Register, Handled, Viewed
<1>8. CASE Crash
  <2>1. pc # "idle" /\ pc' = "idle" /\ returned' = returned
    BY <1>8, LocalAssumption DEF Crash
  <2> QED
    BY <2>1 DEF Handled
<1>9. CASE Rest \/ UNCHANGED vars
  BY <1>9 DEF Rest, vars, Handled, Viewed
<1> QED
  BY <1>1, <1>2, <1>3, <1>4, <1>5, <1>6, <1>7, <1>8, <1>9 DEF Next

\* After resume=False the reader sees this run's result for every sample of the
\* view, though older rows of the same samples are still in the index.
ForcedRunWins ==
  returned /\ run.forced =>
    \A k \in 1 .. Len(run.view) : Visible(index, run.view[k]).val \in {NoBlob, run.n}

\* In a forced run, what a position that is done shows is this run's.
OfThisRun(rows, k) == Visible(rows, run.view[k]).val \in {NoBlob, run.n}
ForcedInv ==
  /\ run.forced /\ pc # "idle" => \A k \in Viewed : k \in todo \/ OfThisRun(w.rows, k)
  /\ run.forced /\ returned => \A k \in Viewed : OfThisRun(index, k)

LEMMA ForcedStep ==
  ASSUME MapInv, MapTypes, Handled, ForcedInv, [Next]_vars PROVE ForcedInv'
<1>1. ASSUME NEW view \in Views, NEW resume \in Resumes, Start(view, resume) PROVE ForcedInv'
  <2>1. /\ run'.view = view /\ run'.forced = ~resume /\ returned' = FALSE
        /\ todo' = {k \in 1 .. Len(view) : view[k] \notin DoneIds(RowsIn(index), resume)}
    BY <1>1 DEF Start, Todo
  <2> QED
    BY <2>1, LocalAssumption DEF ForcedInv, DoneIds, Viewed
<1>2. ASSUME NEW k \in todo, NEW v \in {run.n} \cup (IF NoneAllowed THEN {NoBlob} ELSE {}),
             Process(k, v)
      PROVE  ForcedInv'
  <2>1. /\ pc = "map" /\ todo' = todo \ {k} /\ returned' = returned
        /\ run'.view = run.view /\ run'.forced = run.forced /\ run'.n = run.n
    <3>1. run' = [run EXCEPT !.tried = run.tried \cup {run.view[k]},
                           !.none = IF v = NoBlob THEN run.none \cup {run.view[k]} ELSE run.none]
      BY <1>2 DEF Process
    <3> QED
      BY <1>2, <3>1 DEF Process, MapTypes
  <2>2. ASSUME run.forced, NEW j \in Viewed, j \notin todo'
        PROVE  Visible(w'.rows, run.view[j]).val \in {NoBlob, run.n}
    <3>1. CASE run.view[j] = run.view[k]
      BY <1>2, <3>1, ProcessVisible DEF NoBlob
    <3>2. CASE run.view[j] # run.view[k]
      <4>1. j \notin todo
        BY <2>1, <2>2, <3>2
      <4>2. run.view[j] \in Ids(w.rows)
        BY <2>1, <4>1 DEF Handled
      <4>3. Visible(w'.rows, run.view[j]) = Visible(w.rows, run.view[j])
        BY <1>2, <3>2, <4>2, ProcessVisible
      <4> QED
        BY <2>1, <2>2, <4>1, <4>3 DEF ForcedInv, OfThisRun
    <3> QED BY <3>1, <3>2
  <2>3. ~returned
    BY <2>1 DEF Handled
  <2> QED
    BY <2>1, <2>2, <2>3 DEF ForcedInv, OfThisRun, Viewed
<1>3. CASE ReturnEarly
  <2>1. /\ todo = {} /\ pc = "map" /\ w.rows = RowsIn(index) /\ pc' = "idle"
        /\ UNCHANGED <<run, index>>
    BY <1>3 DEF ReturnEarly, NeedsClose, Handled
  <2>2. CASE Complete(index)
    BY <2>1, <2>2 DEF ForcedInv, OfThisRun, Viewed, RowsIn
  <2>3. CASE ~Complete(index)
    <3>1. Ids(w.rows) = {}
      BY <2>1, <2>3 DEF RowsIn, Ids
    <3> QED
      BY <2>1, <3>1 DEF ForcedInv, Viewed, Handled
  <2> QED BY <2>2, <2>3
<1>4. CASE CloseShard
  BY <1>4, WriterClosed DEF CloseShard, ForcedInv, Handled, MapInv, OfThisRun, Viewed
<1>5. CASE CreateIndex
  BY <1>5 DEF CreateIndex, ForcedInv, Handled, OfThisRun, Viewed
<1>6. CASE WriteIndex
  BY <1>6 DEF WriteIndex, ForcedInv, Handled, OfThisRun, Viewed
<1>7. CASE Register
  BY <1>7 DEF Register, ForcedInv, Handled, MapInv, OfThisRun, Viewed
<1>8. CASE Crash
  <2>1. pc # "idle" /\ pc' = "idle" /\ returned' = returned
    BY <1>8, LocalAssumption DEF Crash
  <2> QED
    BY <2>1 DEF Handled, ForcedInv
<1>9. CASE Rest \/ UNCHANGED vars
  BY <1>9 DEF Rest, vars, ForcedInv, OfThisRun, Viewed
<1> QED
  BY <1>1, <1>2, <1>3, <1>4, <1>5, <1>6, <1>7, <1>8, <1>9 DEF Next

\* After resume=False a reader sees the run's own result for every sample of the view,
\* wherever earlier runs died and however many rows they left.
THEOREM ForcedRunAlwaysWins == ASSUME FilesDiffer PROVE Spec => []ForcedRunWins
<1>1. Init => Handled /\ ForcedInv
  BY DEF Init, Handled, ForcedInv
<1>2. MapInv /\ MapTypes /\ Handled /\ [Next]_vars => Handled'
  BY HandledStep
<1>3. MapInv /\ MapTypes /\ Handled /\ ForcedInv /\ [Next]_vars => ForcedInv'
  BY ForcedStep
<1>4. ForcedInv => ForcedRunWins
  BY DEF ForcedInv, ForcedRunWins, OfThisRun, Viewed
<1> QED
  BY <1>1, <1>2, <1>3, <1>4, TypesInit, TypesStep, MapInvariant, PTL DEF Spec

\* A map that returned has a row for every sample of its view that fn gave a result for,
\* in an index the manifest names, until a run dies after it created the index.
THEOREM ReturnedAlwaysRegistered == ASSUME FilesDiffer PROVE Spec => []ReturnedUnlessLate
<1>1. Init => Handled /\ Agrees
  BY DEF Init, Handled, Agrees
<1>2. MapInv /\ MapTypes /\ Handled /\ [Next]_vars => Handled'
  BY HandledStep
<1>3. MapInv /\ Agrees /\ [Next]_vars => Agrees'
  BY AgreesStep
<1>4. Handled /\ Agrees => ReturnedUnlessLate
  <2> SUFFICES ASSUME Handled, Agrees, ~late, returned, NEW k \in Viewed
               PROVE  run.view[k] \in Ids(RowsIn(index)) /\ registered # Unregistered
    BY DEF ReturnedUnlessLate, ReturnedIsRegistered, Viewed
  <2>1. pc = "idle" /\ run.view[k] \in Ids(RowsIn(index))
    BY DEF Handled
  <2>2. Complete(index)
    <3>1. Ids(<<>>) = {}
      BY DEF Ids
    <3> QED
      BY <2>1, <3>1 DEF RowsIn
  <2>3. registered = Len(index) /\ index = RowsIn(index)
    BY <2>1, <2>2 DEF Agrees, RowsIn, Complete
  <2>4. \E i \in 1 .. Len(index) : TRUE
    BY <2>1, <2>3 DEF Ids
  <2> QED
    BY <2>1, <2>3, <2>4 DEF Unregistered
<1> QED
  BY <1>1, <1>2, <1>3, <1>4, TypesInit, TypesStep, MapInvariant, PTL DEF Spec
-----------------------------------------------------------------------------
\* A view is a dataset or a subset of one: no sample is in it twice.
NoRepeats == \A view \in Views : \A j, k \in 1 .. Len(view) : view[j] = view[k] => j = k

Distinct(rows) == \A j, k \in 1 .. Len(rows) : rows[j].id = rows[k].id => j = k

\* As long as every run resumed, no row is repeated and none is about to be.
OnceInv ==
  ~run.anyForced =>
    /\ Distinct(saved)
    /\ pc # "idle" => Distinct(w.rows) /\ \A k \in todo : run.view[k] \notin Ids(w.rows)

LEMMA DistinctAppended ==
  ASSUME NEW rows, IsList(rows), Distinct(rows), NEW r, r.id \notin Ids(rows)
  PROVE  Distinct(Append(rows, r))
<1> DEFINE more == Append(rows, r)
<1>1. /\ Len(rows) \in Nat /\ Len(more) = Len(rows) + 1
      /\ more[Len(rows) + 1] = r
      /\ \A k \in 1 .. Len(rows) : more[k] = rows[k]
  BY AppendList
<1> HIDE DEF more
<1>2. 1 .. Len(more) = (1 .. Len(rows)) \cup {Len(rows) + 1}
  BY <1>1
<1>3. \A k \in 1 .. Len(rows) : rows[k].id # r.id
  BY DEF Ids
<1>4. Distinct(more)
  BY <1>1, <1>2, <1>3 DEF Distinct
<1> QED
  BY <1>4 DEF more

LEMMA OnceStep ==
  ASSUME NoRepeats, MapInv, MapTypes, OnceInv, [Next]_vars PROVE OnceInv'
<1>1. ASSUME NEW view \in Views, NEW resume \in Resumes, Start(view, resume) PROVE OnceInv'
  <2>1. /\ run'.anyForced = (run.anyForced \/ ~resume) /\ run'.view = view /\ saved' = saved
        /\ w'.rows = saved
        /\ todo' = {k \in 1 .. Len(view) : view[k] \notin DoneIds(saved, resume)}
    BY <1>1 DEF Start, Todo, Opened, RowsIn, MapInv, Complete
  <2> QED
    BY <2>1, LocalAssumption DEF OnceInv, DoneIds
<1>2. ASSUME NEW k \in todo, NEW v, Process(k, v) PROVE OnceInv'
  <2>1. /\ pc = "map" /\ todo' = todo \ {k} /\ saved' = saved
        /\ run'.view = run.view /\ run'.anyForced = run.anyForced
    <3>1. run' = [run EXCEPT !.tried = run.tried \cup {run.view[k]},
                           !.none = IF v = NoBlob THEN run.none \cup {run.view[k]} ELSE run.none]
      BY <1>2 DEF Process
    <3> QED
      BY <1>2, <3>1 DEF Process, MapTypes
  <2>2. PICK r : w'.rows = Append(w.rows, r) /\ IsList(w.rows) /\ r.id = run.view[k]
    BY <1>2, ProcessRow
  <2>3. ASSUME ~run.anyForced PROVE Distinct(w'.rows)
    BY <2>1, <2>2, <2>3, DistinctAppended DEF OnceInv
  <2>4. ASSUME ~run.anyForced, NEW j \in todo' PROVE run.view[j] \notin Ids(w'.rows)
    <3>1. Ids(w'.rows) = Ids(w.rows) \cup {run.view[k]}
      BY <1>2, ProcessVisible
    <3>2. run.view[j] # run.view[k]
      <4>1. j \in 1 .. Len(run.view) /\ k \in 1 .. Len(run.view) /\ j # k
        BY <2>1 DEF MapTypes
      <4>2. run.view \in Views
        BY <4>1 DEF MapTypes
      <4> QED
        BY <4>1, <4>2 DEF NoRepeats
    <3> QED
      BY <2>1, <2>4, <3>1, <3>2 DEF OnceInv
  <2> QED
    BY <2>1, <2>3, <2>4 DEF OnceInv
<1>3. CASE ReturnEarly
  BY <1>3 DEF ReturnEarly, OnceInv
<1>4. CASE CloseShard
  BY <1>4, WriterClosed DEF CloseShard, OnceInv, MapInv
<1>5. CASE CreateIndex
  BY <1>5 DEF CreateIndex, OnceInv
<1>6. CASE WriteIndex
  BY <1>6 DEF WriteIndex, IndexRows, OnceInv
<1>7. CASE Register
  BY <1>7 DEF Register, OnceInv
<1>8. CASE Crash
  BY <1>8 DEF Crash, OnceInv
<1>9. CASE Rest \/ UNCHANGED vars
  BY <1>9 DEF Rest, vars, OnceInv
<1> QED
  BY <1>1, <1>2, <1>3, <1>4, <1>5, <1>6, <1>7, <1>8, <1>9 DEF Next

\* Resuming, however often and after whatever deaths, gives no sample two rows.
THEOREM OneRowAlways == ASSUME FilesDiffer, NoRepeats PROVE Spec => []OneRowPerSample
<1>1. Init => OnceInv
  BY DEF Init, OnceInv, Distinct
<1>2. MapInv /\ MapTypes /\ OnceInv /\ [Next]_vars => OnceInv'
  BY OnceStep
<1>3. MapInv /\ OnceInv => OneRowPerSample
  <2> SUFFICES ASSUME MapInv, OnceInv, ~run.anyForced,
                      NEW j \in 1 .. Len(RowsIn(index)), NEW k \in 1 .. Len(RowsIn(index)),
                      index[j].id = index[k].id
               PROVE  j = k
    BY DEF OneRowPerSample
  <2>1. CASE Complete(index)
    BY <2>1 DEF MapInv, OnceInv, Distinct, RowsIn
  <2>2. CASE ~Complete(index)
    BY <2>2 DEF RowsIn
  <2> QED BY <2>1, <2>2
<1> QED
  BY <1>1, <1>2, <1>3, TypesInit, TypesStep, MapInvariant, PTL DEF Spec
-----------------------------------------------------------------------------
(* LayerTable is implemented.                                                *)

\* The samples the run under way has to bring a result for.
ViewedIds == {run.view[k] : k \in Viewed}
ToBring == IF run.forced THEN ViewedIds ELSE ViewedIds \ Ids(saved)

\* Until its index is written, a run has given its result to what it tried, left
\* the visible row of every other sample, and has the rest of its task before it.
RunInv ==
  /\ Ids(w.rows) = Ids(saved) \cup run.tried
  /\ \A s \in run.tried : Visible(w.rows, s).val \in {NoBlob, run.n}
  /\ \A s \in Ids(saved) \ run.tried : Visible(w.rows, s) = Visible(saved, s)
  /\ run.tried \subseteq ToBring
  /\ \A k \in Viewed : run.view[k] \in ToBring <=> k \in todo \/ run.view[k] \in run.tried

TableInv ==
  /\ returned => pc = "idle"
  /\ pc \in {"index", "write"} => todo = {} /\ run.tried # {}
  /\ pc = "write" => index = Torn
  /\ pc \in {"map", "index"} => index # Torn
  /\ pc \in {"map", "index", "write"} => RunInv

\* The rows' own values, which is what a reader finds behind them.
Values(rows) == [s \in Ids(rows) |-> Visible(rows, s).val]

LEMMA SeenIsValue ==
  ASSUME NEW rows, IsList(rows), NEW d, \A k \in 1 .. Len(rows) : ReadsBack(rows[k], d),
         NEW s \in Ids(rows)
  PROVE  Seen(rows, d, s) = Visible(rows, s).val
<1>1. PICK k \in 1 .. Len(rows) : rows[k].id = s /\ Visible(rows, s) = rows[k]
  BY VisibleFacts
<1>2. ReadsBack(rows[k], d)
  OBVIOUS
<1>3. rows[k].val # NoBlob => d[rows[k].shard][rows[k].at] = <<rows[k].id, rows[k].val>>
  BY <1>2 DEF ReadsBack
<1>4. <<rows[k].id, rows[k].val>>[2] = rows[k].val
  OBVIOUS
<1> QED
  BY <1>1, <1>3, <1>4 DEF Seen

LEMMA SeenTableIsValues == ASSUME MapInv PROVE SeenTable = Values(saved)
<1>1. IsList(saved) /\ \A k \in 1 .. Len(saved) : ReadsBack(saved[k], shards)
  BY DEF MapInv, RowList
<1>2. \A s \in Ids(saved) : Seen(saved, shards, s) = Visible(saved, s).val
  BY <1>1, SeenIsValue
<1> QED
  BY <1>2 DEF SeenTable, Values

LEMMA TableInit == ASSUME Init PROVE TableInv
<1>1. pc = "idle" /\ returned = FALSE
  BY DEF Init
<1> QED
  BY <1>1 DEF TableInv

\* A run starts with the saved rows, having tried nothing.
LEMMA RunStarts ==
  ASSUME MapInv, NEW view, NEW resume \in BOOLEAN, Start(view, resume) PROVE RunInv'
<1>1. /\ saved' = saved /\ run'.view = view /\ run'.tried = {} /\ run'.forced = ~resume
      /\ todo' = {k \in 1 .. Len(view) : view[k] \notin DoneIds(saved, resume)}
      /\ w'.rows = saved
  BY DEF Start, Todo, Opened, RowsIn, MapInv, Complete
<1>2. DoneIds(saved, resume) = IF resume THEN Ids(saved) ELSE {}
  BY DEF DoneIds
<1>3. /\ ToBring' = IF resume THEN ViewedIds' \ Ids(saved) ELSE ViewedIds'
      /\ ViewedIds' = {view[k] : k \in 1 .. Len(view)}
  BY <1>1 DEF ToBring, ViewedIds, Viewed
<1>4. \A k \in 1 .. Len(view) : view[k] \in ToBring' <=> k \in todo'
  BY <1>1, <1>2, <1>3
<1> QED
  BY <1>1, <1>4 DEF RunInv, Viewed

\* One sample more is tried, and no other is touched.
LEMMA RunGoesOn ==
  ASSUME MapInv, MapTypes, RunInv, NEW k \in todo,
         NEW v \in {run.n} \cup (IF NoneAllowed THEN {NoBlob} ELSE {}), Process(k, v)
  PROVE  RunInv'
<1> DEFINE s == run.view[k]
<1>1. /\ todo' = todo \ {k} /\ saved' = saved /\ k \in Viewed
      /\ run'.view = run.view /\ run'.forced = run.forced /\ run'.n = run.n
      /\ run'.tried = run.tried \cup {s}
  <2>1. run' = [run EXCEPT !.tried = run.tried \cup {s},
                           !.none = IF v = NoBlob THEN run.none \cup {s} ELSE run.none]
    BY DEF Process
  <2> QED
    BY <2>1 DEF Process, MapTypes, Viewed
<1>2. ToBring' = ToBring /\ Viewed' = Viewed
  BY <1>1 DEF ToBring, ViewedIds, Viewed
<1>3. /\ Ids(w'.rows) = Ids(w.rows) \cup {s}
      /\ Visible(w'.rows, s).val = v
      /\ \A q \in Ids(w.rows) : q # s => Visible(w'.rows, q) = Visible(w.rows, q)
  BY ProcessVisible
<1>4. v \in {NoBlob, run.n}
  OBVIOUS
<1>5. s \in ToBring
  BY <1>1 DEF RunInv
<1> HIDE DEF s
<1>6. Ids(w'.rows) = Ids(saved') \cup run'.tried
  BY <1>1, <1>3 DEF RunInv
<1>7. ASSUME NEW q \in run'.tried PROVE Visible(w'.rows, q).val \in {NoBlob, run'.n}
  <2>1. CASE q = s
    BY <1>1, <1>3, <1>4, <2>1
  <2>2. CASE q # s
    <3>1. q \in run.tried /\ q \in Ids(w.rows)
      BY <1>1, <2>2 DEF RunInv
    <3> QED
      BY <1>1, <1>3, <2>2, <3>1 DEF RunInv
  <2> QED BY <2>1, <2>2
<1>8. ASSUME NEW q \in Ids(saved') \ run'.tried PROVE Visible(w'.rows, q) = Visible(saved', q)
  <2>1. q # s /\ q \in Ids(saved) \ run.tried /\ q \in Ids(w.rows)
    BY <1>1 DEF RunInv
  <2> QED
    BY <1>1, <1>3, <2>1 DEF RunInv
<1>9. run'.tried \subseteq ToBring'
  BY <1>1, <1>2, <1>5 DEF RunInv
<1>10. \A j \in Viewed' : run'.view[j] \in ToBring' <=> j \in todo' \/ run'.view[j] \in run'.tried
  <2>1. \A j \in Viewed : run.view[j] \in ToBring <=> j \in todo \/ run.view[j] \in run.tried
    BY DEF RunInv
  <2>2. run.view[k] = s
    BY DEF s
  <2> QED
    BY <1>1, <1>2, <1>5, <2>1, <2>2
<1> QED
  BY <1>6, <1>7, <1>8, <1>9, <1>10 DEF RunInv

LEMMA RunInvKept ==
  ASSUME RunInv, w'.rows = w.rows, UNCHANGED <<saved, run, todo>> PROVE RunInv'
<1>1. Viewed' = Viewed
  BY DEF Viewed
<1>2. ToBring' = ToBring
  BY <1>1 DEF ToBring, ViewedIds
<1>3. saved' = saved /\ run' = run /\ todo' = todo
  OBVIOUS
<1> QED
  BY <1>1, <1>2, <1>3 DEF RunInv

LEMMA TableStep ==
  ASSUME MapInv, MapTypes, TableInv, [Next]_vars PROVE TableInv'
<1>1. ASSUME NEW view \in Views, NEW resume \in Resumes, Start(view, resume) PROVE TableInv'
  <2>1. RunInv'
    BY <1>1, RunStarts, LocalAssumption
  <2> QED
    BY <1>1, <2>1 DEF Start, TableInv
<1>2. ASSUME NEW k \in todo, NEW v \in {run.n} \cup (IF NoneAllowed THEN {NoBlob} ELSE {}),
             Process(k, v)
      PROVE  TableInv'
  <2>1. pc = "map" /\ UNCHANGED <<pc, index, returned>>
    BY <1>2 DEF Process
  <2>2. RunInv'
    BY <1>2, <2>1, RunGoesOn DEF TableInv
  <2> QED
    BY <2>1, <2>2 DEF TableInv
<1>3. CASE ReturnEarly
  BY <1>3 DEF ReturnEarly, TableInv
<1>4. CASE CloseShard
  <2>1. RunInv'
    BY <1>4, WriterClosed, RunInvKept DEF CloseShard, TableInv, MapInv
  <2> QED
    BY <1>4, <2>1 DEF CloseShard, NeedsClose, TableInv
<1>5. CASE CreateIndex
  <2>1. RunInv'
    BY <1>5, RunInvKept DEF CreateIndex, TableInv
  <2> QED
    BY <1>5, <2>1 DEF CreateIndex, TableInv
<1>6. CASE WriteIndex
  BY <1>6 DEF WriteIndex, TableInv
<1>7. CASE Register
  BY <1>7 DEF Register, TableInv
<1>8. CASE Crash
  BY <1>8 DEF Crash, TableInv
<1>9. CASE Rest \/ UNCHANGED vars
  <2>1. UNCHANGED vars
    BY <1>9 DEF Rest
  <2>2. RunInv => RunInv'
    BY <2>1, RunInvKept DEF vars
  <2> QED
    BY <2>1, <2>2 DEF vars, TableInv
<1> QED
  BY <1>1, <1>2, <1>3, <1>4, <1>5, <1>6, <1>7, <1>8, <1>9 DEF Next

LEMMA MappedInit == ASSUME Init PROVE Table!Init
<1>1. saved = <<>> /\ pc = "idle" /\ returned = FALSE /\ index = Absent /\ registered = Unregistered
  BY DEF Init
<1>2. Ids(saved) = {}
  BY <1>1 DEF Ids
<1>3. SeenTable = [s \in {} |-> NoBlob]
  BY <1>2 DEF SeenTable
<1>4. Stage = "rest"
  BY <1>1, LayerAssumption DEF Stage
<1>5. Asked = [n |-> 0, view |-> <<>>, forced |-> FALSE]
  BY DEF Init, Asked
<1> QED
  BY <1>1, <1>3, <1>4, <1>5 DEF Table!Init

\* The task of the run is what the table lacks, and no more than it may bring.
LEMMA MustIsToBring == ASSUME MapInv PROVE Table!Must = ToBring /\ ToBring \subseteq Table!May
<1>1. Asked.view = run.view /\ Asked.forced = run.forced
  BY DEF Asked
<1>2. Table!Viewed = ViewedIds
  BY <1>1 DEF Table!Viewed, ViewedIds, Viewed
<1>3. DOMAIN SeenTable = Ids(saved)
  BY DEF SeenTable
<1> QED
  BY <1>1, <1>2, <1>3 DEF Table!Must, Table!May, ToBring

\* Nothing left to do: all of the task has been tried.
LEMMA AllTried == ASSUME RunInv, todo = {} PROVE run.tried = ToBring
<1>1. ASSUME NEW s \in ToBring PROVE s \in run.tried
  <2>1. PICK k \in Viewed : s = run.view[k]
    BY DEF ToBring, ViewedIds
  <2> QED
    BY <2>1 DEF RunInv
<1> QED
  BY <1>1 DEF RunInv

\* Writing the index stores the result of the run, and of nothing else.
LEMMA WriteStores ==
  ASSUME MapInv, MapInv', TableInv, WriteIndex PROVE Table!Store
<1> DEFINE new == [s \in ToBring |-> Visible(w.rows, s).val]
<1>1. pc = "write" /\ pc' = "register" /\ saved' = w.rows /\ UNCHANGED <<run, registered>>
      /\ todo = {} /\ RunInv
  BY DEF WriteIndex, IndexRows, TableInv
<1>2. run.tried = ToBring
  BY <1>1, AllTried
<1>3. SeenTable = Values(saved)
  BY SeenTableIsValues
<1>4. SeenTable' = Values(w.rows)
  <2>1. IsList(saved') /\ \A k \in 1 .. Len(saved') : ReadsBack(saved'[k], shards')
    BY DEF MapInv, RowList
  <2>2. \A s \in Ids(saved') : Seen(saved', shards', s) = Visible(saved', s).val
    BY <2>1, SeenIsValue
  <2> QED
    BY <1>1, <2>2 DEF SeenTable, Values
<1>5. new \in [ToBring -> {NoBlob, Asked.n}]
  <2>1. \A s \in ToBring : Visible(w.rows, s).val \in {NoBlob, Asked.n}
    BY <1>1, <1>2 DEF RunInv, Asked
  <2> QED
    BY <2>1
<1>6. SeenTable' = [s \in DOMAIN SeenTable \cup ToBring |->
                     IF s \in ToBring THEN new[s] ELSE SeenTable[s]]
  <2>1. Ids(w.rows) = Ids(saved) \cup ToBring /\ DOMAIN SeenTable = Ids(saved)
    BY <1>1, <1>2, <1>3 DEF RunInv, Values
  <2>2. ASSUME NEW s \in Ids(w.rows)
        PROVE  Visible(w.rows, s).val = IF s \in ToBring THEN new[s] ELSE SeenTable[s]
    <3>1. CASE s \in ToBring
      BY <3>1
    <3>2. CASE s \notin ToBring
      <4>1. s \in Ids(saved) \ run.tried
        BY <1>2, <2>1, <3>2
      <4>2. Visible(w.rows, s) = Visible(saved, s)
        BY <1>1, <4>1 DEF RunInv
      <4> QED
        BY <1>3, <3>2, <4>1, <4>2 DEF Values
    <3> QED BY <3>1, <3>2
  <2> HIDE DEF new
  <2> QED
    BY <1>4, <2>1, <2>2 DEF Values
<1>7. Stage = "rewriting" /\ Stage' = "stored" /\ UNCHANGED Asked
  BY <1>1 DEF Stage, Asked
<1> HIDE DEF new
<1>8. Table!Must \subseteq ToBring /\ ToBring \in SUBSET Table!May
  BY MustIsToBring
<1> QED
  BY <1>1, <1>5, <1>6, <1>7, <1>8 DEF Table!Store

\* What readers see, and the request, change when a run starts or writes its index.
LEMMA TableUnchanged ==
  ASSUME MapInv, MapInv', UNCHANGED saved PROVE UNCHANGED SeenTable
<1>1. SeenTable = Values(saved)
  BY SeenTableIsValues
<1>2. IsList(saved') /\ \A k \in 1 .. Len(saved') : ReadsBack(saved'[k], shards')
  BY DEF MapInv, RowList
<1>3. \A s \in Ids(saved') : Seen(saved', shards', s) = Visible(saved', s).val
  BY <1>2, SeenIsValue
<1> QED
  BY <1>1, <1>3 DEF SeenTable, Values

LEMMA MappedStep ==
  ASSUME MapInv, MapInv', MapTypes, TableInv, [Next]_vars
  PROVE  Table!Next \/ UNCHANGED <<SeenTable, Asked, Stage, registered # Unregistered>>
<1>1. ASSUME NEW view \in Views, NEW resume \in Resumes, Start(view, resume)
      PROVE  \E forced \in BOOLEAN : Table!Begin(view, forced)
  <2>1. /\ pc = "idle" /\ pc' = "map" /\ index # Torn /\ UNCHANGED <<saved, registered>>
        /\ run' = [n |-> run.n + 1, view |-> view, tried |-> {}, none |-> {}, forced |-> ~resume,
                    anyForced |-> run.anyForced \/ ~resume]
    BY <1>1 DEF Start
  <2>2. Asked' = [n |-> Asked.n + 1, view |-> view, forced |-> ~resume]
    BY <2>1 DEF Asked
  <2>3. Stage \in {"rest", "returned"} /\ Stage' = "mapping"
    <3>1. returned \in BOOLEAN
      BY DEF MapTypes
    <3> QED
      BY <2>1, <3>1 DEF Stage
  <2>4. Table!Begin(view, ~resume)
    BY <2>1, <2>2, <2>3, TableUnchanged DEF Table!Begin
  <2> QED
    BY <2>4, LocalAssumption
<1>2. ASSUME NEW k, NEW v, Process(k, v)
      PROVE  UNCHANGED <<SeenTable, Asked, Stage, registered # Unregistered>>
  <2>1. pc = "map" /\ UNCHANGED <<pc, index, registered, returned, saved>>
    BY <1>2 DEF Process
  <2>2. run' = [run EXCEPT !.tried = run.tried \cup {run.view[k]},
                           !.none = IF v = NoBlob THEN run.none \cup {run.view[k]} ELSE run.none]
    BY <1>2 DEF Process
  <2>3. UNCHANGED Asked
    BY <2>2 DEF Asked, MapTypes
  <2>4. UNCHANGED Stage
    BY <2>1 DEF Stage
  <2> QED
    BY <2>1, <2>3, <2>4, TableUnchanged
<1>3. CASE ReturnEarly
  <2>1. /\ pc = "map" /\ todo = {} /\ run.tried = {} /\ returned' = TRUE /\ pc' = "idle"
        /\ UNCHANGED <<run, index, registered, saved>> /\ RunInv
    BY <1>3 DEF ReturnEarly, NeedsClose, TableInv
  <2>2. Table!Must = {}
    BY <2>1, AllTried, MustIsToBring
  <2>3. Stage = "mapping" /\ Stage' = "returned" /\ UNCHANGED Asked
    BY <2>1 DEF Stage, Asked
  <2>4. Table!NothingToDo
    BY <2>1, <2>2, <2>3, TableUnchanged DEF Table!NothingToDo
  <2> QED
    BY <2>4 DEF Table!Next
<1>4. CASE CloseShard
  <2>1. pc = "map" /\ pc' = "index" /\ UNCHANGED <<run, index, registered, returned, saved>>
    BY <1>4 DEF CloseShard
  <2>2. UNCHANGED <<Stage, Asked>>
    BY <2>1 DEF Stage, Asked
  <2> QED
    BY <2>1, <2>2, TableUnchanged
<1>5. CASE CreateIndex
  <2>1. /\ pc = "index" /\ pc' = "write" /\ todo = {} /\ run.tried # {} /\ RunInv
        /\ UNCHANGED <<run, registered, returned, saved>>
    BY <1>5 DEF CreateIndex, TableInv
  <2>2. Table!May # {}
    BY <2>1, AllTried, MustIsToBring
  <2>3. Stage = "mapping" /\ Stage' = "rewriting" /\ UNCHANGED Asked
    BY <2>1 DEF Stage, Asked
  <2>4. Table!Rewrite
    BY <2>1, <2>2, <2>3, TableUnchanged DEF Table!Rewrite
  <2> QED
    BY <2>4 DEF Table!Next
<1>6. CASE WriteIndex
  BY <1>6, WriteStores DEF Table!Next
<1>7. CASE Register
  <2>1. /\ pc = "register" /\ pc' = "idle" /\ returned' = TRUE /\ registered' = Len(w.rows)
        /\ UNCHANGED <<run, index, saved>>
    BY <1>7 DEF Register, RegisteredRows
  <2>2. registered' # Unregistered
    <3>1. Len(w.rows) \in Nat
      BY LenProperties DEF MapInv, WriterOK, RowList, IsList
    <3> QED
      BY <2>1, <3>1 DEF Unregistered
  <2>3. Stage = "stored" /\ Stage' = "returned" /\ UNCHANGED Asked
    BY <2>1 DEF Stage, Asked
  <2>4. Table!Return
    BY <2>1, <2>2, <2>3, TableUnchanged DEF Table!Return
  <2> QED
    BY <2>4 DEF Table!Next
<1>8. CASE Crash
  <2>1. /\ pc \in {"map", "index", "write", "register"} /\ pc' = "idle"
        /\ UNCHANGED <<run, index, registered, returned, saved>>
    BY <1>8, LocalAssumption DEF Crash, Phases
  <2>2. ~returned
    BY <2>1 DEF TableInv
  <2>3. \/ Stage \in {"mapping", "stored"} /\ Stage' = "rest"
        \/ Stage = "rewriting" /\ Stage' = "broken"
    <3>1. CASE pc = "write"
      BY <2>1, <2>2, <3>1 DEF Stage, TableInv
    <3>2. CASE pc # "write"
      <4>1. index # Torn
        BY <2>1, <3>2 DEF TableInv, MapInv, Complete
      <4> QED
        BY <2>1, <2>2, <3>2, <4>1 DEF Stage
    <3> QED BY <3>1, <3>2
  <2>4. UNCHANGED Asked
    BY <2>1 DEF Asked
  <2>5. Table!Die
    BY <2>1, <2>3, <2>4, TableUnchanged DEF Table!Die
  <2> QED
    BY <2>5 DEF Table!Next
<1>9. CASE Rest \/ UNCHANGED vars
  <2>1. UNCHANGED <<pc, run, index, registered, returned, saved>>
    BY <1>9 DEF Rest, vars
  <2>2. UNCHANGED <<Stage, Asked>>
    BY <2>1 DEF Stage, Asked
  <2> QED
    BY <2>1, <2>2, TableUnchanged
<1> QED
  BY <1>1, <1>2, <1>3, <1>4, <1>5, <1>6, <1>7, <1>8, <1>9 DEF Next, Table!Next

\* What readers get of a layer changes by whole maps only, for any views, any number
\* of runs, and deaths at any point: a run that dies before its index is written has
\* changed nothing, and one that gets there brings its own result to the samples it
\* had to, and to none that has a result and was not asked for again.
THEOREM MapRefinesTable == ASSUME FilesDiffer PROVE Spec => RefinesTable
<1>1. Init => Table!Init
  BY MappedInit
<1>2. MapInv /\ MapInv' /\ MapTypes /\ TableInv /\ [Next]_vars => [Table!Next]_(Table!vars)
  BY MappedStep DEF Table!vars
<1>3. Init => TableInv
  BY TableInit
<1>4. MapInv /\ MapTypes /\ TableInv /\ [Next]_vars => TableInv'
  BY TableStep
<1> QED
  BY <1>1, <1>2, <1>3, <1>4, TypesInit, TypesStep, MapInvariant, PTL
  DEF Spec, RefinesTable, Table!Spec
=============================================================================
