----------------------------- MODULE LayerTable -----------------------------
(***************************************************************************)
(* What Dataset.map promises the readers of its layer, with no writer, no  *)
(* rows and no shards: a table from samples to results.  A map takes       *)
(* effect whole or not at all: on the samples of its view it has not tried *)
(* yet, or on all of them when it is told not to resume.  A sample that fn *)
(* returned None for may be tried again (PYTHON_API.md:253-254) or not;    *)
(* every other sample keeps its result.  LocalMap refines it.              *)
(***************************************************************************)
EXTENDS Integers, Sequences

CONSTANTS
  Views,      \* the sample sequences map is called on
  NoResult    \* fn returned None

VARIABLES
  table,      \* per sample that has a result: the number of the map it is of, or NoResult
  asked,      \* the last map
  stage,      \* see Stages
  listed      \* does the manifest name the layer?

vars == <<table, asked, stage, listed>>

\* At rest, after a map that died or none; mapping; while the table is rewritten
\* nobody can read it, and if the map dies then, nobody ever can (broken).
Stages == {"rest", "mapping", "rewriting", "stored", "returned", "broken"}

Init ==
  /\ table = [s \in {} |-> NoResult]
  /\ asked = [n |-> 0, view |-> <<>>, forced |-> FALSE]
  /\ stage = "rest" /\ listed = FALSE

Begin(view, forced) ==
  /\ stage \in {"rest", "returned"} /\ stage' = "mapping"
  /\ asked' = [n |-> asked.n + 1, view |-> view, forced |-> forced]
  /\ UNCHANGED <<table, listed>>

\* What the map that is under way has to bring, and what it may bring.
Viewed == {asked.view[k] : k \in 1 .. Len(asked.view)}
Must == IF asked.forced THEN Viewed ELSE Viewed \ DOMAIN table
May == IF asked.forced THEN Viewed
       ELSE {s \in Viewed : s \in DOMAIN table => table[s] = NoResult}

NothingToDo ==
  /\ stage = "mapping" /\ Must = {} /\ stage' = "returned"
  /\ UNCHANGED <<table, asked, listed>>

Rewrite ==
  /\ stage = "mapping" /\ May # {} /\ stage' = "rewriting"
  /\ UNCHANGED <<table, asked, listed>>

Store ==
  /\ stage = "rewriting" /\ stage' = "stored"
  /\ \E brought \in SUBSET May :
       /\ Must \subseteq brought
       /\ \E new \in [brought -> {NoResult, asked.n}] :
            table' = [s \in DOMAIN table \cup brought |->
                        IF s \in brought THEN new[s] ELSE table[s]]
  /\ UNCHANGED <<asked, listed>>

Return ==
  /\ stage = "stored" /\ stage' = "returned" /\ listed' = TRUE
  /\ UNCHANGED <<table, asked>>

Die ==
  /\ \/ stage \in {"mapping", "stored"} /\ stage' = "rest"
     \/ stage = "rewriting" /\ stage' = "broken"
  /\ UNCHANGED <<table, asked, listed>>

Next ==
  \/ \E view \in Views, forced \in BOOLEAN : Begin(view, forced)
  \/ NothingToDo \/ Rewrite \/ Store \/ Return \/ Die

Spec == Init /\ [][Next]_vars
=============================================================================
