---------------------------- MODULE DistMapProofs ----------------------------
(***************************************************************************)
(* What Dataset.map on several ranks guarantees for any jobs, worlds,      *)
(* views and target, and for ranks and commits that die: all the           *)
(* invariants of DistMap.  The argument rests on                           *)
(*   Control   who may do what: nobody maps while a commit is under way;   *)
(*   Stored    what is in the files, and that a commit makes of it one     *)
(*             ascending list of all the rows (MergedFacts);               *)
(*   Nested, Back       a fragment stays part of what its rank has opened, *)
(*             so new shards never overwrite a row that is committed;      *)
(*   NoRowLost, CommitHolds   the commit under way holds what was          *)
(*             completed;                                                  *)
(*   Mapped, Committed  every rank wrote its fragment before the commit;   *)
(*   Sharded   a row's job tells the world it was mapped in.               *)
(***************************************************************************)
EXTENDS DistMap, LayerFilesProofs

(* Sets of sample_ids in order: what the merge by BTreeMap rests on.         *)

\* The commit writes the merged rows by ascending sample_id: row k is the sample with
\* k - 1 samples below it.
Rank(s, U) == Cardinality({t \in U : t < s})

LEMMA RankLess ==
  ASSUME NEW U, U \subseteq Nat, IsFiniteSet(U), NEW s \in U, NEW t \in U, s < t
  PROVE  Rank(s, U) \in Nat /\ Rank(t, U) \in Nat /\ Rank(s, U) < Rank(t, U)
<1> DEFINE A == {u \in U : u < s}
           B == {u \in U : u < t}
<1>1. IsFiniteSet(B) /\ IsFiniteSet(A)
  BY FS_Subset
<1>2. A \in SUBSET B /\ s \in B /\ s \notin A
  <2>1. \A u \in U : u \in Nat
    OBVIOUS
  <2>2. \A u \in U : u < s => u < t
    BY <2>1
  <2>3. s \in Nat /\ ~(s < s)
    OBVIOUS
  <2> QED
    BY <2>2, <2>3
<1> HIDE DEF A, B
<1>3. Cardinality(A) <= Cardinality(B) /\ Cardinality(A) # Cardinality(B)
  BY <1>1, <1>2, FS_Subset
<1>4. Cardinality(A) \in Nat /\ Cardinality(B) \in Nat
  BY <1>1, FS_CardinalityType
<1>5. Cardinality(A) < Cardinality(B)
  BY <1>3, <1>4
<1> QED
  BY <1>4, <1>5 DEF A, B, Rank

LEMMA RankRange ==
  ASSUME NEW U, U \subseteq Nat, IsFiniteSet(U), NEW s \in U
  PROVE  Cardinality(U) \in Nat /\ Rank(s, U) \in 0 .. Cardinality(U) - 1
<1> DEFINE A == {u \in U : u < s}
<1>1. A \in SUBSET U /\ A # U
  OBVIOUS
<1>2. Cardinality(A) <= Cardinality(U) /\ Cardinality(A) # Cardinality(U) /\ IsFiniteSet(A)
  BY <1>1, FS_Subset
<1> HIDE DEF A
<1>3. Cardinality(A) \in Nat /\ Cardinality(U) \in Nat
  BY <1>2, FS_CardinalityType
<1>4. Cardinality(A) \in 0 .. Cardinality(U) - 1
  BY <1>2, <1>3
<1> QED
  BY <1>3, <1>4 DEF A, Rank

LEMMA RankOrder ==
  ASSUME NEW U, U \subseteq Nat, IsFiniteSet(U), NEW s \in U, NEW t \in U,
         Rank(s, U) <= Rank(t, U)
  PROVE  s <= t
<1>1. ASSUME t < s PROVE FALSE
  <2>1. Rank(t, U) \in Nat /\ Rank(s, U) \in Nat /\ Rank(t, U) < Rank(s, U)
    BY <1>1, RankLess
  <2> QED
    BY <2>1
<1>2. s \in Nat /\ t \in Nat
  OBVIOUS
<1> QED
  BY <1>1, <1>2

LEMMA LessOrEqual ==
  ASSUME NEW U, U \subseteq Nat, NEW s \in U, \A t \in U : t <= s
  PROVE  {t \in U : t < s} = U \ {s}
<1>1. ASSUME NEW t \in U PROVE t < s <=> t # s
  <2>1. t \in Nat /\ s \in Nat /\ t <= s
    OBVIOUS
  <2> QED
    BY <2>1
<1> QED
  BY <1>1

LEMMA Greatest ==
  ASSUME NEW U, U \subseteq Nat, IsFiniteSet(U), U # {}
  PROVE  \E s \in U : \A t \in U : t <= s
<1> DEFINE R == {Rank(s, U) : s \in U}
           C == Cardinality(U)
<1>1. C \in Nat /\ R \subseteq 0 .. C - 1 /\ R # {}
  BY RankRange
<1> HIDE DEF C
<1>2. PICK n \in R : \A m \in R : m <= n
  BY <1>1, HighestExists
<1>3. PICK s \in U : n = Rank(s, U)
  BY <1>2
<1>4. ASSUME NEW t \in U PROVE t <= s
  <2>1. Rank(t, U) <= Rank(s, U)
    BY <1>2, <1>3
  <2> QED
    BY <2>1, RankOrder
<1> QED
  BY <1>4

LEMMA RankReached ==
  ASSUME NEW U, U \subseteq Nat, IsFiniteSet(U), NEW k \in 0 .. Cardinality(U) - 1
  PROVE  \E s \in U : Rank(s, U) = k
<1> DEFINE A == {s \in U : Rank(s, U) >= k}
<1>1. Cardinality(U) \in Nat /\ U # {}
  BY FS_CardinalityType, FS_EmptySet
<1>2. A # {}
  <2>1. PICK s \in U : \A t \in U : t <= s
    BY <1>1, Greatest
  <2>2. {t \in U : t < s} = U \ {s}
    BY <2>1, LessOrEqual
  <2>3. Rank(s, U) = Cardinality(U) - 1
    BY <2>2, FS_RemoveElement DEF Rank
  <2> QED
    BY <1>1, <2>3
<1>3. PICK s \in A : \A t \in A : ~(t < s)
  <2>1. PICK x \in A : \A y \in A : ~(<<y, x>> \in OpToRel(<, Nat))
    BY <1>2, NatLessThanWellFounded, WFMin
  <2> QED
    BY <2>1 DEF OpToRel
<1> DEFINE B == {t \in U : t < s}
<1>4. IsFiniteSet(B) /\ B \subseteq Nat /\ Rank(s, U) = Cardinality(B) /\ Cardinality(B) \in Nat
  BY FS_Subset, FS_CardinalityType DEF Rank
<1>5. CASE B = {}
  <2>1. Rank(s, U) = 0
    BY <1>4, <1>5, FS_EmptySet
  <2> QED
    BY <1>3, <2>1
<1>6. CASE B # {}
  <2>1. PICK m \in B : \A t \in B : t <= m
    BY <1>4, <1>6, Greatest
  <2>2. {t \in U : t < m} = B \ {m}
    <3>1. {t \in U : t < m} = {t \in B : t < m}
      <4>1. \A t \in U : t < m => t < s
        <5>1. \A t \in U : t \in Nat /\ m \in Nat /\ s \in Nat /\ m < s
          BY <2>1
        <5> QED
          BY <5>1
      <4> QED
        BY <4>1
    <3>2. {t \in B : t < m} = B \ {m}
      BY <1>4, <2>1, LessOrEqual
    <3> QED
      BY <3>1, <3>2
  <2>3. Rank(m, U) = Cardinality(B) - 1
    BY <1>4, <2>1, <2>2, FS_RemoveElement DEF Rank
  <2>4. ~(Rank(m, U) >= k)
    BY <1>3, <2>1
  <2> QED
    BY <1>3, <1>4, <2>3, <2>4
<1> QED BY <1>5, <1>6
-----------------------------------------------------------------------------
(* Who may do what: no rank maps while a commit is under way.                *)

Mapping == {"open", "map", "write"}
NobodyMaps == \A r \in Parts : pc[r] \notin Mapping
Ready == job.world = 1 \/ \A q \in Ranks : entered[q] >= 1

Control ==
  /\ job \in [n : 0 .. MaxJobs, world : Nat \ {0}, view : Seq(Samples), dist : BOOLEAN]
  /\ Ranks \subseteq Parts
  /\ pc \in [Parts -> RankPhases] /\ entered \in [Parts -> 0 .. 2]
  /\ \A r \in Parts : pc[r] # "off" => r \in Ranks
  /\ \A r \in Parts : pc[r] \in {"commit", "committing"} => r = 0 /\ Ready
  /\ \A r \in Parts : entered[r] >= 1 => pc[r] \notin Mapping \cup {"off"}
  /\ commit = [at |-> commit.at, rows |-> commit.rows, left |-> commit.left]
  /\ commit.at \in CommitPhases /\ commit.left \subseteq Parts
  /\ commit.at = "none" => commit = NoCommit
  /\ commit # NoCommit => NobodyMaps
  /\ consumed \subseteq Parts
  /\ consumed # {} => Remap \/ NobodyMaps

LEMMA GotoFacts ==
  ASSUME pc \in [Parts -> RankPhases], NEW r \in Parts, NEW s \in RankPhases, Goto(r, s)
  PROVE  /\ pc' \in [Parts -> RankPhases] /\ pc'[r] = s
         /\ \A q \in Parts : q # r => pc'[q] = pc[q]
BY DEF Goto

\* A rank that goes on by itself, to a phase that is not part of a commit.
LEMMA MovesOn ==
  ASSUME Control, NEW r \in Parts, pc[r] # "off",
         NEW s \in RankPhases \ {"off", "commit", "committing"}, Goto(r, s),
         s \in Mapping => pc[r] \in Mapping /\ entered[r] < 1,
         UNCHANGED <<job, entered, commit, consumed>>
  PROVE  Control'
<1>1. /\ pc' \in [Parts -> RankPhases] /\ pc'[r] = s
      /\ \A q \in Parts : q # r => pc'[q] = pc[q]
  BY GotoFacts DEF Control
<1>2. NobodyMaps => NobodyMaps'
  BY <1>1 DEF NobodyMaps
<1> QED
  BY <1>1, <1>2 DEF Control, Ready, Ranks

LEMMA ZeroIsRank == ASSUME Control PROVE 0 \in Parts /\ 0 \in Ranks
BY DistAssumption DEF Control, Ranks

\* When rank 0 may commit, every rank has left the mapping phases.
LEMMA ReadyMeansNobodyMaps ==
  ASSUME Control, pc[0] \in {"commit", "committing"} PROVE NobodyMaps
<1> SUFFICES ASSUME NEW r \in Parts, pc[r] \in Mapping PROVE FALSE
  BY DEF NobodyMaps
<1>1. r \in Ranks /\ 0 \in Parts
  BY ZeroIsRank DEF Control, Mapping
<1>2. Ready
  BY <1>1 DEF Control
<1>3. CASE job.world = 1
  <2>1. r = 0
    BY <1>1, <1>3 DEF Ranks
  <2> QED
    BY <2>1 DEF Mapping
<1>4. CASE \A q \in Ranks : entered[q] >= 1
  BY <1>1, <1>4 DEF Control
<1> QED BY <1>2, <1>3, <1>4 DEF Ready

LEMMA ControlInit == ASSUME Init PROVE Control
<1>1. 0 \in Parts /\ 0 \in 0 .. MaxJobs /\ <<>> \in Seq(Samples)
  BY DistAssumption
<1>2. /\ job = [n |-> 0, world |-> 1, view |-> <<>>, dist |-> FALSE]
      /\ pc = [r \in Parts |-> "off"] /\ entered = [r \in Parts |-> 0]
      /\ commit = [at |-> "none", rows |-> <<>>, left |-> {}] /\ consumed = {}
  BY DEF Init, NoCommit
<1>3. job \in [n : 0 .. MaxJobs, world : Nat \ {0}, view : Seq(Samples), dist : BOOLEAN]
  BY <1>1, <1>2
<1>4. Ranks = {0}
  BY <1>2 DEF Ranks
<1>5. pc \in [Parts -> RankPhases] /\ entered \in [Parts -> 0 .. 2]
  BY <1>2 DEF RankPhases
<1> QED
  BY <1>1, <1>2, <1>3, <1>4, <1>5 DEF Control, NoCommit, CommitPhases

LEMMA ControlLaunch ==
  ASSUME Control, NEW j \in Jobs, Launch(j) PROVE Control'
<1>1. /\ j.world \in Nat \ {0} /\ 0 .. j.world - 1 \subseteq Parts
      /\ j.view \in Seq(Samples) /\ j.dist \in BOOLEAN /\ Parts \subseteq Nat
  BY DistAssumption, LayerAssumption
<1>2. /\ job' = [n |-> job.n + 1, world |-> j.world, view |-> j.view, dist |-> j.dist]
      /\ pc' = [r \in Parts |-> IF r < j.world THEN "open" ELSE "off"]
      /\ entered' = [r \in Parts |-> 0] /\ commit' = commit /\ consumed' = consumed
      /\ Quiet /\ job.n < MaxJobs /\ (Remap \/ consumed = {})
  BY DEF Launch, history
<1>3. job.n + 1 \in 0 .. MaxJobs
  BY <1>2, DistAssumption DEF Control
<1>4. job' \in [n : 0 .. MaxJobs, world : Nat \ {0}, view : Seq(Samples), dist : BOOLEAN]
  BY <1>1, <1>2, <1>3
<1>5. Ranks' = 0 .. j.world - 1
  BY <1>2 DEF Ranks
<1>6. \A r \in Parts : pc'[r] # "off" => r \in Ranks'
  BY <1>1, <1>2, <1>5
<1>7. pc' \in [Parts -> RankPhases] /\ entered' \in [Parts -> 0 .. 2]
  BY <1>2 DEF RankPhases
<1>8. \A r \in Parts : pc'[r] \notin {"commit", "committing"} /\ ~(entered'[r] >= 1)
  BY <1>2
<1>9. commit = NoCommit
  BY <1>2 DEF Quiet
<1> QED
  BY <1>1, <1>2, <1>4, <1>5, <1>6, <1>7, <1>8, <1>9 DEF Control

LEMMA ControlRank ==
  ASSUME Control, NEW r \in Parts, RankStep(r) \/ Crash(r) PROVE Control'
<1>1. CASE Open(r)
  <2>1. pc[r] = "open" /\ Goto(r, "map") /\ entered[r] < 1
    BY <1>1 DEF Open, Control, Mapping
  <2> QED
    BY <1>1, <2>1, MovesOn DEF Open, history, Mapping, RankPhases
<1>2. CASE OpenFails(r)
  BY <1>2, MovesOn DEF OpenFails, history, Mapping, RankPhases
<1>3. ASSUME NEW k, NEW v, Process(r, k, v) PROVE Control'
  BY <1>3 DEF Process, history, Control, Ranks, Ready, NobodyMaps
<1>4. CASE Close(r)
  <2>1. pc[r] = "map" /\ Goto(r, "write") /\ entered[r] < 1
    BY <1>4 DEF Close, Control, Mapping
  <2> QED
    BY <1>4, <2>1, MovesOn DEF Close, history, Mapping, RankPhases
<1>5. CASE WriteFragment(r)
  <2> DEFINE s == IF job.dist THEN "barrier1" ELSE IF job.world = 1 THEN "commit" ELSE "returned"
             n == IF job.dist THEN 1 ELSE 0
  <2>1. /\ pc[r] = "write" /\ Goto(r, s) /\ entered' = [entered EXCEPT ![r] = n]
        /\ UNCHANGED <<job, commit, consumed>>
    BY <1>5 DEF WriteFragment
  <2>2. s \in RankPhases
    BY DEF RankPhases
  <2>3. /\ pc' \in [Parts -> RankPhases] /\ pc'[r] = s
        /\ \A q \in Parts : q # r => pc'[q] = pc[q]
    BY <2>1, <2>2, GotoFacts DEF Control
  <2>4. /\ entered' \in [Parts -> 0 .. 2] /\ entered'[r] = n
        /\ \A q \in Parts : q # r => entered'[q] = entered[q]
    BY <2>1 DEF Control
  <2>5. commit = NoCommit /\ (consumed # {} => Remap)
    BY <2>1 DEF Control, NobodyMaps, Mapping
  <2>6. r \in Ranks
    BY <2>1 DEF Control
  <2>7. \A q \in Parts : pc'[q] \in {"commit", "committing"} => q = 0 /\ Ready'
    <3> SUFFICES ASSUME NEW q \in Parts, pc'[q] \in {"commit", "committing"}
                 PROVE  q = 0 /\ Ready'
      OBVIOUS
    <3>1. CASE q = r
      <4>1. job.world = 1 /\ job' = job
        BY <2>1, <2>3, <3>1
      <4> QED
        BY <2>6, <3>1, <4>1 DEF Ranks, Ready
    <3>2. CASE q # r
      <4>1. q = 0 /\ Ready /\ pc[0] \in {"commit", "committing"}
        BY <2>3, <3>2 DEF Control
      <4>2. FALSE
        BY <2>1, <4>1, ReadyMeansNobodyMaps DEF NobodyMaps, Mapping
      <4> QED BY <4>2
    <3> QED BY <3>1, <3>2
  <2>8. \A q \in Parts : entered'[q] >= 1 => pc'[q] \notin Mapping \cup {"off"}
    BY <2>3, <2>4 DEF Control, Mapping
  <2>9. Ranks' = Ranks /\ job' = job /\ commit' = commit /\ consumed' = consumed
    BY <2>1 DEF Ranks
  <2>10. \A q \in Parts : pc'[q] # "off" => q \in Ranks
    BY <2>3, <2>6 DEF Control
  <2> HIDE DEF s, n
  <2> QED
    BY <2>3, <2>4, <2>5, <2>7, <2>8, <2>9, <2>10 DEF Control
<1>6. CASE LeaveFirst(r)
  <2> DEFINE s == IF r = 0 THEN "commit" ELSE "barrier2"
             n == IF r = 0 THEN 1 ELSE 2
  <2>1. /\ pc[r] = "barrier1" /\ Goto(r, s) /\ entered' = [entered EXCEPT ![r] = n]
        /\ AllEntered(r, 1) /\ UNCHANGED <<job, commit, consumed>>
    BY <1>6 DEF LeaveFirst, history
  <2>2. s \in RankPhases
    BY DEF RankPhases
  <2>3. /\ pc' \in [Parts -> RankPhases] /\ pc'[r] = s
        /\ \A q \in Parts : q # r => pc'[q] = pc[q]
    BY <2>1, <2>2, GotoFacts DEF Control
  <2>4. /\ entered' \in [Parts -> 0 .. 2] /\ entered'[r] = n /\ n >= 1
        /\ \A q \in Parts : q # r => entered'[q] = entered[q]
    BY <2>1 DEF Control
  <2>5. Ready'
    BY <2>1, <2>4 DEF AllEntered, Ready, Ranks, Control
  <2>6. NobodyMaps => NobodyMaps'
    BY <2>3 DEF NobodyMaps, Mapping
  <2>7. Ranks' = Ranks /\ job' = job /\ commit' = commit /\ consumed' = consumed
    BY <2>1 DEF Ranks
  <2>8. /\ \A q \in Parts : pc'[q] # "off" => q \in Ranks
        /\ \A q \in Parts : pc'[q] \in {"commit", "committing"} => q = 0
        /\ \A q \in Parts : entered'[q] >= 1 => pc'[q] \notin Mapping \cup {"off"}
    BY <2>1, <2>3, <2>4 DEF Control, Mapping
  <2> HIDE DEF s, n
  <2> QED
    BY <2>3, <2>4, <2>5, <2>6, <2>7, <2>8 DEF Control
<1>7. CASE LeaveSecond(r)
  BY <1>7, MovesOn DEF LeaveSecond, history, Mapping, RankPhases
<1>8. CASE BarrierRaises(r)
  BY <1>8, MovesOn DEF BarrierRaises, history, Mapping, RankPhases
<1>9. CASE Crash(r)
  BY <1>9, MovesOn, DistAssumption DEF Crash, Mapping, RankPhases
<1> QED
  BY <1>1, <1>2, <1>3, <1>4, <1>5, <1>6, <1>7, <1>8, <1>9 DEF RankStep

LEMMA QuietMeansNobodyMaps == ASSUME Quiet PROVE NobodyMaps /\ commit = NoCommit
BY DEF Quiet, Over, NobodyMaps, Mapping

LEMMA RaisesKeeps ==
  ASSUME Control, pc[0] \in {"commit", "committing"}, RankZeroRaises,
         UNCHANGED <<job, consumed>>, commit' = commit \/ commit' = NoCommit
  PROVE  Control'
<1>1. 0 \in Parts /\ 0 \in Ranks /\ Ready /\ NobodyMaps
  BY ZeroIsRank, ReadyMeansNobodyMaps DEF Control
<1>2. /\ commit' = [at |-> commit'.at, rows |-> commit'.rows, left |-> commit'.left]
      /\ commit'.at \in CommitPhases /\ commit'.left \subseteq Parts
      /\ commit'.at = "none" => commit' = NoCommit
  BY DEF Control, NoCommit, CommitPhases
<1>3. CASE entered[0] = 1 /\ job.world = 1
  <2>1. Goto(0, "commit") /\ entered' = [entered EXCEPT ![0] = 0]
    BY <1>3 DEF RankZeroRaises
  <2>2. /\ pc' \in [Parts -> RankPhases] /\ pc'[0] = "commit"
        /\ \A q \in Parts : q # 0 => pc'[q] = pc[q]
    BY <1>1, <2>1, GotoFacts DEF Control, RankPhases
  <2>3. /\ entered' \in [Parts -> 0 .. 2] /\ entered'[0] = 0
        /\ \A q \in Parts : q # 0 => entered'[q] = entered[q]
    BY <1>1, <2>1 DEF Control
  <2>4. NobodyMaps'
    BY <1>1, <2>2 DEF NobodyMaps, Mapping
  <2>5. Ready' /\ Ranks' = Ranks
    BY <1>3 DEF Ready, Ranks
  <2>6. /\ \A q \in Parts : pc'[q] # "off" => q \in Ranks'
        /\ \A q \in Parts : pc'[q] \in {"commit", "committing"} => q = 0
        /\ \A q \in Parts : entered'[q] >= 1 => pc'[q] \notin Mapping \cup {"off"}
    BY <1>1, <2>2, <2>3, <2>5 DEF Control, Mapping
  <2> QED
    BY <1>2, <2>2, <2>3, <2>4, <2>5, <2>6 DEF Control
<1>4. CASE ~(entered[0] = 1 /\ job.world = 1)
  <2> DEFINE s == IF entered[0] = 1 THEN "returned" ELSE "dead"
  <2>1. Goto(0, s) /\ entered' = entered
    BY <1>4 DEF RankZeroRaises
  <2>2. s \in {"returned", "dead"}
    OBVIOUS
  <2> HIDE DEF s
  <2>3. /\ pc' \in [Parts -> RankPhases] /\ pc'[0] = s
        /\ \A q \in Parts : q # 0 => pc'[q] = pc[q]
    BY <1>1, <2>1, <2>2, GotoFacts DEF Control, RankPhases
  <2>4. NobodyMaps'
    BY <1>1, <2>2, <2>3 DEF NobodyMaps, Mapping
  <2>5. Ready' /\ Ranks' = Ranks
    BY <1>1, <2>1 DEF Ready, Ranks
  <2>6. \A q \in Parts : entered'[q] >= 1 => pc'[q] \notin Mapping \cup {"off"}
    BY <2>1, <2>2, <2>3 DEF Control, Mapping
  <2>7. \A q \in Parts : pc'[q] \in {"commit", "committing"} => q = 0
    BY <2>2, <2>3 DEF Control
  <2>8. \A q \in Parts : pc'[q] # "off" => q \in Ranks'
    BY <1>1, <2>2, <2>3, <2>5 DEF Control
  <2> QED
    BY <1>2, <2>1, <2>3, <2>4, <2>5, <2>6, <2>7, <2>8 DEF Control
<1> QED BY <1>3, <1>4

LEMMA BeginKeeps ==
  ASSUME Control, BeginCommit
  PROVE  /\ commit' = [at |-> commit'.at, rows |-> commit'.rows, left |-> commit'.left]
         /\ commit'.at = "create" /\ commit'.left \subseteq Parts
BY DEF BeginCommit, Fragments

LEMMA AtFacts ==
  ASSUME Control, NEW here, here # "none", NEW there \in CommitPhases \ {"none"},
         CommitAt(here, there)
  PROVE  Control' /\ commit'.rows = commit.rows /\ commit'.left = commit.left /\ commit'.at = there
<1>1. commit' = [commit EXCEPT !.at = there] /\ commit.at = here
      /\ UNCHANGED <<job, pc, entered, consumed>>
  BY DEF CommitAt, ranks, history
<1>2. commit # NoCommit
  BY <1>1 DEF NoCommit
<1>3. commit' = [at |-> there, rows |-> commit.rows, left |-> commit.left]
  BY <1>1 DEF Control
<1>4. NobodyMaps /\ NobodyMaps'
  BY <1>1, <1>2 DEF Control, NobodyMaps
<1>5. commit'.at = there /\ commit'.rows = commit.rows /\ commit'.left = commit.left
  BY <1>3
<1>6. UNCHANGED <<Ranks, Ready>>
  BY <1>1 DEF Ranks, Ready
<1> QED
  BY <1>1, <1>3, <1>4, <1>5, <1>6 DEF Control

LEMMA ControlCommit ==
  ASSUME Control, CommitStep \/ UserCommits \/ CommitStops PROVE Control'
<1>1. CASE RankCommits
  <2>1. NobodyMaps /\ 0 \in Parts /\ 0 \in Ranks /\ Ready
    BY <1>1, ZeroIsRank, ReadyMeansNobodyMaps DEF RankCommits, Control
  <2>2. pc[0] = "commit" /\ Goto(0, "committing") /\ BeginCommit /\ UNCHANGED <<job, entered, consumed>>
    BY <1>1 DEF RankCommits, history
  <2>3. /\ pc' \in [Parts -> RankPhases] /\ pc'[0] = "committing"
        /\ \A q \in Parts : q # 0 => pc'[q] = pc[q]
    BY <2>1, <2>2, GotoFacts DEF Control, RankPhases
  <2>4. NobodyMaps'
    BY <2>1, <2>3 DEF NobodyMaps, Mapping
  <2>5. UNCHANGED <<Ranks, Ready>>
    BY <2>2 DEF Ranks, Ready
  <2>6. \A q \in Parts : entered'[q] >= 1 => pc'[q] \notin Mapping \cup {"off"}
    BY <2>2, <2>3 DEF Control, Mapping
  <2> QED
    BY <2>1, <2>2, <2>3, <2>4, <2>5, <2>6, BeginKeeps DEF Control, CommitPhases
<1>2. CASE RankCommitFails
  BY <1>2, RaisesKeeps DEF RankCommitFails, history
<1>3. CASE UserCommits
  <2>1. NobodyMaps /\ BeginCommit /\ UNCHANGED <<job, pc, entered, consumed>>
    BY <1>3, QuietMeansNobodyMaps DEF UserCommits, ranks
  <2>2. UNCHANGED <<Ranks, Ready, NobodyMaps>>
    BY <2>1 DEF Ranks, Ready, NobodyMaps
  <2> QED
    BY <2>1, <2>2, BeginKeeps DEF Control, CommitPhases
<1>4. CASE CreateMerged
  BY <1>4, AtFacts DEF CreateMerged, CommitPhases
<1>5. CASE WriteMerged
  BY <1>5, AtFacts DEF WriteMerged, CommitPhases
<1>6. CASE RegisterMerged
  BY <1>6, AtFacts DEF RegisterMerged, CommitPhases
<1>7. ASSUME NEW p \in Parts, Consume(p) PROVE Control'
  <2>1. /\ commit.at = "consume" /\ commit' = [commit EXCEPT !.left = commit.left \ {p}]
        /\ consumed' = consumed \cup {p} /\ UNCHANGED <<job, pc, entered>>
    BY <1>7 DEF Consume, ranks
  <2>2. commit' = [at |-> "consume", rows |-> commit.rows, left |-> commit.left \ {p}]
    BY <2>1 DEF Control
  <2>3. commit # NoCommit
    BY <2>1 DEF NoCommit
  <2>4. UNCHANGED <<Ranks, Ready, NobodyMaps>>
    BY <2>1 DEF Ranks, Ready, NobodyMaps
  <2> QED
    BY <2>1, <2>2, <2>3, <2>4 DEF Control, CommitPhases
<1>8. CASE EndCommit
  <2>1. commit # NoCommit /\ commit' = NoCommit /\ UNCHANGED <<job, consumed>> /\ NobodyMaps
    BY <1>8 DEF EndCommit, NoCommit, history, Control
  <2>2. /\ commit' = [at |-> commit'.at, rows |-> commit'.rows, left |-> commit'.left]
        /\ commit'.at \in CommitPhases /\ commit'.left \subseteq Parts
    BY <2>1 DEF NoCommit, CommitPhases
  <2>3. CASE pc[0] # "committing"
    <3>1. UNCHANGED <<pc, entered>>
      BY <1>8, <2>3 DEF EndCommit
    <3>2. UNCHANGED <<Ranks, Ready, NobodyMaps>>
      BY <2>1, <3>1 DEF Ranks, Ready, NobodyMaps
    <3> QED
      BY <2>1, <2>2, <3>1, <3>2 DEF Control
  <2>4. CASE pc[0] = "committing"
    <3> DEFINE s == IF entered[0] = 1 THEN "barrier2" ELSE "returned"
    <3>1. Goto(0, s) /\ entered' = [entered EXCEPT ![0] = 2]
      BY <1>8, <2>4 DEF EndCommit
    <3>2. s \in {"barrier2", "returned"}
      OBVIOUS
    <3> HIDE DEF s
    <3>3. 0 \in Parts /\ 0 \in Ranks /\ Ready
      BY <2>4, ZeroIsRank DEF Control
    <3>4. /\ pc' \in [Parts -> RankPhases] /\ pc'[0] = s
          /\ \A q \in Parts : q # 0 => pc'[q] = pc[q]
      BY <3>1, <3>2, <3>3, GotoFacts DEF Control, RankPhases
    <3>5. /\ entered' \in [Parts -> 0 .. 2] /\ entered'[0] = 2
          /\ \A q \in Parts : q # 0 => entered'[q] = entered[q]
      BY <3>1, <3>3 DEF Control
    <3>6. NobodyMaps'
      BY <2>1, <3>2, <3>4 DEF NobodyMaps, Mapping
    <3>7. Ready' /\ Ranks' = Ranks
      BY <2>1, <3>3, <3>5 DEF Ready, Ranks, Control
    <3>8. /\ \A q \in Parts : pc'[q] # "off" => q \in Ranks'
          /\ \A q \in Parts : pc'[q] \in {"commit", "committing"} => q = 0
          /\ \A q \in Parts : entered'[q] >= 1 => pc'[q] \notin Mapping \cup {"off"}
      BY <3>2, <3>3, <3>4, <3>5, <3>7 DEF Control, Mapping
    <3> QED
      BY <2>1, <2>2, <3>4, <3>5, <3>6, <3>7, <3>8 DEF Control
  <2> QED BY <2>3, <2>4
<1>9. CASE CommitStops
  <2>1. commit' = NoCommit /\ UNCHANGED <<job, consumed>> /\ commit # NoCommit /\ NobodyMaps
    BY <1>9, DistAssumption DEF CommitStops, NoCommit, Control
  <2>2. CASE pc[0] # "committing"
    <3>1. UNCHANGED <<pc, entered>>
      BY <1>9, <2>2 DEF CommitStops
    <3>2. UNCHANGED <<Ranks, Ready, NobodyMaps>>
      BY <2>1, <3>1 DEF Ranks, Ready, NobodyMaps
    <3>3. /\ commit' = [at |-> commit'.at, rows |-> commit'.rows, left |-> commit'.left]
          /\ commit'.at \in CommitPhases /\ commit'.left \subseteq Parts
      BY <2>1 DEF NoCommit, CommitPhases
    <3> QED
      BY <2>1, <3>1, <3>2, <3>3 DEF Control
  <2>3. CASE pc[0] = "committing" /\ RankZeroRaises
    BY <2>1, <2>3, RaisesKeeps
  <2>4. CASE pc[0] = "committing" /\ Goto(0, "dead") /\ UNCHANGED entered
    <3>1. 0 \in Parts /\ 0 \in Ranks /\ Ready
      BY <2>4, ZeroIsRank DEF Control
    <3>2. /\ pc' \in [Parts -> RankPhases] /\ pc'[0] = "dead"
          /\ \A q \in Parts : q # 0 => pc'[q] = pc[q]
      BY <2>4, <3>1, GotoFacts DEF Control, RankPhases
    <3>3. NobodyMaps'
      BY <2>1, <3>2 DEF NobodyMaps, Mapping
    <3>4. Ready' /\ Ranks' = Ranks
      BY <2>1, <2>4, <3>1 DEF Ready, Ranks
    <3>5. /\ \A q \in Parts : pc'[q] # "off" => q \in Ranks'
          /\ \A q \in Parts : pc'[q] \in {"commit", "committing"} => q = 0
          /\ \A q \in Parts : entered'[q] >= 1 => pc'[q] \notin Mapping \cup {"off"}
      BY <2>4, <3>1, <3>2, <3>4 DEF Control, Mapping
    <3>6. /\ commit' = [at |-> commit'.at, rows |-> commit'.rows, left |-> commit'.left]
          /\ commit'.at \in CommitPhases /\ commit'.left \subseteq Parts
      BY <2>1 DEF NoCommit, CommitPhases
    <3> QED
      BY <2>1, <2>4, <3>2, <3>3, <3>4, <3>5, <3>6 DEF Control
  <2> QED
    BY <1>9, <2>2, <2>3, <2>4 DEF CommitStops
<1> QED
  BY <1>1, <1>2, <1>3, <1>4, <1>5, <1>6, <1>7, <1>8, <1>9 DEF CommitStep

LEMMA ControlStep == ASSUME Control, [Next]_vars PROVE Control'
<1>1. CASE Rest \/ UNCHANGED vars
  <2>1. UNCHANGED <<job, pc, entered, commit, consumed>>
    BY <1>1 DEF Rest, vars, ranks, history
  <2>2. UNCHANGED <<Ranks, Ready, NobodyMaps>>
    BY <2>1 DEF Ranks, Ready, NobodyMaps
  <2> QED
    BY <2>1, <2>2 DEF Control
<1> QED
  BY <1>1, ControlLaunch, ControlRank, ControlCommit DEF Next
-----------------------------------------------------------------------------
(* What is in the files, and what a commit makes of it.                      *)

Typed(rows) == IsList(rows) /\ \A k \in 1 .. Len(rows) : RowType(rows[k])

Stored ==
  /\ DOMAIN w = Parts /\ DOMAIN frags = Parts /\ DOMAIN todo = Parts /\ DOMAIN kept = Parts
  /\ \A r \in Parts : WriterOK(w[r], r, MaxShards) /\ Typed(w[r].rows)
  /\ \A r \in Parts : pc[r] = "map" => todo[r] \subseteq Mine(r)
  /\ ShardsOK(shards, NamesOf(Parts, MaxShards))
  /\ \A p \in Parts : Typed(RowsIn(frags[p]))
  /\ \A p \in Parts : \A row \in RowSet(RowsIn(frags[p])) : row.shard[1] = p
  /\ Typed(RowsIn(merged)) /\ Typed(commit.rows)
  /\ registered \in Nat \cup {Unregistered}

\* A row a commit can read.
Readable(row) ==
  row \in RowSet(RowsIn(merged)) \/ \E p \in Parts : row \in RowSet(RowsIn(frags[p]))

LEMMA IdsFacts ==
  ASSUME NEW rows, Typed(rows)
  PROVE  IsFiniteSet(Ids(rows)) /\ Ids(rows) \subseteq Nat
<1>1. Len(rows) \in Nat
  BY LenProperties DEF Typed, IsList
<1> DEFINE f == [k \in 1 .. Len(rows) |-> rows[k].id]
<1>2. f \in Surjection(1 .. Len(rows), Ids(rows))
  BY DEF Surjection, Ids
<1>3. IsFiniteSet(1 .. Len(rows))
  BY <1>1, FS_Interval
<1>4. IsFiniteSet(Ids(rows))
  BY <1>2, <1>3, FS_Surjection
<1>5. Ids(rows) \subseteq Nat
  BY LayerAssumption DEF Ids, Typed, RowType
<1> QED
  BY <1>4, <1>5

LEMMA MergedIdsFacts ==
  ASSUME Stored PROVE IsFiniteSet(MergedIds) /\ MergedIds \subseteq Nat
<1>1. IsFiniteSet(Ids(RowsIn(merged))) /\ Ids(RowsIn(merged)) \subseteq Nat
  BY IdsFacts DEF Stored
<1>2. \A p \in Parts : IsFiniteSet(Ids(RowsIn(frags[p]))) /\ Ids(RowsIn(frags[p])) \subseteq Nat
  BY IdsFacts DEF Stored
<1>3. IsFiniteSet(Parts)
  <2>1. Parts \in SUBSET Nat /\ \A p \in Parts : p <= 10
    BY LayerAssumption, DistAssumption
  <2> QED
    BY <2>1, FS_BoundedSetOfNaturals
<1> DEFINE all == {Ids(RowsIn(frags[p])) : p \in Parts}
           f == [p \in Parts |-> Ids(RowsIn(frags[p]))]
<1>4. IsFiniteSet(all)
  <2>1. f \in Surjection(Parts, all)
    BY DEF Surjection
  <2> QED
    BY <1>3, <2>1, FS_Surjection
<1>5. IsFiniteSet(UNION all)
  <2>1. \A T \in all : IsFiniteSet(T)
    BY <1>2
  <2> HIDE DEF all
  <2> QED
    BY <1>4, <2>1, FS_UNION
<1>6. FragmentIds = UNION all /\ FragmentIds \subseteq Nat
  BY <1>2 DEF FragmentIds
<1> QED
  BY <1>1, <1>5, <1>6, FS_Union DEF MergedIds

LEMMA MergedRowFacts ==
  ASSUME Stored, NEW s \in MergedIds
  PROVE  Readable(MergedRow(s)) /\ MergedRow(s).id = s
<1> DEFINE with == {p \in Parts : s \in Ids(RowsIn(frags[p]))}
           of == CHOOSE p \in with : \A q \in with : q <= p
<1>1. ASSUME NEW rows, Typed(rows), s \in Ids(rows)
      PROVE  Visible(rows, s) \in RowSet(rows) /\ Visible(rows, s).id = s
  BY <1>1, VisibleFacts DEF Typed, RowSet
<1>2. CASE with = {}
  <2>1. MergedRow(s) = Visible(merged, s)
    BY <1>2 DEF MergedRow
  <2>2. s \in Ids(RowsIn(merged))
    BY <1>2 DEF MergedIds, FragmentIds
  <2>3. RowsIn(merged) = merged
    <3>1. Ids(<<>>) = {}
      BY DEF Ids
    <3> QED
      BY <2>2, <3>1 DEF RowsIn
  <2> QED
    BY <1>1, <2>1, <2>2, <2>3 DEF Stored, Readable
<1>3. CASE with # {}
  <2>1. MergedRow(s) = Visible(frags[of], s)
    BY <1>3 DEF MergedRow
  <2>2. with \subseteq 0 .. 10 - 1
    <3>1. \A p \in Parts : p \in Nat /\ p < 10
      BY LayerAssumption, DistAssumption
    <3> QED
      BY <3>1
  <2>3. \E p \in with : \A q \in with : q <= p
    <3> HIDE DEF with
    <3> QED
      BY <1>3, <2>2, HighestExists
  <2>4. of \in with
    BY <2>3
  <2> HIDE DEF of
  <2>5. of \in Parts /\ s \in Ids(RowsIn(frags[of]))
    BY <2>4
  <2>6. RowsIn(frags[of]) = frags[of]
    <3>1. Ids(<<>>) = {}
      BY DEF Ids
    <3> QED
      BY <2>5, <3>1 DEF RowsIn
  <2> QED
    BY <1>1, <2>1, <2>5, <2>6 DEF Stored, Readable
<1> QED BY <1>2, <1>3

\* The merged rows: one per sample that has any, ascending, each one a row that was there.
LEMMA MergedFacts ==
  ASSUME Stored
  PROVE  /\ IsList(MergedRows) /\ Ids(MergedRows) = MergedIds
         /\ \A k \in 1 .. Len(MergedRows) : Readable(MergedRows[k])
         /\ \A k \in 1 .. Len(MergedRows) - 1 : MergedRows[k].id < MergedRows[k + 1].id
<1> DEFINE C == Cardinality(MergedIds)
           pick(k) == CHOOSE s \in MergedIds : Cardinality({t \in MergedIds : t < s}) = k - 1
<1>1. IsFiniteSet(MergedIds) /\ MergedIds \subseteq Nat /\ C \in Nat
  BY MergedIdsFacts, FS_CardinalityType
<1>2. ASSUME NEW k \in 1 .. C
      PROVE  pick(k) \in MergedIds /\ Rank(pick(k), MergedIds) = k - 1
  <2>1. k - 1 \in 0 .. C - 1
    BY <1>1
  <2>2. \E s \in MergedIds : Rank(s, MergedIds) = k - 1
    BY <1>1, <2>1, RankReached
  <2> QED
    BY <2>2 DEF Rank
<1>3. MergedRows = [k \in 1 .. C |-> MergedRow(pick(k))]
  BY DEF MergedRows
<1> HIDE DEF C, pick
<1> DEFINE S == {MergedRow(s) : s \in MergedIds}
<1>4. MergedRows \in [1 .. C -> S]
  BY <1>2, <1>3
<1>5. MergedRows \in Seq(S) /\ Len(MergedRows) = C
  <2>1. MergedRows \in Seq(S)
    BY <1>1, <1>4, SeqDef
  <2>2. Len(MergedRows) \in Nat /\ 1 .. Len(MergedRows) = 1 .. C
    BY <1>4, <2>1, LenProperties
  <2> QED
    BY <1>1, <2>1, <2>2
<1>6. \A k \in 1 .. C : /\ MergedRows[k].id = pick(k)
                        /\ Readable(MergedRows[k])
  BY <1>2, <1>3, MergedRowFacts
<1>7. Ids(MergedRows) = MergedIds
  <2>1. ASSUME NEW s \in MergedIds PROVE \E k \in 1 .. C : pick(k) = s
    <3>1. PICK n \in 0 .. C - 1 : n = Rank(s, MergedIds)
      BY <1>1, RankRange DEF C
    <3>2. n + 1 \in 1 .. C /\ n + 1 - 1 = n
      BY <1>1, <3>1
    <3>3. pick(n + 1) \in MergedIds /\ Rank(pick(n + 1), MergedIds) = Rank(s, MergedIds)
      BY <1>2, <3>1, <3>2
    <3>4. pick(n + 1) <= s /\ s <= pick(n + 1)
      <4>1. Rank(s, MergedIds) <= Rank(s, MergedIds)
        BY <3>1
      <4> QED
        BY <1>1, <3>3, <4>1, RankOrder
    <3>5. pick(n + 1) = s
      <4>1. pick(n + 1) \in Nat /\ s \in Nat
        BY <1>1, <3>3
      <4> QED
        BY <3>4, <4>1
    <3> QED
      BY <3>2, <3>5
  <2>2. Ids(MergedRows) = {pick(k) : k \in 1 .. C}
    BY <1>5, <1>6 DEF Ids
  <2> QED
    BY <1>2, <2>1, <2>2
<1>8. ASSUME NEW k \in 1 .. C - 1 PROVE MergedRows[k].id < MergedRows[k + 1].id
  <2>1. k \in 1 .. C /\ k + 1 \in 1 .. C
    BY <1>1
  <2>2. /\ pick(k) \in MergedIds /\ Rank(pick(k), MergedIds) = k - 1
        /\ pick(k + 1) \in MergedIds /\ Rank(pick(k + 1), MergedIds) = k
    BY <1>1, <1>2, <2>1
  <2>3. pick(k) \in Nat /\ pick(k + 1) \in Nat
    BY <1>1, <2>2
  <2>4. pick(k) # pick(k + 1)
    BY <1>1, <2>2
  <2>5. pick(k) <= pick(k + 1)
    <3>1. Rank(pick(k), MergedIds) <= Rank(pick(k + 1), MergedIds)
      BY <2>1, <2>2
    <3> QED
      BY <1>1, <2>2, <3>1, RankOrder
  <2> QED
    BY <1>6, <2>1, <2>3, <2>4, <2>5
<1> QED
  BY <1>5, <1>6, <1>7, <1>8 DEF IsList
-----------------------------------------------------------------------------
LEMMA EmptyTyped == Typed(<<>>) /\ RowSet(<<>>) = {} /\ Ids(<<>>) = {}
<1>1. <<>> \in Seq({}) /\ Len(<<>>) = 0
  OBVIOUS
<1> QED
  BY <1>1 DEF Typed, IsList, RowSet, Ids

\* What is written to a file is what is read from it, or nothing.
LEMMA RowsInEither == \A f : RowsIn(f) = f \/ RowsIn(f) = <<>>
BY DEF RowsIn

LEMMA PartRows ==
  ASSUME Stored, NEW p \in Parts
  PROVE  RowList(RowsIn(frags[p]), NamesOf({p}, MaxShards))
<1>1. \A k \in 1 .. Len(RowsIn(frags[p])) :
        /\ RowsIn(frags[p])[k].shard \in Parts \X (0 .. MaxShards - 1)
        /\ RowsIn(frags[p])[k].shard[1] = p
  BY DEF Stored, Typed, RowType, Names, RowSet
<1> QED
  BY <1>1 DEF RowList, NamesOf, Stored, Typed

LEMMA WriterRows ==
  ASSUME Stored, NEW r \in Parts
  PROVE  \A row \in RowSet(w[r].rows) : row.shard[1] = r /\ row.shard \in Names
<1>1. RowList(w[r].rows, NamesOf({r}, MaxShards))
  BY DEF Stored, WriterOK
<1> QED
  BY <1>1 DEF RowList, NamesOf, RowSet, Names

\* What add does, of writers x and y and shards d and c, under any names.
AddedOK(P, M, p, x, d, s, v, y, c) ==
  /\ WriterOK(y, p, M) /\ ShardsOK(c, NamesOf(P, M))
  /\ \E r : /\ y.rows = Append(x.rows, r)
           /\ r.shard \in NamesOf({p}, M) /\ Good(r, c, y)
           /\ r.id = s /\ r.val = v /\ r.at \in Nat
  /\ \A q : q.shard \in NamesOf(P, M) /\ Good(q, d, x) => Good(q, c, y)

LEMMA AddedAs ==
  ASSUME NEW M \in Nat, NEW P, NEW p \in P, NEW x, WriterOK(x, p, M),
         NEW d, ShardsOK(d, NamesOf(P, M)), x.sid + 1 < M, NEW s, NEW v
  PROVE  AddedOK(P, M, p, x, d, s, v, Added(x, d, s, v), AddedShards(x, d, s, v))
BY AddedFacts DEF AddedOK

\* The row add appends for rank r.
LEMMA DistProcess ==
  ASSUME Control, Stored, NEW r \in Parts, NEW k \in todo[r], NEW v \in {job.n, NoBlob},
         Process(r, k, v)
  PROVE  /\ DOMAIN w' = Parts /\ \A q \in Parts : q # r => w'[q] = w[q]
         /\ WriterOK(w'[r], r, MaxShards) /\ ShardsOK(shards', NamesOf(Parts, MaxShards))
         /\ \E row : /\ w'[r].rows = Append(w[r].rows, row) /\ RowType(row)
                     /\ row.id = job.view[k] /\ row.val = v /\ row.shard[1] = r
                     /\ Good(row, shards', w'[r])
         /\ \A q : q.shard \in Names /\ Good(q, shards, w[r]) => Good(q, shards', w'[r])
<1>1. /\ w' = [w EXCEPT ![r] = Added(w[r], shards, job.view[k], v)]
      /\ shards' = AddedShards(w[r], shards, job.view[k], v)
      /\ w[r].sid + 1 < MaxShards /\ pc[r] = "map" /\ MaxShards \in Nat
  BY DistAssumption DEF Process
<1>2. /\ DOMAIN w' = Parts /\ \A q \in Parts : q # r => w'[q] = w[q]
      /\ w'[r] = Added(w[r], shards, job.view[k], v)
  BY <1>1 DEF Stored
<1>3. WriterOK(w[r], r, MaxShards) /\ ShardsOK(shards, NamesOf(Parts, MaxShards))
  BY DEF Stored
<1>4. /\ WriterOK(w'[r], r, MaxShards) /\ ShardsOK(shards', NamesOf(Parts, MaxShards))
      /\ \E row : /\ w'[r].rows = Append(w[r].rows, row)
                  /\ row.shard \in NamesOf({r}, MaxShards) /\ Good(row, shards', w'[r])
                  /\ row.id = job.view[k] /\ row.val = v /\ row.at \in Nat
      /\ \A q : q.shard \in NamesOf(Parts, MaxShards) /\ Good(q, shards, w[r])
               => Good(q, shards', w'[r])
  <2>1. AddedOK(Parts, MaxShards, r, w[r], shards, job.view[k], v,
                Added(w[r], shards, job.view[k], v), AddedShards(w[r], shards, job.view[k], v))
    BY <1>1, <1>3, AddedAs
  <2>2. AddedOK(Parts, MaxShards, r, w[r], shards, job.view[k], v, w'[r], shards')
    BY <1>1, <1>2, <2>1
  <2> QED
    BY <2>2 DEF AddedOK
<1>5. PICK row : /\ w'[r].rows = Append(w[r].rows, row)
                 /\ row.shard \in NamesOf({r}, MaxShards) /\ Good(row, shards', w'[r])
                 /\ row.id = job.view[k] /\ row.val = v /\ row.at \in Nat
  BY <1>4
<1>6. job.view[k] \in Samples
  <2>1. job.view \in Seq(Samples) /\ k \in 1 .. Len(job.view)
    BY <1>1 DEF Control, Stored, Mine
  <2> QED
    BY <2>1, ElementOfSeq
<1>7. v \in 0 .. MaxJobs
  BY DistAssumption DEF Control, NoBlob
<1>8. row.shard[1] = r /\ row.shard \in Names
  BY <1>5 DEF NamesOf, Names
<1>9. RowType(row)
  BY <1>5, <1>6, <1>7, <1>8 DEF RowType
<1> QED
  BY <1>2, <1>4, <1>5, <1>8, <1>9 DEF Names, NamesOf

LEMMA TypedAppended ==
  ASSUME NEW rows, Typed(rows), NEW row, RowType(row)
  PROVE  Typed(Append(rows, row)) /\ RowSet(Append(rows, row)) = RowSet(rows) \cup {row}
<1> DEFINE more == Append(rows, row)
<1>1. /\ IsList(more) /\ Len(rows) \in Nat /\ Len(more) = Len(rows) + 1
      /\ more[Len(rows) + 1] = row /\ \A i \in 1 .. Len(rows) : more[i] = rows[i]
  BY AppendList DEF Typed
<1> HIDE DEF more
<1>2. 1 .. Len(more) = (1 .. Len(rows)) \cup {Len(rows) + 1}
  BY <1>1
<1>3. \A i \in 1 .. Len(more) : RowType(more[i])
  BY <1>1, <1>2 DEF Typed
<1>4. RowSet(more) = {more[i] : i \in 1 .. Len(rows)} \cup {more[Len(rows) + 1]}
  BY <1>2 DEF RowSet
<1>5. {more[i] : i \in 1 .. Len(rows)} = {rows[i] : i \in 1 .. Len(rows)}
  BY <1>1
<1> QED
  BY <1>1, <1>3, <1>4, <1>5 DEF Typed, RowSet, more

LEMMA StoredInit == ASSUME Init PROVE Stored
<1>1. MaxShards \in Nat /\ RowsIn(Absent) = <<>>
  BY DistAssumption DEF RowsIn, Complete
<1>2. w = [r \in Parts |-> Opened(r, Absent)] /\ frags = [p \in Parts |-> Absent] /\ merged = Absent
  BY DEF Init
<1>3. ASSUME NEW r \in Parts PROVE WriterOK(w[r], r, MaxShards) /\ w[r].rows = <<>>
  <2>1. RowList(RowsIn(Absent), NamesOf({r}, MaxShards))
    BY <1>1, EmptyTyped DEF RowList, Typed
  <2> QED
    BY <1>1, <1>2, <2>1, OpenedFacts
<1>4. ShardsOK(shards, NamesOf(Parts, MaxShards))
  <2>1. shards \in [NamesOf(Parts, MaxShards) -> Seq({})]
    BY DEF Init, Names, NamesOf
  <2> QED
    BY <2>1 DEF ShardsOK
<1>5. \A r \in Parts : pc[r] # "map"
  BY DEF Init
<1>6. DOMAIN w = Parts /\ DOMAIN frags = Parts /\ DOMAIN todo = Parts /\ DOMAIN kept = Parts
  BY DEF Init
<1> QED
  BY <1>1, <1>2, <1>3, <1>4, <1>5, <1>6, EmptyTyped DEF Stored, Init, NoCommit

\* Steps that write no row: the phase of a rank, or the commit's.
LEMMA StoredSame ==
  ASSUME Stored, UNCHANGED <<w, todo, shards, registered>>, DOMAIN kept' = Parts,
         DOMAIN frags' = Parts, \A p \in Parts : frags'[p] = frags[p] \/ RowsIn(frags'[p]) = <<>>,
         merged' = merged \/ RowsIn(merged') = <<>>,
         commit'.rows = commit.rows \/ commit'.rows = <<>>,
         \A r \in Parts : pc'[r] = "map" => pc[r] = "map" /\ job' = job
  PROVE  Stored'
<1>1. \A r \in Parts : pc'[r] = "map" => todo'[r] \subseteq Mine(r)'
  BY DEF Stored, Mine
<1>2. \A p \in Parts : RowsIn(frags'[p]) = RowsIn(frags[p]) \/ RowsIn(frags'[p]) = <<>>
  OBVIOUS
<1>3. RowsIn(merged') = RowsIn(merged) \/ RowsIn(merged') = <<>>
  OBVIOUS
<1>4. \A p \in Parts : /\ Typed(RowsIn(frags'[p]))
                       /\ \A row \in RowSet(RowsIn(frags'[p])) : row.shard[1] = p
  BY <1>2, EmptyTyped DEF Stored
<1>5. Typed(RowsIn(merged')) /\ Typed(commit'.rows)
  BY <1>3, EmptyTyped DEF Stored
<1> QED
  BY <1>1, <1>4, <1>5 DEF Stored

LEMMA TornReadsEmpty == RowsIn(Torn) = <<>> /\ RowsIn(Absent) = <<>>
BY DEF RowsIn, Complete

LEMMA MergedTyped == ASSUME Stored PROVE Typed(MergedRows)
<1>1. ASSUME NEW row, Readable(row) PROVE RowType(row)
  BY <1>1 DEF Readable, Stored, Typed, RowSet
<1> QED
  BY <1>1, MergedFacts DEF Typed

\* A rank's own step.
LEMMA StoredRank ==
  ASSUME Control, Stored, NEW r \in Parts, RankStep(r) \/ Crash(r) PROVE Stored'
<1>1. CASE Open(r)
  <2>1. /\ w' = [w EXCEPT ![r] = Opened(r, frags[r])] /\ UNCHANGED <<job, commit, frags, merged, shards>>
        /\ todo' = [todo EXCEPT ![r] = {k \in Mine(r) : job.view[k] \notin Ids(RowsIn(frags[r]))}]
        /\ Goto(r, "map") /\ UNCHANGED <<registered, kept>>
    BY <1>1 DEF Open, files, history
  <2>2. WriterOK(w'[r], r, MaxShards) /\ w'[r].rows = RowsIn(frags[r])
    <3>1. MaxShards \in Nat /\ RowList(RowsIn(frags[r]), NamesOf({r}, MaxShards))
      BY PartRows, DistAssumption
    <3>2. WriterOK(Opened(r, frags[r]), r, MaxShards)
      BY <3>1, OpenedFacts
    <3>3. Opened(r, frags[r]).rows = RowsIn(frags[r])
      BY DEF Opened
    <3> QED
      BY <2>1, <3>2, <3>3 DEF Stored
  <2>3. \A q \in Parts : q # r => w'[q] = w[q] /\ todo'[q] = todo[q] /\ pc'[q] = pc[q]
    BY <2>1 DEF Stored, Goto, Control
  <2>4. todo'[r] \subseteq Mine(r) /\ \A q \in Parts : Mine(q)' = Mine(q)
    BY <2>1 DEF Stored, Mine
  <2> QED
    BY <2>1, <2>2, <2>3, <2>4 DEF Stored
<1>2. CASE OpenFails(r) \/ LeaveFirst(r) \/ LeaveSecond(r) \/ BarrierRaises(r)
  <2>1. /\ UNCHANGED <<job, w, todo, commit, frags, merged, shards, registered, kept>>
        /\ \A q \in Parts : pc'[q] = "map" => pc[q] = "map"
    BY <1>2 DEF OpenFails, LeaveFirst, LeaveSecond, BarrierRaises, files, history, Goto, Control
  <2> QED
    BY <2>1, StoredSame DEF Stored
<1>3. ASSUME NEW k \in todo[r], NEW v \in {job.n, NoBlob}, Process(r, k, v) PROVE Stored'
  <2>1. /\ DOMAIN w' = Parts /\ \A q \in Parts : q # r => w'[q] = w[q]
        /\ WriterOK(w'[r], r, MaxShards) /\ ShardsOK(shards', NamesOf(Parts, MaxShards))
    BY <1>3, DistProcess
  <2>2. PICK row : w'[r].rows = Append(w[r].rows, row) /\ RowType(row)
    BY <1>3, DistProcess
  <2>3. Typed(w'[r].rows)
    BY <2>2, TypedAppended DEF Stored
  <2>4. /\ todo' = [todo EXCEPT ![r] = @ \ {k}]
        /\ UNCHANGED <<job, pc, commit, frags, merged, registered, kept>>
    BY <1>3 DEF Process, history
  <2>5. DOMAIN todo' = Parts /\ \A q \in Parts : todo'[q] \subseteq todo[q] /\ Mine(q)' = Mine(q)
    BY <2>4 DEF Stored, Mine
  <2> QED
    BY <2>1, <2>3, <2>4, <2>5 DEF Stored
<1>4. CASE Close(r)
  <2>1. /\ w' = [w EXCEPT ![r] = [w[r] EXCEPT !.open = FALSE]] /\ frags' = [frags EXCEPT ![r] = Torn]
        /\ Goto(r, "write") /\ UNCHANGED <<job, todo, commit, merged, shards, registered, kept>>
    BY <1>4 DEF Close, history
  <2>2. WriterOK(w'[r], r, MaxShards) /\ w'[r].rows = w[r].rows
    BY <2>1, ClosedFacts DEF Stored
  <2>3. /\ \A q \in Parts : q # r => w'[q] = w[q] /\ frags'[q] = frags[q]
        /\ \A q \in Parts : Mine(q)' = Mine(q) /\ (pc'[q] = "map" => pc[q] = "map")
    BY <2>1 DEF Stored, Goto, Control, Mine
  <2>4. RowsIn(frags'[r]) = <<>>
    BY <2>1, TornReadsEmpty DEF Stored
  <2> QED
    BY <2>1, <2>2, <2>3, <2>4, EmptyTyped DEF Stored
<1>5. CASE WriteFragment(r)
  <2>1. /\ frags' = [frags EXCEPT ![r] = w[r].rows] /\ kept' = [kept EXCEPT ![r] = Ids(w[r].rows)]
        /\ UNCHANGED <<job, w, todo, commit, merged, shards, registered>>
    BY <1>5 DEF WriteFragment
  <2>2. \A q \in Parts : pc'[q] = "map" => pc[q] = "map"
    BY <1>5 DEF WriteFragment, Goto, Control
  <2>3. \A q \in Parts : Mine(q)' = Mine(q)
    BY <2>1 DEF Mine
  <2>4. RowsIn(frags'[r]) = w[r].rows \/ RowsIn(frags'[r]) = <<>>
    BY <2>1, RowsInEither DEF Stored
  <2>5. Typed(RowsIn(frags'[r])) /\ \A row \in RowSet(RowsIn(frags'[r])) : row.shard[1] = r
    BY <2>4, EmptyTyped, WriterRows DEF Stored
  <2>6. \A q \in Parts : q # r => frags'[q] = frags[q]
    BY <2>1 DEF Stored
  <2> QED
    BY <2>1, <2>2, <2>3, <2>5, <2>6 DEF Stored
<1>6. CASE Crash(r)
  <2>1. /\ w' = [w EXCEPT ![r] = [w[r] EXCEPT !.open = FALSE]] /\ Goto(r, "dead")
        /\ UNCHANGED <<job, todo, commit, frags, merged, shards, registered, kept>>
    BY <1>6 DEF Crash, files
  <2>2. WriterOK(w'[r], r, MaxShards) /\ w'[r].rows = w[r].rows
    BY <2>1, ClosedFacts DEF Stored
  <2>3. /\ \A q \in Parts : q # r => w'[q] = w[q]
        /\ \A q \in Parts : Mine(q)' = Mine(q) /\ (pc'[q] = "map" => pc[q] = "map")
    BY <2>1 DEF Stored, Goto, Control, Mine
  <2> QED
    BY <2>1, <2>2, <2>3 DEF Stored
<1> QED
  BY <1>1, <1>2, <1>3, <1>4, <1>5, <1>6 DEF RankStep

LEMMA StoredCommit ==
  ASSUME Control, Stored, CommitStep \/ UserCommits \/ CommitStops PROVE Stored'
<1>1. CASE RankCommits \/ UserCommits
  <2>1. /\ commit'.rows = MergedRows /\ UNCHANGED <<job, w, todo, frags, merged, shards, registered, kept>>
        /\ \A q \in Parts : pc'[q] = "map" => pc[q] = "map"
    BY <1>1 DEF RankCommits, UserCommits, BeginCommit, files, history, ranks, Goto, Control
  <2>2. \A q \in Parts : Mine(q)' = Mine(q)
    BY <2>1 DEF Mine
  <2> QED
    BY <2>1, <2>2, MergedTyped DEF Stored
<1>2. CASE RankCommitFails \/ EndCommit \/ CommitStops
  <2>1. /\ UNCHANGED <<job, w, todo, frags, merged, shards, registered, kept>>
        /\ commit'.rows = commit.rows \/ commit'.rows = <<>>
    BY <1>2 DEF RankCommitFails, EndCommit, CommitStops, files, history, NoCommit
  <2>2. \A q \in Parts : pc'[q] = "map" => pc[q] = "map"
    BY <1>2 DEF RankCommitFails, EndCommit, CommitStops, RankZeroRaises, Goto, Control
  <2> QED
    BY <2>1, <2>2, StoredSame DEF Stored
<1>3. CASE CreateMerged
  <2>1. /\ UNCHANGED <<job, pc, w, todo, frags, shards, registered, kept>> /\ merged' = Torn
        /\ commit'.rows = commit.rows
    BY <1>3 DEF CreateMerged, CommitAt, ranks, history, Control
  <2> QED
    BY <2>1, TornReadsEmpty, StoredSame DEF Stored
<1>4. CASE WriteMerged
  <2>1. /\ UNCHANGED <<job, pc, w, todo, frags, shards, registered, kept>> /\ merged' = commit.rows
        /\ commit'.rows = commit.rows
    BY <1>4 DEF WriteMerged, CommitAt, ranks, history, Control
  <2>2. Typed(RowsIn(merged')) /\ \A q \in Parts : Mine(q)' = Mine(q)
    BY <2>1, RowsInEither, EmptyTyped DEF Stored, Mine
  <2> QED
    BY <2>1, <2>2 DEF Stored
<1>5. CASE RegisterMerged
  <2>1. /\ UNCHANGED <<job, pc, w, todo, frags, shards, merged, kept>> /\ registered' = Len(commit.rows)
        /\ commit'.rows = commit.rows
    BY <1>5 DEF RegisterMerged, CommitAt, ranks, history, Control
  <2>2. registered' \in Nat /\ \A q \in Parts : Mine(q)' = Mine(q)
    BY <2>1, LenProperties DEF Stored, Typed, IsList, Mine
  <2> QED
    BY <2>1, <2>2 DEF Stored
<1>6. ASSUME NEW p \in Parts, Consume(p) PROVE Stored'
  <2>1. /\ UNCHANGED <<job, pc, w, todo, merged, shards, registered, kept>>
        /\ frags' = [frags EXCEPT ![p] = Absent] /\ commit'.rows = commit.rows
    BY <1>6 DEF Consume, ranks, Control
  <2>2. DOMAIN frags' = Parts /\ \A q \in Parts : frags'[q] = frags[q] \/ RowsIn(frags'[q]) = <<>>
    BY <2>1, TornReadsEmpty DEF Stored
  <2> QED
    BY <2>1, <2>2, StoredSame DEF Stored
<1> QED
  BY <1>1, <1>2, <1>3, <1>4, <1>5, <1>6 DEF CommitStep

LEMMA StoredStep == ASSUME Control, Stored, [Next]_vars PROVE Stored'
<1>1. ASSUME NEW j \in Jobs, Launch(j) PROVE Stored'
  <2>1. /\ UNCHANGED <<w, todo, commit, frags, merged, shards, registered, kept>>
        /\ \A r \in Parts : pc'[r] # "map"
    BY <1>1 DEF Launch, files, history
  <2> QED
    BY <2>1, StoredSame DEF Stored
<1>2. CASE Rest \/ UNCHANGED vars
  BY <1>2, StoredSame DEF Rest, vars, ranks, files, history, Stored
<1> QED
  BY <1>1, <1>2, StoredRank, StoredCommit DEF Next

\* Every variable has its type: what a rank has still to map is in its share, rows
\* name samples, shard files and jobs, and an index is missing, torn or rows.
THEOREM DistTypeCorrect == Spec => []TypeOK
<1>1. Init => Control /\ Stored
  BY ControlInit, StoredInit
<1>2. Control /\ Stored /\ [Next]_vars => (Control /\ Stored)'
  BY ControlStep, StoredStep
<1>3. Control /\ Stored => TypeOK
  <2> SUFFICES ASSUME Control, Stored PROVE TypeOK
    OBVIOUS
  <2>1. \A f : Typed(RowsIn(f)) => FileType(f)
    BY DEF Typed, RowsIn, Complete, FileType
  <2>2. \A r \in Parts : w[r].part = r /\ w[r].sid \in -1 .. MaxShards - 1
    BY DEF Stored, WriterOK
  <2>3. DOMAIN shards = Names
    BY DEF Stored, ShardsOK, NamesOf, Names
  <2>4. FileType(commit.rows)
    BY DEF Stored, Typed, FileType
  <2> QED
    BY <2>1, <2>2, <2>3, <2>4 DEF TypeOK, Control, Stored
<1> QED
  BY <1>1, <1>2, <1>3, PTL DEF Spec
-----------------------------------------------------------------------------
(* Every row reads back: what is committed stays part of what a rank that    *)
(* writes more shards has opened, so its new shards are above.               *)

Writing(r) == pc[r] \in {"map", "write"}

\* A row of the layer index is still in its rank's fragment, until that is torn or
\* the fragments are being removed; a rank that writes has both among its rows.
Nested ==
  /\ \A row \in RowSet(RowsIn(merged)) \cup RowSet(commit.rows) :
       \/ consumed # {} \/ frags[row.shard[1]] = Torn
       \/ row \in RowSet(RowsIn(frags[row.shard[1]]))
  /\ \A r \in Parts : Writing(r) =>
       /\ RowSet(RowsIn(frags[r])) \subseteq RowSet(w[r].rows)
       /\ \A row \in RowSet(RowsIn(merged)) : row.shard[1] = r => row \in RowSet(w[r].rows)

Back ==
  /\ \A row \in RowSet(RowsIn(merged)) \cup RowSet(commit.rows) : ReadsBack(row, shards)
  /\ \A p \in Parts : \A row \in RowSet(RowsIn(frags[p])) : ReadsBack(row, shards)
  /\ \A r \in Parts : Writing(r) => \A row \in RowSet(w[r].rows) : Good(row, shards, w[r])

LEMMA ListIsRows ==
  ASSUME FilesDiffer, NEW rows, Typed(rows) PROVE RowsIn(rows) = rows
BY DEF FilesDiffer, Typed, IsList, RowsIn, Complete

LEMMA WriterMeansNoCommit ==
  ASSUME Control, NEW r \in Parts, pc[r] \in Mapping PROVE commit = NoCommit
BY DEF Control, NobodyMaps

LEMMA RowInPart ==
  ASSUME Stored
  PROVE  \A row \in RowSet(RowsIn(merged)) \cup RowSet(commit.rows) :
           row.shard[1] \in Parts /\ row.shard \in Names
BY DEF Stored, Typed, RowSet, RowType, Names

\* add by rank r leaves every other row readable: those of its own part are its own.
LEMMA BackProcess ==
  ASSUME Control, Stored, Nested, Back,
         NEW r \in Parts, NEW k \in todo[r], NEW v \in {job.n, NoBlob}, Process(r, k, v)
  PROVE  Nested' /\ Back'
<1>1. PICK new : /\ w'[r].rows = Append(w[r].rows, new) /\ new.shard[1] = r
                 /\ Good(new, shards', w'[r])
  BY DistProcess
<1>2. /\ \A q \in Parts : q # r => w'[q] = w[q]
      /\ WriterOK(w'[r], r, MaxShards)
      /\ \A q : q.shard \in Names /\ Good(q, shards, w[r]) => Good(q, shards', w'[r])
  BY DistProcess
<1>3. /\ pc[r] = "map" /\ Writing(r) /\ commit = NoCommit
      /\ UNCHANGED <<job, pc, entered, commit, frags, merged, registered, kept, consumed>>
  BY WriterMeansNoCommit DEF Process, history, Mapping, Writing
<1>4. RowSet(w'[r].rows) = RowSet(w[r].rows) \cup {new}
  <2>1. IsList(w[r].rows)
    BY DEF Stored, Typed
  <2>2. /\ Len(w[r].rows) \in Nat /\ Len(w'[r].rows) = Len(w[r].rows) + 1
        /\ w'[r].rows[Len(w[r].rows) + 1] = new
        /\ \A i \in 1 .. Len(w[r].rows) : w'[r].rows[i] = w[r].rows[i]
    BY <1>1, <2>1, AppendList
  <2>3. 1 .. Len(w'[r].rows) = (1 .. Len(w[r].rows)) \cup {Len(w[r].rows) + 1}
    BY <2>2
  <2>4. {w'[r].rows[i] : i \in 1 .. Len(w[r].rows)} = {w[r].rows[i] : i \in 1 .. Len(w[r].rows)}
    BY <2>2
  <2> QED
    BY <2>2, <2>3, <2>4 DEF RowSet
<1>5. ASSUME NEW row, ReadsBack(row, shards), row.shard \in Names,
             row.shard[1] = r => row \in RowSet(w[r].rows)
      PROVE  ReadsBack(row, shards')
  <2>1. Good(row, shards, w[r])
    <3>1. w[r].part = r
      BY DEF Stored, WriterOK
    <3> QED
      BY <1>3, <1>5, <3>1 DEF Back, Good, Below
  <2> QED
    BY <1>2, <1>5, <2>1 DEF Good
<1>6. \A row \in RowSet(RowsIn(merged)) \cup RowSet(commit.rows) : ReadsBack(row, shards')
  <2>1. RowSet(commit.rows) = {}
    BY <1>3, EmptyTyped DEF NoCommit
  <2> QED
    BY <1>3, <1>5, <2>1, RowInPart DEF Nested, Back
<1>7. ASSUME NEW p \in Parts, NEW row \in RowSet(RowsIn(frags[p]))
      PROVE  ReadsBack(row, shards')
  <2>1. row.shard \in Names /\ row.shard[1] = p
    BY DEF Stored, Typed, RowType, RowSet
  <2> QED
    BY <1>3, <1>5, <2>1 DEF Nested, Back
<1>8. ASSUME NEW q \in Parts, Writing(q), NEW row \in RowSet(w'[q].rows)
      PROVE  Good(row, shards', w'[q])
  <2>1. CASE q = r
    <3>1. \A x \in RowSet(w[r].rows) : x.shard \in Names /\ Good(x, shards, w[r])
      BY <1>3, WriterRows DEF Back
    <3> QED
      BY <1>1, <1>2, <1>4, <2>1, <3>1
  <2>2. CASE q # r
    <3>1. w'[q] = w[q] /\ Good(row, shards, w[q]) /\ row.shard[1] = q /\ row.shard \in Names
      BY <1>2, <1>8, <2>2, WriterRows DEF Back
    <3> QED
      BY <1>5, <2>2, <3>1 DEF Good
  <2> QED BY <2>1, <2>2
<1>9. \A q \in Parts : RowSet(w[q].rows) \subseteq RowSet(w'[q].rows)
  BY <1>2, <1>4
<1>10. Nested'
  BY <1>3, <1>9 DEF Nested, Writing
<1> QED
  BY <1>3, <1>6, <1>7, <1>8, <1>10 DEF Back, Writing

\* Steps that write no row and open no fragment.
LEMMA BackSame ==
  ASSUME Nested, Back, UNCHANGED <<w, frags, shards>>, consumed \subseteq consumed',
         merged' = merged \/ RowsIn(merged') = <<>>,
         commit'.rows = commit.rows \/ commit'.rows = <<>>,
         \A r \in Parts : Writing(r)' => Writing(r)
  PROVE  Nested' /\ Back'
<1>1. /\ RowSet(RowsIn(merged')) \subseteq RowSet(RowsIn(merged))
      /\ RowSet(commit'.rows) \subseteq RowSet(commit.rows)
  BY EmptyTyped
<1>2. Nested'
  BY <1>1 DEF Nested
<1>3. Back'
  BY <1>1 DEF Back
<1> QED
  BY <1>2, <1>3

LEMMA BackRank ==
  ASSUME FilesDiffer, Remap = FALSE, Control, Stored, Nested, Back,
         NEW r \in Parts, RankStep(r) \/ Crash(r)
  PROVE  Nested' /\ Back'
<1>1. CASE Open(r)
  <2>1. /\ w' = [w EXCEPT ![r] = Opened(r, frags[r])] /\ frags[r] # Torn /\ pc[r] = "open"
        /\ Goto(r, "map") /\ UNCHANGED <<commit, frags, merged, shards, consumed>>
    BY <1>1 DEF Open, files, history
  <2>2. /\ w'[r].rows = RowsIn(frags[r]) /\ w'[r].part = r
        /\ \A q \in Parts : q # r => w'[q] = w[q] /\ (Writing(q)' => Writing(q))
    BY <2>1 DEF Stored, Opened, Goto, Control, Writing
  <2>3. consumed = {} /\ commit = NoCommit
    BY <2>1, WriterMeansNoCommit DEF Control, NobodyMaps, Mapping
  <2>4. \A row \in RowSet(RowsIn(merged)) : row.shard[1] = r => row \in RowSet(w'[r].rows)
    BY <2>1, <2>2, <2>3 DEF Nested
  <2>5. Nested'
    BY <2>1, <2>2, <2>4 DEF Nested
  <2>6. ASSUME NEW row \in RowSet(w'[r].rows) PROVE Good(row, shards', w'[r])
    <3>1. ReadsBack(row, shards)
      BY <2>2, <2>6 DEF Back
    <3>2. w'[r].sid = LastShard(RowsIn(frags[r]))
      BY <2>1 DEF Stored, Opened
    <3>3. row.shard[2] <= LastShard(RowsIn(frags[r]))
      <4> DEFINE rows == RowsIn(frags[r])
      <4>1. MaxShards \in Nat /\ RowList(rows, NamesOf({r}, MaxShards))
        BY PartRows, DistAssumption
      <4> HIDE DEF rows
      <4>2. \A i \in 1 .. Len(rows) : rows[i].shard[2] <= LastShard(rows)
        BY <4>1, LastShardFacts
      <4>3. \E i \in 1 .. Len(rows) : row = rows[i]
        BY <2>2, <2>6 DEF RowSet, rows
      <4> QED
        BY <4>2, <4>3 DEF rows
    <3> QED
      BY <2>1, <3>1, <3>2, <3>3 DEF Good, Below
  <2> QED
    BY <2>1, <2>2, <2>5, <2>6 DEF Back
<1>2. CASE OpenFails(r) \/ LeaveFirst(r) \/ LeaveSecond(r) \/ BarrierRaises(r)
  <2>1. /\ UNCHANGED <<w, commit, frags, merged, shards, consumed>>
        /\ \A q \in Parts : Writing(q)' => Writing(q)
    BY <1>2 DEF OpenFails, LeaveFirst, LeaveSecond, BarrierRaises, files, history, Goto, Control, Writing
  <2> QED
    BY <2>1, BackSame
<1>3. ASSUME NEW k \in todo[r], NEW v \in {job.n, NoBlob}, Process(r, k, v) PROVE Nested' /\ Back'
  BY <1>3, BackProcess
<1>4. CASE Close(r)
  <2>1. /\ w' = [w EXCEPT ![r] = [w[r] EXCEPT !.open = FALSE]] /\ frags' = [frags EXCEPT ![r] = Torn]
        /\ pc[r] = "map" /\ Goto(r, "write") /\ UNCHANGED <<commit, merged, shards, consumed>>
    BY <1>4 DEF Close, history
  <2>2. w'[r].rows = w[r].rows /\ w'[r].sid = w[r].sid /\ w'[r].part = w[r].part
    BY <2>1, ClosedFacts DEF Stored
  <2>3. /\ \A q \in Parts : q # r => w'[q] = w[q] /\ frags'[q] = frags[q]
        /\ \A q \in Parts : Writing(q)' => Writing(q)
        /\ frags'[r] = Torn /\ RowSet(RowsIn(frags'[r])) = {}
    BY <2>1, TornReadsEmpty, EmptyTyped DEF Stored, Goto, Control, Writing
  <2>4. \A row \in RowSet(RowsIn(merged)) \cup RowSet(commit.rows) : row.shard[1] \in Parts
    BY RowInPart
  <2>5. Nested'
    BY <2>1, <2>2, <2>3, <2>4 DEF Nested
  <2> QED
    BY <2>1, <2>2, <2>3, <2>5 DEF Back, Good, Below
<1>5. CASE WriteFragment(r)
  <2>1. /\ frags' = [frags EXCEPT ![r] = w[r].rows] /\ Writing(r) /\ pc[r] \in Mapping
        /\ pc[r] = "write" /\ UNCHANGED <<w, commit, merged, shards, consumed>>
    BY <1>5 DEF WriteFragment, Writing, Mapping
  <2>2. /\ \A q \in Parts : q # r => frags'[q] = frags[q]
        /\ \A q \in Parts : Writing(q)' => Writing(q) /\ q # r
        /\ RowsIn(frags'[r]) = w[r].rows
    BY <1>5, <2>1, ListIsRows DEF WriteFragment, Stored, Goto, Control, Writing
  <2>3. RowSet(commit.rows) = {}
    BY <2>1, WriterMeansNoCommit, EmptyTyped DEF NoCommit
  <2>4. \A row \in RowSet(RowsIn(merged)) : row.shard[1] \in Parts
    BY RowInPart
  <2>5. Nested'
    BY <2>1, <2>2, <2>3, <2>4 DEF Nested
  <2> QED
    BY <2>1, <2>2, <2>5 DEF Back, Good
<1>6. CASE Crash(r)
  <2>1. /\ w' = [w EXCEPT ![r] = [w[r] EXCEPT !.open = FALSE]] /\ Goto(r, "dead")
        /\ UNCHANGED <<commit, frags, merged, shards, consumed>>
    BY <1>6 DEF Crash, files
  <2>2. \A q \in Parts : Writing(q)' => Writing(q) /\ w'[q] = w[q]
    BY <2>1 DEF Stored, Goto, Control, Writing
  <2> QED
    BY <2>1, <2>2 DEF Nested, Back
<1> QED
  BY <1>1, <1>2, <1>3, <1>4, <1>5, <1>6 DEF RankStep

LEMMA BackCommit ==
  ASSUME FilesDiffer, Control, Stored, Nested, Back, CommitStep \/ UserCommits \/ CommitStops
  PROVE  Nested' /\ Back'
<1>1. CASE RankCommits \/ UserCommits
  <2>1. /\ commit'.rows = MergedRows /\ UNCHANGED <<w, frags, merged, shards, consumed>>
        /\ CommitReads /\ \A q \in Parts : Writing(q)' => Writing(q)
    BY <1>1 DEF RankCommits, UserCommits, BeginCommit, files, history, ranks, Goto, Control, Writing
  <2>2. \A row \in RowSet(MergedRows) : Readable(row)
    BY MergedFacts DEF RowSet
  <2>3. \A p \in Parts : \A row \in RowSet(RowsIn(frags[p])) : row.shard[1] = p
    BY DEF Stored
  <2>4. Nested'
    BY <2>1, <2>2, <2>3 DEF Nested, Readable
  <2> QED
    BY <2>1, <2>2, <2>4 DEF Back, Readable
<1>2. CASE RankCommitFails \/ EndCommit \/ CommitStops
  <2>1. /\ UNCHANGED <<w, frags, merged, shards, consumed>>
        /\ commit'.rows = commit.rows \/ commit'.rows = <<>>
    BY <1>2 DEF RankCommitFails, EndCommit, CommitStops, files, history, NoCommit
  <2>2. \A q \in Parts : Writing(q)' => Writing(q)
    BY <1>2 DEF RankCommitFails, EndCommit, CommitStops, RankZeroRaises, Goto, Control, Writing
  <2> QED
    BY <2>1, <2>2, BackSame
<1>3. CASE CreateMerged \/ RegisterMerged
  <2>1. /\ UNCHANGED <<pc, w, frags, shards, consumed>> /\ (merged' = merged \/ merged' = Torn)
        /\ commit'.rows = commit.rows
    BY <1>3 DEF CreateMerged, RegisterMerged, CommitAt, ranks, history, Control
  <2> QED
    BY <2>1, TornReadsEmpty, BackSame DEF Writing
<1>4. CASE WriteMerged
  <2>1. /\ UNCHANGED <<pc, w, frags, shards, consumed>> /\ merged' = commit.rows
        /\ commit'.rows = commit.rows /\ commit # NoCommit
    BY <1>4 DEF WriteMerged, CommitAt, ranks, history, Control, NoCommit
  <2>2. RowSet(RowsIn(merged')) = RowSet(commit.rows)
    BY <2>1, ListIsRows DEF Stored
  <2>3. \A q \in Parts : ~Writing(q)'
    BY <2>1 DEF Control, NobodyMaps, Mapping, Writing
  <2>4. Nested'
    BY <2>1, <2>2, <2>3 DEF Nested
  <2> QED
    BY <2>1, <2>2, <2>3, <2>4 DEF Back
<1>5. ASSUME NEW p \in Parts, Consume(p) PROVE Nested' /\ Back'
  <2>1. /\ UNCHANGED <<pc, w, merged, shards>> /\ frags' = [frags EXCEPT ![p] = Absent]
        /\ commit'.rows = commit.rows /\ consumed' # {} /\ commit # NoCommit
    BY <1>5 DEF Consume, ranks, Control, NoCommit
  <2>2. \A q \in Parts : RowSet(RowsIn(frags'[q])) \subseteq RowSet(RowsIn(frags[q]))
    BY <2>1, TornReadsEmpty, EmptyTyped DEF Stored
  <2>3. \A q \in Parts : ~Writing(q)'
    BY <2>1 DEF Control, NobodyMaps, Mapping, Writing
  <2>4. Nested'
    BY <2>1, <2>3 DEF Nested
  <2> QED
    BY <2>1, <2>2, <2>3, <2>4 DEF Back
<1> QED
  BY <1>1, <1>2, <1>3, <1>4, <1>5 DEF CommitStep

LEMMA BackStep ==
  ASSUME FilesDiffer, Remap = FALSE, Control, Stored, Nested, Back, [Next]_vars
  PROVE  Nested' /\ Back'
<1>1. ASSUME NEW j \in Jobs, Launch(j) PROVE Nested' /\ Back'
  <2>1. /\ UNCHANGED <<w, commit, frags, merged, shards, consumed>>
        /\ \A r \in Parts : ~Writing(r)'
    BY <1>1 DEF Launch, files, history, Writing
  <2> QED
    BY <2>1, BackSame
<1>2. CASE Rest \/ UNCHANGED vars
  BY <1>2, BackSame DEF Rest, vars, ranks, files, history, Writing
<1> QED
  BY <1>1, <1>2, BackRank, BackCommit DEF Next

\* Where no job is launched over fragments that were consumed, every row of the layer
\* index and of every fragment reads back what its rank stored: whatever the views,
\* the worlds and the order of the jobs, and wherever ranks and commits die.
THEOREM CommittedAlwaysReadsBack ==
  ASSUME FilesDiffer, Remap = FALSE PROVE Spec => []CommittedReadsBack
<1>1. Init => Control /\ Stored /\ Nested /\ Back
  <2> SUFFICES ASSUME Init PROVE Nested /\ Back
    BY ControlInit, StoredInit
  <2>1. /\ RowSet(RowsIn(merged)) = {} /\ RowSet(commit.rows) = {}
        /\ \A p \in Parts : RowSet(RowsIn(frags[p])) = {} /\ ~Writing(p)
    BY EmptyTyped, TornReadsEmpty DEF Init, NoCommit, Writing
  <2> QED
    BY <2>1 DEF Nested, Back
<1>2. Control /\ Stored /\ Nested /\ Back /\ [Next]_vars => (Control /\ Stored /\ Nested /\ Back)'
  BY ControlStep, StoredStep, BackStep
<1>3. Back => CommittedReadsBack
  BY DEF Back, CommittedReadsBack
<1> QED
  BY <1>1, <1>2, <1>3, PTL DEF Spec
-----------------------------------------------------------------------------
(* Nothing completed is lost: the commit under way holds every row that was  *)
(* completed, and the layer index is whole again before a fragment goes.     *)

CommitHolds ==
  /\ commit # NoCommit =>
       \A p \in Parts : /\ frags[p] # Torn
                        /\ kept[p] \subseteq Ids(commit.rows)
                        /\ frags[p] # Absent => p \in commit.left
  /\ commit.at \in {"register", "consume"} => merged = commit.rows /\ RowsIn(merged) = merged
  /\ commit.at = "consume" => registered = Len(commit.rows)
  /\ commit # NoCommit => \A k \in 1 .. Len(commit.rows) - 1 : commit.rows[k].id < commit.rows[k + 1].id
  /\ merged = Torn => commit.at = "write"

LEMMA HoldsBegin ==
  ASSUME Control, Stored, NoRowLost, CommitHolds, BeginCommit, UNCHANGED <<frags, merged, registered, kept>>
  PROVE  NoRowLost' /\ CommitHolds'
<1>1. /\ commit'.rows = MergedRows /\ commit'.left = Fragments /\ commit'.at = "create"
      /\ merged # Torn /\ \A p \in Parts : frags[p] # Torn
  BY DEF BeginCommit, CommitReads
<1>2. Ids(MergedRows) = MergedIds
      /\ \A k \in 1 .. Len(MergedRows) - 1 : MergedRows[k].id < MergedRows[k + 1].id
  BY MergedFacts
<1>3. ASSUME NEW p \in Parts PROVE kept[p] \subseteq MergedIds
  BY <1>1 DEF NoRowLost, MergedIds, FragmentIds
<1>4. \A p \in Parts : frags[p] # Absent => p \in Fragments
  BY DEF Fragments
<1> QED
  BY <1>1, <1>2, <1>3, <1>4 DEF NoRowLost, CommitHolds

\* A step of a rank that neither maps nor touches a file.
LEMMA HoldsSame ==
  ASSUME NoRowLost, CommitHolds, UNCHANGED <<commit, frags, merged, registered, kept>>
  PROVE  NoRowLost' /\ CommitHolds'
BY DEF NoRowLost, CommitHolds

LEMMA HoldsRank ==
  ASSUME FilesDiffer, Control, Stored, NoRowLost, CommitHolds, NEW r \in Parts, RankStep(r) \/ Crash(r)
  PROVE  NoRowLost' /\ CommitHolds'
<1>1. CASE Close(r)
  <2>1. /\ frags' = [frags EXCEPT ![r] = Torn] /\ UNCHANGED <<commit, merged, registered, kept>>
        /\ commit = NoCommit
    BY <1>1, WriterMeansNoCommit DEF Close, history, Mapping
  <2>2. \A q \in Parts : frags'[q] = Torn \/ frags'[q] = frags[q]
    BY <2>1 DEF Stored
  <2> QED
    BY <2>1, <2>2 DEF NoRowLost, CommitHolds, NoCommit
<1>2. CASE WriteFragment(r)
  <2>1. /\ frags' = [frags EXCEPT ![r] = w[r].rows] /\ kept' = [kept EXCEPT ![r] = Ids(w[r].rows)]
        /\ UNCHANGED <<commit, merged, registered>> /\ commit = NoCommit
    BY <1>2, WriterMeansNoCommit DEF WriteFragment, Mapping
  <2>2. /\ \A q \in Parts : q # r => frags'[q] = frags[q] /\ kept'[q] = kept[q]
        /\ RowsIn(frags'[r]) = w[r].rows /\ kept'[r] = Ids(w[r].rows)
    BY <2>1, ListIsRows DEF Stored
  <2> QED
    BY <2>1, <2>2 DEF NoRowLost, CommitHolds, NoCommit
<1>3. ASSUME NEW k, NEW v, Process(r, k, v) PROVE NoRowLost' /\ CommitHolds'
  BY <1>3, HoldsSame DEF Process, history
<1>4. CASE Open(r) \/ OpenFails(r) \/ LeaveFirst(r) \/ LeaveSecond(r) \/ BarrierRaises(r) \/ Crash(r)
  BY <1>4, HoldsSame DEF Open, OpenFails, LeaveFirst, LeaveSecond, BarrierRaises, Crash, files, history
<1> QED
  BY <1>1, <1>2, <1>3, <1>4 DEF RankStep

LEMMA HoldsCommit ==
  ASSUME FilesDiffer, "write" \notin CommitStopsAt, Control, Stored, NoRowLost, CommitHolds,
         CommitStep \/ UserCommits \/ CommitStops
  PROVE  NoRowLost' /\ CommitHolds'
<1>1. CASE RankCommits \/ UserCommits
  BY <1>1, HoldsBegin DEF RankCommits, UserCommits, files, history
<1>2. CASE RankCommitFails
  BY <1>2, HoldsSame DEF RankCommitFails, files, history
<1>3. CASE EndCommit \/ CommitStops
  <2>1. /\ UNCHANGED <<frags, merged, registered, kept>> /\ commit' = NoCommit /\ commit.at # "write"
    BY <1>3 DEF EndCommit, CommitStops, files, history
  <2>2. merged # Torn
    BY <2>1 DEF CommitHolds
  <2> QED
    BY <2>1, <2>2 DEF NoRowLost, CommitHolds, NoCommit
<1>4. CASE CreateMerged
  <2>1. /\ UNCHANGED <<frags, registered, kept>> /\ merged' = Torn /\ commit # NoCommit
        /\ commit'.rows = commit.rows /\ commit'.left = commit.left /\ commit'.at = "write"
    BY <1>4 DEF CreateMerged, CommitAt, ranks, history, Control, NoCommit
  <2> QED
    BY <2>1 DEF NoRowLost, CommitHolds
<1>5. CASE WriteMerged
  <2>1. /\ UNCHANGED <<frags, registered, kept>> /\ merged' = commit.rows /\ commit # NoCommit
        /\ commit'.rows = commit.rows /\ commit'.left = commit.left /\ commit'.at = "register"
    BY <1>5 DEF WriteMerged, CommitAt, ranks, history, Control, NoCommit
  <2>2. RowsIn(merged') = commit.rows /\ merged' # Torn
    <3>1. commit.rows # Torn
      BY DEF FilesDiffer, Stored, Typed, IsList
    <3> QED
      BY <2>1, <3>1, ListIsRows DEF Stored
  <2> QED
    BY <2>1, <2>2 DEF NoRowLost, CommitHolds
<1>6. CASE RegisterMerged
  <2>1. /\ UNCHANGED <<frags, merged, kept>> /\ registered' = Len(commit.rows) /\ commit # NoCommit
        /\ commit'.rows = commit.rows /\ commit'.left = commit.left /\ commit'.at = "consume"
        /\ commit.at = "register"
    BY <1>6 DEF RegisterMerged, CommitAt, ranks, history, Control, NoCommit
  <2> QED
    BY <2>1 DEF NoRowLost, CommitHolds
<1>7. ASSUME NEW p \in Parts, Consume(p) PROVE NoRowLost' /\ CommitHolds'
  <2>1. /\ UNCHANGED <<merged, registered, kept>> /\ frags' = [frags EXCEPT ![p] = Absent]
        /\ commit # NoCommit /\ commit.at = "consume" /\ commit'.rows = commit.rows
        /\ commit'.left = commit.left \ {p} /\ commit'.at = "consume"
    BY <1>7 DEF Consume, ranks, Control, NoCommit
  <2>2. \A q \in Parts : frags'[q] = IF q = p THEN Absent ELSE frags[q]
    BY <2>1 DEF Stored
  <2>3. Absent # Torn
    BY LayerAssumption
  <2>4. CommitHolds'
    BY <2>1, <2>2, <2>3 DEF CommitHolds
  <2>5. \A q \in Parts : kept[q] \subseteq Ids(RowsIn(merged))
    BY <2>1 DEF CommitHolds
  <2> QED
    BY <2>1, <2>4, <2>5 DEF NoRowLost
<1> QED
  BY <1>1, <1>2, <1>3, <1>4, <1>5, <1>6, <1>7 DEF CommitStep

LEMMA HoldsStep ==
  ASSUME FilesDiffer, "write" \notin CommitStopsAt, Control, Stored, NoRowLost, CommitHolds, [Next]_vars
  PROVE  NoRowLost' /\ CommitHolds'
<1>1. ASSUME NEW j \in Jobs, Launch(j) PROVE NoRowLost' /\ CommitHolds'
  BY <1>1, HoldsSame DEF Launch, files, history
<1>2. CASE Rest \/ UNCHANGED vars
  BY <1>2, HoldsSame DEF Rest, vars, files, history
<1> QED
  BY <1>1, <1>2, HoldsRank, HoldsCommit DEF Next

LEMMA HoldsInit == ASSUME Init PROVE NoRowLost /\ CommitHolds
BY LayerAssumption DEF Init, NoRowLost, CommitHolds, NoCommit

\* Unless a commit dies while it writes the layer index, every id a rank's completed
\* fragment held is in that fragment, in the layer index or in the commit under way,
\* or the rank's own rerun tore the fragment.
THEOREM NoRowEverLost ==
  ASSUME FilesDiffer, "write" \notin CommitStopsAt PROVE Spec => []NoRowLost
<1>1. Init => Control /\ Stored /\ NoRowLost /\ CommitHolds
  BY ControlInit, StoredInit, HoldsInit
<1>2. Control /\ Stored /\ NoRowLost /\ CommitHolds /\ [Next]_vars
        => (Control /\ Stored /\ NoRowLost /\ CommitHolds)'
  BY ControlStep, StoredStep, HoldsStep
<1> QED
  BY <1>1, <1>2, PTL DEF Spec

Registers == consumed # {} \/ commit.at = "consume" => registered # Unregistered

\* No fragment is removed before the manifest names the layer index that has its rows.
THEOREM ConsumedAlwaysRegistered == Spec => []ConsumedIsRegistered
<1>1. Init => Control /\ Stored /\ Registers
  BY ControlInit, StoredInit DEF Init, Registers, NoCommit
<1>2. Control /\ Stored /\ Registers /\ [Next]_vars => (Control /\ Stored /\ Registers)'
  <2> SUFFICES ASSUME Control, Stored, Registers, [Next]_vars PROVE Registers'
    BY ControlStep, StoredStep
  <2>1. Len(commit.rows) # Unregistered
    BY LenProperties DEF Stored, Typed, IsList, Unregistered
  <2>2. ASSUME NEW r \in Parts, RankStep(r) \/ Crash(r) PROVE Registers'
    BY <2>2 DEF RankStep, Open, OpenFails, Process, Close, WriteFragment, LeaveFirst, LeaveSecond,
       BarrierRaises, Crash, files, history, Registers
  <2>3. ASSUME NEW j \in Jobs, Launch(j) PROVE Registers'
    BY <2>3 DEF Launch, files, history, Registers
  <2>4. CASE RankCommits \/ UserCommits
    BY <2>4 DEF RankCommits, UserCommits, BeginCommit, files, history, Registers
  <2>5. CASE RankCommitFails \/ EndCommit \/ CommitStops
    BY <2>5 DEF RankCommitFails, EndCommit, CommitStops, files, history, Registers, NoCommit
  <2>6. CASE CreateMerged \/ WriteMerged
    <3>1. UNCHANGED <<registered, consumed>> /\ commit'.at # "consume"
      BY <2>6 DEF CreateMerged, WriteMerged, CommitAt, history, Control
    <3> QED
      BY <3>1 DEF Registers
  <2>7. CASE RegisterMerged
    BY <2>1, <2>7 DEF RegisterMerged, Registers
  <2>8. ASSUME NEW p \in Parts, Consume(p) PROVE Registers'
    BY <2>8 DEF Consume, Registers
  <2>9. CASE Rest \/ UNCHANGED vars
    BY <2>9 DEF Rest, vars, files, history, Registers
  <2> QED
    BY <2>2, <2>3, <2>4, <2>5, <2>6, <2>7, <2>8, <2>9 DEF Next, CommitStep
<1>3. Registers => ConsumedIsRegistered
  BY DEF Registers, ConsumedIsRegistered
<1> QED
  BY <1>1, <1>2, <1>3, PTL DEF Spec
-----------------------------------------------------------------------------
(* A commit of rank 0 finds every sample of the view in some rank's          *)
(* fragment: the ranks wrote theirs before they entered the barrier.         *)

HasMapped(r) == entered[r] >= 1 \/ pc[r] \in {"commit", "committing"}

Mapped ==
  /\ \A r \in Parts : pc[r] = "map" => \A k \in Mine(r) \ todo[r] : job.view[k] \in Ids(w[r].rows)
  /\ \A r \in Parts : pc[r] = "write" => \A k \in Mine(r) : job.view[k] \in Ids(w[r].rows)
  /\ \A r \in Parts : HasMapped(r) => \A k \in Mine(r) : job.view[k] \in kept[r]

Committed ==
  entered[0] = 2 => /\ commit = NoCommit /\ NobodyMaps /\ pc[0] \notin {"commit", "committing"}
                    /\ \A p \in Parts : frags[p] = Absent
                    /\ CommittedIsComplete

\* A sample is mapped by the rank of its residue.
LEMMA EverySampleHasRank ==
  ASSUME Control, NEW k \in 1 .. Len(job.view)
  PROVE  \E r \in Ranks : r \in Parts /\ k \in Mine(r)
<1>1. job.view \in Seq(Samples) /\ job.world \in Nat \ {0} /\ Ranks \subseteq Parts
  BY DEF Control
<1>2. job.view[k] \in Nat
  BY <1>1, ElementOfSeq, LayerAssumption
<1>3. job.view[k] % job.world \in 0 .. job.world - 1
  BY <1>1, <1>2
<1> QED
  BY <1>1, <1>3 DEF Mine, Ranks

LEMMA MappedSame ==
  ASSUME Mapped, UNCHANGED <<job, kept>>,
         \A q \in Parts : HasMapped(q)' => HasMapped(q),
         \A q \in Parts : pc'[q] \in {"map", "write"} =>
           pc'[q] = pc[q] /\ w'[q].rows = w[q].rows /\ todo'[q] = todo[q]
  PROVE  Mapped'
<1>1. \A q \in Parts : Mine(q)' = Mine(q)
  BY DEF Mine
<1> QED
  BY <1>1 DEF Mapped

LEMMA MappedRank ==
  ASSUME Control, Stored, Mapped, NEW r \in Parts, RankStep(r) \/ Crash(r) PROVE Mapped'
<1> USE DEF HasMapped
<1>0. UNCHANGED job => \A q \in Parts : Mine(q)' = Mine(q)
  BY DEF Mine
<1>1. CASE Open(r)
  <2>1. /\ w' = [w EXCEPT ![r] = Opened(r, frags[r])] /\ UNCHANGED <<job, entered, kept>>
        /\ todo' = [todo EXCEPT ![r] = {k \in Mine(r) : job.view[k] \notin Ids(RowsIn(frags[r]))}]
        /\ Goto(r, "map")
    BY <1>1 DEF Open, history
  <2>2. /\ w'[r].rows = RowsIn(frags[r]) /\ pc'[r] = "map"
        /\ todo'[r] = {k \in Mine(r) : job.view[k] \notin Ids(RowsIn(frags[r]))}
        /\ \A q \in Parts : q # r => w'[q] = w[q] /\ todo'[q] = todo[q] /\ pc'[q] = pc[q]
    BY <2>1 DEF Stored, Opened, Goto, Control
  <2>3. ~HasMapped(r)
    BY <1>1 DEF Open, Control, Mapping
  <2>4. ~HasMapped(r)'
    BY <2>1, <2>2, <2>3
  <2> QED
    BY <1>0, <2>1, <2>2, <2>4 DEF Mapped
<1>2. CASE OpenFails(r) \/ LeaveSecond(r) \/ BarrierRaises(r) \/ Crash(r)
  <2>1. /\ UNCHANGED <<job, todo, entered, kept>> /\ \A q \in Parts : q # r => w'[q] = w[q] /\ pc'[q] = pc[q]
        /\ pc'[r] \in {"returned", "dead"}
    BY <1>2 DEF OpenFails, LeaveSecond, BarrierRaises, Crash, history, Goto, Control, Stored
  <2> QED
    BY <2>1, MappedSame
<1>3. ASSUME NEW k \in todo[r], NEW v \in {job.n, NoBlob}, Process(r, k, v) PROVE Mapped'
  <2>1. PICK row : w'[r].rows = Append(w[r].rows, row) /\ row.id = job.view[k]
    BY <1>3, DistProcess
  <2>2. Ids(w'[r].rows) = Ids(w[r].rows) \cup {job.view[k]}
    BY <2>1, VisibleAppended DEF Stored, Typed
  <2>3. /\ UNCHANGED <<job, pc, entered, kept>> /\ todo' = [todo EXCEPT ![r] = @ \ {k}]
        /\ \A q \in Parts : q # r => w'[q] = w[q] /\ todo'[q] = todo[q]
        /\ todo'[r] = todo[r] \ {k} /\ pc[r] = "map"
    BY <1>3, DistProcess DEF Process, history, Stored
  <2> QED
    BY <1>0, <2>2, <2>3 DEF Mapped
<1>4. CASE Close(r)
  <2>1. /\ w' = [w EXCEPT ![r] = [w[r] EXCEPT !.open = FALSE]] /\ todo[r] = {} /\ pc[r] = "map"
        /\ Goto(r, "write") /\ UNCHANGED <<job, todo, entered, kept>>
    BY <1>4 DEF Close, history
  <2>2. w'[r].rows = w[r].rows
    BY <2>1, ClosedFacts DEF Stored
  <2>3. pc'[r] = "write" /\ \A q \in Parts : q # r => w'[q] = w[q] /\ pc'[q] = pc[q]
    BY <2>1 DEF Goto, Control, Stored
  <2>4. \A q \in Parts : HasMapped(q)' => HasMapped(q)
    BY <2>1, <2>3
  <2> QED
    BY <1>0, <2>1, <2>2, <2>3, <2>4 DEF Mapped
<1>5. CASE WriteFragment(r)
  <2>1. /\ pc[r] = "write" /\ UNCHANGED <<job, w, todo>>
        /\ kept'[r] = Ids(w[r].rows) /\ \A q \in Parts : q # r => kept'[q] = kept[q]
        /\ \A q \in Parts : q # r => entered'[q] = entered[q] /\ pc'[q] = pc[q]
        /\ pc'[r] \notin {"map", "write"}
    BY <1>5 DEF WriteFragment, Stored, Goto, Control
  <2> QED
    BY <1>0, <2>1 DEF Mapped
<1>6. CASE LeaveFirst(r)
  <2>1. /\ pc[r] = "barrier1" /\ UNCHANGED <<job, w, todo, kept>> /\ entered[r] >= 1
        /\ \A q \in Parts : q # r => entered'[q] = entered[q] /\ pc'[q] = pc[q]
        /\ pc'[r] \notin {"map", "write"}
    BY <1>6 DEF LeaveFirst, AllEntered, history, Goto, Control
  <2>2. \A q \in Parts : HasMapped(q)' => HasMapped(q)
    BY <2>1
  <2> QED
    BY <2>1, <2>2, MappedSame
<1> QED
  BY <1>1, <1>2, <1>3, <1>4, <1>5, <1>6 DEF RankStep

LEMMA MappedCommit ==
  ASSUME Control, Mapped, CommitStep \/ UserCommits \/ CommitStops PROVE Mapped'
<1>1. UNCHANGED <<job, w, todo, kept>>
  BY DEF CommitStep, RankCommits, RankCommitFails, CreateMerged, WriteMerged, RegisterMerged, Consume,
     EndCommit, UserCommits, CommitStops, CommitAt, ranks, history
<1>2. \A q \in Parts : q # 0 => pc'[q] = pc[q] /\ entered'[q] = entered[q]
  BY DEF CommitStep, RankCommits, RankCommitFails, CreateMerged, WriteMerged, RegisterMerged, Consume,
     EndCommit, UserCommits, CommitStops, CommitAt, RankZeroRaises, Goto, ranks, Control
<1>3. /\ HasMapped(0)' => HasMapped(0)
      /\ pc'[0] \in {"map", "write"} => pc'[0] = pc[0]
  <2>1. 0 \in Parts
    BY DistAssumption
  <2>2. CASE RankCommits \/ RankCommitFails \/ EndCommit \/ CommitStops
    BY <2>1, <2>2 DEF RankCommits, RankCommitFails, EndCommit, CommitStops, RankZeroRaises, Goto, Control, HasMapped
  <2>3. CASE CreateMerged \/ WriteMerged \/ RegisterMerged \/ UserCommits \/ \E p \in Parts : Consume(p)
    <3>1. UNCHANGED <<pc, entered>>
      BY <2>3 DEF CreateMerged, WriteMerged, RegisterMerged, UserCommits, Consume, CommitAt, ranks
    <3> QED
      BY <3>1 DEF HasMapped
  <2> QED
    BY <2>2, <2>3 DEF CommitStep
<1>4. \A q \in Parts : HasMapped(q)' => HasMapped(q)
  BY <1>2, <1>3 DEF HasMapped
<1>5. \A q \in Parts : pc'[q] \in {"map", "write"} => pc'[q] = pc[q]
  BY <1>2, <1>3
<1> QED
  BY <1>1, <1>4, <1>5, MappedSame

LEMMA MappedStep == ASSUME Control, Stored, Mapped, [Next]_vars PROVE Mapped'
<1>1. ASSUME NEW j \in Jobs, Launch(j) PROVE Mapped'
  BY <1>1 DEF Launch, Mapped, HasMapped
<1>2. CASE Rest \/ UNCHANGED vars
  BY <1>2, MappedSame DEF Rest, vars, ranks, history, HasMapped
<1> QED
  BY <1>1, <1>2, MappedRank, MappedCommit DEF Next

\* At the commit's end its rows, now the layer index, cover the view.
LEMMA EndCompletes ==
  ASSUME Control, Stored, CommitHolds, Mapped, EndCommit, pc[0] = "committing"
  PROVE  Committed'
<1>1. /\ commit # NoCommit /\ commit.at = "consume" /\ commit.left = {} /\ commit' = NoCommit
      /\ UNCHANGED <<job, w, frags, merged, registered, kept>>
  BY DEF EndCommit, NoCommit, files, history
<1>2. merged = commit.rows /\ RowsIn(merged) = merged /\ registered = Len(merged)
  BY <1>1 DEF CommitHolds
<1>3. 0 \in Parts /\ Ready /\ NobodyMaps
  BY <1>1, DistAssumption DEF Control
<1>4. \A p \in Parts : frags[p] = Absent
  BY <1>1 DEF CommitHolds
<1>5. ASSUME NEW k \in 1 .. Len(job.view) PROVE job.view[k] \in Ids(RowsIn(merged))
  <2>1. PICK r \in Ranks : r \in Parts /\ k \in Mine(r)
    BY EverySampleHasRank
  <2>2. HasMapped(r)
    <3>1. CASE job.world = 1
      BY <2>1, <3>1 DEF Ranks, HasMapped
    <3>2. CASE \A q \in Ranks : entered[q] >= 1
      BY <3>2 DEF HasMapped
    <3> QED BY <1>3, <3>1, <3>2 DEF Ready
  <2> QED
    BY <1>1, <1>2, <2>1, <2>2 DEF Mapped, CommitHolds
<1>6. \A k \in 1 .. Len(merged) - 1 : merged[k].id < merged[k + 1].id
  BY <1>1, <1>2 DEF CommitHolds
<1>7. NobodyMaps' /\ pc'[0] \notin {"commit", "committing"}
  BY <1>3 DEF EndCommit, Goto, Control, NobodyMaps, Mapping
<1> QED
  BY <1>1, <1>2, <1>4, <1>5, <1>6, <1>7 DEF Committed, CommittedIsComplete

LEMMA CommittedStep ==
  ASSUME Control, Stored, CommitHolds, Mapped, Committed, [Next]_vars PROVE Committed'
<1>0. 0 \in Parts
  BY DistAssumption
<1>1. ASSUME NEW r \in Parts, RankStep(r) \/ Crash(r) PROVE Committed'
  <2>1. ASSUME pc[r] \in {"open", "map", "write"} \/ LeaveFirst(r), entered'[0] = 2 PROVE Committed'
    <3>1. CASE LeaveFirst(r)
      <4>1. /\ UNCHANGED <<job, commit, frags, merged, registered>> /\ r # 0 /\ entered[0] = 2
            /\ \A q \in Parts : pc'[q] = pc[q] \/ pc'[q] = "barrier2"
        BY <1>0, <2>1, <3>1 DEF LeaveFirst, files, Goto, Control
      <4>2. pc'[0] = pc[0]
        BY <1>0, <3>1, <4>1 DEF LeaveFirst, Goto, Control
      <4> QED
        BY <4>1, <4>2 DEF Committed, CommittedIsComplete, NobodyMaps, Mapping
    <3>2. CASE pc[r] \in {"open", "map", "write"} /\ ~LeaveFirst(r)
      <4>1. entered[0] # 2
        BY <3>2 DEF Committed, NobodyMaps, Mapping
      <4>2. entered'[0] \in {0, 1} \/ entered'[0] = entered[0]
        BY <1>0, <1>1, <3>2 DEF RankStep, Open, OpenFails, Process, Close, WriteFragment, LeaveSecond,
           BarrierRaises, Crash, Control
      <4> QED
        BY <2>1, <4>1, <4>2
    <3> QED
      BY <2>1, <3>1, <3>2
  <2>2. CASE LeaveSecond(r) \/ BarrierRaises(r) \/ (Crash(r) /\ pc[r] \notin Mapping)
    <3>1. /\ UNCHANGED <<job, entered, commit, frags, merged, registered>>
          /\ \A q \in Parts : pc'[q] = pc[q] \/ pc'[q] \in {"returned", "dead"}
      BY <2>2 DEF LeaveSecond, BarrierRaises, Crash, files, Goto, Control
    <3> QED
      BY <1>0, <3>1 DEF Committed, CommittedIsComplete, NobodyMaps, Mapping
  <2> QED
    BY <1>1, <2>1, <2>2 DEF RankStep, Committed, Mapping, Open, OpenFails, Process, Close, WriteFragment
<1>2. ASSUME NEW j \in Jobs, Launch(j) PROVE Committed'
  BY <1>0, <1>2 DEF Launch, Committed
<1>3. CASE EndCommit
  <2>1. CASE pc[0] = "committing"
    BY <1>3, <2>1, EndCompletes
  <2>2. CASE pc[0] # "committing"
    BY <1>3, <2>2 DEF EndCommit, Committed, NoCommit
  <2> QED BY <2>1, <2>2
<1>4. CASE RankCommits \/ RankCommitFails \/ CommitStops
  <2>1. entered[0] # 2
    <3>1. CASE RankCommits \/ RankCommitFails
      BY <3>1 DEF RankCommits, RankCommitFails, Committed
    <3>2. CASE CommitStops
      BY <3>2, DistAssumption DEF CommitStops, Committed, NoCommit
    <3> QED BY <1>4, <3>1, <3>2
  <2>2. entered'[0] # 2
    BY <1>0, <1>4, <2>1 DEF RankCommits, RankCommitFails, CommitStops, RankZeroRaises, Control
  <2> QED
    BY <2>2 DEF Committed
<1>5. CASE UserCommits
  <2>1. entered[0] # 2 /\ UNCHANGED entered
    BY <1>5 DEF UserCommits, Fragments, Committed, ranks
  <2> QED
    BY <2>1 DEF Committed
<1>6. CASE CreateMerged \/ WriteMerged \/ RegisterMerged \/ \E p \in Parts : Consume(p)
  <2>1. commit # NoCommit /\ UNCHANGED entered
    BY <1>6 DEF CreateMerged, WriteMerged, RegisterMerged, Consume, CommitAt, ranks, NoCommit
  <2> QED
    BY <2>1 DEF Committed
<1>7. CASE Rest \/ UNCHANGED vars
  BY <1>7 DEF Rest, vars, ranks, files, history, Committed, CommittedIsComplete, NobodyMaps
<1> QED
  BY <1>1, <1>2, <1>3, <1>4, <1>5, <1>6, <1>7 DEF Next, CommitStep

\* Unless a commit dies while it writes the layer index, the layer that rank 0 has
\* committed has one row for every sample of the view, ascending, and the manifest
\* counts them: however the ranks interleave, and whoever dies.
THEOREM CommittedAlwaysComplete ==
  ASSUME FilesDiffer, "write" \notin CommitStopsAt PROVE Spec => []CommittedIsComplete
<1> DEFINE I == Control /\ Stored /\ NoRowLost /\ CommitHolds /\ Mapped /\ Committed
<1>1. Init => I
  <2> SUFFICES ASSUME Init PROVE Mapped /\ Committed
    BY ControlInit, StoredInit, HoldsInit
  <2>1. 0 \in Parts
    BY DistAssumption
  <2> QED
    BY <2>1 DEF Init, Mapped, HasMapped, Committed
<1>2. I /\ [Next]_vars => I'
  BY ControlStep, StoredStep, HoldsStep, MappedStep, CommittedStep
<1>3. I => CommittedIsComplete
  BY DEF Committed, CommittedIsComplete
<1> QED
  BY <1>1, <1>2, <1>3, PTL DEF Spec
-----------------------------------------------------------------------------
(* No two ranks map one sample in one job: a row's job tells the world it    *)
(* was mapped in, and its sample_id modulo that world the rank.              *)

Residues(W) ==
  \A p \in Parts : \A row \in RowSet(RowsIn(frags[p])) \cup RowSet(w[p].rows) :
    row.val # NoBlob => row.val \in 0 .. job.n /\ row.id % W[row.val] = p

WorldsOf(W) ==
  W \in [0 .. MaxJobs -> Nat \ {0}] /\ W[job.n] = job.world /\ Residues(W)

Sharded == \E W : WorldsOf(W)

LEMMA ResiduesSame ==
  ASSUME Sharded, UNCHANGED job,
         \A p \in Parts : /\ RowSet(RowsIn(frags'[p])) \subseteq RowSet(RowsIn(frags[p])) \cup RowSet(w[p].rows)
                          /\ RowSet(w'[p].rows) \subseteq RowSet(RowsIn(frags[p])) \cup RowSet(w[p].rows)
  PROVE  Sharded'
<1>1. PICK W : WorldsOf(W)
  BY DEF Sharded
<1>2. WorldsOf(W)'
  BY <1>1 DEF WorldsOf, Residues
<1> QED
  BY <1>2 DEF Sharded

LEMMA ShardedProcess ==
  ASSUME Control, Stored, Sharded,
         NEW r \in Parts, NEW k \in todo[r], NEW v \in {job.n, NoBlob}, Process(r, k, v)
  PROVE  Sharded'
<1>1. PICK row : w'[r].rows = Append(w[r].rows, row) /\ RowType(row) /\ row.id = job.view[k] /\ row.val = v
  BY DistProcess
<1>2. RowSet(w'[r].rows) = RowSet(w[r].rows) \cup {row}
  BY <1>1, TypedAppended DEF Stored
<1>3. /\ UNCHANGED <<job, frags>> /\ pc[r] = "map" /\ \A q \in Parts : q # r => w'[q] = w[q]
  BY DistProcess DEF Process
<1>4. row.id % job.world = r
  BY <1>1, <1>3 DEF Stored, Mine
<1>5. PICK W : WorldsOf(W)
  BY DEF Sharded
<1>6. row.val # NoBlob => row.val \in 0 .. job.n /\ row.id % W[row.val] = r
  <2>1. job.n \in Nat
    BY DistAssumption DEF Control
  <2> QED
    BY <1>1, <1>4, <1>5, <2>1 DEF WorldsOf
<1>7. WorldsOf(W)'
  BY <1>2, <1>3, <1>5, <1>6 DEF WorldsOf, Residues
<1> QED
  BY <1>7 DEF Sharded

LEMMA ShardedLaunch ==
  ASSUME Control, Sharded, NEW j \in Jobs, Launch(j) PROVE Sharded'
<1>1. PICK W : WorldsOf(W)
  BY DEF Sharded
<1>2. /\ job'.n = job.n + 1 /\ job'.world = j.world /\ UNCHANGED <<w, frags>>
      /\ job.n \in Nat /\ job.n < MaxJobs /\ j.world \in Nat \ {0} /\ MaxJobs \in Nat
  BY DistAssumption DEF Launch, files, Control
<1>3. PICK V : V = [W EXCEPT ![job.n + 1] = j.world]
  OBVIOUS
<1>4. /\ V \in [0 .. MaxJobs -> Nat \ {0}] /\ V[job.n + 1] = j.world
      /\ \A n \in 0 .. job.n : V[n] = W[n]
  BY <1>1, <1>2, <1>3 DEF WorldsOf
<1>5. ASSUME NEW p \in Parts, NEW row \in RowSet(RowsIn(frags[p])) \cup RowSet(w[p].rows),
             row.val # NoBlob
      PROVE  row.val \in 0 .. job'.n /\ row.id % V[row.val] = p
  <2>1. row.val \in 0 .. job.n /\ row.id % W[row.val] = p
    BY <1>1, <1>5 DEF WorldsOf, Residues
  <2> QED
    BY <1>2, <1>4, <2>1
<1>6. WorldsOf(V)'
  BY <1>2, <1>4, <1>5 DEF WorldsOf, Residues
<1> QED
  BY <1>6 DEF Sharded

LEMMA ShardedStep == ASSUME Control, Stored, Sharded, [Next]_vars PROVE Sharded'
<1>1. ASSUME NEW r \in Parts, RankStep(r) \/ Crash(r) PROVE Sharded'
  <2>1. CASE Open(r)
    <3>1. /\ UNCHANGED <<job, frags>> /\ w'[r].rows = RowsIn(frags[r])
          /\ \A q \in Parts : q # r => w'[q] = w[q]
      BY <2>1 DEF Open, files, Stored, Opened
    <3> QED
      BY <3>1, ResiduesSame
  <2>2. CASE WriteFragment(r)
    <3>1. /\ UNCHANGED <<job, w>> /\ \A q \in Parts : q # r => frags'[q] = frags[q]
          /\ RowsIn(frags'[r]) = w[r].rows \/ RowsIn(frags'[r]) = <<>>
      BY <2>2, RowsInEither DEF WriteFragment, Stored
    <3> QED
      BY <3>1, EmptyTyped, ResiduesSame
  <2>3. CASE Close(r)
    <3>1. /\ UNCHANGED job /\ w' = [w EXCEPT ![r] = [w[r] EXCEPT !.open = FALSE]]
          /\ \A q \in Parts : q # r => frags'[q] = frags[q]
          /\ RowsIn(frags'[r]) = <<>>
      BY <2>3, TornReadsEmpty DEF Close, Stored
    <3>2. w'[r].rows = w[r].rows /\ \A q \in Parts : q # r => w'[q] = w[q]
      BY <3>1, ClosedFacts DEF Stored
    <3> QED
      BY <3>1, <3>2, EmptyTyped, ResiduesSame
  <2>4. CASE Crash(r)
    <3>1. UNCHANGED <<job, frags>> /\ w' = [w EXCEPT ![r] = [w[r] EXCEPT !.open = FALSE]]
      BY <2>4 DEF Crash, files
    <3>2. w'[r].rows = w[r].rows /\ \A q \in Parts : q # r => w'[q] = w[q]
      BY <3>1, ClosedFacts DEF Stored
    <3> QED
      BY <3>1, <3>2, ResiduesSame
  <2>5. CASE OpenFails(r) \/ LeaveFirst(r) \/ LeaveSecond(r) \/ BarrierRaises(r)
    BY <2>5, ResiduesSame DEF OpenFails, LeaveFirst, LeaveSecond, BarrierRaises, files
  <2> QED
    BY <1>1, <2>1, <2>2, <2>3, <2>4, <2>5, ShardedProcess DEF RankStep
<1>2. CASE RankCommits \/ RankCommitFails \/ UserCommits \/ CreateMerged \/ WriteMerged
           \/ RegisterMerged \/ EndCommit \/ CommitStops
  <2>1. UNCHANGED <<job, w, frags>>
    BY <1>2 DEF RankCommits, RankCommitFails, UserCommits, CreateMerged, WriteMerged, RegisterMerged,
       EndCommit, CommitStops, CommitAt, files, ranks
  <2> QED
    BY <2>1, ResiduesSame
<1>3. ASSUME NEW p \in Parts, Consume(p) PROVE Sharded'
  <2>1. /\ UNCHANGED <<job, w>> /\ RowsIn(frags'[p]) = <<>>
        /\ \A q \in Parts : q # p => frags'[q] = frags[q]
    BY <1>3, TornReadsEmpty DEF Consume, ranks, Stored
  <2> QED
    BY <2>1, EmptyTyped, ResiduesSame
<1>4. CASE Rest \/ UNCHANGED vars
  BY <1>4, ResiduesSame DEF Rest, vars, ranks, files
<1> QED
  BY <1>1, <1>2, <1>3, <1>4, ShardedLaunch DEF Next, CommitStep

\* Two fragments never hold one sample mapped by the same job, however the world
\* changes from job to job and whatever older rows a fragment was resumed with.
THEOREM RanksAlwaysDisjoint == Spec => []RanksDisjoint
<1>1. Init => Control /\ Stored /\ Sharded
  <2> SUFFICES ASSUME Init PROVE Sharded
    BY ControlInit, StoredInit
  <2>1. /\ \A p \in Parts : RowSet(RowsIn(frags[p])) = {} /\ RowSet(w[p].rows) = {}
        /\ job.n = 0 /\ job.world = 1 /\ MaxJobs \in Nat
    BY EmptyTyped, TornReadsEmpty, DistAssumption DEF Init, Opened
  <2>2. WorldsOf([n \in 0 .. MaxJobs |-> 1])
    <3>1. Residues([n \in 0 .. MaxJobs |-> 1])
      BY <2>1 DEF Residues
    <3>2. [n \in 0 .. MaxJobs |-> 1] \in [0 .. MaxJobs -> Nat \ {0}] /\ 0 \in 0 .. MaxJobs
      BY <2>1
    <3> QED
      BY <2>1, <3>1, <3>2 DEF WorldsOf
  <2> QED
    BY <2>2 DEF Sharded
<1>2. Control /\ Stored /\ Sharded /\ [Next]_vars => (Control /\ Stored /\ Sharded)'
  BY ControlStep, StoredStep, ShardedStep
<1>3. Sharded => RanksDisjoint
  BY DEF Sharded, WorldsOf, Residues, RanksDisjoint
<1> QED
  BY <1>1, <1>2, <1>3, PTL DEF Spec

=============================================================================
