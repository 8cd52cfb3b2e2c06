------------------------------- MODULE DistMap -------------------------------
(***************************************************************************)
(* Dataset.map on several ranks (StaticPartitionExecutor): every rank maps *)
(* the samples with sample_id % world = rank into shards and a fragment    *)
(* index of its own, then rank 0 commits between two barriers: merge the   *)
(* fragments into the layer index, register, remove the fragments.  Where  *)
(* no barrier is available the user runs the commit (commit_layer).  Jobs  *)
(* follow one another, with other views and world sizes; ranks may die.    *)
(*                                                                         *)
(* torch.distributed is external: a barrier lets its ranks go once all of  *)
(* them have entered it, and raises, after its timeout, in a rank whose    *)
(* peer will never come.  The .done markers are never read and left out.   *)
(***************************************************************************)
EXTENDS LayerFiles, FiniteSets

CONSTANTS
  Jobs,           \* what the user launches: [world, view, dist], dist when
                  \* torch.distributed is initialized
  Remap,          \* are jobs launched over a layer whose fragments were consumed?
  CrashPoints,    \* where a rank may die
  CommitStopsAt,  \* where a commit may die or fail
  MaxJobs,        \* bound: jobs launched
  MaxCrashes,     \* bound: processes that die
  MaxCommits,     \* bound: commits run by the user
  MaxShards       \* bound: shard files of one partition

RankPhases == {"off", "open", "map", "write", "barrier1", "commit",
               "committing", "barrier2", "returned", "dead"}
CommitPhases == {"none", "create", "write", "register", "consume"}
Unregistered == -1

ASSUME DistAssumption ==
  /\ 0 \in Parts
  /\ \A p \in Parts : p < 10     \* part_files.sort() is by name: numeric up to here
  /\ \A j \in Jobs : j.world \in Nat \ {0} /\ 0 .. j.world - 1 \subseteq Parts
  /\ \A j \in Jobs : j.view \in Seq(Samples) /\ j.dist \in BOOLEAN
  /\ Remap \in BOOLEAN
  /\ CrashPoints \subseteq RankPhases \ {"off", "committing", "returned", "dead"}
  /\ CommitStopsAt \subseteq CommitPhases \ {"none"}
  /\ MaxJobs \in Nat /\ MaxCrashes \in Nat /\ MaxShards \in Nat

VARIABLES
  job,         \* the job launched last, with its number n, see Jobs
  pc,          \* per rank
  w,           \* per rank, its LayerWriter
  todo,        \* per rank, the positions it has still to process
  entered,     \* per rank, how many barriers of this job it has entered
  commit,      \* the commit in progress: where it is, its rows, fragments left
  frags,       \* index/<layer>.part-<p>.parquet
  merged,      \* index/<layer>.parquet
  shards,      \* shards/<layer>/shard-<p>-<n>.tar
  registered,  \* rows of the manifest's LayerRef, or Unregistered
  kept,        \* history: per partition, the ids its completed fragment held
  consumed,    \* history: partitions whose fragment a commit has removed
  crashes,     \* history, bounded by MaxCrashes
  commits      \* history, bounded by MaxCommits

files == <<frags, merged, shards, registered>>
ranks == <<pc, w, todo, entered>>
history == <<kept, consumed, crashes, commits>>
vars == <<job, ranks, commit, files, history>>

Ranks == 0 .. job.world - 1
Names == (Parts \X (0 .. MaxShards - 1))
NoCommit == [at |-> "none", rows |-> <<>>, left |-> {}]

Init ==
  /\ job = [n |-> 0, world |-> 1, view |-> <<>>, dist |-> FALSE]
  /\ pc = [r \in Parts |-> "off"]
  /\ w = [r \in Parts |-> Opened(r, Absent)]
  /\ todo = [r \in Parts |-> {}]
  /\ entered = [r \in Parts |-> 0]
  /\ commit = NoCommit
  /\ frags = [p \in Parts |-> Absent]
  /\ merged = Absent
  /\ shards = [n \in Names |-> <<>>]
  /\ registered = Unregistered
  /\ kept = [p \in Parts |-> {}]
  /\ consumed = {} /\ crashes = 0 /\ commits = 0

Goto(r, s) == pc' = [pc EXCEPT ![r] = s]
Over(r) == pc[r] \in {"off", "returned", "dead"}
Quiet == commit = NoCommit /\ \A r \in Parts : Over(r)

\* The user launches the job on world processes.
Launch(j) ==
  /\ Quiet /\ job.n < MaxJobs
  /\ Remap \/ consumed = {}
  /\ job' = [n |-> job.n + 1, world |-> j.world, view |-> j.view, dist |-> j.dist]
  /\ pc' = [r \in Parts |-> IF r < j.world THEN "open" ELSE "off"]
  /\ entered' = [r \in Parts |-> 0]
  /\ UNCHANGED <<w, todo, commit, files, history>>
-----------------------------------------------------------------------------
(* One rank.                                                                 *)

MineUpTo(r) ==   \* slip: <= rank
  {k \in 1 .. Len(job.view) : job.view[k] % job.world <= r}

\* positions with sample_id(p) % world == rank
Mine(r) == {k \in 1 .. Len(job.view) : job.view[k] % job.world = r}

\* create_partition, and the samples its own fragment does not have yet
Open(r) ==
  /\ pc[r] = "open" /\ frags[r] # Torn
  /\ w' = [w EXCEPT ![r] = Opened(r, frags[r])]
  /\ todo' = [todo EXCEPT ![r] = {k \in Mine(r) : job.view[k] \notin Ids(RowsIn(frags[r]))}]
  /\ Goto(r, "map")
  /\ UNCHANGED <<job, entered, commit, files, history>>

\* Its fragment is torn: create_partition returns Err and the rank raises.
OpenFails(r) ==
  /\ pc[r] = "open" /\ frags[r] = Torn
  /\ Goto(r, "dead")
  /\ UNCHANGED <<job, w, todo, entered, commit, files, history>>

\* fn on its next sample, then writer.add
Process(r, k, v) ==
  /\ pc[r] = "map" /\ k \in todo[r] /\ \A j \in todo[r] : k <= j
  /\ w[r].sid + 1 < MaxShards
  /\ w' = [w EXCEPT ![r] = Added(@, shards, job.view[k], v)]
  /\ shards' = AddedShards(w[r], shards, job.view[k], v)
  /\ todo' = [todo EXCEPT ![r] = @ \ {k}]
  /\ UNCHANGED <<job, pc, entered, commit, frags, merged, registered, history>>

\* close: finish_shard, and the fragment created in place ...
Close(r) ==
  /\ pc[r] = "map" /\ todo[r] = {}
  /\ w' = [w EXCEPT ![r].open = FALSE]
  /\ frags' = [frags EXCEPT ![r] = Torn]
  /\ Goto(r, "write")
  /\ UNCHANGED <<job, todo, entered, commit, merged, shards, registered, history>>

\* ... and written.  Then _commit: the first barrier, or for a single rank the
\* commit, or nothing.
WriteFragment(r) ==
  /\ pc[r] = "write"
  /\ frags' = [frags EXCEPT ![r] = w[r].rows]
  /\ kept' = [kept EXCEPT ![r] = Ids(w[r].rows)]
  /\ Goto(r, IF job.dist THEN "barrier1" ELSE IF job.world = 1 THEN "commit" ELSE "returned")
  /\ entered' = [entered EXCEPT ![r] = IF job.dist THEN 1 ELSE 0]
  /\ UNCHANGED <<job, w, todo, commit, merged, shards, registered, consumed, crashes, commits>>

AllEnteredSelf(r, k) == entered[r] = k   \* slip: the barrier waits for nobody
AllEntered(r, k) == \A q \in Ranks : entered[q] >= k

LeaveFirst(r) ==
  /\ pc[r] = "barrier1" /\ AllEntered(r, 1)
  /\ Goto(r, IF r = 0 THEN "commit" ELSE "barrier2")
  /\ entered' = [entered EXCEPT ![r] = IF r = 0 THEN 1 ELSE 2]
  /\ UNCHANGED <<job, w, todo, commit, files, history>>

LeaveSecond(r) ==
  /\ pc[r] = "barrier2" /\ AllEntered(r, 2)
  /\ Goto(r, "returned")
  /\ UNCHANGED <<job, w, todo, entered, commit, files, history>>

\* `except Exception: pass`: a rank whose barrier raised prints and returns.
BarrierRaises(r) ==
  /\ pc[r] \in {"barrier1", "barrier2"}
  /\ \E q \in Ranks : Over(q) /\ entered[q] < entered[r]
  /\ Goto(r, "returned")
  /\ UNCHANGED <<job, w, todo, entered, commit, files, history>>

Crash(r) ==
  /\ pc[r] \in CrashPoints /\ crashes < MaxCrashes
  /\ crashes' = crashes + 1
  /\ w' = [w EXCEPT ![r].open = FALSE]
  /\ Goto(r, "dead")
  /\ UNCHANGED <<job, todo, entered, commit, files, kept, consumed, commits>>
-----------------------------------------------------------------------------
(* LayerWriter::commit, run by rank 0 or by the user.                        *)

FragmentIds == UNION {Ids(RowsIn(frags[p])) : p \in Parts}

\* merged.insert over the committed rows, then the fragments by file name
MergedRow(s) ==
  LET with == {p \in Parts : s \in Ids(RowsIn(frags[p]))}
  IN IF with = {} THEN Visible(merged, s)
     ELSE Visible(frags[CHOOSE p \in with : \A q \in with : q <= p], s)

MergedIdsOfFragments == FragmentIds   \* slip: the committed rows are not carried over
MergedIds == Ids(RowsIn(merged)) \cup FragmentIds

\* BTreeMap::into_values: ascending sample_id
MergedRows ==
  [k \in 1 .. Cardinality(MergedIds) |->
     MergedRow(CHOOSE s \in MergedIds :
                 Cardinality({t \in MergedIds : t < s}) = k - 1)]

Fragments == {p \in Parts : frags[p] # Absent}
CommitReads == merged # Torn /\ \A p \in Parts : frags[p] # Torn

BeginCommit ==
  /\ commit = NoCommit /\ CommitReads
  /\ commit' = [at |-> "create", rows |-> MergedRows, left |-> Fragments]

RankCommits ==
  /\ pc[0] = "commit"
  /\ BeginCommit
  /\ Goto(0, "committing")
  /\ UNCHANGED <<job, w, todo, entered, files, history>>

\* An exception in rank 0's commit.  Between the barriers `except Exception: pass`
\* swallows it: rank 0 prints and returns without the second barrier or, if it is
\* alone, commits once more, outside the try.
RankZeroRaises ==
  IF entered[0] = 1 /\ job.world = 1
  THEN /\ Goto(0, "commit")
       /\ entered' = [entered EXCEPT ![0] = 0]
  ELSE /\ Goto(0, IF entered[0] = 1 THEN "returned" ELSE "dead")
       /\ UNCHANGED entered

RankCommitLoops ==   \* slip: a commit that cannot read is tried again for ever
  /\ pc[0] = "commit" /\ ~CommitReads
  /\ UNCHANGED vars

\* A torn file: commit returns Err before it writes anything.
RankCommitFails ==
  /\ pc[0] = "commit" /\ ~CommitReads
  /\ RankZeroRaises
  /\ UNCHANGED <<job, w, todo, commit, files, history>>

\* ferroload.commit_layer, once every rank has finished
UserCommits ==
  /\ Quiet /\ job.n > 0 /\ commits < MaxCommits
  /\ Fragments # {}
  /\ commits' = commits + 1
  /\ BeginCommit
  /\ UNCHANGED <<job, ranks, files, kept, consumed, crashes>>

CommitAt(here, there) ==
  /\ commit.at = here
  /\ commit' = [commit EXCEPT !.at = there]
  /\ UNCHANGED <<job, ranks, frags, shards, history>>

WriteMergedAndConsume ==   \* slip: the fragments are consumed before the layer is registered
  CommitAt("write", "consume") /\ merged' = commit.rows /\ UNCHANGED registered

CreateMerged == CommitAt("create", "write") /\ merged' = Torn /\ UNCHANGED registered
WriteMerged == CommitAt("write", "register") /\ merged' = commit.rows /\ UNCHANGED registered
RegisterMerged ==
  CommitAt("register", "consume") /\ registered' = Len(commit.rows) /\ UNCHANGED merged

Consume(p) ==
  /\ commit.at = "consume" /\ p \in commit.left
  /\ frags' = [frags EXCEPT ![p] = Absent]
  /\ consumed' = consumed \cup {p}
  /\ commit' = [commit EXCEPT !.left = @ \ {p}]
  /\ UNCHANGED <<job, ranks, merged, shards, registered, kept, crashes, commits>>

\* The commit returns; rank 0 enters the second barrier.
EndCommit ==
  /\ commit.at = "consume" /\ commit.left = {}
  /\ commit' = NoCommit
  /\ IF pc[0] = "committing"
     THEN /\ Goto(0, IF entered[0] = 1 THEN "barrier2" ELSE "returned")
          /\ entered' = [entered EXCEPT ![0] = 2]
     ELSE UNCHANGED <<pc, entered>>
  /\ UNCHANGED <<job, w, todo, files, history>>

\* The committing process dies, or an I/O error ends its commit.
CommitStops ==
  /\ commit.at \in CommitStopsAt /\ crashes < MaxCrashes
  /\ crashes' = crashes + 1
  /\ commit' = NoCommit
  /\ IF pc[0] # "committing" THEN UNCHANGED <<pc, entered>>
     ELSE (Goto(0, "dead") /\ UNCHANGED entered) \/ RankZeroRaises
  /\ UNCHANGED <<job, w, todo, files, kept, consumed, commits>>
-----------------------------------------------------------------------------
Rest == Quiet /\ UNCHANGED vars

RankStep(r) ==
  \/ Open(r) \/ OpenFails(r) \/ (\E k \in todo[r], v \in {job.n, NoBlob} : Process(r, k, v)) \/ Close(r)
  \/ WriteFragment(r) \/ LeaveFirst(r) \/ LeaveSecond(r) \/ BarrierRaises(r)

CommitStep ==
  \/ RankCommits \/ RankCommitFails
  \/ CreateMerged \/ WriteMerged \/ RegisterMerged
  \/ (\E p \in Parts : Consume(p)) \/ EndCommit

Next ==
  \/ \E j \in Jobs : Launch(j)
  \/ \E r \in Parts : RankStep(r) \/ Crash(r)
  \/ CommitStep \/ UserCommits \/ CommitStops \/ Rest

\* Every live rank and the committing process keep running, and a barrier that
\* cannot complete times out.
Fairness == (\A r \in Parts : WF_vars(RankStep(r))) /\ WF_vars(CommitStep)

Spec == Init /\ [][Next]_vars /\ Fairness
-----------------------------------------------------------------------------
RowType(r) ==
  /\ r.id \in Samples /\ r.shard \in Names /\ r.at \in Nat /\ r.val \in 0 .. MaxJobs
FileType(f) == f = Absent \/ f = Torn \/ \A k \in 1 .. Len(f) : RowType(f[k])

TypeOK ==
  /\ pc \in [Parts -> RankPhases]
  /\ \A r \in Parts : w[r].part = r /\ w[r].sid \in -1 .. MaxShards - 1
  /\ \A r \in Parts : pc[r] = "map" => todo[r] \subseteq Mine(r)
  /\ entered \in [Parts -> 0 .. 2]
  /\ commit.at \in CommitPhases /\ FileType(commit.rows) /\ commit.left \subseteq Parts
  /\ \A p \in Parts : FileType(frags[p])
  /\ FileType(merged)
  /\ DOMAIN shards = Names
  /\ registered \in Nat \cup {Unregistered}

\* Every row of the layer index and of every fragment reads back the bytes its
\* rank stored, while other ranks write and after any of them died.
CommittedReadsBack ==
  /\ \A r \in RowSet(RowsIn(merged)) : ReadsBack(r, shards)
  /\ \A p \in Parts : \A r \in RowSet(RowsIn(frags[p])) : ReadsBack(r, shards)

\* dataset.rs:942-943 "merging is keyed by sample_id, so re-running is safe": once a
\* job is over, and no process died, the committed layer reads back.
ReadsBackBetweenJobs ==
  Quiet /\ crashes = 0 => \A r \in RowSet(RowsIn(merged)) : ReadsBack(r, shards)

\* A row leaves its fragment only for the layer index: whatever a rank completed
\* is in one of the two, unless its own rerun tore the fragment.
NoRowLost ==
  \A p \in Parts : \A s \in kept[p] :
    \/ frags[p] = Torn
    \/ s \in Ids(RowsIn(frags[p])) \cup Ids(RowsIn(merged))
    \/ merged = Torn /\ s \in Ids(commit.rows)

\* Fragments are removed only after the manifest names the index that has them.
ConsumedIsRegistered == consumed # {} => registered # Unregistered

\* Once rank 0 has committed, the layer has one row for every sample of the job's
\* view, in ascending order, and the manifest counts them.
CommittedIsComplete ==
  entered[0] = 2 =>
    /\ \A k \in 1 .. Len(job.view) : job.view[k] \in Ids(RowsIn(merged))
    /\ \A k \in 1 .. Len(merged) - 1 : merged[k].id < merged[k + 1].id
    /\ registered = Len(merged)

\* No two ranks of one job map the same sample.
RanksDisjoint ==
  \A p, q \in Parts : p # q =>
    \A a \in RowSet(RowsIn(frags[p])), b \in RowSet(RowsIn(frags[q])) :
      a.val = b.val /\ a.val # NoBlob => a.id # b.id

\* No rank waits forever at a barrier or behind a commit.
JobEnds == \A r \in Parts : pc[r] = "open" ~> Over(r)
=============================================================================
