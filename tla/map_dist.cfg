\* Two jobs of one or two ranks, under torch.distributed or not, with crashes and a user's commit.
SPECIFICATION Spec
CONSTANTS
  Samples <- MCSamples
  Parts <- MCParts
  Target = 3
  Single = Single
  Absent = Absent
  Torn = Torn
  Jobs <- MCJobs
  Remap = FALSE
  CrashPoints = {"map", "write", "barrier1", "barrier2"}
  CommitStopsAt = {"create", "register", "consume"}
  MaxJobs = 2
  MaxCrashes = 2
  MaxCommits = 1
  MaxShards = 4
INVARIANTS
  TypeOK CommittedReadsBack NoRowLost ConsumedIsRegistered
  CommittedIsComplete RanksDisjoint
PROPERTY JobEnds
