\* A second distributed map over a committed layer.
SPECIFICATION Spec
CONSTANTS
  Samples <- MCSamples
  Parts <- MCParts
  Target = 3
  Single = Single
  Absent = Absent
  Torn = Torn
  Jobs <- MCSplitJobs
  Remap = TRUE
  CrashPoints = {"map", "write", "barrier1", "barrier2"}
  CommitStopsAt = {"create", "register", "consume"}
  MaxJobs = 2
  MaxCrashes = 2
  MaxCommits = 1
  MaxShards = 4
INVARIANT ReadsBackBetweenJobs
