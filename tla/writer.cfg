\* Base write path with failing steps, a crash and a rerun.
SPECIFICATION Spec
CONSTANTS
  small = small
  wide = wide
  huge = huge
  bare = bare
  Samples <- MCSamples
  Payload <- MCPayload
  Extent <- MCExtent
  Target = 6
  MaxMember = 3
  Faults = {"finish", "create", "append"}
  MaxShards = 4
  MaxRows = 3
  MaxTries = 2
INVARIANTS TypeOK DirectorySound ReadBack AckedHonoured LimitsRespected
PROPERTY RefinesLog
