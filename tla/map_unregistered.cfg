\* A run that dies between the layer index and the manifest, then a rerun.
SPECIFICATION Spec
CONSTANTS
  Samples <- MCSamples
  Parts = {}
  Target = 3
  Single = Single
  Absent = Absent
  Torn = Torn
  Views <- MCViews
  Resumes = {TRUE}
  NoneAllowed = TRUE
  CrashPoints = {"register"}
  MaxRuns = 3
  MaxCrashes = 2
  MaxShards = 7
INVARIANT ReturnedIsRegistered
