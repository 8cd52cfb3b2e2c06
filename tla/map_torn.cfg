\* A run that dies while it writes the layer index in place.
SPECIFICATION Spec
CONSTANTS
  Samples <- MCSamples
  Parts = {}
  Target = 3
  Single = Single
  Absent = Absent
  Torn = Torn
  Views <- MCViews
  Resumes = {TRUE}
  NoneAllowed = TRUE
  CrashPoints = {"write"}
  MaxRuns = 3
  MaxCrashes = 2
  MaxShards = 7
INVARIANT PreviousVersionIntact
