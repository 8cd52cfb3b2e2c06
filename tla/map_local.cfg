\* Runs, resumed or not, that may die anywhere.
SPECIFICATION Spec
CONSTANTS
  Samples <- MCSamples
  Parts = {}
  Target = 3
  Single = Single
  Absent = Absent
  Torn = Torn
  Views <- MCViews
  Resumes = {TRUE, FALSE}
  NoneAllowed = TRUE
  CrashPoints = {"map", "index", "write", "register"}
  MaxRuns = 3
  MaxCrashes = 2
  MaxShards = 7
INVARIANTS TypeOK IndexReadsBack OneRowPerSample ManifestMatchesIndex ReturnedUnlessLate
PROPERTY RefinesTable
