\* Does an accepted sample always reach the published dataset?
SPECIFICATION Spec
CONSTANTS
  small = small
  wide = wide
  huge = huge
  bare = bare
  Samples <- MCSamples
  Payload <- MCPayload
  Extent <- MCExtent
  Target = 6
  MaxMember = 3
  Faults = {"finish"}
  MaxShards = 4
  MaxRows = 3
  MaxTries = 2
INVARIANT AckedDurable
