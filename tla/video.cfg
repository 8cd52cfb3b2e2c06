\* Two threads decode batches of clips, with every fault: are the clips right,
\* and does each batch end?
SPECIFICATION FairSpec
CONSTANTS
  t1 = t1
  t2 = t2
  p1 = p1
  p2 = p2
  true = true
  none = none
  over = over
  under = under
  NoClip = NoClip
  Threads <- MCThreads
  Procs = {p1, p2}
  Placements <- MCPlacements
  Clips <- MCClips
  Reported <- MCReported
  Decodable <- MCDecodable
  Batches <- MCBatches
  Requests <- MCRequests
  Faults = {"store", "disk", "codec", "crash"}
  MaxCalls = 2
  MaxFaults = 1
INVARIANTS TypeOK ClipsRight NoLitter
PROPERTY BatchEnds
