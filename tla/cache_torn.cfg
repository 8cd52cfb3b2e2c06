\* No fault at all: two callers that miss the same entry share its .tmp file.
SPECIFICATION Spec
CONSTANTS
  t1 = t1
  t2 = t2
  p1 = p1
  p2 = p2
  Threads <- MCThreads
  Procs = {p1, p2}
  Placements <- MCPlacements
  Dirs <- MCDirs
  BaseHas = {0, 1}
  LayerHas <- MCLayerHas
  Asks <- MCAsks
  Chunks = 2
  Files = {1, 2, 3, 4}
  Faults = {}
  Cap = 1
  MaxCalls = 2
  MaxFaults = 0
INVARIANT EntryWhole
