\* Two callers over the shared cache directory, with every fault.
SPECIFICATION Spec
CONSTANTS
  t1 = t1
  t2 = t2
  p1 = p1
  p2 = p2
  Threads <- MCThreads
  Procs = {p1, p2}
  Placements <- MCPlacements
  Dirs <- MCDirs
  BaseHas = {0, 1}
  LayerHas <- MCLayerHas
  Asks <- MCAsks
  Chunks = 1
  Files = {1, 2, 3, 4}
  Faults = {"store", "write", "crash"}
  Cap = 1
  MaxCalls = 2
  MaxFaults = 2
INVARIANTS TypeOK LruAgrees AnswerRight AtRestWhole
PROPERTY EveryCallReturns
