--------------------------- MODULE MCRemoteReads ---------------------------
(* Two callers, in one process or in two, over four samples in two index      *)
(* shards: the base holds the blobs of 0 and 1, the last layer that of 3, and *)
(* that of 2 is in a layer the last one hides.  Position 4 is past the end.   *)
EXTENDS RemoteReads

CONSTANTS t1, t2, p1, p2   \* model values

MCThreads == {t1, t2}
MCPlacements == {[t \in MCThreads |-> p1], [t \in MCThreads |-> IF t = t1 THEN p1 ELSE p2]}
MCDirs == {<<2, 2>>}
MCLayerHas == <<{2}, {3}>>
MCAsks == {<<1, 0>>, <<3>>, <<2, 4>>}
=============================================================================
