--------------------------- MODULE MCVideoDecode ---------------------------
(* Two threads, of one process or of two, over a clip with a true count, one  *)
(* without, one that reports too many frames and one that reports too few.    *)
EXTENDS VideoDecode

CONSTANTS t1, t2, p1, p2, true, none, over, under   \* model values

MCThreads == {t1, t2}
MCPlacements == {[t \in MCThreads |-> p1], [t \in MCThreads |-> IF t = t1 THEN p1 ELSE p2]}
MCClips == {true, none, over, under}
MCReported == [c \in MCClips |-> CASE c = true -> 3 [] c = none -> 0 [] c = over -> 3 [] c = under -> 1]
MCDecodable == [c \in MCClips |-> CASE c = true -> 3 [] c = over -> 1 [] OTHER -> 2]
MCBatches == {<<true, over>>, <<under>>, <<none, NoClip>>}
MCRequests == {[num |-> 2, sampling |-> "uniform"], [num |-> 1, sampling |-> "dense"]}
=============================================================================
