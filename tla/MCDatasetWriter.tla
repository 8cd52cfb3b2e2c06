-------------------------- MODULE MCDatasetWriter --------------------------
(* A caller that adds small, target-sized, oversized and blob-less samples. *)
EXTENDS DatasetWriter

CONSTANTS small, wide, huge, bare   \* model values

MCSamples == {small, wide, huge, bare}
MCPayload == [s \in MCSamples |->
                CASE s = small -> 1 [] s = wide -> 3 [] s = huge -> 4 [] s = bare -> 0]
\* the blobs and one header
MCExtent == [s \in MCSamples |->
               CASE s = small -> 2 [] s = wide -> 4 [] s = huge -> 5 [] s = bare -> 0]
=============================================================================
