------------------------------ MODULE MCDistMap ------------------------------
(* Two ranks or one, the whole dataset or a subset of it. *)
EXTENDS DistMap

MCSamples == 0 .. 2
MCParts == 0 .. 1
MCJobs == { [world |-> 2, view |-> <<0, 1, 2>>, dist |-> TRUE],
            [world |-> 1, view |-> <<0, 1, 2>>, dist |-> TRUE],
            [world |-> 2, view |-> <<2, 0>>, dist |-> FALSE] }

\* one pass over a subset, then one over the rest
MCSplitJobs == { [world |-> 2, view |-> <<0, 1>>, dist |-> TRUE],
                 [world |-> 2, view |-> <<2>>, dist |-> TRUE] }
=============================================================================
