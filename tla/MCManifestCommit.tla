-------------------------- MODULE MCManifestCommit --------------------------
(* Two processes, two layers. *)
EXTENDS ManifestCommit, TLC

CONSTANTS p1, p2, emb, tag, i1, i2, i3   \* model values

MCProcs == {p1, p2}
MCLayers == {emb, tag}
MCInodes == {i1, i2, i3}

\* Processes, layers and files are told apart by nothing but equality.
MCSymmetry == Permutations(MCProcs) \cup Permutations(MCLayers) \cup Permutations(MCInodes)
=============================================================================
