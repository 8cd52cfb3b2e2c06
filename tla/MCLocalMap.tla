----------------------------- MODULE MCLocalMap -----------------------------
(* The whole dataset, a subset, and a subset in another order. *)
EXTENDS LocalMap

MCSamples == 0 .. 2
MCViews == {<<0, 1, 2>>, <<2, 0>>}
=============================================================================
