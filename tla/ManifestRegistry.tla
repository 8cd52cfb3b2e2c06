-------------------------- MODULE ManifestRegistry --------------------------
(***************************************************************************)
(* What manifest.json promises its readers, with no files: a version that  *)
(* only moves up by one and an ordered list of layer names, each name once,*)
(* changed by whole registrations only.  ManifestCommit refines it.        *)
(***************************************************************************)
EXTENDS Naturals, Sequences

CONSTANT Layers

VARIABLES version,   \* 0 until the base dataset is published
          layers     \* layer names, in the order a reader loads them

vars == <<version, layers>>

Init == /\ version = 0
        /\ layers = <<>>

Create == /\ version = 0
          /\ version' = 1
          /\ UNCHANGED layers

Names(s) == {s[k] : k \in 1 .. Len(s)}
EachOnce(s) == \A i, j \in 1 .. Len(s) : s[i] = s[j] => i = j
Before(s, m, n) == \E i, j \in 1 .. Len(s) : i < j /\ s[i] = m /\ s[j] = n

\* The name comes last, also when it was there; the others stay, in their order.
Register(l) == /\ version > 0
               /\ version' = version + 1
               /\ Names(layers') = Names(layers) \cup {l}
               /\ EachOnce(layers') /\ layers'[Len(layers')] = l
               /\ \A m, n \in Names(layers) \ {l} : Before(layers, m, n) => Before(layers', m, n)

Next == Create \/ \E l \in Layers : Register(l)

Spec == Init /\ [][Next]_vars
=============================================================================
