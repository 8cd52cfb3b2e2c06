----------------------------- MODULE SampleLog -----------------------------
(***************************************************************************)
(* What the base write path promises, with no shards, offsets or files: a  *)
(* log of samples that only grows, is thrown away if the writer dies       *)
(* before publishing, and of which publishing exposes a prefix, once and   *)
(* for good.  DatasetWriter refines it.                                    *)
(***************************************************************************)
EXTENDS Naturals, Sequences

CONSTANT Samples      \* what a caller may add

VARIABLES log,        \* the samples recorded so far, sample_id = position - 1
          published   \* has the manifest been renamed into place?

vars == <<log, published>>

Init == /\ log = <<>>
        /\ published = FALSE

Append1(s) == /\ ~published
              /\ log' = Append(log, s)
              /\ UNCHANGED published

Publish == /\ ~published
           /\ \E n \in 0 .. Len(log) : log' = SubSeq(log, 1, n)
           /\ published' = TRUE

Restart == /\ ~published
           /\ log' = <<>>
           /\ UNCHANGED published

Next == (\E s \in Samples : Append1(s)) \/ Publish \/ Restart

Spec == Init /\ [][Next]_vars
=============================================================================
