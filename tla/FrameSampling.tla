--------------------------- MODULE FrameSampling ---------------------------
(***************************************************************************)
(* sampling.rs: which frames of a clip are decoded, chosen before any is.  *)
(***************************************************************************)
EXTENDS Integers, Sequences

Samplings == {"uniform", "dense"}

Least(a, b) == IF a < b THEN a ELSE b

\* (a / b).round() of two naturals: half a unit goes up.  The f64 is exact as
\* long as the numbers are below 2^53.
RoundDiv(a, b) == (2 * a + b) \div (2 * b)

\* frame_indices: num of total frames, in order, counted from 0
FrameIndices(total, num, sampling) ==
  LET k == Least(num, total)
  IN IF total = 0 \/ num = 0 THEN <<>>
     ELSE IF sampling = "dense" THEN [j \in 1 .. k |-> j - 1]
     ELSE IF k = 1 THEN <<total \div 2>>
     ELSE [j \in 1 .. k |-> RoundDiv((j - 1) * (total - 1), k - 1)]

\* The indices frame_indices promises (sampling.rs:14-15), and what its callers
\* rely on: no frame twice, so that a set holds them all, the first and the last
\* frame among them, and each as near to its even place as a frame can be.
Spread(f, total, num, sampling) ==
  /\ Len(f) = Least(num, total)
  /\ \A j \in 1 .. Len(f) : f[j] \in 0 .. total - 1
  /\ \A i, j \in 1 .. Len(f) : i < j => f[i] < f[j]
  /\ sampling = "uniform" /\ Len(f) > 1 =>
       /\ f[1] = 0 /\ f[Len(f)] = total - 1
       /\ \A j \in 1 .. Len(f) :
            LET off == (Len(f) - 1) * f[j] - (j - 1) * (total - 1)
            IN -(Len(f) - 1) <= 2 * off /\ 2 * off <= Len(f) - 1
=============================================================================
