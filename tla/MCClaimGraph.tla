----------------------------- MODULE MCClaimGraph -----------------------------
(* Instances of ClaimGraph for TLC. *)
EXTENDS ClaimGraph, TLC

\* Runs are interchangeable: nothing but the run's own record depends on it.
RunSymmetry == Permutations(Runs)

\* Overlapping runs can mail a round's letter again and again; what a third
\* copy does the second has done.
FewDuplicates == transfers < 2 /\ \A k \in Rounds : sends[k] < 2 + lostSends[k]
=============================================================================
