----------------------------- MODULE MCClaimDesk -----------------------------
(* Instances of ClaimDesk for TLC. *)
EXTENDS ClaimDesk, TLC

DeskRunSymmetry == Permutations(Runs)

\* Overlapping runs can mail a round's letter again and again; what a third
\* copy does the second has done.
FewCopies == transfers < 2 /\ \A k \in Rounds : sends[k] < 2 + lostSends[k]
=============================================================================
