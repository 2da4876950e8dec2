----------------------------- MODULE MCMailbox -----------------------------
(* Mailbox for TLC. *)
EXTENDS Mailbox, TLC

\* Neither the links, nor the jobs, nor the mailboxes at Google are told apart.
Alike == Permutations(Flows) \cup Permutations(Jobs) \cup Permutations(Gmail)
=============================================================================
