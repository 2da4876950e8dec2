--------------------------- MODULE MCConversation ---------------------------
(* A symmetry for the instances of Conversation: messages and requests have   *)
(* no identity beyond what the turn and the row say of them.                  *)
EXTENDS Conversation, TLC

Symmetry == Permutations(Messages) \cup Permutations(Requests)
=============================================================================
