--------------------------- MODULE MCConversation ---------------------------
(* Small instances of Conversation for TLC. *)
EXTENDS Conversation, TLC

Symmetry == Permutations(Msgs) \cup Permutations(Sessions)

SymmetryOfMessages == Permutations(Msgs)
=============================================================================
