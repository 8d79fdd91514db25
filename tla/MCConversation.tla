--------------------------- MODULE MCConversation ---------------------------
(***************************************************************************)
(* An instance of Conversation for TLC: a window of one turn.              *)
(***************************************************************************)
EXTENDS Conversation, TLC

Symmetry == Permutations(Papers)
=============================================================================
