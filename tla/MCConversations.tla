--------------------------- MODULE MCConversations ---------------------------
(* Two conversations, one message, two loads for each view, which is left    *)
(* with one thing under way at most.                                         *)
EXTENDS Conversations, TLC

\* No property tells conversations, messages or slots apart.
Interchangeable == Permutations(Conv) \cup Permutations(Msg) \cup Permutations(Load)
=============================================================================
