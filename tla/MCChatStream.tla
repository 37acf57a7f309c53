---------------------------- MODULE MCChatStream ----------------------------
(* ChatStream for TLC: small sets of messages and runs.                    *)
EXTENDS ChatStream, TLC

\* Messages are alike and so are runs, until they are used.
Symmetric == Permutations(Msg) \cup Permutations(Op)
=============================================================================
