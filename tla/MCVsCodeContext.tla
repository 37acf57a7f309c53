--------------------------- MODULE MCVsCodeContext ---------------------------
(* One file pinned up to twice, whole or in part, one text and the empty one, *)
(* two requests that overtake each other, one chat action, and a view that    *)
(* comes and goes.                                                            *)
EXTENDS VsCodeContext
=============================================================================
