--------------------------- MODULE MCModelsFetch ---------------------------
(* ModelsFetch for TLC: two components, two fetches, two updates.          *)
EXTENDS ModelsFetch
=============================================================================
