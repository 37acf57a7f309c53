------------------------------- MODULE MCLogin -------------------------------
(* Two visits of the login page, one of them left, and three sessions: one   *)
(* the extension has kept, and two that are granted.                         *)
EXTENDS Login
=============================================================================
