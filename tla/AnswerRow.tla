------------------------------ MODULE AnswerRow ------------------------------
(***************************************************************************)
(* What the message table promises of assistant answers, whoever writes    *)
(* it: a row is created once and empty; while it is open it is empty; it   *)
(* is closed either with its whole answer or without one; a whole answer   *)
(* is only ever lost to a rewrite, which opens the row again, or to a      *)
(* deletion, and a deleted row never comes back.  Nothing partial is ever  *)
(* stored.                                                                 *)
(***************************************************************************)

CONSTANT Msg

VARIABLE row    \* [Msg -> RowState]

RowState == {"unborn", "open", "abandoned", "answered", "deleted"}

Init == row = [m \in Msg |-> "unborn"]

\* The steps of one row, from a state to the states it may become.
Moves ==
    [unborn    |-> {"open"},
     open      |-> {"answered", "abandoned", "deleted"},
     abandoned |-> {"open", "answered", "deleted"},
     answered  |-> {"open", "deleted"},
     deleted   |-> {}]

\* Rows move together only when a new chat closes all that are open.
Next ==
    /\ row' \in [Msg -> RowState]
    /\ \A m \in Msg : row'[m] # row[m] => row'[m] \in Moves[row[m]]
    /\ \A m, n \in Msg : /\ row'[m] # row[m] /\ row'[n] # row[n] /\ m # n
                         => row'[m] = "abandoned" /\ row'[n] = "abandoned"

Spec == Init /\ [][Next]_row
=============================================================================
