-------------------------- MODULE ConversationTable --------------------------
(***************************************************************************)
(* What the database promises of conversations and the user's messages,    *)
(* whatever the views do and whenever the page is reloaded: a conversation *)
(* is stored once and, deleted, does not come back; a message is written   *)
(* once, to a conversation there is or was, and stays in it; whoever       *)
(* deletes a conversation deletes every message it has at that moment, and *)
(* only a creation that is taken back deletes the conversation alone.      *)
(***************************************************************************)

CONSTANTS Conv, Msg, None

VARIABLES
    state,      \* [Conv -> {"unborn", "stored", "deleted"}]
    row,        \* [Msg -> {"unborn", "stored", "deleted"}]
    home        \* [Msg -> Conv \cup {None}]

Init ==
    /\ state \in [Conv -> {"unborn", "stored"}]
    /\ row \in [Msg -> {"unborn", "stored"}]
    /\ home \in [Msg -> {c \in Conv : state[c] = "stored"} \cup {None}]
    /\ \A m \in Msg : row[m] = "unborn" <=> home[m] = None

Add(c) ==
    /\ state[c] = "unborn"
    /\ state' = [state EXCEPT ![c] = "stored"]
    /\ UNCHANGED <<row, home>>

TakeBack(c) ==
    /\ state[c] = "stored"
    /\ state' = [state EXCEPT ![c] = "deleted"]
    /\ UNCHANGED <<row, home>>

\* Also of a conversation that has gone already: its messages go then.
Delete(c) ==
    /\ state[c] # "unborn"
    /\ state' = [state EXCEPT ![c] = "deleted"]
    /\ row' = [m \in Msg |-> IF row[m] = "stored" /\ home[m] = c
                             THEN "deleted" ELSE row[m]]
    /\ UNCHANGED home

Write(m, c) ==
    /\ row[m] = "unborn"
    /\ state[c] # "unborn"
    /\ row' = [row EXCEPT ![m] = "stored"]
    /\ home' = [home EXCEPT ![m] = c]
    /\ UNCHANGED state

DeleteMessage(m) ==
    /\ row[m] = "stored"
    /\ row' = [row EXCEPT ![m] = "deleted"]
    /\ UNCHANGED <<state, home>>

Next ==
    \/ \E c \in Conv : Add(c) \/ TakeBack(c) \/ Delete(c)
    \/ \E m \in Msg : DeleteMessage(m) \/ \E c \in Conv : Write(m, c)

vars == <<state, row, home>>

Spec == Init /\ [][Next]_vars
=============================================================================
