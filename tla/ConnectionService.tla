------------------------- MODULE ConnectionService -------------------------
(***************************************************************************)
(* What a feature may expect of the page's connection, whatever sockets,   *)
(* handlers, timers and promises are behind it: calls are made once the    *)
(* service serves; a call on a connection that is up is answered at once,  *)
(* and otherwise waits; those who wait are answered together, with ok at   *)
(* the moment the connection comes up, or with an error while it is down;  *)
(* so nobody waits on a connection that is up.  A connection that has been *)
(* closed never comes up again.                                            *)
(***************************************************************************)

CONSTANT Callers

VARIABLES
    phase,      \* "starting", "serving" or "closed"
    up,         \* whether the connection is there for the features
    call        \* [Callers -> {"idle", "waiting", "ok", "error"}]

Init ==
    /\ phase = "starting"
    /\ up = FALSE
    /\ call = [c \in Callers |-> "idle"]

Pending == {c \in Callers : call[c] = "waiting"}

\* All who wait get the same answer.
Settle(answer) ==
    call' = [c \in Callers |-> IF c \in Pending THEN answer ELSE call[c]]

\* The first connection is there, and with it the service.
Serves ==
    /\ phase = "starting"
    /\ phase' = "serving"
    /\ up' = TRUE
    /\ UNCHANGED call

GoesUp ==
    /\ phase = "serving"
    /\ ~up
    /\ up' = TRUE
    /\ Settle("ok")
    /\ UNCHANGED phase

GoesDown ==
    /\ up
    /\ up' = FALSE
    /\ UNCHANGED <<phase, call>>

\* Those who wait when the service is closed keep waiting, for an error.
Closes ==
    /\ phase = "serving"
    /\ phase' = "closed"
    /\ up' = FALSE
    /\ UNCHANGED call

GivesUp ==
    /\ ~up
    /\ Pending # {}
    /\ Settle("error")
    /\ UNCHANGED <<phase, up>>

Ask(c) ==
    /\ phase # "starting"
    /\ c \notin Pending
    /\ call' = [call EXCEPT ![c] = IF up THEN "ok" ELSE "waiting"]
    /\ UNCHANGED <<phase, up>>

Next ==
    \/ Serves \/ GoesUp \/ GoesDown \/ Closes \/ GivesUp
    \/ \E c \in Callers : Ask(c)

vars == <<phase, up, call>>

Spec == Init /\ [][Next]_vars

\* What has been closed stays closed, and down, whoever calls or connects.
ClosedForGood == [][phase = "closed" => phase' = "closed" /\ ~up']_vars
=============================================================================
