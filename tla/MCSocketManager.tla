-------------------------- MODULE MCSocketManager --------------------------
(* SocketManager for TLC: two features share an event, a third has its own. *)
EXTENDS SocketManager

CONSTANTS f1, f2, f3, shared, own

MCFeatures == {f1, f2, f3}
MCEvents == {shared, own}
MCEventOf == [f \in MCFeatures |-> IF f = f3 THEN own ELSE shared]
=============================================================================
