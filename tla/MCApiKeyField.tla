---------------------------- MODULE MCApiKeyField ----------------------------
(* Two keys typed in turn, two checks and two saves under way.               *)
EXTENDS ApiKeyField
=============================================================================
