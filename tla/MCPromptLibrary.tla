-------------------------- MODULE MCPromptLibrary --------------------------
(* PromptLibrary for TLC: a few prompts, one of them there from the start.   *)
EXTENDS PromptLibrary
=============================================================================
