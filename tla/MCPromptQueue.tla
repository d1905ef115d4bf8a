--------------------------- MODULE MCPromptQueue ---------------------------
(* TLC instance of PromptQueue.                                             *)
EXTENDS PromptQueue
=============================================================================
