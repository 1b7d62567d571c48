----------------------------- MODULE MCToolCalls ------------------------------
(* ToolCalls for TLC. *)
EXTENDS ToolCalls
==============================================================================
