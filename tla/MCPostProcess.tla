---------------------------- MODULE MCPostProcess -----------------------------
(* PostProcess for TLC. *)
EXTENDS PostProcess
==============================================================================
