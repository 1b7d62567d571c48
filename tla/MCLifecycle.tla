----------------------------- MODULE MCLifecycle ------------------------------
(* ExecutionLifecycle for TLC. *)
EXTENDS ExecutionLifecycle, TLC

\* Workers and executions are interchangeable; only for runs without liveness properties.
Symmetry == Permutations(Workers) \cup Permutations(Execs)
==============================================================================
