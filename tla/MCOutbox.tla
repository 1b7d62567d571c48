------------------------------ MODULE MCOutbox -------------------------------
(* Outbox with two rows and two dispatchers. *)
EXTENDS Outbox
==============================================================================
