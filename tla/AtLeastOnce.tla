----------------------------- MODULE AtLeastOnce -----------------------------
(***************************************************************************)
(* What the transactional outbox promises its clients (docs/DESIGN.md,     *)
(* principle 3): a request to run a row's task is never dropped between    *)
(* the database and the broker.  The message may be sent more than once,   *)
(* and the sender may forget that it sent it, but a row is never settled   *)
(* while the latest request for it has not been sent.                      *)
(***************************************************************************)
EXTENDS Naturals

CONSTANT Rows       \* the outbox rows, one per (execution, kind)

VARIABLES phase,    \* where each row is between request and settlement
          msgs      \* messages the broker holds for each row

Phases == {"none", "owed", "sent", "done", "revoked"}

Init == /\ phase = [r \in Rows |-> "none"]
        /\ msgs = [r \in Rows |-> 0]

\* A client asks, or asks again, for the row's task.
Request(r) == /\ phase' = [phase EXCEPT ![r] = "owed"]
              /\ UNCHANGED msgs

\* A client withdraws the request.
Revoke(r) == /\ phase[r] # "none"
             /\ phase' = [phase EXCEPT ![r] = "revoked"]
             /\ UNCHANGED msgs

\* A message reaches the broker: the request is sent, or this is a duplicate.
Send(r) == /\ phase[r] # "none"
           /\ msgs' = [msgs EXCEPT ![r] = @ + 1]
           /\ \/ UNCHANGED phase
              \/ phase[r] = "owed" /\ phase' = [phase EXCEPT ![r] = "sent"]

\* The sender records that the request was sent.
Settle(r) == /\ phase[r] = "sent"
             /\ phase' = [phase EXCEPT ![r] = "done"]
             /\ UNCHANGED msgs

\* The sender crashes, or loses its claim, before recording it: the requests
\* count as unsent again.
Forget(S) == /\ \A r \in S : phase[r] = "sent"
             /\ phase' = [r \in Rows |-> IF r \in S THEN "owed" ELSE phase[r]]
             /\ UNCHANGED msgs

\* The broker hands a message to a worker.
Deliver(r) == /\ msgs[r] > 0
              /\ msgs' = [msgs EXCEPT ![r] = @ - 1]
              /\ UNCHANGED phase

Next == \/ \E r \in Rows : Request(r) \/ Revoke(r) \/ Send(r) \/ Settle(r) \/ Deliver(r)
        \/ \E S \in SUBSET Rows : Forget(S)

Spec == Init /\ [][Next]_<<phase, msgs>>
==============================================================================
