------------------------------- MODULE Outbox --------------------------------
(***************************************************************************)
(* The transactional outbox and its dispatchers                            *)
(* (apps/api/src/services/dispatcher.py).                                  *)
(*                                                                         *)
(* Rows are written by API transactions (create_turn, _resume_execution),  *)
(* by the watchdog (recover_expired_executions) and by the administration  *)
(* (_disable_user_runtime).  Each dispatcher process loops: one            *)
(* transaction claims a batch of rows under a 30 second lock, then every   *)
(* row of the batch is sent to the broker outside any transaction and the  *)
(* outcome is recorded in a transaction of its own, fenced by the row's    *)
(* status and lock holder.  Between two of those steps anything may        *)
(* happen: the lock expires, another dispatcher claims the row, a client   *)
(* asks for the task again, the dispatcher crashes.                        *)
(*                                                                         *)
(* The clock is abstracted to what the guards compare: a lock is live or   *)
(* expired, a row is due now or later.  `attempts` only sets the length of *)
(* the back-off, and is left out.                                          *)
(***************************************************************************)
EXTENDS Naturals, FiniteSets

CONSTANTS Rows,         \* outbox rows, one per (execution, kind)
          Dispatchers,  \* dispatcher processes; their ids are unique
          None,         \* NULL
          BatchSize,    \* the LIMIT of the claiming query
          MaxMsgs       \* bound: messages of one row the broker holds at once

ASSUME OutboxAssumption ==
    /\ None \notin Rows
    /\ None \notin Dispatchers
    /\ BatchSize \in Nat \ {0}
    /\ MaxMsgs \in Nat \ {0}

VARIABLES
    status,     \* ExecutionOutbox.status
    lockedBy,   \* ExecutionOutbox.locked_by
    lock,       \* ExecutionOutbox.locked_until against the clock
    due,        \* ExecutionOutbox.available_at <= now
    batch,      \* per dispatcher: deliveries it has still to send
    pc,         \* per dispatcher: what it does next with its current delivery
    cur,        \* per dispatcher: the delivery whose outcome it has to record
    msgs        \* per row: task messages waiting in the broker

rowVars == <<status, lockedBy, lock, due>>
dispatcherVars == <<batch, pc, cur>>
vars == <<status, lockedBy, lock, due, batch, pc, cur, msgs>>

Statuses == {"absent", "pending", "publishing", "published", "cancelled"}

TypeOK ==
    /\ status \in [Rows -> Statuses]
    /\ lockedBy \in [Rows -> Dispatchers \cup {None}]
    /\ lock \in [Rows -> {"none", "live", "expired"}]
    /\ due \in [Rows -> BOOLEAN]
    /\ batch \in [Dispatchers -> SUBSET Rows]
    /\ pc \in [Dispatchers -> {"send", "sent", "failed"}]
    /\ cur \in [Dispatchers -> Rows \cup {None}]
    /\ msgs \in [Rows -> 0..MaxMsgs]

Init ==
    /\ status = [r \in Rows |-> "absent"]
    /\ lockedBy = [r \in Rows |-> None]
    /\ lock = [r \in Rows |-> "none"]
    /\ due = [r \in Rows |-> TRUE]
    /\ batch = [d \in Dispatchers |-> {}]
    /\ pc = [d \in Dispatchers |-> "send"]
    /\ cur = [d \in Dispatchers |-> None]
    /\ msgs = [r \in Rows |-> 0]

------------------------------------------------------------------------------
(* The clients *)

\* create_turn inserts the row together with the execution.
Submit(r) ==
    /\ status[r] = "absent"
    /\ status' = [status EXCEPT ![r] = "pending"]
    /\ UNCHANGED <<lockedBy, lock, due, dispatcherVars, msgs>>

\* Mutant: the requeue leaves the lock of the dispatcher it overtakes.
RequeueKeepsLock(r) ==
    /\ status[r] # "absent"
    /\ status' = [status EXCEPT ![r] = "pending"]
    /\ due' = [due EXCEPT ![r] = TRUE]
    /\ UNCHANGED <<lockedBy, lock, dispatcherVars, msgs>>

\* A resume request or the watchdog asks for the task again.  The row is
\* rewritten whatever its status, and whoever holds its lock loses it.
Requeue(r) ==
    /\ status[r] # "absent"
    /\ status' = [status EXCEPT ![r] = "pending"]
    /\ lockedBy' = [lockedBy EXCEPT ![r] = None]
    /\ lock' = [lock EXCEPT ![r] = "none"]
    /\ due' = [due EXCEPT ![r] = TRUE]
    /\ UNCHANGED <<dispatcherVars, msgs>>

\* Disabling a user cancels the rows of the executions that do not run yet.
\* The lock fields stay as they are.
Revoke(r) ==
    /\ status[r] # "absent"
    /\ status' = [status EXCEPT ![r] = "cancelled"]
    /\ UNCHANGED <<lockedBy, lock, due, dispatcherVars, msgs>>

------------------------------------------------------------------------------
(* The dispatchers *)

\* Mutant: rows whose dispatcher died are not taken over.
ClaimablePendingOnly(r) == status[r] = "pending" /\ due[r] /\ lock[r] # "live"

\* The WHERE clause of dispatch_once.
Claimable(r) ==
    /\ \/ status[r] = "pending"
       \/ status[r] = "publishing" /\ lock[r] = "expired"
    /\ due[r]
    /\ lock[r] # "live"

Claimables == {r \in Rows : Claimable(r)}

\* As many claimable rows as the LIMIT lets through.
Batches ==
    {S \in SUBSET Claimables :
        /\ S # {}
        /\ Cardinality(S) <= BatchSize
        /\ Cardinality(S) = BatchSize \/ S = Claimables}

TakeLocks(d, S) ==
    /\ status' = [r \in Rows |-> IF r \in S THEN "publishing" ELSE status[r]]
    /\ lockedBy' = [r \in Rows |-> IF r \in S THEN d ELSE lockedBy[r]]
    /\ lock' = [r \in Rows |-> IF r \in S THEN "live" ELSE lock[r]]
    /\ batch' = [batch EXCEPT ![d] = S]

\* First transaction of dispatch_once: take the locks of a batch.
Claim(d) ==
    /\ pc[d] = "send" /\ batch[d] = {}
    /\ \E S \in Batches : TakeLocks(d, S)
    /\ UNCHANGED <<due, pc, cur, msgs>>

\* celery_app.send_task returns: the broker holds one more message.
SendOk(d, r) ==
    /\ pc[d] = "send" /\ r \in batch[d]
    /\ msgs[r] < MaxMsgs
    /\ msgs' = [msgs EXCEPT ![r] = @ + 1]
    /\ batch' = [batch EXCEPT ![d] = @ \ {r}]
    /\ pc' = [pc EXCEPT ![d] = "sent"]
    /\ cur' = [cur EXCEPT ![d] = r]
    /\ UNCHANGED rowVars

\* celery_app.send_task raises.
SendFail(d, r) ==
    /\ pc[d] = "send" /\ r \in batch[d]
    /\ batch' = [batch EXCEPT ![d] = @ \ {r}]
    /\ pc' = [pc EXCEPT ![d] = "failed"]
    /\ cur' = [cur EXCEPT ![d] = r]
    /\ UNCHANGED <<rowVars, msgs>>

\* The fence both outcomes are recorded under.
Holds(d, r) == status[r] = "publishing" /\ lockedBy[r] = d

NextDelivery(d) ==
    /\ pc' = [pc EXCEPT ![d] = "send"]
    /\ cur' = [cur EXCEPT ![d] = None]
    /\ UNCHANGED <<batch, msgs>>

Unlock(r) ==
    /\ lockedBy' = [lockedBy EXCEPT ![r] = None]
    /\ lock' = [lock EXCEPT ![r] = "none"]

\* Mutant: the fence looks at the status only.
MarkPublishedUnfenced(d) ==
    /\ pc[d] = "sent"
    /\ \/ /\ status[cur[d]] = "publishing"
          /\ status' = [status EXCEPT ![cur[d]] = "published"]
          /\ Unlock(cur[d])
          /\ UNCHANGED due
       \/ status[cur[d]] # "publishing" /\ UNCHANGED rowVars
    /\ NextDelivery(d)

\* _mark_published: the row is settled, unless the dispatcher lost it.
MarkPublished(d) ==
    /\ pc[d] = "sent"
    /\ \/ /\ Holds(d, cur[d])
          /\ status' = [status EXCEPT ![cur[d]] = "published"]
          /\ Unlock(cur[d])
          /\ UNCHANGED due
       \/ ~Holds(d, cur[d]) /\ UNCHANGED rowVars
    /\ NextDelivery(d)

\* Mutant: the row gets a status of its own that no query knows.
MarkRetryOwnStatus(d) ==
    /\ pc[d] = "failed"
    /\ status' = [status EXCEPT ![cur[d]] = "retry"]
    /\ due' = [due EXCEPT ![cur[d]] = FALSE]
    /\ Unlock(cur[d])
    /\ NextDelivery(d)

\* _mark_retry: the row waits for the back-off, unless the dispatcher lost it.
MarkRetry(d) ==
    /\ pc[d] = "failed"
    /\ \/ /\ Holds(d, cur[d])
          /\ status' = [status EXCEPT ![cur[d]] = "pending"]
          /\ due' = [due EXCEPT ![cur[d]] = FALSE]
          /\ Unlock(cur[d])
       \/ ~Holds(d, cur[d]) /\ UNCHANGED rowVars
    /\ NextDelivery(d)

\* A dispatcher process dies and is started again with nothing in hand.
Crash(d) ==
    /\ batch[d] # {} \/ cur[d] # None
    /\ batch' = [batch EXCEPT ![d] = {}]
    /\ pc' = [pc EXCEPT ![d] = "send"]
    /\ cur' = [cur EXCEPT ![d] = None]
    /\ UNCHANGED <<rowVars, msgs>>

------------------------------------------------------------------------------
(* Time and the broker *)

LockExpires(r) ==
    /\ lock[r] = "live"
    /\ lock' = [lock EXCEPT ![r] = "expired"]
    /\ UNCHANGED <<status, lockedBy, due, dispatcherVars, msgs>>

BackoffEnds(r) ==
    /\ ~due[r]
    /\ due' = [due EXCEPT ![r] = TRUE]
    /\ UNCHANGED <<status, lockedBy, lock, dispatcherVars, msgs>>

Deliver(r) ==
    /\ msgs[r] > 0
    /\ msgs' = [msgs EXCEPT ![r] = @ - 1]
    /\ UNCHANGED <<rowVars, dispatcherVars>>

------------------------------------------------------------------------------
Next ==
    \/ \E r \in Rows :
        \/ Submit(r) \/ Requeue(r) \/ Revoke(r)
        \/ LockExpires(r) \/ BackoffEnds(r) \/ Deliver(r)
    \/ \E d \in Dispatchers :
        \/ Claim(d) \/ MarkPublished(d) \/ MarkRetry(d) \/ Crash(d)
        \/ \E r \in Rows : SendOk(d, r) \/ SendFail(d, r)

Spec == Init /\ [][Next]_vars

\* run_forever never stops polling, locks and back-offs run out, workers
\* consume, and a broker that is tried again and again accepts in the end.
Fairness ==
    /\ \A d \in Dispatchers :
        WF_vars(Claim(d)) /\ WF_vars(MarkPublished(d)) /\ WF_vars(MarkRetry(d))
    /\ \A r \in Rows :
        /\ SF_vars(\E d \in Dispatchers : SendOk(d, r))
        /\ WF_vars(LockExpires(r)) /\ WF_vars(BackoffEnds(r)) /\ WF_vars(Deliver(r))

LiveSpec == Spec /\ Fairness

------------------------------------------------------------------------------
(* Properties *)

\* A dispatcher that still holds the row has sent its message.
Sent(r) == \E d \in Dispatchers : Holds(d, r) /\ pc[d] = "sent" /\ cur[d] = r

\* A row's phase in the abstract specification.
Phase(r) ==
    CASE status[r] = "absent"     -> "none"
      [] status[r] = "cancelled"  -> "revoked"
      [] status[r] = "published"  -> "done"
      [] status[r] = "pending"    -> "owed"
      [] status[r] = "publishing" -> IF Sent(r) THEN "sent" ELSE "owed"

Abstract == INSTANCE AtLeastOnce WITH phase <- [r \in Rows |-> Phase(r)]

\* The dispatcher implements at-least-once delivery: whatever requests, lock
\* expiries, takeovers and crashes come between claiming, sending and marking
\* a row, it becomes `published` only if a message was sent after the latest
\* request for it, and a cancelled row stays so until it is requested again.
ImplementsAtLeastOnce == Abstract!Spec

\* The lock columns tell the truth about the row in every status a dispatcher
\* acts on: without this a requeued row could stay invisible behind the lock of
\* a dispatcher that will never come back to it.
LocksMatchStatus ==
    \A r \in Rows :
        /\ status[r] \in {"absent", "pending", "published"} => lockedBy[r] = None /\ lock[r] = "none"
        /\ status[r] = "publishing" => lockedBy[r] # None /\ lock[r] # "none"

\* Every request that is not withdrawn reaches the broker, through broker
\* failures, dispatcher crashes and lock takeovers (docs/PRODUCT.md:63).
OwedIsSent ==
    \A r \in Rows : (Phase(r) = "owed") ~> (msgs[r] > 0 \/ Phase(r) # "owed")
==============================================================================
