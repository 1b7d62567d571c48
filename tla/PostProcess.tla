----------------------------- MODULE PostProcess ------------------------------
(***************************************************************************)
(* The work after a turn: title, summary and memory, driven by an outbox   *)
(* row of kind "postprocess"                                               *)
(*   agent/runtime/execution_services.py  AgentPostExecutionService        *)
(*   services/tasks.py                    the watchdog's last branch       *)
(*                                                                         *)
(* One column holds both the delivery status, which belongs to the         *)
(* dispatchers, and the processing status, which belongs to the background *)
(* workers.  While a row is to be delivered, `phase` is that of            *)
(* AtLeastOnce, which Outbox implements, and `work` is "none".  When a     *)
(* worker takes the row over it leaves the dispatchers' sight ("revoked")  *)
(* and `work` tells its status.                                            *)
(*                                                                         *)
(* The lock of a worker lasts as long as the soft time limit of its task   *)
(* and nothing renews it, so it may run out while the worker goes on.  Its *)
(* success and its failure are recorded without looking at the lock.       *)
(***************************************************************************)
EXTENDS Naturals

CONSTANTS Execs,        \* executions with background work
          Workers,      \* background worker processes
          None,         \* no execution
          MaxAttempts,  \* settings.agent.postprocess_max_attempts
          MaxMsgs       \* bound: copies of a task queued in the broker

ASSUME PostProcessAssumption ==
    /\ None \notin Execs
    /\ MaxAttempts \in Nat \ {0}
    /\ MaxMsgs \in Nat \ {0}

VARIABLES
    phase,     \* the delivery of each row
    msgs,      \* contentai.process_agent_post_execution messages in the broker
    work,      \* the processing status of each row
    attempts,  \* processing_attempts
    lock,      \* locked_until against the clock, while a row is processed
    late,      \* the row was published before the claim deadline
    done,      \* AgentExecution.postprocess_completed_at is set
    job        \* what each worker does, and for which execution

vars == <<phase, msgs, work, attempts, lock, late, done, job>>
queueVars == <<phase, msgs>>
rowVars == <<phase, work, attempts, lock, late, done>>

Queue == INSTANCE AtLeastOnce WITH Rows <- Execs

Idle == [pc |-> "idle", exec |-> None]

TypeOK ==
    /\ phase \in [Execs -> Queue!Phases]
    /\ msgs \in [Execs -> Nat]
    /\ work \in [Execs -> {"none", "processing", "completed", "failed"}]
    /\ attempts \in [Execs -> 0..MaxAttempts]
    /\ lock \in [Execs -> {"none", "live", "expired"}]
    /\ late \in [Execs -> BOOLEAN]
    /\ done \in [Execs -> BOOLEAN]
    /\ job \in [Workers -> [pc : {"idle", "opened", "working", "worked", "failed"},
                            exec : Execs \cup {None}]]

Init ==
    /\ Queue!Init
    /\ work = [e \in Execs |-> "none"]
    /\ attempts = [e \in Execs |-> 0]
    /\ lock = [e \in Execs |-> "none"]
    /\ late = [e \in Execs |-> FALSE]
    /\ done = [e \in Execs |-> FALSE]
    /\ job = [w \in Workers |-> Idle]

------------------------------------------------------------------------------
\* The row goes back to the dispatchers: status pending, no lock.
Reopen(e) ==
    /\ Queue!Request(e)
    /\ work' = [work EXCEPT ![e] = "none"]
    /\ lock' = [lock EXCEPT ![e] = "none"]
    /\ late' = [late EXCEPT ![e] = FALSE]

\* The row is taken from the dispatchers, with a processing status.
Take(e, status, l) ==
    /\ phase' = [phase EXCEPT ![e] = "revoked"]
    /\ work' = [work EXCEPT ![e] = status]
    /\ lock' = [lock EXCEPT ![e] = l]
    /\ late' = [late EXCEPT ![e] = FALSE]

\* Another try, or none is left.
RetryOrFail(e) ==
    \/ attempts[e] < MaxAttempts /\ Reopen(e)
    \/ attempts[e] >= MaxAttempts /\ Take(e, "failed", "none") /\ UNCHANGED msgs

------------------------------------------------------------------------------
(* The runner and the dispatchers *)

\* schedule, when the turn completes: the row is created.  A second run of the
\* execution that completes as well would put it back; see the README.
Schedule(e) ==
    /\ phase[e] = "none"
    /\ Queue!Request(e)
    /\ UNCHANGED <<work, attempts, lock, late, done, job>>

Dispatch(e) ==
    /\ msgs[e] < MaxMsgs
    /\ Queue!Send(e)
    /\ UNCHANGED <<work, attempts, lock, late, done, job>>

Published(e) ==
    /\ Queue!Settle(e)
    /\ UNCHANGED <<work, attempts, lock, late, done, job>>

Redispatch(e) ==
    /\ Queue!Forget({e})
    /\ UNCHANGED <<work, attempts, lock, late, done, job>>

------------------------------------------------------------------------------
(* process: a background worker *)

Goto(w, pc) == job' = [job EXCEPT ![w].pc = pc]
Leave(w) == job' = [job EXCEPT ![w] = Idle]

\* The message arrives and the execution is read: its work is done already, or
\* the row is looked at next.
Receive(w, e) ==
    /\ job[w] = Idle
    /\ Queue!Deliver(e)
    /\ \/ done[e] /\ UNCHANGED job
       \/ ~done[e] /\ job' = [job EXCEPT ![w] = [pc |-> "opened", exec |-> e]]
    /\ UNCHANGED <<work, attempts, lock, late, done>>

\* Under the row lock: another worker is at it, or it is over.
Drop(w) ==
    LET e == job[w].exec IN
    /\ job[w].pc = "opened"
    /\ \/ work[e] = "processing" /\ lock[e] = "live"
       \/ work[e] \in {"completed", "failed"}
    /\ Leave(w)
    /\ UNCHANGED <<rowVars, msgs>>

Openable(e) == work[e] = "none" \/ (work[e] = "processing" /\ lock[e] # "live")

\* No attempt is left.
Exhaust(w) ==
    LET e == job[w].exec IN
    /\ job[w].pc = "opened"
    /\ Openable(e) /\ attempts[e] >= MaxAttempts
    /\ Take(e, "failed", "none")
    /\ Leave(w)
    /\ UNCHANGED <<msgs, attempts, done>>

\* Mutant: the budget is not looked at.
BeginUnbounded(w) ==
    LET e == job[w].exec IN
    /\ job[w].pc = "opened"
    /\ Openable(e)
    /\ Take(e, "processing", "live")
    /\ attempts' = [attempts EXCEPT ![e] = @ + 1]
    /\ Goto(w, "working")
    /\ UNCHANGED <<msgs, done>>

\* The row is locked for this worker and an attempt is counted.
Begin(w) ==
    LET e == job[w].exec IN
    /\ job[w].pc = "opened"
    /\ Openable(e) /\ attempts[e] < MaxAttempts
    /\ Take(e, "processing", "live")
    /\ attempts' = [attempts EXCEPT ![e] = @ + 1]
    /\ Goto(w, "working")
    /\ UNCHANGED <<msgs, done>>

\* Reading the row raises: a failure that no attempt counts.
Unreadable(w) ==
    /\ job[w].pc = "opened"
    /\ Goto(w, "failed")
    /\ UNCHANGED <<rowVars, msgs>>

\* Memory, summary and title are brought up to date, or that raises.
Work(w) ==
    /\ job[w].pc = "working"
    /\ Goto(w, "worked") \/ Goto(w, "failed")
    /\ UNCHANGED <<rowVars, msgs>>

\* Mutant: the row is completed only while it is being processed.
CompleteWhileProcessing(w) ==
    LET e == job[w].exec IN
    /\ job[w].pc = "worked"
    /\ done' = [done EXCEPT ![e] = TRUE]
    /\ \/ work[e] = "processing" /\ Take(e, "completed", "none")
       \/ work[e] # "processing" /\ UNCHANGED <<phase, work, lock, late>>
    /\ Leave(w)
    /\ UNCHANGED <<msgs, attempts>>

\* The last transaction of process, whatever the row's status and lock.
Complete(w) ==
    LET e == job[w].exec IN
    /\ job[w].pc = "worked"
    /\ done' = [done EXCEPT ![e] = TRUE]
    /\ Take(e, "completed", "none")
    /\ Leave(w)
    /\ UNCHANGED <<msgs, attempts>>

\* Mutant: a failure is recorded although the row is over.
RecordFailureAnyway(w) ==
    LET e == job[w].exec IN
    /\ job[w].pc = "failed"
    /\ RetryOrFail(e)
    /\ Leave(w)
    /\ UNCHANGED <<attempts, done>>

\* _mark_processing_failure: nothing if the row is over, else another try or
\* the end of it.
RecordFailure(w) ==
    LET e == job[w].exec IN
    /\ job[w].pc = "failed"
    /\ \/ work[e] \in {"completed", "failed"} /\ UNCHANGED <<phase, msgs, work, lock, late>>
       \/ work[e] \notin {"completed", "failed"} /\ RetryOrFail(e)
    /\ Leave(w)
    /\ UNCHANGED <<attempts, done>>

\* The process dies and the broker gets the message back (acks_late), or an
\* exception or the hard time limit ends the task and acknowledges it.
Crash(w) ==
    /\ job[w].pc # "idle"
    /\ msgs' \in {msgs, [msgs EXCEPT ![job[w].exec] = @ + 1]}
    /\ Leave(w)
    /\ UNCHANGED rowVars

------------------------------------------------------------------------------
(* The watchdog and time *)

\* Mutant: a row whose worker died is not looked at.
WatchdogPublished(e) ==
    /\ ~done[e]
    /\ phase[e] = "done" /\ late[e]
    /\ RetryOrFail(e)
    /\ UNCHANGED <<attempts, done, job>>

\* recover_expired_executions: published long ago, or processed too long.
Watchdog(e) ==
    /\ ~done[e]
    /\ \/ phase[e] = "done" /\ late[e]
       \/ work[e] = "processing" /\ lock[e] = "expired"
    /\ RetryOrFail(e)
    /\ UNCHANGED <<attempts, done, job>>

LockExpires(e) ==
    /\ lock[e] = "live"
    /\ lock' = [lock EXCEPT ![e] = "expired"]
    /\ UNCHANGED <<queueVars, work, attempts, late, done, job>>

Late(e) ==
    /\ phase[e] = "done" /\ ~late[e]
    /\ late' = [late EXCEPT ![e] = TRUE]
    /\ UNCHANGED <<queueVars, work, attempts, lock, done, job>>

------------------------------------------------------------------------------
\* The transaction that decides about a message.
Look(w) == Drop(w) \/ Exhaust(w) \/ Begin(w)

\* What the code of a live worker does next.
Step(w) == Look(w) \/ Work(w) \/ Complete(w) \/ RecordFailure(w)

Next ==
    \/ \E e \in Execs :
        \/ Schedule(e) \/ Dispatch(e) \/ Published(e) \/ Redispatch(e)
        \/ Watchdog(e) \/ LockExpires(e) \/ Late(e)
        \/ \E w \in Workers : Receive(w, e)
    \/ \E w \in Workers : Step(w) \/ Unreadable(w) \/ Crash(w)

Spec == Init /\ [][Next]_vars

\* The outbox sends what is owed (Outbox, OwedIsSent), the broker delivers to
\* some worker, live workers go on, a row that workers try to read again and
\* again is read in the end, beat runs the watchdog and time passes.
Fairness ==
    /\ \A w \in Workers : WF_vars(Step(w))
    /\ \A e \in Execs :
        /\ SF_vars(Dispatch(e) /\ phase' # phase) /\ WF_vars(Published(e))
        /\ SF_vars(\E w \in Workers : Receive(w, e))
        /\ SF_vars(\E w \in Workers : job[w].exec = e /\ Look(w))
        /\ WF_vars(Watchdog(e)) /\ WF_vars(LockExpires(e)) /\ WF_vars(Late(e))

LiveSpec == Spec /\ Fairness

------------------------------------------------------------------------------
(* Properties *)

\* The row in the abstract specification.
State(e) ==
    CASE phase[e] = "none"     -> "none"
      [] work[e] = "completed" -> "completed"
      [] work[e] = "failed"    -> "failed"
      [] OTHER                 -> "open"

Abstract == INSTANCE BoundedRetry WITH state <- [e \in Execs |-> State(e)], tries <- attempts

\* Background work is bounded retry: overlapping workers, unfenced outcomes, the
\* watchdog and duplicate messages never reopen completed work, never
\* begin it once too often and never give up while an attempt is left
\* (docs/SESSION_TO_CONTENT_PIPELINE.md:77).
ImplementsBoundedRetry == Abstract!Spec

\* The execution's timestamp, which the watchdog and the workers go by, and the
\* row's status, which the dispatchers go by, never disagree on what is done.
DoneIsCompleted == \A e \in Execs : done[e] <=> work[e] = "completed"

\* Scheduled work is completed or given up, whatever worker dies where
\* (docs/PRODUCT.md:63).
Concludes == \A e \in Execs : phase[e] # "none" ~> work[e] \in {"completed", "failed"}
==============================================================================
