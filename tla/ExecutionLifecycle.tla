-------------------------- MODULE ExecutionLifecycle --------------------------
(***************************************************************************)
(* The life of agent executions in one chat session, from the API request  *)
(* that creates them to the outcome a worker, a user, an administrator or  *)
(* the watchdog writes:                                                    *)
(*   services/conversation_service.py   create, cancel, resume             *)
(*   services/execution_claim.py        a worker claims an execution       *)
(*   agent/runtime/runner.py            a worker runs it                   *)
(*   services/tasks.py                  heartbeat thread and watchdog      *)
(*   services/admin_service.py          disabling the user                 *)
(*                                                                         *)
(* One action is one transaction, or one unlocked read the code acts on    *)
(* later.  SELECT ... FOR UPDATE takes the row lock but does not refresh   *)
(* an object the SQLAlchemy session has loaded already, so the API's       *)
(* cancel and resume and the worker's admission decide on the values they  *)
(* read before the lock: they are modelled as a read and a write.          *)
(*                                                                         *)
(* The outbox and the broker are those of AtLeastOnce, which Outbox        *)
(* implements.  Time is abstracted to what the guards compare: a lease is  *)
(* live or expired; an execution is younger than the claim deadline, older *)
(* (1), or older and published before the deadline (2).                    *)
(***************************************************************************)
EXTENDS Naturals, FiniteSets

CONSTANTS Execs,          \* executions a user may create in the session
          Workers,        \* worker processes, by the worker_id of their delivery
          None,           \* NULL
          MaxAttempts,    \* settings.agent.max_execution_attempts
          MaxInterrupts,  \* bound: confirmations the session's graph asks for
          MaxMsgs,        \* bound: copies of an execution's task in the broker
          Ops,            \* the user operations of this instance
          Stalls          \* may a lease expire although its worker is alive?

ASSUME LifecycleAssumption ==
    /\ None \notin Execs \cup Workers
    /\ MaxAttempts \in Nat \ {0}
    /\ MaxInterrupts \in Nat
    /\ MaxMsgs \in Nat \ {0}
    /\ Ops \subseteq {"cancel", "resume", "disable"}
    /\ Stalls \in BOOLEAN

VARIABLES
    x,        \* AgentExecution rows, with their postprocess outbox row
    phase,    \* the execute outbox row of each execution
    msgs,     \* contentai.execute_agent messages in the broker
    req,      \* ExecutionResumeRequest.status, by execution and interrupt
    cp,       \* latest LangGraph checkpoint of the session's thread
    raised,   \* interrupts the graph has raised in the session's thread
    run,      \* what each worker process is doing
    asked,    \* cancel and resume requests between their read and their lock: the
              \* status or the interrupt read, and whether a cancellation was requested
    active    \* AppUser.status = "active"

vars == <<x, phase, msgs, req, cp, raised, run, asked, active>>
queueVars == <<phase, msgs>>
graphVars == <<cp, raised>>
userVars == <<asked, active>>

Queue == INSTANCE AtLeastOnce WITH Rows <- Execs

Terminal == {"completed", "failed", "cancelled"}
Busy == {"pending", "running", "waiting_input"}
Status == {"absent"} \cup Busy \cup Terminal
Interrupts == 1..MaxInterrupts
Errors == {"none", "unclaimed", "limit", "checkpoint", "mismatch", "disabled", "runtime"}

Row == [st      : Status,                       \* status
        owner   : Workers \cup {None},          \* worker_id
        lease   : {"none", "live", "expired"},  \* lease_expires_at
        claimed : BOOLEAN,                      \* claimed_at is set
        cancel  : BOOLEAN,                      \* cancel_requested_at is set
        att     : 0..MaxAttempts,               \* attempt_count
        payload : 0..MaxInterrupts,             \* interrupt_payload, 0 for {}
        error   : Errors,
        age     : 0..2,
        post    : BOOLEAN]                      \* postprocess row exists

\* An interrupt is known by its id alone, which no other one of the thread has.
Checkpoint == [kind : {"none", "open", "interrupt"}, id : 0..MaxInterrupts]

NoCheckpoint == [kind |-> "none", id |-> 0]
Open == [kind |-> "open", id |-> 0]
Pending(k) == [kind |-> "interrupt", id |-> k]

Stages == {"idle", "claimed", "loaded", "admitted", "turn", "graph", "interrupted", "ended",
           "consume", "park", "parked", "complete", "clear", "schedule", "cancelling", "closing"}

Job == [pc    : Stages,
        exec  : Execs \cup {None},
        st    : Status,                        \* status the runner loaded
        fence : Workers \cup {None},           \* expected_worker_id
        mode  : {"fresh", "resume", "continue"},
        rq    : 0..MaxInterrupts,              \* resume_request_id, 0 for None
        seen  : 0..MaxInterrupts,              \* interrupt the graph returned
        hb    : {"off", "on", "write"}]        \* heartbeat thread

Idle == [pc |-> "idle", exec |-> None, st |-> "absent", fence |-> None,
         mode |-> "fresh", rq |-> 0, seen |-> 0, hb |-> "off"]

TypeOK ==
    /\ x \in [Execs -> Row]
    /\ phase \in [Execs -> Queue!Phases]
    /\ msgs \in [Execs -> Nat]
    /\ req \in [Execs -> [Interrupts -> {"none", "pending", "claimed", "consumed"}]]
    /\ cp \in Checkpoint
    /\ raised \in 0..MaxInterrupts
    /\ run \in [Workers -> Job]
    /\ asked \in [Execs -> [cancel : Status \cup {None}, resume : 0..MaxInterrupts,
                         stop : BOOLEAN]]
    /\ active \in BOOLEAN

Unasked == [cancel |-> None, resume |-> 0, stop |-> FALSE]

NewRow == [st |-> "absent", owner |-> None, lease |-> "none", claimed |-> FALSE,
           cancel |-> FALSE, att |-> 0, payload |-> 0, error |-> "none", age |-> 0,
           post |-> FALSE]

Init ==
    /\ x = [e \in Execs |-> NewRow]
    /\ Queue!Init
    /\ req = [e \in Execs |-> [k \in Interrupts |-> "none"]]
    /\ cp = NoCheckpoint
    /\ raised = 0
    /\ run = [w \in Workers |-> Idle]
    /\ asked = [e \in Execs |-> Unasked]
    /\ active = TRUE

\* Mutant: the answers under way include those already consumed.
AnsweredRequests(e) == {k \in Interrupts : req[e][k] # "none"}

\* One UPDATE of one execution's row.
Write(e, row) == x' = [x EXCEPT ![e] = row]

\* The answers a worker may still apply.
ActiveRequests(e) == {k \in Interrupts : req[e][k] \in {"pending", "claimed"}}

------------------------------------------------------------------------------
(* The API *)

\* create_turn, under the lock of the chat session: at most one busy execution.
Create(e) ==
    /\ active /\ x[e].st = "absent"
    /\ \A f \in Execs : x[f].st \notin Busy
    /\ Write(e, [x[e] EXCEPT !.st = "pending"])
    /\ Queue!Request(e)
    /\ UNCHANGED <<req, graphVars, run, userVars>>

\* cancel_execution reads the execution; if a running one is to be cancelled
\* already, nothing is written ...
AskCancel(e) ==
    /\ "cancel" \in Ops /\ active
    /\ x[e].st # "absent" /\ asked[e].cancel = None
    /\ ~(x[e].st = "running" /\ x[e].cancel)
    /\ asked' = [asked EXCEPT ![e].cancel = x[e].st]
    /\ UNCHANGED <<x, queueVars, req, graphVars, run, active>>

\* ... and _cancel_execution decides on what was read, under the row lock.
Cancel(e) ==
    /\ asked[e].cancel # None
    /\ \/ asked[e].cancel \in Terminal /\ UNCHANGED x
       \/ /\ asked[e].cancel \in {"pending", "waiting_input"}
          /\ Write(e, [x[e] EXCEPT !.st = "cancelled", !.payload = 0])
       \/ /\ asked[e].cancel = "running"
          /\ Write(e, [x[e] EXCEPT !.cancel = TRUE])
    /\ asked' = [asked EXCEPT ![e].cancel = None]
    /\ UNCHANGED <<queueVars, req, graphVars, run, active>>

\* resume_execution reads an execution that waits for input ...
AskResume(e) ==
    /\ "resume" \in Ops /\ active
    /\ x[e].st = "waiting_input" /\ asked[e].resume = 0
    /\ asked' = [asked EXCEPT ![e].resume = x[e].payload, ![e].stop = x[e].cancel]
    /\ UNCHANGED <<x, queueVars, req, graphVars, run, active>>

\* The row an accepted answer leaves.  What is written are the columns whose value
\* differs from the one that was read: a cancellation requested since then stays,
\* and so does an error.
Resumed(e) == [x[e] EXCEPT !.st = "pending", !.cancel = @ /\ ~asked[e].stop,
                           !.owner = None, !.claimed = FALSE, !.lease = "none"]

\* Mutant: an answer under way does not keep the next one out.
ResumeBesideActive(e) ==
    LET k == asked[e].resume
        accepted == req[e][k] = "none"
    IN  /\ k # 0
        /\ \/ /\ accepted
              /\ req' = [req EXCEPT ![e][k] = "pending"]
              /\ Write(e, Resumed(e))
              /\ Queue!Request(e)
           \/ ~accepted /\ UNCHANGED <<x, queueVars, req>>
        /\ asked' = [asked EXCEPT ![e].resume = 0, ![e].stop = FALSE]
        /\ UNCHANGED <<graphVars, run, active>>

\* ... and _resume_execution stores the answer to the interrupt it read, unless
\* an answer is under way or the interrupt has one already (a unique constraint).
Resume(e) ==
    LET k == asked[e].resume
        accepted == ActiveRequests(e) = {} /\ req[e][k] = "none"
    IN  /\ k # 0
        /\ \/ /\ accepted
              /\ req' = [req EXCEPT ![e][k] = "pending"]
              /\ Write(e, Resumed(e))
              /\ Queue!Request(e)
           \/ ~accepted /\ UNCHANGED <<x, queueVars, req>>
        /\ asked' = [asked EXCEPT ![e].resume = 0, ![e].stop = FALSE]
        /\ UNCHANGED <<graphVars, run, active>>

\* Mutant: the outbox row is withdrawn, the queued execution is left as it is.
DisableRevokesOnly ==
    /\ "disable" \in Ops /\ active
    /\ active' = FALSE
    /\ x' = [e \in Execs |->
                CASE x[e].st = "running" -> [x[e] EXCEPT !.cancel = TRUE]
                  [] x[e].st = "waiting_input" ->
                        [x[e] EXCEPT !.st = "cancelled", !.payload = 0, !.error = "disabled"]
                  [] OTHER -> x[e]]
    /\ phase' = [e \in Execs |->
                    IF x[e].st \in {"pending", "waiting_input"} THEN "revoked" ELSE phase[e]]
    /\ UNCHANGED <<msgs, req, graphVars, run, asked>>

\* set_disabled with _disable_user_runtime: queued and waiting executions are
\* cancelled, a running one is asked to stop.
Disable ==
    /\ "disable" \in Ops /\ active
    /\ active' = FALSE
    /\ x' = [e \in Execs |->
                CASE x[e].st = "running" -> [x[e] EXCEPT !.cancel = TRUE]
                  [] x[e].st \in {"pending", "waiting_input"} ->
                        [x[e] EXCEPT !.st = "cancelled", !.payload = 0, !.error = "disabled"]
                  [] OTHER -> x[e]]
    /\ phase' = [e \in Execs |->
                    IF x[e].st \in {"pending", "waiting_input"} THEN "revoked" ELSE phase[e]]
    /\ UNCHANGED <<msgs, req, graphVars, run, asked>>

------------------------------------------------------------------------------
(* The dispatcher and the broker, as AtLeastOnce describes them *)

\* Tasks of an execution in the broker, queued or unacknowledged.
InFlight(e) == msgs[e] + Cardinality({w \in Workers : run[w].exec = e})

Dispatch(e) ==
    /\ InFlight(e) < MaxMsgs
    /\ Queue!Send(e)
    /\ UNCHANGED <<x, req, graphVars, run, userVars>>

\* _mark_published also records when the row was published.
Published(e) ==
    /\ Queue!Settle(e)
    /\ Write(e, [x[e] EXCEPT !.age = IF @ = 2 THEN 1 ELSE @])
    /\ UNCHANGED <<req, graphVars, run, userVars>>

Redispatch(e) ==
    /\ Queue!Forget({e})
    /\ UNCHANGED <<x, req, graphVars, run, userVars>>

------------------------------------------------------------------------------
(* claim_execution: a worker receives a task and claims the execution *)

\* A worker takes a message; what it does with it is one transaction.
Receive(w, e) == run[w] = Idle /\ Queue!Deliver(e)

\* Mutants: a finished execution is claimed again, or a live lease is ignored.
ClaimableFinished(e) == x[e].lease # "live"
ClaimableLeased(e) == x[e].st \notin Terminal

Claimable(e) == x[e].st \notin Terminal /\ x[e].lease # "live"

\* Finished, or under a live lease: the message is acknowledged and dropped.
DropMessage(w, e) ==
    /\ Receive(w, e)
    /\ ~Claimable(e)
    /\ UNCHANGED <<x, req, graphVars, run, userVars>>

FailClaim(e, why) ==
    /\ Write(e, [x[e] EXCEPT !.st = "failed", !.error = why])
    /\ UNCHANGED <<req, graphVars, run, userVars>>

ClaimExhausted(w, e) ==
    /\ Receive(w, e) /\ Claimable(e)
    /\ x[e].att >= MaxAttempts
    /\ FailClaim(e, "limit")

\* The user was disabled: cancel the execution and its outbox row.
ClaimDisabled(w, e) ==
    /\ run[w] = Idle /\ msgs[e] > 0 /\ Claimable(e)
    /\ x[e].att < MaxAttempts
    /\ ~active
    /\ Write(e, [x[e] EXCEPT !.st = "cancelled", !.error = "disabled"])
    /\ msgs' = [msgs EXCEPT ![e] = @ - 1]
    /\ phase' = [phase EXCEPT ![e] = "revoked"]
    /\ UNCHANGED <<req, graphVars, run, userVars>>

\* Mutant: one attempt too many.
MayRunOnceMore(w, e) ==
    /\ Receive(w, e) /\ Claimable(e)
    /\ x[e].att <= MaxAttempts
    /\ active

MayRun(w, e) ==
    /\ Receive(w, e) /\ Claimable(e)
    /\ x[e].att < MaxAttempts
    /\ active

\* The checkpoint store cannot be read.
ClaimUnreadable(w, e) ==
    /\ MayRun(w, e)
    /\ ActiveRequests(e) # {} \/ x[e].att > 0
    /\ FailClaim(e, "checkpoint")

\* The latest answer that is not consumed, and whether the checkpoint waits for
\* an answer, this one or another.
Latest(e) == CHOOSE k \in ActiveRequests(e) : \A j \in ActiveRequests(e) : j <= k
Mismatch(e) == /\ ActiveRequests(e) # {} /\ cp.kind = "interrupt"
               /\ cp # Pending(Latest(e))

ClaimMismatch(w, e) ==
    /\ MayRun(w, e)
    /\ Mismatch(e)
    /\ FailClaim(e, "mismatch")

Claim(w, e) ==
    LET answered == ActiveRequests(e) # {}
        mode == CASE answered /\ cp.kind = "interrupt" -> "resume"
                  [] answered /\ cp.kind # "interrupt" -> "continue"
                  [] ~answered /\ x[e].att > 0 /\ cp.kind # "none" -> "continue"
                  [] OTHER -> "fresh"
    IN  /\ MayRun(w, e)
        /\ ~Mismatch(e)
        /\ Write(e, [x[e] EXCEPT !.st = "pending", !.owner = w, !.lease = "live",
                                 !.claimed = TRUE, !.att = @ + 1])
        /\ req' = [req EXCEPT ![e] = [k \in Interrupts |->
                      IF answered /\ k = Latest(e) THEN "claimed" ELSE @[k]]]
        /\ run' = [run EXCEPT ![w] = [Idle EXCEPT !.pc = "claimed", !.exec = e, !.hb = "on",
                      !.mode = mode, !.rq = IF answered THEN Latest(e) ELSE 0]]
        /\ UNCHANGED <<graphVars, userVars>>

------------------------------------------------------------------------------
(* AgentRunner.run *)

At(w, l) == run[w].pc = l
Goto(w, l) == run' = [run EXCEPT ![w].pc = l]

\* set_execution_state and mark_waiting_input, whatever the row says by now.
SetState(w, st, payload, error) ==
    Write(run[w].exec, [x[run[w].exec] EXCEPT !.st = st, !.payload = payload, !.error = error])

\* Mutant: the check only looks at the lease.
AfterLeaseCheck(w, l) ==
    IF run[w].fence # None /\ x[run[w].exec].owner # run[w].fence THEN "closing" ELSE l

\* ensure_execution_not_cancelled: where a run goes that would go to l.
AfterCheck(w, l) ==
    LET row == x[run[w].exec] IN
    IF run[w].fence # None /\ row.owner # run[w].fence THEN "closing"
    ELSE IF row.cancel THEN "cancelling" ELSE l

\* _load_execution_context: the snapshot the admission decides on.
Load(w) ==
    LET row == x[run[w].exec] IN
    /\ At(w, "claimed")
    /\ run' = [run EXCEPT ![w].pc = IF row.st \in Terminal THEN "closing" ELSE "loaded",
                          ![w].st = row.st, ![w].fence = row.owner]
    /\ UNCHANGED <<x, queueVars, req, graphVars, userVars>>

\* The admission, under the row lock.  A snapshot that is `running` with a fresh
\* heartbeat belongs to another worker; the heartbeat may be fresh or not.
Admit(w) ==
    LET next == AfterCheck(w, "admitted") IN
    /\ At(w, "loaded")
    /\ \/ run[w].st = "running" /\ Goto(w, "closing") /\ UNCHANGED x
       \/ /\ Goto(w, next)
          /\ Write(run[w].exec, [x[run[w].exec] EXCEPT
                   !.claimed = @ \/ (next = "admitted" /\ run[w].fence = None)])
    /\ UNCHANGED <<queueVars, req, graphVars, userVars>>

\* Mutant: the answer counts as consumed when the run starts.
StartConsumes(w) ==
    /\ At(w, "admitted")
    /\ SetState(w, "running", 0, "none")
    /\ req' = [req EXCEPT ![run[w].exec] = [k \in Interrupts |->
                  IF k = run[w].rq THEN "consumed" ELSE @[k]]]
    /\ Goto(w, "turn")
    /\ UNCHANGED <<queueVars, graphVars, userVars>>

\* set_execution_state(running).
Start(w) ==
    /\ At(w, "admitted")
    /\ SetState(w, "running", 0, "none")
    /\ Goto(w, "turn")
    /\ UNCHANGED <<queueVars, req, graphVars, userVars>>

\* run_turn enters the graph: a new input starts the thread afresh, an answer
\* resumes the pending interrupt, and continuing raises it again.
Begin(w) ==
    /\ At(w, "turn")
    /\ \/ /\ run[w].mode = "fresh" \/ (run[w].mode = "resume" /\ cp.kind # "none")
             \/ (run[w].mode = "continue" /\ cp.kind = "open")
          /\ cp' = Open
          /\ Goto(w, "graph")
       \/ /\ run[w].mode = "continue" /\ cp.kind = "interrupt"
          /\ run' = [run EXCEPT ![w].pc = "interrupted", ![w].seen = cp.id]
          /\ UNCHANGED cp
    /\ UNCHANGED <<x, queueVars, req, raised, userVars>>

\* The check before every item of the graph's stream.
Check(w) ==
    /\ At(w, "graph")
    /\ AfterCheck(w, "graph") # "graph"
    /\ Goto(w, AfterCheck(w, "graph"))
    /\ UNCHANGED <<x, queueVars, req, graphVars, userVars>>

\* The graph asks for a confirmation: the checkpoint holds it before the worker
\* sees it.
ReachInterrupt(w) ==
    /\ At(w, "graph") /\ raised < MaxInterrupts
    /\ raised' = raised + 1
    /\ cp' = Pending(raised + 1)
    /\ run' = [run EXCEPT ![w].pc = "interrupted", ![w].seen = raised + 1]
    /\ UNCHANGED <<x, queueVars, req, userVars>>

\* The graph reaches its end.
ReachEnd(w) ==
    /\ At(w, "graph")
    /\ cp' = Open
    /\ Goto(w, "ended")
    /\ UNCHANGED <<x, queueVars, req, raised, userVars>>

\* Something in the try block of run raises, be it only the session of its own
\* that a check opens: the outcome is written without a check, over the one of
\* the turn if that is written already and only its attempt is not.
RunFails(w) ==
    /\ run[w].pc \notin {"idle", "claimed", "cancelling", "closing"}
    /\ SetState(w, "failed", 0, "runtime")
    /\ Goto(w, "closing")
    /\ UNCHANGED <<queueVars, req, graphVars, userVars>>

\* The last check before the outcome of the turn is recorded: with the
\* interrupt's stream item, or after the assistant message was persisted.
TurnDone(w) ==
    /\ run[w].pc \in {"interrupted", "ended"}
    /\ Goto(w, AfterCheck(w, IF run[w].rq # 0 THEN "consume"
                             ELSE IF At(w, "interrupted") THEN "park" ELSE "complete"))
    /\ UNCHANGED <<x, queueVars, req, graphVars, userVars>>

\* mark_resume_consumed, in a transaction of its own.
Consume(w) ==
    /\ At(w, "consume")
    /\ req' = [req EXCEPT ![run[w].exec][run[w].rq] = "consumed"]
    /\ Goto(w, IF run[w].seen # 0 THEN "park" ELSE "complete")
    /\ UNCHANGED <<x, queueVars, graphVars, userVars>>

\* Mutant: the row does not say which interrupt it waits for.
ParkBlindly(w) ==
    /\ At(w, "park")
    /\ SetState(w, "waiting_input", 0, "none")
    /\ Goto(w, "parked")
    /\ UNCHANGED <<queueVars, req, graphVars, userVars>>

\* mark_waiting_input.
Park(w) ==
    /\ At(w, "park")
    /\ SetState(w, "waiting_input", run[w].seen, "none")
    /\ Goto(w, "parked")
    /\ UNCHANGED <<queueVars, req, graphVars, userVars>>

Complete(w) ==
    /\ At(w, "complete")
    /\ SetState(w, "completed", 0, "none")
    /\ Goto(w, "clear")
    /\ UNCHANGED <<queueVars, req, graphVars, userVars>>

\* clear_thread_persistence, whose failure is only logged.
Clear(w) ==
    /\ At(w, "clear")
    /\ cp' \in {cp, NoCheckpoint}
    /\ Goto(w, "schedule")
    /\ UNCHANGED <<x, queueVars, req, raised, userVars>>

\* A check again, then the postprocess row, if the database takes it.
Schedule(w) ==
    /\ At(w, "schedule")
    /\ \/ UNCHANGED x
       \/ /\ AfterCheck(w, "safe") = "safe"
          /\ Write(run[w].exec, [x[run[w].exec] EXCEPT !.post = TRUE])
    /\ Goto(w, AfterCheck(w, "closing"))
    /\ UNCHANGED <<queueVars, req, graphVars, userVars>>

\* The handler of ExecutionCancelled.
CancelRun(w) ==
    /\ At(w, "cancelling")
    /\ SetState(w, "cancelled", 0, "none")
    /\ Goto(w, "closing")
    /\ UNCHANGED <<queueVars, req, graphVars, userVars>>

\* The heartbeat thread has ended (the two seconds close waits for it are taken
\* to be enough); the task returns and is acknowledged.
Close(w) ==
    /\ run[w].pc \in {"parked", "closing"} /\ run[w].hb # "write"
    /\ run' = [run EXCEPT ![w] = Idle]
    /\ UNCHANGED <<x, queueVars, req, graphVars, userVars>>

\* The process dies; acks_late gives its message back to the broker.
Crash(w) ==
    /\ run[w] # Idle
    /\ msgs' = [msgs EXCEPT ![run[w].exec] = @ + 1]
    /\ run' = [run EXCEPT ![w] = Idle]
    /\ UNCHANGED <<x, phase, req, graphVars, userVars>>

\* An exception leaves the task, because its database session is broken, or the
\* hard time limit ends it: either way the message is acknowledged.
Abort(w) ==
    /\ run[w] # Idle
    /\ run' = [run EXCEPT ![w] = Idle]
    /\ UNCHANGED <<x, queueVars, req, graphVars, userVars>>

------------------------------------------------------------------------------
(* The heartbeat thread: an unlocked read, then the renewal *)

HeartbeatRead(w) ==
    LET row == x[run[w].exec] IN
    /\ run[w].hb = "on"
    /\ run' = [run EXCEPT ![w].hb =
                  IF row.st \in Terminal \/ row.owner # w THEN "off" ELSE "write"]
    /\ UNCHANGED <<x, queueVars, req, graphVars, userVars>>

HeartbeatWrite(w) ==
    /\ run[w].hb = "write"
    /\ Write(run[w].exec, [x[run[w].exec] EXCEPT !.lease = "live"])
    /\ run' = [run EXCEPT ![w].hb = "on"]
    /\ UNCHANGED <<queueVars, req, graphVars, userVars>>

------------------------------------------------------------------------------
(* recover_expired_executions, per row, and time *)

\* Published, not claimed, and created before the claim deadline.
FailUnclaimed(e) ==
    /\ x[e].st = "pending" /\ ~x[e].claimed
    /\ x[e].age > 0 /\ phase[e] = "done"
    /\ Write(e, [x[e] EXCEPT !.st = "failed", !.error = "unclaimed"])
    /\ UNCHANGED <<queueVars, req, graphVars, run, userVars>>

\* Mutants: a claimed execution that did not start yet is not recovered, or one
\* under a live lease is.
RecoverRunning(e) ==
    /\ x[e].st = "running" /\ x[e].lease = "expired"
    /\ \/ /\ x[e].att >= MaxAttempts
          /\ Write(e, [x[e] EXCEPT !.st = "failed", !.error = "limit"])
          /\ UNCHANGED queueVars
       \/ /\ x[e].att < MaxAttempts
          /\ Write(e, [x[e] EXCEPT !.st = "pending", !.owner = None, !.claimed = FALSE,
                                   !.lease = "none"])
          /\ Queue!Request(e)
    /\ UNCHANGED <<req, graphVars, run, userVars>>

RecoverLive(e) ==
    /\ x[e].st \in {"pending", "running"} /\ x[e].lease # "none"
    /\ x[e].att < MaxAttempts
    /\ Write(e, [x[e] EXCEPT !.st = "pending", !.owner = None, !.claimed = FALSE,
                             !.lease = "none"])
    /\ Queue!Request(e)
    /\ UNCHANGED <<req, graphVars, run, userVars>>

\* The lease of a claimed execution ran out: try again, or give up.
RecoverLease(e) ==
    /\ x[e].st \in {"pending", "running"} /\ x[e].lease = "expired"
    /\ \/ /\ x[e].att >= MaxAttempts
          /\ Write(e, [x[e] EXCEPT !.st = "failed", !.error = "limit"])
          /\ UNCHANGED queueVars
       \/ /\ x[e].att < MaxAttempts
          /\ Write(e, [x[e] EXCEPT !.st = "pending", !.owner = None, !.claimed = FALSE,
                                   !.lease = "none"])
          /\ Queue!Request(e)
    /\ UNCHANGED <<req, graphVars, run, userVars>>

\* Its heartbeat thread renews the lease of e.
Renews(w, e) == run[w].exec = e /\ run[w].hb # "off" /\ x[e].owner = w

\* Of an execution that is over, nobody looks at the lease.
LeaseExpires(e) ==
    /\ x[e].lease = "live" /\ x[e].st \notin Terminal
    /\ Stalls \/ \A w \in Workers : ~Renews(w, e)
    /\ Write(e, [x[e] EXCEPT !.lease = "expired"])
    /\ UNCHANGED <<queueVars, req, graphVars, run, userVars>>

\* Time passes where the watchdog looks at it: for an execution nobody claimed.
Age(e) ==
    /\ x[e].st = "pending" /\ ~x[e].claimed
    /\ x[e].age = 0 \/ (x[e].age = 1 /\ phase[e] = "done")
    /\ Write(e, [x[e] EXCEPT !.age = @ + 1])
    /\ UNCHANGED <<queueVars, req, graphVars, run, userVars>>

------------------------------------------------------------------------------
UserNext(e) == Create(e) \/ AskCancel(e) \/ Cancel(e) \/ AskResume(e) \/ Resume(e)

QueueNext(e) == Dispatch(e) \/ Published(e) \/ Redispatch(e)

ClaimNext(w, e) ==
    \/ DropMessage(w, e) \/ ClaimExhausted(w, e) \/ ClaimDisabled(w, e)
    \/ ClaimUnreadable(w, e) \/ ClaimMismatch(w, e) \/ Claim(w, e)

\* What the code of a live worker does next.
RunNext(w) ==
    \/ Load(w) \/ Admit(w) \/ Start(w) \/ Begin(w) \/ Check(w)
    \/ ReachInterrupt(w) \/ ReachEnd(w) \/ RunFails(w) \/ TurnDone(w) \/ Consume(w)
    \/ Park(w) \/ Complete(w) \/ Clear(w) \/ Schedule(w) \/ CancelRun(w) \/ Close(w)

Watchdog(e) == FailUnclaimed(e) \/ RecoverLease(e)

Next ==
    \/ \E e \in Execs : UserNext(e) \/ QueueNext(e) \/ Watchdog(e) \/ LeaseExpires(e) \/ Age(e)
    \/ \E w \in Workers :
        \/ RunNext(w) \/ Crash(w) \/ Abort(w) \/ HeartbeatRead(w) \/ HeartbeatWrite(w)
        \/ \E e \in Execs : ClaimNext(w, e)
    \/ Disable

Spec == Init /\ [][Next]_vars

\* Live workers go on and their heartbeat threads run; the outbox sends what is
\* owed (Outbox, OwedIsSent); the broker delivers to some worker; beat runs the
\* watchdog; time passes.  Nobody is bound to ask for anything, and nothing is
\* bound to crash or to stall.
Fairness ==
    /\ \A w \in Workers :
        WF_vars(RunNext(w)) /\ WF_vars(HeartbeatRead(w)) /\ WF_vars(HeartbeatWrite(w))
    /\ \A e \in Execs :
        /\ SF_vars(Dispatch(e) /\ phase' # phase) /\ WF_vars(Published(e))
        /\ SF_vars(\E w \in Workers : ClaimNext(w, e))
        /\ WF_vars(FailUnclaimed(e)) /\ WF_vars(RecoverLease(e))
        /\ WF_vars(LeaseExpires(e)) /\ WF_vars(Age(e))

LiveSpec == Spec /\ Fairness

------------------------------------------------------------------------------
(* Properties: what holds *)

\* No user and no administrator has interfered so far.  With a cancellation, an
\* answer or a disabled account in play the next properties fail: the decisions
\* on rows read before their lock let two workers run, or bring a row back.
Unattended ==
    /\ active
    /\ \A e \in Execs :
        /\ ~x[e].cancel /\ x[e].st # "cancelled"
        /\ asked[e] = Unasked
        /\ \A k \in Interrupts : req[e][k] = "none"

InTurn(w, e) == run[w].exec = e /\ run[w].pc \in {"turn", "graph", "interrupted", "ended"}

\* Duplicate deliveries and crashed workers never make two workers run a turn
\* of the session at once: an execution is claimed only when the lease of its
\* earlier worker has run out, and a new one only starts when the last is over.
SingleRunner ==
    Unattended =>
        \A v, w \in Workers, e, f \in Execs : InTurn(v, e) /\ InTurn(w, f) => v = w

\* A worker that passed the last check still owns the execution when it writes
\* the outcome, although nothing locks the row between the check and the write.
OutcomeByOwner ==
    Unattended =>
        \A w \in Workers :
            run[w].pc \in {"consume", "park", "complete", "clear"} => x[run[w].exec].owner = w

\* What the user is asked to confirm is what the checkpoint waits for: the row
\* and the checkpoint are written in two transactions of two stores.
WaitShowsCheckpoint ==
    Unattended => \A e \in Execs : x[e].st = "waiting_input" => cp = Pending(x[e].payload)

\* What is over stays over: redelivered messages, the watchdog, the heartbeat
\* thread and a worker on its way out never bring a finished execution back.
StaysOver ==
    [][Unattended => \A e \in Execs : x[e].st \in Terminal => x'[e].st \in Terminal]_vars

\* A queued or running execution ends or waits for the user, whatever crashes,
\* duplicates and lost leases come in between.
Settles ==
    \A e \in Execs : x[e].st \in {"pending", "running"}
                        ~> x[e].st \in Terminal \cup {"waiting_input"}

\* One answer at most is under way in an execution: the claim takes the latest
\* one and would leave any other behind (_resume_execution, claim_execution).
OneActiveAnswer ==
    \A e \in Execs : \A j, k \in ActiveRequests(e) : j = k

\* A consumed answer is never handed to a worker again.
AnswerFinal ==
    [][\A e \in Execs, k \in Interrupts : req[e][k] = "consumed" => req'[e][k] = "consumed"]_vars

\* An answer is consumed only when the checkpoint has left the interrupt it
\* answers: until then another worker can apply it (docs/DESIGN.md:50).
ConsumedAfterApplied ==
    \A e \in Execs, k \in Interrupts : req[e][k] = "consumed" => cp # Pending(k)

\* A session has at most one busy execution.
OneBusyExecution ==
    \A e, f \in Execs : x[e].st \in Busy /\ x[f].st \in Busy => e = f

\* A cancellation that arrives while the graph runs is honoured: the execution
\* does not end as completed, nor wait for the user.
CancelHonoured ==
    \A e \in Execs :
        (x[e].cancel /\ \E w \in Workers : At(w, "graph") /\ run[w].exec = e)
            ~> x[e].st \in {"cancelled", "failed"}

\* Some time after a user is disabled nothing of theirs runs or waits to run.
DisabledComesToRest ==
    ~active ~> [](\A e \in Execs : x[e].st \notin {"pending", "running"})

==============================================================================
