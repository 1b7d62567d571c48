----------------------- MODULE ExecutionLifecycleProofs -----------------------
(***************************************************************************)
(* What holds of ExecutionLifecycle for every set of executions and        *)
(* workers, every limit and every choice of user operations, with stalled  *)
(* workers or without: types, and that an answer is consumed once, after   *)
(* the checkpoint has taken it.  Then, where nobody cancels and no lease   *)
(* expires under a live worker, what holds until somebody interferes: one  *)
(* runner, outcomes by their owner, and what a waiting row shows.          *)
(***************************************************************************)
EXTENDS ExecutionLifecycle, TLAPS

\* A worker that does something does it for an execution.
JobHasExecution ==
    \A w \in Workers : (run[w].pc # "idle" \/ run[w].hb # "off") => run[w].exec \in Execs

IInv == TypeOK /\ OneActiveAnswer /\ JobHasExecution

USE LifecycleAssumption

\* The latest of at most one active answer is that answer.
LEMMA LatestActive ==
    ASSUME OneActiveAnswer, NEW e \in Execs, ActiveRequests(e) # {}
    PROVE  /\ Latest(e) \in ActiveRequests(e)
           /\ Latest(e) \in Interrupts
<1>1. PICK k \in ActiveRequests(e) : TRUE
  OBVIOUS
<1>2. \A j \in ActiveRequests(e) : j = k
  BY <1>1 DEF OneActiveAnswer
<1>3. k \in Interrupts /\ k \in Nat
  BY <1>1 DEF ActiveRequests, Interrupts
<1>4. \A j \in ActiveRequests(e) : j <= k
  BY <1>2, <1>3
<1>5. Latest(e) \in ActiveRequests(e)
  BY <1>1, <1>4 DEF Latest
<1> QED
  BY <1>2, <1>3, <1>5

\* The initial state satisfies the invariant.
LEMMA InitInv == Init => IInv
BY DEF Init, IInv, TypeOK, OneActiveAnswer, JobHasExecution, ActiveRequests, Row, NewRow, Status,
       Errors, Unasked, Busy, Terminal, Checkpoint, NoCheckpoint, Job, Idle, Stages, Queue!Init, Queue!Phases

\* The values the actions write into a row are of the row's types.
LEMMA Values ==
    /\ {"pending", "running", "waiting_input", "completed", "failed", "cancelled"} \subseteq Status
    /\ {"none", "unclaimed", "limit", "checkpoint", "mismatch", "disabled", "runtime"} \subseteq Errors
    /\ 0 \in 0..MaxInterrupts
BY DEF Status, Busy, Terminal, Errors

\* Writing a row keeps the table of rows.
LEMMA RowWritten ==
    ASSUME x \in [Execs -> Row], NEW e, NEW r \in Row, Write(e, r)
    PROVE  x' \in [Execs -> Row]
BY DEF Write

\* The row an accepted answer leaves: queued, and not to be cancelled unless it was.
LEMMA ResumedRow ==
    ASSUME IInv, NEW e \in Execs
    PROVE  /\ Resumed(e) \in Row
           /\ Resumed(e).st = "pending" /\ Resumed(e).payload = x[e].payload
           /\ ~x[e].cancel => ~Resumed(e).cancel
<1> DEFINE c == x[e].cancel /\ ~asked[e].stop
<1>1. x[e] \in Row
  BY DEF IInv, TypeOK
<1>2. c \in BOOLEAN /\ (~x[e].cancel => ~c)
  OBVIOUS
<1>3. Resumed(e) = [x[e] EXCEPT !.st = "pending", !.cancel = c, !.owner = None, !.claimed = FALSE,
                                !.lease = "none"]
  BY DEF Resumed
<1> HIDE DEF c
<1>4. Resumed(e) \in Row
  <2> DEFINE q == [x[e] EXCEPT !.st = "pending", !.cancel = c]
  <2>1. q \in Row
    BY <1>1, <1>2, Values DEF Row
  <2>2. Resumed(e) = [q EXCEPT !.owner = None, !.claimed = FALSE, !.lease = "none"]
    BY <1>3
  <2> HIDE DEF q
  <2> QED
    BY <2>1, <2>2 DEF Row
<1>5. /\ Resumed(e).st = "pending" /\ Resumed(e).payload = x[e].payload
      /\ Resumed(e).cancel = c
  BY <1>1, <1>3 DEF Row
<1> QED
  BY <1>2, <1>4, <1>5

\* Every operation of the API and of an administrator keeps the types.
LEMMA UserTypes ==
    ASSUME IInv, NEW e \in Execs, UserNext(e)
    PROVE  TypeOK'
<1>rows. x \in [Execs -> Row]
  BY DEF IInv, TypeOK
<1>phases. phase \in [Execs -> Queue!Phases]
  BY DEF IInv, TypeOK
<1>reqs. req \in [Execs -> [Interrupts -> {"none", "pending", "claimed", "consumed"}]]
  BY DEF IInv, TypeOK
<1>asked. asked \in [Execs -> [cancel : Status \cup {None}, resume : 0..MaxInterrupts, stop : BOOLEAN]]
  BY DEF IInv, TypeOK
<1>1. CASE Create(e)
  <2>1. x' \in [Execs -> Row]
    <3>1. [x[e] EXCEPT !.st = "pending"] \in Row
      BY <1>rows, Values DEF Row
    <3> QED
      BY <3>1, <1>rows, <1>1, RowWritten DEF Create, Queue!Request
  <2>2. phase' \in [Execs -> Queue!Phases]
    BY <1>phases, <1>1 DEF Create, Queue!Request, Queue!Phases
  <2> QED
    BY <2>1, <2>2, <1>1 DEF Create, Queue!Request, TypeOK, IInv, queueVars, graphVars,
       userVars
<1>2. CASE AskCancel(e)
  <2>1. asked' \in [Execs -> [cancel : Status \cup {None}, resume : 0..MaxInterrupts, stop : BOOLEAN]]
    BY <1>rows, <1>asked, <1>2 DEF AskCancel, Row
  <2> QED
    BY <2>1, <1>2 DEF AskCancel, TypeOK, IInv, queueVars, graphVars, userVars
<1>3. CASE Cancel(e)
  <2>1. x' \in [Execs -> Row]
    <3>1. /\ [x[e] EXCEPT !.st = "cancelled", !.payload = 0] \in Row
          /\ [x[e] EXCEPT !.cancel = TRUE] \in Row
      BY ZenonT(30), <1>rows, Values DEF Row
    <3> QED
      BY <3>1, <1>rows, <1>3, RowWritten DEF Cancel
  <2>2. asked' \in [Execs -> [cancel : Status \cup {None}, resume : 0..MaxInterrupts, stop : BOOLEAN]]
    BY <1>asked, <1>3 DEF Cancel
  <2> QED
    BY <2>1, <2>2, <1>3 DEF Cancel, TypeOK, IInv, queueVars, graphVars, userVars
<1>4. CASE AskResume(e)
  <2>1. asked' \in [Execs -> [cancel : Status \cup {None}, resume : 0..MaxInterrupts, stop : BOOLEAN]]
    <3>1. x[e].payload \in 0..MaxInterrupts /\ x[e].cancel \in BOOLEAN
      BY <1>rows DEF Row
    <3>2. \A n \in 0..MaxInterrupts, b \in BOOLEAN : [asked EXCEPT ![e].resume = n, ![e].stop = b]
            \in [Execs -> [cancel : Status \cup {None}, resume : 0..MaxInterrupts, stop : BOOLEAN]]
      BY <1>asked
    <3> QED
      BY <1>4, <3>1, <3>2 DEF AskResume
  <2> QED
    BY <2>1, <1>4 DEF AskResume, TypeOK, IInv, queueVars, graphVars, userVars
<1>5. CASE Resume(e)
  <2>1. x' \in [Execs -> Row]
    <3>1. Resumed(e) \in Row
      BY ResumedRow
    <3> QED
      BY <3>1, <1>rows, <1>5, RowWritten DEF Resume, Queue!Request
  <2>2. req' \in [Execs -> [Interrupts -> {"none", "pending", "claimed", "consumed"}]]
    BY <1>reqs, <1>5 DEF Resume, Queue!Request
  <2>3. phase' \in [Execs -> Queue!Phases]
    BY <1>phases, <1>5 DEF Resume, Queue!Request, Queue!Phases, queueVars
  <2>4. asked' \in [Execs -> [cancel : Status \cup {None}, resume : 0..MaxInterrupts, stop : BOOLEAN]]
    <3>1. [asked EXCEPT ![e].resume = 0, ![e].stop = FALSE]
            \in [Execs -> [cancel : Status \cup {None}, resume : 0..MaxInterrupts, stop : BOOLEAN]]
      BY <1>asked, Values
    <3> QED
      BY <1>5, <3>1 DEF Resume
  <2> QED
    BY <2>1, <2>2, <2>3, <2>4, <1>5 DEF Resume, Queue!Request, TypeOK, IInv, queueVars,
       graphVars, userVars
<1> QED
  BY <1>1, <1>2, <1>3, <1>4, <1>5 DEF UserNext

\* Disabling the user keeps the types.
LEMMA DisableTypes ==
    ASSUME IInv, Disable
    PROVE  TypeOK'
<1>1. x \in [Execs -> Row] /\ phase \in [Execs -> Queue!Phases]
  BY DEF IInv, TypeOK
<1>2. x' \in [Execs -> Row]
  <2>1. \A r \in Row : /\ [r EXCEPT !.cancel = TRUE] \in Row
                     /\ [r EXCEPT !.st = "cancelled", !.payload = 0, !.error = "disabled"] \in Row
    BY Values DEF Row
  <2> QED
    BY <1>1, <2>1 DEF Disable
<1>3. phase' \in [Execs -> Queue!Phases]
  BY <1>1 DEF Disable, Queue!Phases
<1> QED
  BY <1>2, <1>3 DEF Disable, TypeOK, IInv, queueVars, graphVars, userVars

\* The outbox, the broker, the watchdog and time keep the types.
LEMMA EnvironmentTypes ==
    ASSUME IInv, NEW e \in Execs,
           QueueNext(e) \/ Watchdog(e) \/ LeaseExpires(e) \/ Age(e)
    PROVE  TypeOK'
<1>rows. x \in [Execs -> Row]
  BY DEF IInv, TypeOK
<1>phases. phase \in [Execs -> Queue!Phases]
  BY DEF IInv, TypeOK
<1>msgs. msgs \in [Execs -> Nat]
  BY DEF IInv, TypeOK
<1>1. CASE Dispatch(e)
  <2>1. phase' \in [Execs -> Queue!Phases]
    BY <1>phases, <1>1 DEF Dispatch, Queue!Send, Queue!Phases
  <2>2. msgs' \in [Execs -> Nat]
    BY <1>msgs, <1>1 DEF Dispatch, Queue!Send
  <2> QED
    BY <2>1, <2>2, <1>1 DEF Dispatch, Queue!Send, TypeOK, IInv, queueVars, graphVars,
       userVars
<1>2. CASE Published(e)
  <2>1. x' \in [Execs -> Row]
    <3>1. [x[e] EXCEPT !.age = IF @ = 2 THEN 1 ELSE @] \in Row
      BY <1>rows, Values DEF Row
    <3> QED
      BY <3>1, <1>rows, <1>2, RowWritten DEF Published, Queue!Settle
  <2>2. phase' \in [Execs -> Queue!Phases]
    BY <1>phases, <1>2 DEF Published, Queue!Settle, Queue!Phases
  <2> QED
    BY <2>1, <2>2, <1>2 DEF Published, Queue!Settle, TypeOK, IInv, queueVars, graphVars,
       userVars
<1>3. CASE Redispatch(e)
  <2>1. phase' \in [Execs -> Queue!Phases]
    BY <1>phases, <1>3 DEF Redispatch, Queue!Forget, Queue!Phases
  <2> QED
    BY <2>1, <1>3 DEF Redispatch, Queue!Forget, TypeOK, IInv, queueVars, graphVars,
       userVars
<1>4. CASE FailUnclaimed(e)
  <2>1. x' \in [Execs -> Row]
    <3>1. [x[e] EXCEPT !.st = "failed", !.error = "unclaimed"] \in Row
      BY ZenonT(30), <1>rows, Values DEF Row
    <3> QED
      BY <3>1, <1>rows, <1>4, RowWritten DEF FailUnclaimed
  <2> QED
    BY <2>1, <1>4 DEF FailUnclaimed, TypeOK, IInv, queueVars, graphVars, userVars
<1>5. CASE RecoverLease(e)
  <2>1. x' \in [Execs -> Row]
    <3>1. /\ [x[e] EXCEPT !.st = "failed", !.error = "limit"] \in Row
          /\ [x[e] EXCEPT !.st = "pending", !.owner = None, !.claimed = FALSE, !.lease = "none"] \in Row
      BY ZenonT(30), <1>rows, Values DEF Row
    <3> QED
      BY <3>1, <1>rows, <1>5, RowWritten DEF RecoverLease, Queue!Request
  <2>2. phase' \in [Execs -> Queue!Phases]
    BY <1>phases, <1>5 DEF RecoverLease, Queue!Request, Queue!Phases, queueVars
  <2> QED
    BY <2>1, <2>2, <1>5 DEF RecoverLease, Queue!Request, TypeOK, IInv, queueVars,
       graphVars, userVars
<1>6. CASE LeaseExpires(e)
  <2>1. x' \in [Execs -> Row]
    <3>1. [x[e] EXCEPT !.lease = "expired"] \in Row
      BY <1>rows, Values DEF Row
    <3> QED
      BY <3>1, <1>rows, <1>6, RowWritten DEF LeaseExpires
  <2> QED
    BY <2>1, <1>6 DEF LeaseExpires, TypeOK, IInv, queueVars, graphVars, userVars
<1>7. CASE Age(e)
  <2>1. x' \in [Execs -> Row]
    <3>1. x[e].age + 1 \in 0..2
      BY <1>rows, <1>7 DEF Age, Row
    <3>2. [x[e] EXCEPT !.age = @ + 1] \in Row
      BY <3>1, <1>rows DEF Row
    <3> QED
      BY <3>2, <1>rows, <1>7, RowWritten DEF Age
  <2> QED
    BY <2>1, <1>7 DEF Age, TypeOK, IInv, queueVars, graphVars, userVars
<1> QED
  BY <1>1, <1>2, <1>3, <1>4, <1>5, <1>6, <1>7 DEF QueueNext, Watchdog

\* What a worker does with a message keeps the types.
LEMMA ClaimTypes ==
    ASSUME IInv, NEW e \in Execs, NEW w \in Workers, ClaimNext(w, e)
    PROVE  TypeOK'
<1>rows. x \in [Execs -> Row]
  BY DEF IInv, TypeOK
<1>phases. phase \in [Execs -> Queue!Phases]
  BY DEF IInv, TypeOK
<1>msgs. msgs \in [Execs -> Nat]
  BY DEF IInv, TypeOK
<1>reqs. req \in [Execs -> [Interrupts -> {"none", "pending", "claimed", "consumed"}]]
  BY DEF IInv, TypeOK
<1>jobs. run \in [Workers -> Job]
  BY DEF IInv, TypeOK
<1>latest. ActiveRequests(e) # {} => Latest(e) \in Interrupts /\ Latest(e) \in 0..MaxInterrupts
  BY LatestActive DEF IInv, Interrupts
<1>1. CASE DropMessage(w, e)
  <2>1. msgs' \in [Execs -> Nat]
    BY <1>msgs, <1>1 DEF DropMessage, Receive, Queue!Deliver
  <2> QED
    BY <2>1, <1>1 DEF DropMessage, Receive, Queue!Deliver, TypeOK, IInv, queueVars,
       graphVars, userVars
<1>2. CASE ClaimExhausted(w, e)
  <2>1. x' \in [Execs -> Row]
    <3>1. [x[e] EXCEPT !.st = "failed", !.error = "limit"] \in Row
      BY ZenonT(30), <1>rows, Values DEF Row
    <3> QED
      BY <3>1, <1>rows, <1>2, RowWritten DEF ClaimExhausted, FailClaim, Receive, Queue!Deliver
  <2>2. msgs' \in [Execs -> Nat]
    BY <1>msgs, <1>2 DEF ClaimExhausted, FailClaim, Receive, Queue!Deliver
  <2> QED
    BY <2>1, <2>2, <1>2 DEF ClaimExhausted, FailClaim, Receive, Queue!Deliver, TypeOK,
       IInv, queueVars, graphVars, userVars
<1>3. CASE ClaimDisabled(w, e)
  <2>1. x' \in [Execs -> Row]
    <3>1. [x[e] EXCEPT !.st = "cancelled", !.error = "disabled"] \in Row
      BY ZenonT(30), <1>rows, Values DEF Row
    <3> QED
      BY <3>1, <1>rows, <1>3, RowWritten DEF ClaimDisabled
  <2>2. msgs' \in [Execs -> Nat]
    BY <1>msgs, <1>3 DEF ClaimDisabled
  <2>3. phase' \in [Execs -> Queue!Phases]
    BY <1>phases, <1>3 DEF ClaimDisabled, Queue!Phases
  <2> QED
    BY <2>1, <2>2, <2>3, <1>3 DEF ClaimDisabled, TypeOK, IInv, queueVars, graphVars,
       userVars
<1>4. CASE ClaimUnreadable(w, e)
  <2>1. x' \in [Execs -> Row]
    <3>1. [x[e] EXCEPT !.st = "failed", !.error = "checkpoint"] \in Row
      BY ZenonT(30), <1>rows, Values DEF Row
    <3> QED
      BY <3>1, <1>rows, <1>4, RowWritten DEF ClaimUnreadable, MayRun, FailClaim, Receive, Queue!Deliver
  <2>2. msgs' \in [Execs -> Nat]
    BY <1>msgs, <1>4 DEF ClaimUnreadable, MayRun, FailClaim, Receive, Queue!Deliver
  <2> QED
    BY <2>1, <2>2, <1>4 DEF ClaimUnreadable, MayRun, FailClaim, Receive, Queue!Deliver,
       TypeOK, IInv, queueVars, graphVars, userVars
<1>5. CASE ClaimMismatch(w, e)
  <2>1. x' \in [Execs -> Row]
    <3>1. [x[e] EXCEPT !.st = "failed", !.error = "mismatch"] \in Row
      BY ZenonT(30), <1>rows, Values DEF Row
    <3> QED
      BY <3>1, <1>rows, <1>5, RowWritten DEF ClaimMismatch, MayRun, FailClaim, Receive, Queue!Deliver
  <2>2. msgs' \in [Execs -> Nat]
    BY <1>msgs, <1>5 DEF ClaimMismatch, MayRun, FailClaim, Receive, Queue!Deliver
  <2> QED
    BY <2>1, <2>2, <1>5 DEF ClaimMismatch, MayRun, FailClaim, Receive, Queue!Deliver,
       TypeOK, IInv, queueVars, graphVars, userVars
<1>6. CASE Claim(w, e)
  <2>1. x' \in [Execs -> Row]
    <3>1. x[e].att + 1 \in 0..MaxAttempts
      BY <1>rows, <1>6 DEF Claim, MayRun, Row
    <3>2. [x[e] EXCEPT !.st = "pending", !.owner = w, !.lease = "live", !.claimed = TRUE,
                       !.att = @ + 1] \in Row
      BY ZenonT(30), <3>1, <1>rows, Values DEF Row
    <3> QED
      BY <3>2, <1>rows, <1>6, RowWritten DEF Claim
  <2>2. msgs' \in [Execs -> Nat]
    BY <1>msgs, <1>6 DEF Claim, MayRun, Receive, Queue!Deliver
  <2>3. req' \in [Execs -> [Interrupts -> {"none", "pending", "claimed", "consumed"}]]
    BY <1>reqs, <1>6 DEF Claim, MayRun, Receive, Queue!Deliver
  <2>4. run' \in [Workers -> Job]
    <3>1. /\ "claimed" \in Stages /\ "absent" \in Status
          /\ 0 \in 0..MaxInterrupts /\ (ActiveRequests(e) # {} => Latest(e) \in 0..MaxInterrupts)
      BY <1>latest DEF Stages, Status
    <3>2. \A m \in {"fresh", "resume", "continue"}, q \in 0..MaxInterrupts :
            [Idle EXCEPT !.pc = "claimed", !.exec = e, !.hb = "on", !.mode = m, !.rq = q] \in Job
      BY <3>1 DEF Job, Idle
    <3> QED
      BY <3>1, <3>2, <1>jobs, <1>6 DEF Claim
  <2> QED
    BY <2>1, <2>2, <2>3, <2>4, <1>6 DEF Claim, MayRun, Receive, Queue!Deliver, TypeOK,
       IInv, queueVars, graphVars, userVars
<1> QED
  BY <1>1, <1>2, <1>3, <1>4, <1>5, <1>6 DEF ClaimNext

\* A run keeps the types.
LEMMA RunTypes ==
    ASSUME IInv, NEW w \in Workers, RunNext(w)
    PROVE  TypeOK'
<1>rows. x \in [Execs -> Row]
  BY DEF IInv, TypeOK
<1>reqs. req \in [Execs -> [Interrupts -> {"none", "pending", "claimed", "consumed"}]]
  BY DEF IInv, TypeOK
<1>cp. cp \in Checkpoint
  BY DEF IInv, TypeOK
<1>raised. raised \in 0..MaxInterrupts
  BY DEF IInv, TypeOK
<1>jobs. run \in [Workers -> Job]
  BY DEF IInv, TypeOK
<1>has. run[w].pc # "idle" => run[w].exec \in Execs
  BY DEF IInv, JobHasExecution
<1>state. \A st \in Status, p \in 0..MaxInterrupts, er \in Errors :
               SetState(w, st, p, er) /\ run[w].pc # "idle" => x' \in [Execs -> Row]
  <2> SUFFICES ASSUME NEW st \in Status, NEW p \in 0..MaxInterrupts, NEW er \in Errors,
                      SetState(w, st, p, er), run[w].pc # "idle"
               PROVE  x' \in [Execs -> Row]
    OBVIOUS
  <2>1. [x[run[w].exec] EXCEPT !.st = st, !.payload = p, !.error = er] \in Row
    <3>1. x[run[w].exec] \in Row
      BY <1>has, <1>rows
    <3> QED
      BY <3>1 DEF Row
  <2> QED
    BY <2>1, <1>rows, RowWritten DEF SetState
<1>1. CASE Load(w)
  <2>1. run' \in [Workers -> Job]
    <3>1. x[run[w].exec] \in Row
      BY <1>rows, <1>has, <1>1 DEF Load, At
    <3>2. x[run[w].exec].st \in Status /\ x[run[w].exec].owner \in Workers \cup {None}
      BY <3>1 DEF Row
    <3>3. \A l \in Stages : [run[w] EXCEPT !.pc = l, !.st = x[run[w].exec].st,
                                        !.fence = x[run[w].exec].owner] \in Job
      BY ZenonT(30), <3>2, <1>jobs DEF Job
    <3>4. {"closing", "loaded"} \subseteq Stages
      BY DEF Stages
    <3> QED
      BY <3>3, <3>4, <1>jobs, <1>1 DEF Load
  <2> QED
    BY <2>1, <1>1 DEF Load, At, TypeOK, IInv, queueVars, graphVars, userVars
<1>2. CASE Admit(w)
  <2>1. x' \in [Execs -> Row]
    <3>1. x[run[w].exec] \in Row
      BY <1>rows, <1>has, <1>2 DEF Admit, At
    <3>2. \A p \in BOOLEAN : [x[run[w].exec] EXCEPT !.claimed = @ \/ p] \in Row
      BY <3>1 DEF Row
    <3> QED
      BY <3>2, <1>rows, <1>2, RowWritten DEF Admit
  <2>2. run' \in [Workers -> Job]
    BY <1>jobs, <1>2 DEF Admit, At, Goto, Job, Stages, AfterCheck
  <2> QED
    BY <2>1, <2>2, <1>2 DEF Admit, At, Goto, TypeOK, IInv, queueVars, graphVars,
       userVars
<1>3. CASE Start(w)
  <2>1. x' \in [Execs -> Row]
    BY <1>state, <1>jobs, Values, <1>3 DEF Start, At, Goto
  <2>2. run' \in [Workers -> Job]
    BY <1>jobs, <1>3 DEF Start, At, Goto, Job, Stages
  <2> QED
    BY <2>1, <2>2, <1>3 DEF Start, At, Goto, TypeOK, IInv, queueVars, graphVars,
       userVars
<1>4. CASE Begin(w)
  <2>1. cp' \in Checkpoint
    BY <1>jobs, <1>cp, <1>4 DEF Begin, At, Goto, Checkpoint, Open, Job
  <2>2. run' \in [Workers -> Job]
    BY <1>jobs, <1>cp, <1>4 DEF Begin, At, Goto, Job, Stages, Checkpoint
  <2> QED
    BY <2>1, <2>2, <1>4 DEF Begin, At, Goto, TypeOK, IInv, queueVars, graphVars,
       userVars
<1>5. CASE Check(w)
  <2>1. run' \in [Workers -> Job]
    BY <1>jobs, <1>5 DEF Check, At, Goto, Job, Stages, AfterCheck
  <2> QED
    BY <2>1, <1>5 DEF Check, At, Goto, TypeOK, IInv, queueVars, graphVars, userVars
<1>6. CASE ReachInterrupt(w)
  <2>1. cp' \in Checkpoint
    BY <1>raised, <1>6 DEF ReachInterrupt, Checkpoint, Pending
  <2>2. raised' \in 0..MaxInterrupts
    BY <1>raised, <1>6 DEF ReachInterrupt
  <2>3. run' \in [Workers -> Job]
    <3>1. raised + 1 \in 0..MaxInterrupts
      BY <1>raised, <1>6 DEF ReachInterrupt
    <3>2. "interrupted" \in Stages
      BY DEF Stages
    <3>3. [run[w] EXCEPT !.pc = "interrupted", !.seen = raised + 1] \in Job
      BY ZenonT(30), <3>1, <3>2, <1>jobs DEF Job
    <3> QED
      BY <3>3, <1>jobs, <1>6 DEF ReachInterrupt
  <2> QED
    BY <2>1, <2>2, <2>3, <1>6 DEF ReachInterrupt, At, TypeOK, IInv, queueVars,
       graphVars, userVars
<1>7. CASE ReachEnd(w)
  <2>1. cp' \in Checkpoint
    BY <1>jobs, <1>7 DEF ReachEnd, At, Goto, Checkpoint, Open, Job
  <2>2. run' \in [Workers -> Job]
    BY <1>jobs, <1>7 DEF ReachEnd, At, Goto, Job, Stages
  <2> QED
    BY <2>1, <2>2, <1>7 DEF ReachEnd, At, Goto, TypeOK, IInv, queueVars, graphVars,
       userVars
<1>8. CASE RunFails(w)
  <2>1. x' \in [Execs -> Row]
    BY <1>state, <1>jobs, Values, <1>8 DEF RunFails, Goto
  <2>2. run' \in [Workers -> Job]
    BY <1>jobs, <1>8 DEF RunFails, Goto, Job, Stages
  <2> QED
    BY <2>1, <2>2, <1>8 DEF RunFails, Goto, TypeOK, IInv, queueVars, graphVars, userVars
<1>9. CASE TurnDone(w)
  <2>1. run' \in [Workers -> Job]
    BY <1>jobs, <1>9 DEF TurnDone, At, Goto, Job, Stages, AfterCheck
  <2> QED
    BY <2>1, <1>9 DEF TurnDone, At, Goto, TypeOK, IInv, queueVars, graphVars, userVars
<1>10. CASE Consume(w)
  <2>1. req' \in [Execs -> [Interrupts -> {"none", "pending", "claimed", "consumed"}]]
    BY <1>reqs, <1>10 DEF Consume, At, Goto
  <2>2. run' \in [Workers -> Job]
    BY <1>jobs, <1>10 DEF Consume, At, Goto, Job, Stages
  <2> QED
    BY <2>1, <2>2, <1>10 DEF Consume, At, Goto, TypeOK, IInv, queueVars, graphVars,
       userVars
<1>11. CASE Park(w)
  <2>1. x' \in [Execs -> Row]
    BY <1>state, <1>jobs, Values, <1>11 DEF Park, At, Goto, Job
  <2>2. run' \in [Workers -> Job]
    BY <1>jobs, <1>11 DEF Park, At, Goto, Job, Stages
  <2> QED
    BY <2>1, <2>2, <1>11 DEF Park, At, Goto, TypeOK, IInv, queueVars, graphVars,
       userVars
<1>12. CASE Complete(w)
  <2>1. x' \in [Execs -> Row]
    BY <1>state, <1>jobs, Values, <1>12 DEF Complete, At, Goto
  <2>2. run' \in [Workers -> Job]
    BY <1>jobs, <1>12 DEF Complete, At, Goto, Job, Stages
  <2> QED
    BY <2>1, <2>2, <1>12 DEF Complete, At, Goto, TypeOK, IInv, queueVars, graphVars,
       userVars
<1>13. CASE Clear(w)
  <2>1. cp' \in Checkpoint
    BY <1>cp, <1>13 DEF Clear, At, Goto, Checkpoint, NoCheckpoint
  <2>2. run' \in [Workers -> Job]
    BY <1>jobs, <1>13 DEF Clear, At, Goto, Job, Stages
  <2> QED
    BY <2>1, <2>2, <1>13 DEF Clear, At, Goto, TypeOK, IInv, queueVars, graphVars,
       userVars
<1>14. CASE Schedule(w)
  <2>1. x' \in [Execs -> Row]
    <3>1. x[run[w].exec] \in Row
      BY <1>rows, <1>has, <1>14 DEF Schedule, At
    <3>2. [x[run[w].exec] EXCEPT !.post = TRUE] \in Row
      BY <3>1 DEF Row
    <3> QED
      BY <3>2, <1>rows, <1>14, RowWritten DEF Schedule
  <2>2. run' \in [Workers -> Job]
    BY <1>jobs, <1>14 DEF Schedule, At, Goto, Job, Stages, AfterCheck
  <2> QED
    BY <2>1, <2>2, <1>14 DEF Schedule, At, Goto, TypeOK, IInv, queueVars, graphVars,
       userVars
<1>15. CASE CancelRun(w)
  <2>1. x' \in [Execs -> Row]
    BY <1>state, <1>jobs, Values, <1>15 DEF CancelRun, At, Goto
  <2>2. run' \in [Workers -> Job]
    BY <1>jobs, <1>15 DEF CancelRun, At, Goto, Job, Stages
  <2> QED
    BY <2>1, <2>2, <1>15 DEF CancelRun, At, Goto, TypeOK, IInv, queueVars, graphVars,
       userVars
<1>16. CASE Close(w)
  <2>1. run' \in [Workers -> Job]
    BY <1>jobs, <1>16 DEF Close, At, Job, Stages, Idle, Status
  <2> QED
    BY <2>1, <1>16 DEF Close, At, TypeOK, IInv, queueVars, graphVars, userVars
<1> QED
  BY <1>1, <1>2, <1>3, <1>4, <1>5, <1>6, <1>7, <1>8, <1>9, <1>10, <1>11, <1>12, <1>13,
     <1>14, <1>15, <1>16 DEF RunNext

\* A crash, an aborted task and the heartbeat thread keep the types.
LEMMA HeartbeatTypes ==
    ASSUME IInv, NEW w \in Workers,
           Crash(w) \/ Abort(w) \/ HeartbeatRead(w) \/ HeartbeatWrite(w)
    PROVE  TypeOK'
<1>rows. x \in [Execs -> Row]
  BY DEF IInv, TypeOK
<1>msgs. msgs \in [Execs -> Nat]
  BY DEF IInv, TypeOK
<1>jobs. run \in [Workers -> Job]
  BY DEF IInv, TypeOK
<1>beats. run[w].hb # "off" => run[w].exec \in Execs
  BY DEF IInv, JobHasExecution
<1>1. CASE Crash(w)
  <2>1. msgs' \in [Execs -> Nat]
    <3>1. msgs' = [msgs EXCEPT ![run[w].exec] = @ + 1]
      BY <1>1 DEF Crash
    <3>2. CASE run[w].exec \in Execs
      BY <3>1, <3>2, <1>msgs
    <3>3. CASE run[w].exec \notin Execs
      BY <3>1, <3>3, <1>msgs
    <3> QED
      BY <3>2, <3>3
  <2>2. run' \in [Workers -> Job]
    BY <1>jobs, <1>1 DEF Crash, Job, Stages, Idle, Status
  <2> QED
    BY <2>1, <2>2, <1>1 DEF Crash, TypeOK, IInv, queueVars, graphVars, userVars
<1>2. CASE HeartbeatRead(w)
  <2>1. run' \in [Workers -> Job]
    BY <1>jobs, <1>2 DEF HeartbeatRead, Job, Stages
  <2> QED
    BY <2>1, <1>2 DEF HeartbeatRead, TypeOK, IInv, queueVars, graphVars, userVars
<1>3. CASE HeartbeatWrite(w)
  <2>1. x' \in [Execs -> Row]
    <3>1. x[run[w].exec] \in Row
      BY <1>rows, <1>beats, <1>3 DEF HeartbeatWrite
    <3>2. [x[run[w].exec] EXCEPT !.lease = "live"] \in Row
      BY <3>1 DEF Row
    <3> QED
      BY <3>2, <1>rows, <1>3, RowWritten DEF HeartbeatWrite
  <2>2. run' \in [Workers -> Job]
    BY <1>jobs, <1>3 DEF HeartbeatWrite, Job, Stages
  <2> QED
    BY <2>1, <2>2, <1>3 DEF HeartbeatWrite, TypeOK, IInv, queueVars, graphVars, userVars
<1>4. CASE Abort(w)
  <2>1. run' \in [Workers -> Job]
    BY <1>jobs, <1>4 DEF Abort, Job, Stages, Idle, Status
  <2> QED
    BY <2>1, <1>4 DEF Abort, TypeOK, IInv, queueVars, graphVars, userVars
<1> QED
  BY <1>1, <1>2, <1>3, <1>4 DEF IInv

\* Only three actions touch the answers.
LEMMA AnswersUntouched ==
    ASSUME Next
    PROVE  \/ UNCHANGED req
           \/ \E e \in Execs : Resume(e)
           \/ \E e \in Execs, w \in Workers : Claim(w, e)
           \/ \E w \in Workers : Consume(w)
<1>1. ASSUME NEW e \in Execs, UserNext(e)  PROVE UNCHANGED req \/ Resume(e)
  BY <1>1 DEF UserNext, Create, AskCancel, Cancel, AskResume
<1>2. ASSUME NEW e \in Execs, QueueNext(e) \/ Watchdog(e) \/ LeaseExpires(e) \/ Age(e)
      PROVE  UNCHANGED req
  BY <1>2 DEF QueueNext, Dispatch, Published, Redispatch, Watchdog, FailUnclaimed, RecoverLease,
     LeaseExpires, Age
<1>3. ASSUME NEW e \in Execs, NEW w \in Workers, ClaimNext(w, e)
      PROVE  UNCHANGED req \/ Claim(w, e)
  BY <1>3 DEF ClaimNext, DropMessage, ClaimExhausted, ClaimDisabled, ClaimUnreadable,
     ClaimMismatch, FailClaim
<1>4. ASSUME NEW w \in Workers, RunNext(w)  PROVE UNCHANGED req \/ Consume(w)
  BY <1>4 DEF RunNext, Load, Admit, Start, Begin, Check, ReachInterrupt, ReachEnd, RunFails,
     TurnDone, Park, Complete, Clear, Schedule, CancelRun, Close
<1>5. ASSUME NEW w \in Workers, Crash(w) \/ Abort(w) \/ HeartbeatRead(w) \/ HeartbeatWrite(w)
      PROVE  UNCHANGED req
  BY <1>5 DEF Crash, Abort, HeartbeatRead, HeartbeatWrite
<1>6. ASSUME Disable  PROVE UNCHANGED req
  BY <1>6 DEF Disable
<1> QED
  BY <1>1, <1>2, <1>3, <1>4, <1>5, <1>6 DEF Next

\* A step keeps the answers consistent: the API admits no second active answer,
\* a claim takes the only one there is, and nothing revives a consumed one.
LEMMA AnswerStep ==
    ASSUME IInv, Next
    PROVE  /\ OneActiveAnswer'
           /\ \A e \in Execs, k \in Interrupts : req[e][k] = "consumed" => req'[e][k] = "consumed"
<1>reqs. req \in [Execs -> [Interrupts -> {"none", "pending", "claimed", "consumed"}]]
  BY DEF IInv, TypeOK
<1>one. \A f \in Execs : \A j, k \in Interrupts :
           req[f][j] \in {"pending", "claimed"} /\ req[f][k] \in {"pending", "claimed"} => j = k
  BY DEF IInv, OneActiveAnswer, ActiveRequests
<1> SUFFICES \A f \in Execs : \A j, k \in Interrupts :
               /\ req'[f][j] \in {"pending", "claimed"} /\ req'[f][k] \in {"pending", "claimed"}
                    => j = k
               /\ req[f][k] = "consumed" => req'[f][k] = "consumed"
  BY DEF OneActiveAnswer, ActiveRequests
<1>1. CASE UNCHANGED req
  BY <1>1, <1>one
<1>2. ASSUME NEW e \in Execs, Resume(e)
      PROVE  \A f \in Execs : \A j, k \in Interrupts :
               /\ req'[f][j] \in {"pending", "claimed"} /\ req'[f][k] \in {"pending", "claimed"}
                    => j = k
               /\ req[f][k] = "consumed" => req'[f][k] = "consumed"
  <2>1. CASE UNCHANGED req
    BY <2>1, <1>one
  <2>2. CASE /\ ActiveRequests(e) = {} /\ req[e][asked[e].resume] = "none"
             /\ req' = [req EXCEPT ![e][asked[e].resume] = "pending"]
    <3>1. \A k \in Interrupts : req[e][k] \notin {"pending", "claimed"}
      BY <2>2 DEF ActiveRequests
    <3> QED
      BY <2>2, <3>1, <1>one, <1>reqs
  <2> QED
    BY <1>2, <2>1, <2>2 DEF Resume
<1>3. ASSUME NEW e \in Execs, NEW w \in Workers, Claim(w, e)
      PROVE  \A f \in Execs : \A j, k \in Interrupts :
               /\ req'[f][j] \in {"pending", "claimed"} /\ req'[f][k] \in {"pending", "claimed"}
                    => j = k
               /\ req[f][k] = "consumed" => req'[f][k] = "consumed"
  <2>1. ActiveRequests(e) # {} => req[e][Latest(e)] \in {"pending", "claimed"}
    BY LatestActive DEF IInv, ActiveRequests
  <2>2. req' = [req EXCEPT ![e] = [k \in Interrupts |->
                  IF ActiveRequests(e) # {} /\ k = Latest(e) THEN "claimed" ELSE req[e][k]]]
    BY <1>3 DEF Claim
  <2> QED
    BY <2>1, <2>2, <1>one, <1>reqs
<1>4. ASSUME NEW w \in Workers, Consume(w)
      PROVE  \A f \in Execs : \A j, k \in Interrupts :
               /\ req'[f][j] \in {"pending", "claimed"} /\ req'[f][k] \in {"pending", "claimed"}
                    => j = k
               /\ req[f][k] = "consumed" => req'[f][k] = "consumed"
  <2>1. req' = [req EXCEPT ![run[w].exec][run[w].rq] = "consumed"]
    BY <1>4 DEF Consume
  <2> QED
    BY <2>1, <1>one, <1>reqs
<1> QED
  BY <1>1, <1>2, <1>3, <1>4, AnswersUntouched

\* What the code of a live worker does leaves its execution to it until it ends.
LEMMA RunKeepsExecution ==
    ASSUME IInv, NEW w \in Workers, NEW v \in Workers,
           RunNext(w) \/ Crash(w) \/ Abort(w) \/ HeartbeatRead(w) \/ HeartbeatWrite(w)
    PROVE  \/ run'[v] = run[v] \/ run'[v] = Idle
           \/ /\ run[v].pc # "idle" \/ run[v].hb # "off"
              /\ run'[v].exec = run[v].exec
<1>jobs. run \in [Workers -> Job]
  BY DEF IInv, TypeOK
<1> USE <1>jobs DEF Job
<1>1. CASE RunNext(w)
  <2>1. CASE Load(w) \/ Admit(w) \/ Start(w) \/ Begin(w) \/ Check(w)
    BY <2>1 DEF At, Goto, Load, Admit, Start, Begin, Check
  <2>2. CASE ReachInterrupt(w) \/ ReachEnd(w) \/ RunFails(w) \/ TurnDone(w) \/ Consume(w)
    BY <2>2 DEF At, Goto, ReachInterrupt, ReachEnd, RunFails, TurnDone, Consume
  <2>3. CASE Park(w) \/ Complete(w) \/ Clear(w) \/ Schedule(w) \/ CancelRun(w) \/ Close(w)
    BY <2>3 DEF At, Goto, Park, Complete, Clear, Schedule, CancelRun, Close
  <2> QED
    BY <1>1, <2>1, <2>2, <2>3 DEF RunNext
<1>2. CASE Crash(w)
  BY <1>2 DEF Crash
<1>3. CASE HeartbeatRead(w)
  BY <1>3 DEF HeartbeatRead
<1>4. CASE HeartbeatWrite(w)
  BY <1>4 DEF HeartbeatWrite
<1>5. CASE Abort(w)
  BY <1>5 DEF Abort
<1> QED
  BY <1>1, <1>2, <1>3, <1>4, <1>5

\* A worker that is busy, or whose heartbeat thread runs, has an execution: a
\* job gets its execution with the claim and loses it when it ends.
LEMMA JobInv ==
    ASSUME IInv, Next
    PROVE  JobHasExecution'
<1>jobs. run \in [Workers -> Job] /\ JobHasExecution
  BY DEF IInv, TypeOK
<1>idle. Idle.pc = "idle" /\ Idle.hb = "off"
  BY DEF Idle
<1> SUFFICES ASSUME NEW v \in Workers, run'[v].pc # "idle" \/ run'[v].hb # "off"
             PROVE  run'[v].exec \in Execs
  BY DEF JobHasExecution
<1>1. CASE UNCHANGED run
  BY <1>1, <1>jobs DEF JobHasExecution
<1>2. ASSUME NEW w \in Workers, NEW e \in Execs, Claim(w, e)
      PROVE  run'[v].exec \in Execs
  BY <1>2, <1>jobs DEF Claim, JobHasExecution, Idle
<1>3. ASSUME NEW w \in Workers, RunNext(w) \/ Crash(w) \/ Abort(w) \/ HeartbeatRead(w) \/ HeartbeatWrite(w)
      PROVE  run'[v].exec \in Execs
  BY <1>3, <1>jobs, <1>idle, RunKeepsExecution DEF JobHasExecution
<1>4. ASSUME NEW e \in Execs, UserNext(e)  PROVE UNCHANGED run
  BY <1>4 DEF UserNext, Create, AskCancel, Cancel, AskResume, Resume, Disable
<1>5. ASSUME NEW e \in Execs, QueueNext(e) \/ Watchdog(e) \/ LeaseExpires(e) \/ Age(e)
      PROVE  UNCHANGED run
  BY <1>5 DEF QueueNext, Dispatch, Published, Redispatch, Watchdog, FailUnclaimed, RecoverLease,
     LeaseExpires, Age
<1>6. ASSUME NEW e \in Execs, NEW w \in Workers, ClaimNext(w, e)
      PROVE  UNCHANGED run \/ Claim(w, e)
  BY <1>6 DEF ClaimNext, DropMessage, ClaimExhausted, ClaimDisabled, ClaimUnreadable,
     ClaimMismatch, FailClaim
<1>7. CASE Disable
  BY <1>7, <1>1 DEF Disable
<1> QED
  BY <1>1, <1>2, <1>3, <1>4, <1>5, <1>6, <1>7 DEF Next

\* Every step keeps the inductive invariant.
LEMMA NextInv == IInv /\ [Next]_vars => IInv'
<1>1. ASSUME IInv, Next  PROVE IInv'
  <2>1. OneActiveAnswer' /\ JobHasExecution'
    BY <1>1, AnswerStep, JobInv
  <2>2. ASSUME NEW e \in Execs, UserNext(e)  PROVE TypeOK'
    BY <1>1, <2>2, UserTypes
  <2>3. ASSUME NEW e \in Execs, QueueNext(e) \/ Watchdog(e) \/ LeaseExpires(e) \/ Age(e)
        PROVE  TypeOK'
    BY <1>1, <2>3, EnvironmentTypes
  <2>4. ASSUME NEW e \in Execs, NEW w \in Workers, ClaimNext(w, e)  PROVE TypeOK'
    BY <1>1, <2>4, ClaimTypes
  <2>5. ASSUME NEW w \in Workers, RunNext(w)  PROVE TypeOK'
    BY <1>1, <2>5, RunTypes
  <2>6. ASSUME NEW w \in Workers, Crash(w) \/ Abort(w) \/ HeartbeatRead(w) \/ HeartbeatWrite(w)
        PROVE  TypeOK'
    BY <1>1, <2>6, HeartbeatTypes
  <2>7. ASSUME Disable  PROVE TypeOK'
    BY <1>1, <2>7, DisableTypes
  <2>8. TypeOK'
    BY <1>1, <2>2, <2>3, <2>4, <2>5, <2>6, <2>7 DEF Next
  <2> QED
    BY <2>1, <2>8 DEF IInv
<1>2. ASSUME IInv, UNCHANGED vars  PROVE IInv'
  BY <1>2 DEF vars, IInv, TypeOK, OneActiveAnswer, ActiveRequests, JobHasExecution
<1> QED
  BY <1>1, <1>2

\* The inductive invariant holds in every reachable state.
LEMMA Invariance == Spec => []IInv
BY InitInv, NextInv, PTL DEF Spec

\* Rows, jobs, answers and the checkpoint keep their types under every
\* operation of the API, the workers, the heartbeat and the watchdog.
THEOREM TypeCorrect == Spec => []TypeOK
<1>1. IInv => TypeOK
  BY DEF IInv
<1> QED
  BY <1>1, Invariance, PTL

\* At most one answer is under way in an execution, although cancel, resume and
\* the worker's admission decide on values they read before the row lock: the
\* answer a worker claims is the only one it could.
THEOREM OneAnswer == Spec => []OneActiveAnswer
<1>1. IInv => OneActiveAnswer
  BY DEF IInv
<1> QED
  BY <1>1, Invariance, PTL

\* A consumed answer stays consumed, whoever crashes, stalls or takes over.
THEOREM ConsumedIsFinal == Spec => AnswerFinal
<1>1. ASSUME IInv, [Next]_vars
      PROVE  [\A e \in Execs, k \in Interrupts :
                req[e][k] = "consumed" => req'[e][k] = "consumed"]_vars
  BY <1>1, AnswerStep
<1> QED
  BY <1>1, Invariance, PTL DEF Spec, AnswerFinal

------------------------------------------------------------------------------
(* Answers and the interrupts they answer *)

\* Rows, requests, answers and jobs name only interrupts the graph has raised.
KnownInterrupts ==
    /\ cp.id <= raised
    /\ \A e \in Execs : x[e].payload <= raised /\ asked[e].resume <= raised
    /\ \A e \in Execs, k \in Interrupts : req[e][k] # "none" => k <= raised
    /\ \A w \in Workers : run[w].seen <= raised /\ run[w].rq <= raised

\* Where a worker that resumed an interrupt has left it behind.
Beyond == {"graph", "interrupted", "ended", "consume"}

\* A worker with an answer that went past it, or that has only to go on, will not
\* find the checkpoint at the interrupt it answers.
LeftBehind(w) ==
    run[w].rq # 0 =>
        /\ run[w].mode # "fresh"
        /\ run[w].mode = "continue" \/ run[w].pc \in Beyond => cp # Pending(run[w].rq)

AInv == KnownInterrupts /\ (\A w \in Workers : LeftBehind(w)) /\ ConsumedAfterApplied

LEMMA Kinds == \A k : cp = Pending(k) => cp.kind = "interrupt" /\ cp.id = k
BY DEF Pending

LEMMA PayloadWritten ==
    ASSUME x \in [Execs -> Row], NEW n \in Nat, \A f \in Execs : x[f].payload <= n,
           NEW e, NEW r, Write(e, r), e \in Execs => r.payload <= n
    PROVE  \A f \in Execs : x'[f].payload <= n
BY DEF Write

\* Moving on changes nothing of a job but its stage.
LEMMA JobMoved ==
    ASSUME run \in [Workers -> Job], NEW w \in Workers, NEW l, Goto(w, l)
    PROVE  /\ \A v \in Workers : /\ run'[v].seen = run[v].seen /\ run'[v].rq = run[v].rq
                                 /\ run'[v].mode = run[v].mode
                                 /\ v # w => run'[v].pc = run[v].pc
           /\ run'[w].pc = l
BY DEF Goto, Job

\* A step of a worker that leaves the checkpoint and the answers alone and moves
\* on to a stage before the interrupt, or to one it had reached already.
LEMMA MovedOn ==
    ASSUME IInv, AInv, NEW w \in Workers, NEW l, Goto(w, l), UNCHANGED <<cp, raised, req, asked>>,
           \A e \in Execs : x'[e].payload <= raised,
           l \in Beyond => run[w].pc \in Beyond
    PROVE  AInv'
<1>0. run \in [Workers -> Job]
  BY DEF IInv, TypeOK
<1>1. KnownInterrupts'
  BY <1>0, JobMoved DEF AInv, KnownInterrupts
<1>2. ASSUME NEW v \in Workers PROVE LeftBehind(v)'
  <2>1. LeftBehind(v)
    BY DEF AInv
  <2>2. /\ run'[v].rq = run[v].rq /\ run'[v].mode = run[v].mode
        /\ run'[v].pc \in Beyond => run[v].pc \in Beyond
    BY <1>0, JobMoved
  <2> QED
    BY <2>1, <2>2 DEF LeftBehind, Pending
<1>3. ConsumedAfterApplied'
  BY DEF AInv, ConsumedAfterApplied, Pending
<1> QED
  BY <1>1, <1>2, <1>3 DEF AInv

\* A step of a worker after which the checkpoint waits for nothing.
LEMMA NothingPending ==
    ASSUME IInv, AInv, NEW w \in Workers, NEW l, Goto(w, l), UNCHANGED <<x, raised, req, asked>>,
           cp' \in {Open, NoCheckpoint},
           l \in Beyond /\ run[w].rq # 0 => run[w].mode # "fresh"
    PROVE  AInv'
<1>0. run \in [Workers -> Job] /\ raised \in Nat
  BY DEF IInv, TypeOK
<1>1. cp'.id = 0 /\ \A k : cp' # Pending(k)
  BY DEF Open, NoCheckpoint, Pending
<1>2. KnownInterrupts'
  BY <1>0, <1>1, JobMoved DEF AInv, KnownInterrupts
<1>3. \A v \in Workers : LeftBehind(v)'
  BY <1>0, <1>1, JobMoved DEF AInv, LeftBehind, Pending
<1>4. ConsumedAfterApplied'
  BY <1>1 DEF ConsumedAfterApplied, Pending
<1> QED
  BY <1>2, <1>3, <1>4 DEF AInv

\* A step that leaves checkpoint, jobs and answers alone.
LEMMA RowsOnly ==
    ASSUME AInv, UNCHANGED <<cp, raised, run, req, asked>>,
           \A e \in Execs : x'[e].payload <= raised
    PROVE  AInv'
BY DEF AInv, KnownInterrupts, LeftBehind, ConsumedAfterApplied, Pending

\* The API's part, and an administrator's: an answer is to an interrupt a row
\* showed, and no stored answer is consumed by it.
LEMMA UserApplied ==
    ASSUME IInv, AInv, (\E e \in Execs : UserNext(e)) \/ Disable
    PROVE  AInv'
<1>0. /\ x \in [Execs -> Row]
      /\ req \in [Execs -> [Interrupts -> {"none", "pending", "claimed", "consumed"}]]
      /\ asked \in [Execs -> [cancel : Status \cup {None}, resume : 0..MaxInterrupts, stop : BOOLEAN]]
      /\ raised \in Nat
      /\ \A e \in Execs : x[e].payload <= raised
  BY DEF IInv, TypeOK, AInv, KnownInterrupts
<1>1. ASSUME NEW e \in Execs, Create(e) \/ AskCancel(e) \/ Cancel(e) \/ AskResume(e)
      PROVE  AInv'
  <2>0. UNCHANGED <<cp, raised, run, req>>
    BY <1>1 DEF Create, AskCancel, Cancel, AskResume, graphVars
  <2>1. \A f \in Execs : x'[f].payload <= raised
    <3>1. UNCHANGED x \/ \E r : Write(e, r) /\ r.payload \in {x[e].payload, 0}
      <4>1. x[e] \in Row
        BY <1>0
      <4>2. CASE Create(e)
        BY <4>1, <4>2 DEF Create, Row
      <4>3. CASE Cancel(e)
        <5>1. /\ [x[e] EXCEPT !.st = "cancelled", !.payload = 0].payload = 0
              /\ [x[e] EXCEPT !.cancel = TRUE].payload = x[e].payload
          BY <4>1 DEF Row
        <5> QED
          BY <4>3, <5>1 DEF Cancel
      <4> QED
        BY <1>1, <4>2, <4>3 DEF AskCancel, AskResume
    <3>2. x[e].payload <= raised /\ 0 <= raised
      BY <1>0
    <3> QED
      BY <1>0, <3>1, <3>2, PayloadWritten
  <2>2. \A f \in Execs : asked'[f].resume <= raised
    <3>0. \A f \in Execs : asked[f].resume <= raised
      BY DEF AInv, KnownInterrupts
    <3>1. CASE Create(e)
      BY <3>0, <3>1 DEF Create, userVars
    <3>2. CASE AskCancel(e)
      BY <1>0, <3>0, <3>2 DEF AskCancel
    <3>3. CASE Cancel(e)
      BY <1>0, <3>0, <3>3 DEF Cancel
    <3>4. CASE AskResume(e)
      BY <1>0, <3>0, <3>4 DEF AskResume
    <3> QED
      BY <1>1, <3>1, <3>2, <3>3, <3>4
  <2> QED
    BY <2>0, <2>1, <2>2 DEF AInv, KnownInterrupts, LeftBehind, ConsumedAfterApplied, Pending
<1>2. ASSUME NEW e \in Execs, Resume(e) PROVE AInv'
  <2> DEFINE k == asked[e].resume
  <2>0. UNCHANGED <<cp, raised, run>>
    BY <1>2 DEF Resume, graphVars
  <2>1. \A f \in Execs : x'[f].payload <= raised
    <3>1. Resumed(e).payload = x[e].payload
      BY ResumedRow
    <3>2. Write(e, Resumed(e)) \/ UNCHANGED x
      BY <1>2 DEF Resume
    <3> QED
      BY <1>0, <3>1, <3>2, PayloadWritten
  <2>2. \A f \in Execs : asked'[f].resume <= raised
    <3>1. asked' = [asked EXCEPT ![e].resume = 0, ![e].stop = FALSE]
      BY <1>2 DEF Resume
    <3>2. \A f \in Execs : asked'[f].resume \in {asked[f].resume, 0}
      BY <1>0, <3>1
    <3> QED
      BY SMTT(20), <1>0, <3>2 DEF AInv, KnownInterrupts
  <2>3. UNCHANGED req \/ req' = [req EXCEPT ![e][k] = "pending"]
    BY <1>2 DEF Resume
  <2>4. k <= raised
    BY DEF AInv, KnownInterrupts
  <2>5. \A f \in Execs, j \in Interrupts :
          /\ req'[f][j] # "none" => req[f][j] # "none" \/ j = k
          /\ req'[f][j] = "consumed" => req[f][j] = "consumed"
    BY <1>0, <2>3
  <2> HIDE DEF k
  <2>6. KnownInterrupts'
    BY <2>0, <2>1, <2>2, <2>4, <2>5 DEF AInv, KnownInterrupts
  <2>7. \A w \in Workers : LeftBehind(w)'
    BY <2>0 DEF AInv, LeftBehind
  <2>8. ConsumedAfterApplied'
    BY <2>0, <2>5 DEF AInv, ConsumedAfterApplied, Pending
  <2> QED
    BY <2>6, <2>7, <2>8 DEF AInv
<1>3. CASE Disable
  <2>1. UNCHANGED <<cp, raised, run, req, asked>>
    BY <1>3 DEF Disable, graphVars
  <2>2. \A e \in Execs : x'[e].payload <= raised
    <3>1. \A r \in Row : /\ [r EXCEPT !.cancel = TRUE].payload = r.payload
                       /\ [r EXCEPT !.st = "cancelled", !.payload = 0, !.error = "disabled"].payload = 0
      BY DEF Row
    <3>2. ASSUME NEW e \in Execs PROVE x'[e].payload \in {x[e].payload, 0}
      BY <1>0, <1>3, <3>1 DEF Disable
    <3> QED
      BY <1>0, <3>2
  <2> QED
    BY <2>1, <2>2, RowsOnly
<1> QED
  BY <1>1, <1>2, <1>3 DEF UserNext

\* The outbox, the broker, the watchdog and time have nothing to do with answers.
LEMMA EnvironmentApplied ==
    ASSUME IInv, AInv, NEW e \in Execs,
           QueueNext(e) \/ Watchdog(e) \/ LeaseExpires(e) \/ Age(e)
    PROVE  AInv'
<1>0. /\ x \in [Execs -> Row] /\ raised \in Nat
      /\ \A f \in Execs : x[f].payload <= raised
  BY DEF IInv, TypeOK, AInv, KnownInterrupts
<1>1. UNCHANGED <<cp, raised, run, req, asked>>
  BY DEF QueueNext, Dispatch, Published, Redispatch, Watchdog, FailUnclaimed, RecoverLease,
     LeaseExpires, Age, graphVars, userVars
<1>2. \A f \in Execs : x'[f].payload <= raised
  <2> USE <1>0 DEF Write, Row
  <2>1. CASE Dispatch(e) \/ Redispatch(e)
    BY <2>1 DEF Dispatch, Redispatch
  <2>2. CASE Published(e)
    BY <2>2 DEF Published
  <2>3. CASE FailUnclaimed(e)
    BY <2>3 DEF FailUnclaimed
  <2>4. CASE RecoverLease(e)
    <3> DEFINE lost == [x[e] EXCEPT !.st = "failed", !.error = "limit"]
               again == [x[e] EXCEPT !.st = "pending", !.owner = None, !.claimed = FALSE,
                                     !.lease = "none"]
    <3>1. lost.payload = x[e].payload /\ again.payload = x[e].payload
      OBVIOUS
    <3>2. Write(e, lost) \/ Write(e, again)
      BY <2>4 DEF RecoverLease
    <3> HIDE DEF lost, again
    <3> QED
      BY <3>1, <3>2, PayloadWritten
  <2>5. CASE LeaseExpires(e)
    BY <2>5 DEF LeaseExpires
  <2>6. CASE Age(e)
    BY <2>6 DEF Age
  <2> QED
    BY <2>1, <2>2, <2>3, <2>4, <2>5, <2>6 DEF QueueNext, Watchdog
<1> QED
  BY <1>1, <1>2, RowsOnly

\* A claim hands out an answer to the interrupt the checkpoint waits for, or one
\* to go on with when it waits for nothing.
LEMMA ClaimApplied ==
    ASSUME IInv, AInv, NEW w \in Workers, NEW e \in Execs, ClaimNext(w, e)
    PROVE  AInv'
<1>0. /\ x \in [Execs -> Row] /\ raised \in Nat
      /\ req \in [Execs -> [Interrupts -> {"none", "pending", "claimed", "consumed"}]]
      /\ run \in [Workers -> Job]
      /\ \A f \in Execs : x[f].payload <= raised
  BY DEF IInv, TypeOK, AInv, KnownInterrupts
<1>1. UNCHANGED <<cp, raised, asked>>
  BY DEF ClaimNext, DropMessage, ClaimExhausted, ClaimDisabled, ClaimUnreadable, ClaimMismatch,
     Claim, FailClaim, graphVars, userVars
<1>2. \A f \in Execs : x'[f].payload <= raised
  <2> USE <1>0 DEF Write, Row
  <2>1. CASE DropMessage(w, e)
    BY <2>1 DEF DropMessage
  <2>2. CASE ClaimExhausted(w, e) \/ ClaimUnreadable(w, e) \/ ClaimMismatch(w, e)
    <3>1. \E why : FailClaim(e, why)
      BY <2>2 DEF ClaimExhausted, ClaimUnreadable, ClaimMismatch
    <3> QED
      BY <3>1 DEF FailClaim
  <2>3. CASE ClaimDisabled(w, e)
    BY <2>3 DEF ClaimDisabled
  <2>4. CASE Claim(w, e)
    BY <2>4 DEF Claim
  <2> QED
    BY <2>1, <2>2, <2>3, <2>4, ClaimNext(w, e) DEF ClaimNext
<1>3. CASE UNCHANGED <<run, req>>
  BY <1>1, <1>2, <1>3, RowsOnly
<1>4. CASE Claim(w, e)
  <2> DEFINE answered == ActiveRequests(e) # {}
  <2>1. PICK m, q : run' = [run EXCEPT ![w] = [Idle EXCEPT !.pc = "claimed", !.exec = e, !.hb = "on",
                                               !.mode = m, !.rq = q]]
                    /\ q = (IF answered THEN Latest(e) ELSE 0)
                    /\ (answered /\ cp.kind = "interrupt" => m = "resume")
                    /\ (answered /\ cp.kind # "interrupt" => m = "continue")
    BY <1>4 DEF Claim
  <2>2. /\ run'[w].pc = "claimed" /\ run'[w].mode = m /\ run'[w].rq = q /\ run'[w].seen = 0
        /\ \A v \in Workers : v # w => run'[v] = run[v]
    BY <1>0, <2>1 DEF Idle
  <2>3. answered => Latest(e) \in Interrupts /\ req[e][Latest(e)] \in {"pending", "claimed"}
    BY LatestActive DEF IInv, ActiveRequests
  <2>4. q <= raised
    BY <1>0, <2>1, <2>3 DEF AInv, KnownInterrupts
  <2>5. \A f \in Execs, k \in Interrupts : /\ req'[f][k] = "none" <=> req[f][k] = "none"
                                           /\ req'[f][k] = "consumed" => req[f][k] = "consumed"
    <3>1. req' = [req EXCEPT ![e] = [k \in Interrupts |->
                    IF answered /\ k = Latest(e) THEN "claimed" ELSE req[e][k]]]
      BY <1>4 DEF Claim
    <3> QED
      BY <1>0, <2>3, <3>1
  <2>6. KnownInterrupts'
    BY <1>0, <1>1, <1>2, <2>2, <2>4, <2>5 DEF AInv, KnownInterrupts
  <2>7. ASSUME NEW v \in Workers PROVE LeftBehind(v)'
    <3>1. CASE v = w
      BY <1>1, <2>1, <2>2, <3>1, Kinds DEF LeftBehind, Beyond, Pending
    <3>2. CASE v # w
      BY <1>1, <2>2, <3>2 DEF AInv, LeftBehind, Pending
    <3> QED
      BY <3>1, <3>2
  <2>8. ConsumedAfterApplied'
    BY <1>1, <2>5 DEF AInv, ConsumedAfterApplied, Pending
  <2> QED
    BY <2>6, <2>7, <2>8 DEF AInv
<1>5. UNCHANGED <<run, req>> \/ Claim(w, e)
  BY DEF ClaimNext, DropMessage, ClaimExhausted, ClaimDisabled, ClaimUnreadable, ClaimMismatch,
     FailClaim
<1> QED
  BY <1>3, <1>4, <1>5

\* A run leaves the interrupt it resumes for good: what it raises has a new id.
LEMMA RunApplied ==
    ASSUME IInv, AInv, NEW w \in Workers, RunNext(w)
    PROVE  AInv'
<1>0. /\ x \in [Execs -> Row] /\ raised \in Nat /\ run \in [Workers -> Job] /\ cp \in Checkpoint
      /\ req \in [Execs -> [Interrupts -> {"none", "pending", "claimed", "consumed"}]]
      /\ \A f \in Execs : x[f].payload <= raised
      /\ LeftBehind(w) /\ run[w].seen <= raised
  BY DEF IInv, TypeOK, AInv, KnownInterrupts
<1>state. \A st, p, er : SetState(w, st, p, er) /\ p <= raised
            => \A f \in Execs : x'[f].payload <= raised
  <2> SUFFICES ASSUME NEW st, NEW p, NEW er, SetState(w, st, p, er), p <= raised
               PROVE  \A f \in Execs : x'[f].payload <= raised
    OBVIOUS
  <2>1. run[w].exec \in Execs =>
          [x[run[w].exec] EXCEPT !.st = st, !.payload = p, !.error = er].payload = p
    BY <1>0 DEF Row
  <2> QED
    BY <1>0, <2>1, PayloadWritten DEF SetState
<1>row. \A c, d : Write(run[w].exec, [x[run[w].exec] EXCEPT !.claimed = c])
                    \/ Write(run[w].exec, [x[run[w].exec] EXCEPT !.post = d])
            => \A f \in Execs : x'[f].payload <= raised
  BY <1>0 DEF Write, Row
<1>1. CASE Load(w)
  <2>1. PICK l \in {"closing", "loaded"} :
          run' = [run EXCEPT ![w].pc = l, ![w].st = x[run[w].exec].st, ![w].fence = x[run[w].exec].owner]
    BY <1>1 DEF Load
  <2>2. /\ \A v \in Workers : /\ run'[v].seen = run[v].seen /\ run'[v].rq = run[v].rq
                              /\ run'[v].mode = run[v].mode
                              /\ v # w => run'[v].pc = run[v].pc
        /\ run'[w].pc \notin Beyond
    BY <1>0, <2>1 DEF Job, Beyond
  <2>3. UNCHANGED <<x, cp, raised, req, asked>>
    BY <1>1 DEF Load, graphVars, userVars
  <2> QED
    BY <2>2, <2>3 DEF AInv, KnownInterrupts, LeftBehind, ConsumedAfterApplied, Pending
<1>2. CASE Admit(w)
  <2>1. UNCHANGED <<cp, raised, req, asked>>
    BY <1>2 DEF Admit, graphVars, userVars
  <2>2. \A f \in Execs : x'[f].payload <= raised
    <3>1. UNCHANGED x \/ \E c : Write(run[w].exec, [x[run[w].exec] EXCEPT !.claimed = c])
      BY <1>2 DEF Admit
    <3> QED
      BY <1>0, <1>row, <3>1
  <2>3. PICK l : Goto(w, l) /\ l \notin Beyond
    BY <1>2 DEF Admit, AfterCheck, Beyond
  <2> QED
    BY <2>1, <2>2, <2>3, MovedOn
<1>3. CASE Start(w)
  <2>1. UNCHANGED <<cp, raised, req, asked>> /\ Goto(w, "turn") /\ "turn" \notin Beyond
    BY <1>3 DEF Start, graphVars, userVars, Beyond
  <2>2. \A f \in Execs : x'[f].payload <= raised
    BY <1>0, <1>3, <1>state DEF Start
  <2> QED
    BY <2>1, <2>2, MovedOn
<1>4. CASE Begin(w)
  <2>1. UNCHANGED <<x, raised, req, asked>>
    BY <1>4 DEF Begin, userVars
  <2>2. CASE cp' = Open /\ Goto(w, "graph")
    BY <1>0, <2>1, <2>2, NothingPending DEF LeftBehind
  <2>3. CASE /\ run[w].mode = "continue" /\ UNCHANGED cp
             /\ run' = [run EXCEPT ![w].pc = "interrupted", ![w].seen = cp.id]
    <3>1. /\ \A v \in Workers : /\ run'[v].rq = run[v].rq /\ run'[v].mode = run[v].mode
                                /\ v # w => run'[v].pc = run[v].pc /\ run'[v].seen = run[v].seen
          /\ run'[w].seen = cp.id
      BY <1>0, <2>3 DEF Job
    <3>2. ASSUME NEW v \in Workers PROVE LeftBehind(v)'
      BY ZenonT(30), <2>3, <3>1 DEF AInv, LeftBehind, Pending
    <3>3. \A v \in Workers : run'[v].seen <= raised /\ run'[v].rq <= raised
      BY <3>1 DEF AInv, KnownInterrupts
    <3>4. KnownInterrupts'
      BY <2>1, <2>3, <3>3 DEF AInv, KnownInterrupts
    <3> QED
      BY <2>1, <2>3, <3>2, <3>4 DEF AInv, ConsumedAfterApplied, Pending
  <2> QED
    BY <1>4, <2>2, <2>3 DEF Begin
<1>5. CASE Check(w)
  <2>1. UNCHANGED <<x, cp, raised, req, asked>>
    BY <1>5 DEF Check, graphVars, userVars
  <2>2. PICK l : Goto(w, l) /\ l \notin Beyond
    BY <1>5 DEF Check, AfterCheck, Beyond
  <2> QED
    BY <1>0, <2>1, <2>2, MovedOn
<1>6. CASE ReachInterrupt(w)
  <2>1. UNCHANGED <<x, req, asked>> /\ raised' = raised + 1 /\ cp' = Pending(raised + 1)
    BY <1>6 DEF ReachInterrupt, userVars
  <2>2. run' = [run EXCEPT ![w].pc = "interrupted", ![w].seen = raised + 1]
    BY <1>6 DEF ReachInterrupt
  <2>3. /\ \A v \in Workers : /\ run'[v].rq = run[v].rq /\ run'[v].mode = run[v].mode
                              /\ v # w => run'[v].seen = run[v].seen
        /\ run'[w].seen = raised + 1
    BY <1>0, <2>2 DEF Job
  <2>4. \A n \in 0..MaxInterrupts : n <= raised => n <= raised + 1 /\ cp' # Pending(n)
    BY <1>0, <2>1 DEF Pending
  <2>5. KnownInterrupts'
    <3>1. \A v \in Workers : run[v].seen \in 0..MaxInterrupts /\ run[v].rq \in 0..MaxInterrupts
      BY <1>0 DEF Job
    <3>2. \A e \in Execs : x[e].payload \in 0..MaxInterrupts /\ asked[e].resume \in 0..MaxInterrupts
      BY DEF IInv, TypeOK, Row
    <3>3. cp'.id = raised + 1
      BY <2>1 DEF Pending
    <3> QED
      BY <1>0, <2>1, <2>3, <2>4, <3>1, <3>2, <3>3 DEF AInv, KnownInterrupts, Interrupts
  <2>6. ASSUME NEW v \in Workers PROVE LeftBehind(v)'
    <3>1. run[v].rq \in 0..MaxInterrupts /\ run[v].rq <= raised /\ LeftBehind(v)
      BY <1>0 DEF Job, AInv, KnownInterrupts
    <3> QED
      BY <2>1, <2>3, <2>4, <3>1 DEF LeftBehind, Pending
  <2>7. ConsumedAfterApplied'
    BY <2>1, <2>4 DEF AInv, KnownInterrupts, ConsumedAfterApplied, Interrupts, Pending
  <2> QED
    BY <2>5, <2>6, <2>7 DEF AInv
<1>7. CASE ReachEnd(w)
  <2>1. UNCHANGED <<x, raised, req, asked>> /\ cp' = Open /\ Goto(w, "ended")
    BY <1>7 DEF ReachEnd, userVars
  <2>2. run[w].rq # 0 => run[w].mode # "fresh"
    BY <1>0 DEF LeftBehind
  <2> QED
    BY <2>1, <2>2, NothingPending
<1>8. CASE RunFails(w)
  <2>1. UNCHANGED <<cp, raised, req, asked>> /\ Goto(w, "closing") /\ "closing" \notin Beyond
    BY <1>8 DEF RunFails, graphVars, userVars, Beyond
  <2>2. \A f \in Execs : x'[f].payload <= raised
    BY <1>0, <1>8, <1>state DEF RunFails
  <2> QED
    BY <2>1, <2>2, MovedOn
<1>9. CASE TurnDone(w)
  <2>1. UNCHANGED <<x, cp, raised, req, asked>> /\ run[w].pc \in Beyond
    BY <1>9 DEF TurnDone, graphVars, userVars, Beyond
  <2>2. PICK l : Goto(w, l)
    BY <1>9 DEF TurnDone
  <2> QED
    BY <1>0, <2>1, <2>2, MovedOn
<1>10. CASE Consume(w)
  <2> DEFINE e == run[w].exec
             k == run[w].rq
  <2>1. UNCHANGED <<x, cp, raised, asked>> /\ req' = [req EXCEPT ![e][k] = "consumed"]
    BY <1>10 DEF Consume, graphVars, userVars
  <2>2. PICK l \in {"park", "complete"} : Goto(w, l)
    BY <1>10 DEF Consume
  <2>3. /\ \A v \in Workers : /\ run'[v].seen = run[v].seen /\ run'[v].rq = run[v].rq
                              /\ run'[v].mode = run[v].mode
                              /\ v # w => run'[v].pc = run[v].pc
        /\ run'[w].pc \notin Beyond
    BY <1>0, <2>2, JobMoved DEF Beyond
  <2>4. k <= raised /\ (k # 0 => cp # Pending(k))
    BY <1>0, <1>10 DEF Consume, At, LeftBehind, Beyond, AInv, KnownInterrupts
  <2>5. \A f \in Execs, j \in Interrupts :
          req'[f][j] = req[f][j] \/ (j = k /\ j # 0 /\ req'[f][j] = "consumed")
    BY <1>0, <2>1 DEF Interrupts
  <2> HIDE DEF e, k
  <2>6. KnownInterrupts'
    BY <2>1, <2>3, <2>4, <2>5 DEF AInv, KnownInterrupts
  <2>7. \A v \in Workers : LeftBehind(v)'
    BY <2>1, <2>3 DEF AInv, LeftBehind, Pending
  <2>8. ConsumedAfterApplied'
    BY <2>1, <2>4, <2>5 DEF AInv, ConsumedAfterApplied, Pending
  <2> QED
    BY <2>6, <2>7, <2>8 DEF AInv
<1>11. CASE Park(w)
  <2>1. UNCHANGED <<cp, raised, req, asked>> /\ Goto(w, "parked") /\ "parked" \notin Beyond
    BY <1>11 DEF Park, graphVars, userVars, Beyond
  <2>2. \A f \in Execs : x'[f].payload <= raised
    BY <1>0, <1>11, <1>state DEF Park
  <2> QED
    BY <2>1, <2>2, MovedOn
<1>12. CASE Complete(w)
  <2>1. UNCHANGED <<cp, raised, req, asked>> /\ Goto(w, "clear") /\ "clear" \notin Beyond
    BY <1>12 DEF Complete, graphVars, userVars, Beyond
  <2>2. \A f \in Execs : x'[f].payload <= raised
    BY <1>0, <1>12, <1>state DEF Complete
  <2> QED
    BY <2>1, <2>2, MovedOn
<1>13. CASE Clear(w)
  <2>1. UNCHANGED <<x, raised, req, asked>> /\ Goto(w, "schedule") /\ "schedule" \notin Beyond
    BY <1>13 DEF Clear, userVars, Beyond
  <2>2. CASE UNCHANGED cp
    BY <1>0, <2>1, <2>2, MovedOn
  <2>3. CASE cp' = NoCheckpoint
    BY <2>1, <2>3, NothingPending
  <2> QED
    BY <1>13, <2>2, <2>3 DEF Clear
<1>14. CASE Schedule(w)
  <2>1. UNCHANGED <<cp, raised, req, asked>>
    BY <1>14 DEF Schedule, graphVars, userVars
  <2>2. \A f \in Execs : x'[f].payload <= raised
    <3>1. UNCHANGED x \/ Write(run[w].exec, [x[run[w].exec] EXCEPT !.post = TRUE])
      BY <1>14 DEF Schedule
    <3> QED
      BY <1>0, <1>row, <3>1
  <2>3. PICK l : Goto(w, l) /\ l \notin Beyond
    BY <1>14 DEF Schedule, AfterCheck, Beyond
  <2> QED
    BY <2>1, <2>2, <2>3, MovedOn
<1>15. CASE CancelRun(w)
  <2>1. UNCHANGED <<cp, raised, req, asked>> /\ Goto(w, "closing") /\ "closing" \notin Beyond
    BY <1>15 DEF CancelRun, graphVars, userVars, Beyond
  <2>2. \A f \in Execs : x'[f].payload <= raised
    BY <1>0, <1>15, <1>state DEF CancelRun
  <2> QED
    BY <2>1, <2>2, MovedOn
<1>16. CASE Close(w)
  <2>1. UNCHANGED <<x, cp, raised, req, asked>> /\ run' = [run EXCEPT ![w] = Idle]
    BY <1>16 DEF Close, graphVars, userVars
  <2> QED
    BY <1>0, <2>1 DEF AInv, KnownInterrupts, LeftBehind, ConsumedAfterApplied, Idle, Pending
<1> QED
  BY <1>1, <1>2, <1>3, <1>4, <1>5, <1>6, <1>7, <1>8, <1>9, <1>10, <1>11, <1>12, <1>13,
     <1>14, <1>15, <1>16 DEF RunNext

\* Who dies forgets what it was to answer; the heartbeat knows nothing of it.
LEMMA HeartbeatApplied ==
    ASSUME IInv, AInv, NEW w \in Workers,
           Crash(w) \/ Abort(w) \/ HeartbeatRead(w) \/ HeartbeatWrite(w)
    PROVE  AInv'
<1>0. /\ x \in [Execs -> Row] /\ raised \in Nat /\ run \in [Workers -> Job]
      /\ \A f \in Execs : x[f].payload <= raised
  BY DEF IInv, TypeOK, AInv, KnownInterrupts
<1>1. UNCHANGED <<cp, raised, req, asked>>
  BY DEF Crash, Abort, HeartbeatRead, HeartbeatWrite, graphVars, userVars
<1>2. \A f \in Execs : x'[f].payload <= raised
  BY <1>0 DEF Crash, Abort, HeartbeatRead, HeartbeatWrite, Write, Row
<1>3. \A v \in Workers :
        \/ run'[v] = Idle
        \/ /\ run'[v].rq = run[v].rq /\ run'[v].seen = run[v].seen
           /\ run'[v].mode = run[v].mode /\ run'[v].pc = run[v].pc
  BY <1>0 DEF Crash, Abort, HeartbeatRead, HeartbeatWrite, Job
<1>4. Idle.rq = 0 /\ Idle.seen = 0
  BY DEF Idle
<1> QED
  BY <1>0, <1>1, <1>2, <1>3, <1>4
     DEF AInv, KnownInterrupts, LeftBehind, ConsumedAfterApplied, Pending

LEMMA AInvInit == Init => AInv
<1> SUFFICES ASSUME Init PROVE AInv
  OBVIOUS
<1>1. /\ cp = NoCheckpoint /\ raised = 0
      /\ \A w \in Workers : run[w] = Idle
      /\ \A e \in Execs : x[e] = NewRow /\ asked[e].resume = 0 /\ \A k \in Interrupts : req[e][k] = "none"
  BY DEF Init, Unasked
<1> QED
  BY <1>1 DEF AInv, KnownInterrupts, LeftBehind, ConsumedAfterApplied, NoCheckpoint, Idle, NewRow

LEMMA AInvStep == IInv /\ AInv /\ [Next]_vars => AInv'
<1> SUFFICES ASSUME IInv, AInv, [Next]_vars PROVE AInv'
  OBVIOUS
<1>1. CASE UNCHANGED vars
  BY <1>1 DEF vars, AInv, KnownInterrupts, LeftBehind, ConsumedAfterApplied, Pending
<1>2. CASE Next
  BY <1>2, UserApplied, EnvironmentApplied, ClaimApplied, RunApplied, HeartbeatApplied DEF Next
<1> QED
  BY <1>1, <1>2

\* An answer is consumed only when the checkpoint has left its interrupt for good,
\* whatever is cancelled, crashes, stalls or is run twice, and whichever
\* execution of the session raised the interrupt.
THEOREM AppliedFirst == Spec => []ConsumedAfterApplied
<1>1. IInv /\ AInv /\ [Next]_vars => AInv'
  BY AInvStep
<1>2. AInv => ConsumedAfterApplied
  BY DEF AInv
<1> QED
  BY <1>1, <1>2, AInvInit, Invariance, PTL DEF Spec

------------------------------------------------------------------------------
(* One runner: what holds until somebody answers or disables, if nobody cancels  *)
(* and leases do not expire under live workers                                   *)

\* Nobody can cancel, and leases of live workers are renewed.  (A cancelled row may
\* be written over by its worker, after which nothing tells that it was cancelled.)
Quiet == "cancel" \notin Ops /\ ~Stalls

\* So, until an account is disabled, no worker is told of a cancellation, and who
\* is idle has no job.
Calm ==
    /\ active
    /\ \A e \in Execs : /\ ~x[e].cancel /\ x[e].st # "cancelled"
                        /\ asked[e].cancel = None /\ ~asked[e].stop
    /\ \A w \in Workers : run[w].pc # "cancelling" /\ (run[w].pc = "idle" => run[w] = Idle)

Early == {"claimed", "loaded", "admitted"}
InGraph == {"turn", "graph", "interrupted", "ended", "consume", "park", "complete"}
Late == {"clear", "schedule"}

\* What a worker that has a job knows of its row: while its heartbeat thread runs,
\* the lease is live and its own, and the thread only ends when the row is over.
JobTrue(w) ==
    run[w].pc # "idle" =>
        /\ x[run[w].exec].st # "absent"
        /\ run[w].hb # "off" => /\ x[run[w].exec].owner = w
                                /\ x[run[w].exec].lease = "live"
                                /\ x[run[w].exec].claimed
        /\ run[w].hb # "off" \/ x[run[w].exec].st \in Terminal
        /\ run[w].pc \in Early => x[run[w].exec].st = "pending"
        /\ run[w].pc \in InGraph => x[run[w].exec].st = "running"
        /\ run[w].pc = "parked" => x[run[w].exec].st = "waiting_input"
        /\ run[w].pc \in Late => x[run[w].exec].st = "completed" /\ x[run[w].exec].owner = w

\* Of an execution that does not exist yet there is no message.
NotYet == \A e \in Execs : x[e].st = "absent" => msgs[e] = 0 /\ phase[e] = "none"

Leased == (\A w \in Workers : JobTrue(w)) /\ NotYet /\ OneBusyExecution

RInv == (active => Calm) /\ (Unattended => Leased)

\* What a step of a worker does to its job and its row.
Effect(w) ==
    /\ run[w].pc # "idle"
    /\ \A f \in Execs : f # run[w].exec => x'[f] = x[f]
    /\ \A v \in Workers : v # w => run'[v] = run[v]
    /\ x'[run[w].exec].owner = x[run[w].exec].owner
    /\ x'[run[w].exec].lease = x[run[w].exec].lease
    /\ x'[run[w].exec].claimed = x[run[w].exec].claimed
    /\ x[run[w].exec].st \in Terminal => x'[run[w].exec].st \in Terminal
    /\ x'[run[w].exec].st # x[run[w].exec].st => x[run[w].exec].owner = w
    /\ x'[run[w].exec].st # "absent"
    /\ x'[run[w].exec].st \in Busy => x[run[w].exec].st \in Busy
    /\ JobTrue(w)'

LEMMA RunEffect ==
    ASSUME Quiet, IInv, Calm, NEW w \in Workers, JobTrue(w),
           RunNext(w) \/ HeartbeatRead(w) \/ HeartbeatWrite(w)
    PROVE  Effect(w) /\ UNCHANGED <<msgs, phase>>
<1> DEFINE e == run[w].exec
<1>0. /\ x \in [Execs -> Row] /\ run \in [Workers -> Job]
      /\ run[w].pc # "idle" => e \in Execs
      /\ run[w].pc = "idle" => run[w].hb = "off"
  BY DEF IInv, TypeOK, JobHasExecution, Calm, Idle
<1>1. run[w].pc # "idle" =>
        /\ x[e] \in Row /\ ~x[e].cancel
        /\ run[w] \in Job
        /\ \A l \in Stages : AfterCheck(w, l) \in {"closing", l}
  BY <1>0 DEF Calm, AfterCheck
<1> USE DEF Effect, JobTrue, Early, InGraph, Late, At, Goto, Write, SetState, queueVars,
            Terminal, Busy, Row, Job
<1>2. CASE Load(w)
  BY ZenonT(30), <1>0, <1>1, <1>2 DEF Load
<1>3. CASE Admit(w)
  BY <1>0, <1>1, <1>3 DEF Admit, Stages
<1>4. CASE Start(w)
  BY <1>0, <1>1, <1>4 DEF Start
<1>5. CASE Begin(w)
  BY <1>0, <1>1, <1>5 DEF Begin
<1>6. CASE Check(w)
  BY <1>0, <1>1, <1>6 DEF Check, Stages
<1>7. CASE ReachInterrupt(w)
  BY <1>0, <1>1, <1>7 DEF ReachInterrupt
<1>8. CASE ReachEnd(w)
  BY <1>0, <1>1, <1>8 DEF ReachEnd
<1>9. CASE RunFails(w)
  BY <1>0, <1>1, <1>9 DEF RunFails, Stages
<1>10. CASE TurnDone(w)
  BY <1>0, <1>1, <1>10 DEF TurnDone, Stages
<1>11. CASE Consume(w)
  BY <1>0, <1>1, <1>11 DEF Consume
<1>12. CASE Park(w)
  BY <1>0, <1>1, <1>12 DEF Park
<1>13. CASE Complete(w)
  BY <1>0, <1>1, <1>13 DEF Complete
<1>14. CASE Clear(w)
  BY <1>0, <1>1, <1>14 DEF Clear
<1>15. CASE Schedule(w)
  BY <1>0, <1>1, <1>15 DEF Schedule, Stages
<1>16. CASE CancelRun(w)
  BY <1>16 DEF CancelRun, Calm
<1>17. CASE Close(w)
  BY <1>0, <1>1, <1>17 DEF Close, Idle
<1>18. CASE HeartbeatRead(w)
  BY <1>0, <1>1, <1>18 DEF HeartbeatRead
<1>19. CASE HeartbeatWrite(w)
  BY <1>0, <1>1, <1>19 DEF HeartbeatWrite
<1> QED
  BY <1>2, <1>3, <1>4, <1>5, <1>6, <1>7, <1>8, <1>9, <1>10, <1>11, <1>12, <1>13, <1>14,
     <1>15, <1>16, <1>17, <1>18, <1>19 DEF RunNext

\* A job that is not over has the lease of its execution, so that no second job
\* works for the execution, and no action that needs a free one touches it.
LEMMA Alone ==
    ASSUME Leased, NEW v \in Workers, NEW w \in Workers, run[v].pc # "idle", run[w].pc # "idle",
           run[v].exec = run[w].exec, x[run[w].exec].st \notin Terminal
    PROVE  v = w
BY DEF Leased, JobTrue

Free(e) == \A w \in Workers : run[w].pc # "idle" => run[w].exec # e

LEMMA FreeExecution ==
    ASSUME Leased, NEW e \in Execs,
           \/ x[e].st = "absent"
           \/ x[e].st \notin Terminal /\ (x[e].lease # "live" \/ ~x[e].claimed)
    PROVE  Free(e)
BY DEF Leased, JobTrue, Free

\* A step of a worker leaves the other workers their leases.
LEMMA WorkerStep ==
    ASSUME IInv, Leased, NEW w \in Workers, Effect(w), UNCHANGED <<msgs, phase>>
    PROVE  Leased'
<1> DEFINE e == run[w].exec
<1>0. run[w].pc # "idle" /\ e \in Execs
  BY DEF Effect, IInv, JobHasExecution
<1>1. ASSUME NEW v \in Workers, v # w, run[v].pc # "idle"
      PROVE  JobTrue(v)'
  <2>0. run'[v] = run[v] /\ run[v].exec \in Execs /\ JobTrue(v)
    BY <1>1 DEF Effect, IInv, JobHasExecution, Leased
  <2>1. CASE run[v].exec # e
    BY <2>0, <2>1 DEF Effect, JobTrue
  <2>2. CASE run[v].exec = e
    <3>1. x[e].st \in Terminal
      BY <1>0, <1>1, <2>2, Alone
    <3>2. x'[e].st \in Terminal /\ run[v].pc \notin Early \cup InGraph
      BY <2>0, <2>2, <3>1, <1>1 DEF Effect, JobTrue, Terminal
    <3>3. run[v].pc \in Late => x'[e].st = x[e].st
      BY <2>0, <2>2, <1>1 DEF Effect, JobTrue
    <3> QED
      BY <2>0, <2>2, <3>1, <3>2, <3>3 DEF Effect, JobTrue, Terminal
  <2> QED
    BY <2>1, <2>2
<1>2. ASSUME NEW v \in Workers PROVE JobTrue(v)'
  <2>1. CASE v = w
    BY <2>1 DEF Effect
  <2>2. CASE v # w /\ run[v].pc # "idle"
    BY <1>1, <2>2
  <2>3. CASE v # w /\ run[v].pc = "idle"
    BY <2>3 DEF Effect, JobTrue
  <2> QED
    BY <2>1, <2>2, <2>3
<1>3. \A f \in Execs : x'[f].st = "absent" => f # e /\ x'[f] = x[f]
  BY DEF Effect
<1>4. NotYet'
  BY <1>3 DEF Leased, NotYet
<1>5. \A f \in Execs : x'[f].st \in Busy => x[f].st \in Busy
  BY DEF Effect
<1>6. OneBusyExecution'
  BY <1>5 DEF Leased, OneBusyExecution
<1> QED
  BY <1>2, <1>4, <1>6 DEF Leased

\* A step that touches one row nobody works for, and no job.
LEMMA RowStep ==
    ASSUME IInv, Leased, NEW e \in Execs, Free(e), UNCHANGED run,
           \A f \in Execs : f # e => x'[f] = x[f]
    PROVE  \A v \in Workers : JobTrue(v)'
BY DEF Leased, JobTrue, Free, IInv, JobHasExecution

\* A step that touches no job, and of the rows nothing a job knows.
LEMMA QuietStep ==
    ASSUME IInv, Leased, UNCHANGED run,
           \A f \in Execs : /\ x'[f].st = x[f].st /\ x'[f].owner = x[f].owner
                            /\ x'[f].lease = x[f].lease /\ x'[f].claimed = x[f].claimed
    PROVE  (\A v \in Workers : JobTrue(v)') /\ OneBusyExecution'
BY DEF Leased, JobTrue, OneBusyExecution, IInv, JobHasExecution

LEMMA QueueLeased ==
    ASSUME IInv, Leased, NEW e \in Execs, QueueNext(e)
    PROVE  Leased'
<1>0. x \in [Execs -> Row] /\ phase \in [Execs -> Queue!Phases] /\ msgs \in [Execs -> Nat]
  BY DEF IInv, TypeOK
<1>1. CASE Dispatch(e)
  <2>1. UNCHANGED run /\ UNCHANGED x
    BY <1>1 DEF Dispatch
  <2>2. NotYet'
    BY <1>0, <1>1, <2>1 DEF Dispatch, Queue!Send, Leased, NotYet
  <2> QED
    BY <2>1, <2>2, QuietStep DEF Leased
<1>2. CASE Published(e)
  <2>1. UNCHANGED run /\ \A f \in Execs :
          /\ x'[f].st = x[f].st /\ x'[f].owner = x[f].owner
          /\ x'[f].lease = x[f].lease /\ x'[f].claimed = x[f].claimed
    BY <1>0, <1>2 DEF Published, Write, Row
  <2>2. NotYet'
    BY <1>0, <1>2, <2>1 DEF Published, Queue!Settle, Leased, NotYet
  <2> QED
    BY <2>1, <2>2, QuietStep DEF Leased
<1>3. CASE Redispatch(e)
  <2>1. UNCHANGED run /\ UNCHANGED x
    BY <1>3 DEF Redispatch
  <2>2. NotYet'
    BY <1>0, <1>3, <2>1 DEF Redispatch, Queue!Forget, Leased, NotYet
  <2> QED
    BY <2>1, <2>2, QuietStep DEF Leased
<1> QED
  BY <1>1, <1>2, <1>3 DEF QueueNext

\* Creation, the watchdog and time.
LEMMA RowLeased ==
    ASSUME Quiet, IInv, Leased, NEW e \in Execs,
           Create(e) \/ Watchdog(e) \/ LeaseExpires(e) \/ Age(e)
    PROVE  Leased'
<1>0. /\ x \in [Execs -> Row] /\ x[e] \in Row
      /\ phase \in [Execs -> Queue!Phases] /\ msgs \in [Execs -> Nat]
  BY DEF IInv, TypeOK
<1>1. CASE Create(e)
  <2>1. Free(e)
    BY <1>1, FreeExecution DEF Create
  <2>2. x' = [x EXCEPT ![e] = [x[e] EXCEPT !.st = "pending"]] /\ UNCHANGED run
    BY <1>1 DEF Create, Write
  <2>3. x'[e].st = "pending" /\ \A f \in Execs : f # e => x'[f] = x[f]
    BY <1>0, <2>2 DEF Row
  <2>4. NotYet'
    BY <1>0, <1>1, <2>3 DEF Create, Queue!Request, Leased, NotYet
  <2>5. OneBusyExecution'
    BY <1>1, <2>3 DEF Create, OneBusyExecution
  <2> QED
    BY <2>1, <2>2, <2>3, <2>4, <2>5, RowStep DEF Leased
<1>2. CASE Watchdog(e) \/ LeaseExpires(e) \/ Age(e)
  <2>1. Free(e)
    <3>1. CASE FailUnclaimed(e) \/ Age(e)
      BY <3>1, FreeExecution DEF FailUnclaimed, Age, Terminal
    <3>2. CASE RecoverLease(e)
      BY <3>2, FreeExecution DEF RecoverLease, Terminal
    <3>3. CASE LeaseExpires(e)
      BY <3>3 DEF LeaseExpires, Quiet, Renews, Leased, JobTrue, Free
    <3> QED
      BY <1>2, <3>1, <3>2, <3>3 DEF Watchdog
  <2>2. /\ UNCHANGED run /\ \A f \in Execs : f # e => x'[f] = x[f]
        /\ x'[e].st = "absent" => x[e].st = "absent" /\ UNCHANGED <<phase, msgs>>
        /\ x'[e].st \in Busy => x[e].st \in Busy
    <3>1. CASE FailUnclaimed(e)
      BY <1>0, <3>1 DEF FailUnclaimed, Write, Row, Busy
    <3>2. CASE RecoverLease(e)
      <4> DEFINE lost == [x[e] EXCEPT !.st = "failed", !.error = "limit"]
                 again == [x[e] EXCEPT !.st = "pending", !.owner = None, !.claimed = FALSE,
                                       !.lease = "none"]
      <4>1. lost.st = "failed" /\ again.st = "pending" /\ x[e].st \in Busy
        BY <1>0, <3>2 DEF RecoverLease, Row, Busy
      <4>2. x' = [x EXCEPT ![e] = lost] \/ x' = [x EXCEPT ![e] = again]
        BY <3>2 DEF RecoverLease, Write
      <4>3. UNCHANGED run
        BY <3>2 DEF RecoverLease
      <4> HIDE DEF lost, again
      <4> QED
        BY <1>0, <4>1, <4>2, <4>3
    <3>3. CASE LeaseExpires(e)
      BY <1>0, <3>3 DEF LeaseExpires, Write, Row, queueVars
    <3>4. CASE Age(e)
      BY <1>0, <3>4 DEF Age, Write, Row, Busy
    <3> QED
      BY <1>2, <3>1, <3>2, <3>3, <3>4 DEF Watchdog
  <2>3. NotYet'
    <3>1. UNCHANGED queueVars \/ Queue!Request(e)
      BY <1>2 DEF Watchdog, FailUnclaimed, RecoverLease, LeaseExpires, Age
    <3> QED
      BY <1>0, <2>2, <3>1 DEF queueVars, Queue!Request, Leased, NotYet
  <2>4. OneBusyExecution'
    BY <2>2 DEF Leased, OneBusyExecution
  <2> QED
    BY <2>1, <2>2, <2>3, <2>4, RowStep DEF Leased
<1> QED
  BY <1>1, <1>2
\* A claim takes an execution nobody works for, and gives its worker the lease.
LEMMA ClaimLeased ==
    ASSUME IInv, Calm, Leased, NEW w \in Workers, NEW e \in Execs, ClaimNext(w, e)
    PROVE  Leased'
<1>0. /\ x \in [Execs -> Row] /\ x[e] \in Row /\ run \in [Workers -> Job]
      /\ phase \in [Execs -> Queue!Phases] /\ msgs \in [Execs -> Nat]
  BY DEF IInv, TypeOK
<1>1. ~ClaimDisabled(w, e)
  BY DEF ClaimDisabled, Calm
<1>2. Queue!Deliver(e)
  BY <1>1 DEF ClaimNext, DropMessage, ClaimExhausted, ClaimUnreadable, ClaimMismatch, Claim,
     MayRun, Receive
<1>3. /\ msgs[e] > 0 /\ msgs' = [msgs EXCEPT ![e] = @ - 1] /\ UNCHANGED phase
      /\ x[e].st # "absent"
  BY <1>0, <1>2 DEF Queue!Deliver, Leased, NotYet
<1>4. CASE DropMessage(w, e)
  <2>1. UNCHANGED <<x, run>>
    BY <1>4 DEF DropMessage, userVars, graphVars
  <2>2. NotYet'
    BY <1>0, <1>3, <2>1 DEF Leased, NotYet
  <2> QED
    BY <2>1, <2>2, QuietStep DEF Leased
<1>5. CASE ClaimExhausted(w, e) \/ ClaimUnreadable(w, e) \/ ClaimMismatch(w, e)
  <2>1. Claimable(e) /\ \E why : FailClaim(e, why)
    BY <1>5 DEF ClaimExhausted, ClaimUnreadable, ClaimMismatch, MayRun
  <2>2. Free(e)
    BY <2>1, FreeExecution DEF Claimable
  <2>3. /\ UNCHANGED run /\ \A f \in Execs : f # e => x'[f] = x[f]
        /\ x'[e].st = "failed"
    BY <1>0, <2>1 DEF FailClaim, Write, Row
  <2>4. NotYet'
    BY <1>0, <1>3, <2>3 DEF Leased, NotYet
  <2>5. OneBusyExecution'
    BY <2>3 DEF Leased, OneBusyExecution, Busy
  <2> QED
    BY <2>2, <2>3, <2>4, <2>5, RowStep DEF Leased
<1>6. CASE Claim(w, e)
  <2>1. Claimable(e) /\ run[w] = Idle
    BY <1>6 DEF Claim, MayRun, Receive
  <2>2. Free(e)
    BY <2>1, FreeExecution DEF Claimable
  <2>3. /\ \A f \in Execs : f # e => x'[f] = x[f]
        /\ x'[e].st = "pending" /\ x'[e].owner = w /\ x'[e].lease = "live" /\ x'[e].claimed
    BY <1>0, <1>6 DEF Claim, Write, Row
  <2>4. /\ \A v \in Workers : v # w => run'[v] = run[v]
        /\ run'[w].pc = "claimed" /\ run'[w].exec = e /\ run'[w].hb = "on"
    BY <1>0, <1>6 DEF Claim, Idle
  <2>5. ASSUME NEW v \in Workers PROVE JobTrue(v)'
    <3>1. CASE v = w
      BY <2>3, <2>4, <3>1 DEF JobTrue, Early, InGraph, Late
    <3>2. CASE v # w
      BY <2>2, <2>3, <2>4, <3>2 DEF JobTrue, Leased, Free, IInv, JobHasExecution
    <3> QED
      BY <3>1, <3>2
  <2>6. NotYet'
    BY <1>0, <1>3, <2>3 DEF Leased, NotYet
  <2>7. x[e].st \in Busy
    BY <1>0, <1>3, <2>1 DEF Claimable, Row, Status, Busy
  <2>8. OneBusyExecution'
    BY <2>3, <2>7 DEF Leased, OneBusyExecution
  <2> QED
    BY <2>5, <2>6, <2>8 DEF Leased
<1> QED
  BY <1>1, <1>4, <1>5, <1>6 DEF ClaimNext

\* A worker that dies leaves its lease to run out.
LEMMA DeathLeased ==
    ASSUME IInv, Calm, Leased, NEW w \in Workers, Crash(w) \/ Abort(w)
    PROVE  Leased'
<1>0. /\ run \in [Workers -> Job] /\ msgs \in [Execs -> Nat]
      /\ run[w].pc # "idle" /\ run[w].exec \in Execs /\ x[run[w].exec].st # "absent"
  BY DEF IInv, TypeOK, JobHasExecution, Calm, Crash, Abort, Leased, JobTrue
<1>1. UNCHANGED <<x, phase>> /\ run' = [run EXCEPT ![w] = Idle]
  BY DEF Crash, Abort, queueVars
<1>2. \A v \in Workers : JobTrue(v)'
  BY <1>0, <1>1 DEF Leased, JobTrue, Idle
<1>3. \A f \in Execs : f # run[w].exec => msgs'[f] = msgs[f]
  BY <1>0 DEF Crash, Abort, queueVars
<1>4. NotYet'
  BY <1>0, <1>1, <1>3 DEF Leased, NotYet
<1>5. OneBusyExecution'
  BY <1>1 DEF Leased, OneBusyExecution
<1> QED
  BY <1>2, <1>4, <1>5 DEF Leased

\* Nobody's answer is being given, so that the API leaves the rows alone.
LEMMA UserLeased ==
    ASSUME Quiet, IInv, Calm, Unattended, Leased, NEW e \in Execs, UserNext(e)
    PROVE  Leased'
<1>0. asked[e].cancel = None /\ asked[e].resume = 0
  BY DEF Unattended, Unasked
<1>1. ~AskCancel(e) /\ ~Cancel(e) /\ ~Resume(e)
  BY <1>0 DEF AskCancel, Cancel, Resume, Quiet
<1>2. CASE Create(e)
  BY <1>2, RowLeased
<1>3. CASE AskResume(e)
  <2>1. UNCHANGED <<x, run, phase, msgs>>
    BY <1>3 DEF AskResume, queueVars
  <2>2. NotYet'
    BY <2>1 DEF Leased, NotYet
  <2> QED
    BY <2>1, <2>2, QuietStep DEF Leased
<1> QED
  BY <1>1, <1>2, <1>3 DEF UserNext

LEMMA LeasedStep ==
    ASSUME Quiet, IInv, Calm, Unattended, Leased, Next, active'
    PROVE  Leased'
<1>1. ASSUME NEW e \in Execs, UserNext(e) PROVE Leased'
  BY <1>1, UserLeased
<1>2. ASSUME NEW e \in Execs, QueueNext(e) PROVE Leased'
  BY <1>2, QueueLeased
<1>3. ASSUME NEW e \in Execs, Watchdog(e) \/ LeaseExpires(e) \/ Age(e) PROVE Leased'
  BY <1>3, RowLeased
<1>4. ASSUME NEW w \in Workers, NEW e \in Execs, ClaimNext(w, e) PROVE Leased'
  BY <1>4, ClaimLeased
<1>5. ASSUME NEW w \in Workers, RunNext(w) \/ HeartbeatRead(w) \/ HeartbeatWrite(w)
      PROVE  Leased'
  <2>1. JobTrue(w)
    BY DEF Leased
  <2> QED
    BY <1>5, <2>1, RunEffect, WorkerStep
<1>6. ASSUME NEW w \in Workers, Crash(w) \/ Abort(w) PROVE Leased'
  BY <1>6, DeathLeased
<1>7. ~Disable
  BY DEF Disable
<1> QED
  BY <1>1, <1>2, <1>3, <1>4, <1>5, <1>6, <1>7 DEF Next

LEMMA CalmRow ==
    ASSUME IInv, Calm, NEW e \in Execs, NEW r, Write(e, r), ~r.cancel, r.st # "cancelled"
    PROVE  \A f \in Execs : ~x'[f].cancel /\ x'[f].st # "cancelled"
BY DEF Write, Calm, IInv, TypeOK

\* Disabled is for good.
LEMMA StaysDisabled ==
    ASSUME Next, active'
    PROVE  active
<1>1. ASSUME NEW e \in Execs,
             UserNext(e) \/ QueueNext(e) \/ Watchdog(e) \/ LeaseExpires(e) \/ Age(e)
      PROVE  UNCHANGED active
  BY <1>1 DEF UserNext, Create, AskCancel, Cancel, AskResume, Resume, QueueNext, Dispatch,
     Published, Redispatch, Watchdog, FailUnclaimed, RecoverLease, LeaseExpires, Age, userVars
<1>2. ASSUME NEW w \in Workers, NEW e \in Execs, ClaimNext(w, e) PROVE UNCHANGED active
  BY <1>2 DEF ClaimNext, DropMessage, ClaimExhausted, ClaimDisabled, ClaimUnreadable,
     ClaimMismatch, Claim, FailClaim, userVars
<1>3. ASSUME NEW w \in Workers, RunNext(w) PROVE UNCHANGED active
  BY <1>3 DEF RunNext, Load, Admit, Start, Begin, Check, ReachInterrupt, ReachEnd, RunFails,
     TurnDone, Consume, Park, Complete, Clear, Schedule, CancelRun, Close, userVars
<1>4. ASSUME NEW w \in Workers, HeartbeatRead(w) \/ HeartbeatWrite(w) \/ Crash(w) \/ Abort(w)
      PROVE  UNCHANGED active
  BY <1>4 DEF HeartbeatRead, HeartbeatWrite, Crash, Abort, userVars
<1>5. ~Disable
  BY DEF Disable
<1> QED
  BY <1>1, <1>2, <1>3, <1>4, <1>5 DEF Next

\* Nothing of what Calm says is undone but by disabling.
LEMMA CalmStep ==
    ASSUME Quiet, IInv, Calm, Next, active'
    PROVE  Calm'
<1>0. /\ x \in [Execs -> Row] /\ run \in [Workers -> Job]
      /\ asked \in [Execs -> [cancel : Status \cup {None}, resume : 0..MaxInterrupts, stop : BOOLEAN]]
  BY DEF IInv, TypeOK
<1>1. ASSUME NEW e \in Execs, UserNext(e) PROVE Calm'
  <2>1. ~AskCancel(e) /\ ~Cancel(e)
    BY DEF AskCancel, Cancel, Quiet, Calm
  <2>2. CASE Create(e)
    BY <1>0, <2>2 DEF Create, Write, Row, Calm, userVars
  <2>3. CASE AskResume(e)
    BY <1>0, <2>3 DEF AskResume, Calm
  <2>4. CASE Resume(e)
    <3>1. UNCHANGED <<run, active>> /\ asked' = [asked EXCEPT ![e].resume = 0, ![e].stop = FALSE]
      BY <2>4 DEF Resume
    <3>2. \A f \in Execs : asked'[f].cancel = asked[f].cancel /\ (~asked[f].stop => ~asked'[f].stop)
      BY <1>0, <3>1
    <3>3. UNCHANGED x \/ Write(e, Resumed(e))
      BY <2>4 DEF Resume
    <3>4. ~Resumed(e).cancel /\ Resumed(e).st # "cancelled"
      BY ResumedRow DEF Calm
    <3>5. \A f \in Execs : ~x'[f].cancel /\ x'[f].st # "cancelled"
      BY <3>3, <3>4, CalmRow DEF Calm
    <3> QED
      BY <3>1, <3>2, <3>5 DEF Calm
  <2> QED
    BY <1>1, <2>1, <2>2, <2>3, <2>4 DEF UserNext
<1>2. ASSUME NEW e \in Execs, QueueNext(e) \/ Watchdog(e) \/ LeaseExpires(e) \/ Age(e)
      PROVE  Calm'
  <2>1. UNCHANGED <<run, asked, active>>
    BY <1>2 DEF QueueNext, Dispatch, Published, Redispatch, Watchdog, FailUnclaimed,
       RecoverLease, LeaseExpires, Age, userVars
  <2>2. ASSUME NEW f \in Execs PROVE ~x'[f].cancel /\ x'[f].st # "cancelled"
    <3> USE <1>0 DEF Write, Row, Calm
    <3>1. CASE Dispatch(e) \/ Redispatch(e)
      BY <3>1 DEF Dispatch, Redispatch
    <3>2. CASE Published(e)
      BY <3>2 DEF Published
    <3>3. CASE FailUnclaimed(e)
      BY <3>3 DEF FailUnclaimed
    <3>4. CASE RecoverLease(e)
      <4> DEFINE lost == [x[e] EXCEPT !.st = "failed", !.error = "limit"]
                 again == [x[e] EXCEPT !.st = "pending", !.owner = None, !.claimed = FALSE,
                                       !.lease = "none"]
      <4>1. x[e] \in Row /\ ~x[e].cancel
        BY <1>0
      <4>2. ~lost.cancel /\ lost.st # "cancelled" /\ ~again.cancel /\ again.st # "cancelled"
        BY <4>1
      <4>3. Write(e, lost) \/ Write(e, again)
        BY <3>4 DEF RecoverLease
      <4> HIDE DEF lost, again
      <4> QED
        BY <4>2, <4>3, CalmRow
    <3>5. CASE LeaseExpires(e)
      BY <3>5 DEF LeaseExpires
    <3>6. CASE Age(e)
      BY <3>6 DEF Age
    <3> QED
      BY <1>2, <3>1, <3>2, <3>3, <3>4, <3>5, <3>6 DEF QueueNext, Watchdog
  <2> QED
    BY <2>1, <2>2 DEF Calm
<1>3. ASSUME NEW w \in Workers, NEW e \in Execs, ClaimNext(w, e) PROVE Calm'
  <2>1. ~ClaimDisabled(w, e)
    BY DEF ClaimDisabled, Calm
  <2>2. CASE DropMessage(w, e)
    BY <2>2 DEF DropMessage, Calm, userVars
  <2>3. CASE ClaimExhausted(w, e) \/ ClaimUnreadable(w, e) \/ ClaimMismatch(w, e)
    <3>1. \E why : FailClaim(e, why)
      BY <2>3 DEF ClaimExhausted, ClaimUnreadable, ClaimMismatch
    <3> QED
      BY <1>0, <3>1 DEF FailClaim, Write, Row, Calm, userVars
  <2>4. CASE Claim(w, e)
    BY <1>0, <2>4 DEF Claim, Write, Row, Calm, Idle, userVars
  <2> QED
    BY <1>3, <2>1, <2>2, <2>3, <2>4 DEF ClaimNext
<1>4. ASSUME NEW w \in Workers,
             RunNext(w) \/ HeartbeatRead(w) \/ HeartbeatWrite(w) \/ Crash(w) \/ Abort(w)
      PROVE  Calm'
  <2> DEFINE e == run[w].exec
  <2>1. /\ run[w].pc # "idle" => e \in Execs /\ x[e] \in Row /\ ~x[e].cancel
        /\ run[w].pc = "idle" => run[w].hb = "off" /\ run[w].pc # "cancelling"
        /\ run[w].pc # "cancelling"
        /\ run[w].pc # "idle" => \A l \in Stages : AfterCheck(w, l) \in {"closing", l}
    BY <1>0 DEF IInv, JobHasExecution, Calm, AfterCheck, Idle
  <2>2. UNCHANGED <<asked, active>>
    BY <1>4 DEF RunNext, Load, Admit, Start, Begin, Check, ReachInterrupt, ReachEnd, RunFails,
       TurnDone, Consume, Park, Complete, Clear, Schedule, CancelRun, Close, HeartbeatRead,
       HeartbeatWrite, Crash, Abort, userVars
  <2>3. ASSUME NEW f \in Execs PROVE ~x'[f].cancel /\ x'[f].st # "cancelled"
    <3> USE <1>0, <2>1 DEF At, Write, SetState, Calm, Row
    <3>1. CASE \/ Load(w) \/ Begin(w) \/ Check(w) \/ ReachInterrupt(w) \/ ReachEnd(w)
               \/ TurnDone(w) \/ Consume(w) \/ Clear(w) \/ Close(w) \/ HeartbeatRead(w)
               \/ Crash(w) \/ Abort(w)
      BY <3>1 DEF Load, Begin, Check, ReachInterrupt, ReachEnd, TurnDone, Consume, Clear,
         Close, HeartbeatRead, Crash, Abort
    <3>2. CASE Admit(w)
      <4>1. UNCHANGED x \/ \E p : Write(e, [x[e] EXCEPT !.claimed = p])
        BY <3>2 DEF Admit
      <4> QED
        BY <3>2, <4>1 DEF Admit
    <3>3. CASE Start(w)
      BY <3>3 DEF Start
    <3>8. CASE RunFails(w)
      <4> DEFINE row == [x[e] EXCEPT !.st = "failed", !.payload = 0, !.error = "runtime"]
      <4>1. e \in Execs /\ x[e] \in Row /\ ~x[e].cancel
        BY <3>8 DEF RunFails
      <4>2. ~row.cancel /\ row.st # "cancelled"
        BY <4>1
      <4>3. Write(e, row)
        BY <3>8 DEF RunFails
      <4> HIDE DEF row
      <4> QED
        BY <4>1, <4>2, <4>3, CalmRow
    <3>4. CASE Park(w)
      BY <3>4 DEF Park
    <3>9. CASE Complete(w)
      BY <3>9 DEF Complete
    <3>5. CASE Schedule(w)
      BY <3>5 DEF Schedule
    <3>6. CASE CancelRun(w)
      BY <3>6 DEF CancelRun
    <3>7. CASE HeartbeatWrite(w)
      BY <3>7 DEF HeartbeatWrite
    <3> QED
      BY <1>4, <3>1, <3>2, <3>3, <3>4, <3>5, <3>6, <3>7, <3>8, <3>9
         DEF RunNext
  <2>4. ASSUME NEW v \in Workers
        PROVE  run'[v].pc # "cancelling" /\ (run'[v].pc = "idle" => run'[v] = Idle)
    <3> USE <1>0, <2>1 DEF At, Goto, Calm, Job, Stages
    <3>1. CASE Load(w)
      BY <3>1 DEF Load
    <3>2. CASE Admit(w)
      <4>1. AfterCheck(w, "admitted") \in {"closing", "admitted"}
        BY <3>2 DEF Admit
      <4>2. \E l \in {"closing", "admitted"} : run' = [run EXCEPT ![w].pc = l]
        BY <3>2, <4>1 DEF Admit
      <4> QED
        BY <4>2
    <3>3. CASE Start(w)
      BY <3>3 DEF Start
    <3>4. CASE Begin(w)
      <4>1. \/ Goto(w, "graph")
            \/ run' = [run EXCEPT ![w].pc = "interrupted", ![w].seen = cp.id]
        BY <3>4 DEF Begin
      <4>2. run'[w].pc \in {"graph", "interrupted"} /\ \A u \in Workers : u # w => run'[u] = run[u]
        BY <4>1
      <4> QED
        BY <4>2
    <3>5. CASE Check(w)
      BY <3>5 DEF Check
    <3>6. CASE ReachInterrupt(w)
      BY <3>6 DEF ReachInterrupt
    <3>7. CASE ReachEnd(w)
      BY <3>7 DEF ReachEnd
    <3>8. CASE RunFails(w)
      BY <3>8 DEF RunFails
    <3>9. CASE TurnDone(w)
      BY <3>9 DEF TurnDone
    <3>10. CASE Consume(w)
      BY <3>10 DEF Consume
    <3>11. CASE Park(w)
      BY <3>11 DEF Park
    <3>12. CASE Complete(w)
      BY <3>12 DEF Complete
    <3>13. CASE Clear(w)
      BY <3>13 DEF Clear
    <3>14. CASE Schedule(w)
      BY <3>14 DEF Schedule
    <3>15. CASE CancelRun(w)
      BY <3>15 DEF CancelRun
    <3>16. CASE Close(w) \/ Crash(w) \/ Abort(w)
      BY <3>16 DEF Close, Crash, Abort, Idle
    <3>17. CASE HeartbeatRead(w)
      BY <3>17 DEF HeartbeatRead
    <3>18. CASE HeartbeatWrite(w)
      BY <3>18 DEF HeartbeatWrite
    <3> QED
      BY <1>4, <3>1, <3>2, <3>3, <3>4, <3>5, <3>6, <3>7, <3>8, <3>9,
         <3>10, <3>11, <3>12, <3>13, <3>14, <3>15, <3>16, <3>17, <3>18 DEF RunNext
  <2> QED
    BY <2>2, <2>3, <2>4 DEF Calm
<1>5. ~Disable
  BY DEF Disable
<1> QED
  BY <1>1, <1>2, <1>3, <1>4, <1>5 DEF Next

\* Once somebody answered, it stays so: the request of a user that was read is
\* stored, and a stored answer never goes away.
LEMMA StaysAttended ==
    ASSUME Quiet, IInv, Calm, Next, Unattended'
    PROVE  Unattended
<1>0. /\ req \in [Execs -> [Interrupts -> {"none", "pending", "claimed", "consumed"}]]
      /\ asked \in [Execs -> [cancel : Status \cup {None}, resume : 0..MaxInterrupts, stop : BOOLEAN]]
  BY DEF IInv, TypeOK
<1>1. ASSUME NEW e \in Execs, NEW k \in Interrupts PROVE req[e][k] = "none"
  <2>0. req'[e][k] = "none"
    BY DEF Unattended
  <2>1. CASE UNCHANGED req
    BY <2>0, <2>1
  <2>2. ASSUME NEW f \in Execs, Resume(f) PROVE req[e][k] = "none"
    <3>1. UNCHANGED req \/ req' = [req EXCEPT ![f][asked[f].resume] = "pending"]
      BY <2>2 DEF Resume
    <3> QED
      BY <1>0, <2>0, <3>1
  <2>3. ASSUME NEW f \in Execs, NEW w \in Workers, Claim(w, f) PROVE req[e][k] = "none"
    <3>1. req' = [req EXCEPT ![f] = [i \in Interrupts |->
                    IF ActiveRequests(f) # {} /\ i = Latest(f) THEN "claimed" ELSE req[f][i]]]
      BY <2>3 DEF Claim
    <3> QED
      BY <1>0, <2>0, <3>1
  <2>4. ASSUME NEW w \in Workers, Consume(w) PROVE req[e][k] = "none"
    <3>1. req' = [req EXCEPT ![run[w].exec][run[w].rq] = "consumed"]
      BY <2>4 DEF Consume
    <3> QED
      BY <1>0, <2>0, <3>1
  <2> QED
    BY <2>1, <2>2, <2>3, <2>4, AnswersUntouched
<1>2. ASSUME NEW e \in Execs PROVE asked[e].resume = 0
  <2>0. asked'[e].resume = 0
    BY DEF Unattended, Unasked
  <2>1. CASE UNCHANGED asked
    BY <2>0, <2>1
  <2>2. ASSUME NEW f \in Execs, AskResume(f) PROVE asked[e].resume = 0
    BY <1>0, <2>0, <2>2 DEF AskResume
  <2>3. ASSUME NEW f \in Execs, Resume(f) PROVE asked[e].resume = 0
    <3>1. CASE f # e
      BY <1>0, <2>0, <2>3, <3>1 DEF Resume
    <3>2. CASE f = e
      <4> DEFINE k == asked[e].resume
      <4>1. k \in 0..MaxInterrupts /\ k # 0
        BY <1>0, <2>3, <3>2 DEF Resume
      <4>2. k \in Interrupts
        BY <4>1 DEF Interrupts
      <4>3. req[e][k] = "none" /\ ActiveRequests(e) = {}
        BY <1>1, <4>2 DEF ActiveRequests
      <4>4. req' = [req EXCEPT ![e][k] = "pending"]
        BY <2>3, <3>2, <4>3 DEF Resume
      <4>5. req'[e][k] = "pending"
        BY <1>0, <4>2, <4>4
      <4> QED
        BY <4>2, <4>5 DEF Unattended
    <3> QED
      BY <3>1, <3>2
  <2>4. \/ UNCHANGED asked
        \/ \E f \in Execs : AskResume(f) \/ Resume(f)
    <3>1. ASSUME NEW f \in Execs, UserNext(f)
          PROVE  UNCHANGED asked \/ AskResume(f) \/ Resume(f)
      BY <3>1 DEF UserNext, Create, AskCancel, Cancel, Quiet, Calm, userVars
    <3>2. ASSUME NEW f \in Execs, QueueNext(f) \/ Watchdog(f) \/ LeaseExpires(f) \/ Age(f)
          PROVE  UNCHANGED asked
      BY <3>2 DEF QueueNext, Dispatch, Published, Redispatch, Watchdog, FailUnclaimed,
         RecoverLease, LeaseExpires, Age, userVars
    <3>3. ASSUME NEW w \in Workers, NEW f \in Execs, ClaimNext(w, f) PROVE UNCHANGED asked
      BY <3>3 DEF ClaimNext, DropMessage, ClaimExhausted, ClaimDisabled, ClaimUnreadable,
         ClaimMismatch, Claim, FailClaim, userVars
    <3>4. ASSUME NEW w \in Workers, RunNext(w) PROVE UNCHANGED asked
      BY <3>4 DEF RunNext, Load, Admit, Start, Begin, Check, ReachInterrupt, ReachEnd, RunFails,
         TurnDone, Consume, Park, Complete, Clear, Schedule, CancelRun, Close, userVars
    <3>5. ASSUME NEW w \in Workers,
                 HeartbeatRead(w) \/ HeartbeatWrite(w) \/ Crash(w) \/ Abort(w)
          PROVE  UNCHANGED asked
      BY <3>5 DEF HeartbeatRead, HeartbeatWrite, Crash, Abort, userVars
    <3>6. ~Disable
      BY DEF Disable, Unattended
    <3> QED
      BY <3>1, <3>2, <3>3, <3>4, <3>5, <3>6 DEF Next
  <2> QED
    BY <2>1, <2>2, <2>3, <2>4
<1>3. \A e \in Execs : asked[e] = Unasked
  BY <1>0, <1>2 DEF Calm, Unasked
<1> QED
  BY <1>1, <1>3 DEF Unattended, Calm

LEMMA RInvInit == Init => RInv
<1> SUFFICES ASSUME Init PROVE RInv
  OBVIOUS
<1>1. \A w \in Workers : run[w] = Idle
  BY DEF Init
<1>2. \A e \in Execs : x[e] = NewRow /\ asked[e].cancel = None /\ ~asked[e].stop
  BY DEF Init, Unasked
<1>3. Calm
  BY <1>1, <1>2 DEF Init, Calm, Idle, NewRow
<1>4. Leased
  BY <1>1, <1>2 DEF Init, Queue!Init, Leased, JobTrue, NotYet, OneBusyExecution, Idle, NewRow, Busy
<1> QED
  BY <1>3, <1>4 DEF RInv

LEMMA RInvStep == Quiet /\ IInv /\ RInv /\ [Next]_vars => RInv'
<1> SUFFICES ASSUME Quiet, IInv, RInv, [Next]_vars PROVE RInv'
  OBVIOUS
<1>1. CASE Next
  <2>1. active' => active /\ Calm /\ Calm'
    BY <1>1, StaysDisabled, CalmStep DEF RInv
  <2>2. Unattended' => active' /\ Unattended /\ Leased'
    BY <1>1, <2>1, StaysAttended, LeasedStep DEF RInv, Unattended
  <2> QED
    BY <2>1, <2>2 DEF RInv
<1>2. CASE UNCHANGED vars
  BY <1>2 DEF vars, RInv, Calm, Unattended, Leased, JobTrue, NotYet, OneBusyExecution
<1> QED
  BY <1>1, <1>2

\* What ends stays so, while nobody interferes.
LEMMA OverStays ==
    ASSUME Quiet, IInv, RInv, Next, Unattended, NEW e \in Execs, x[e].st \in Terminal
    PROVE  x'[e].st \in Terminal
<1>0. /\ x \in [Execs -> Row] /\ x[e] \in Row /\ Leased /\ Calm
      /\ \A f \in Execs : asked[f].cancel = None /\ asked[f].resume = 0
  BY DEF IInv, TypeOK, RInv, Unattended, Unasked
<1>1. ASSUME NEW f \in Execs,
             UserNext(f) \/ QueueNext(f) \/ Watchdog(f) \/ LeaseExpires(f) \/ Age(f)
      PROVE  x'[e].st \in Terminal
  <2> USE <1>0 DEF Write, Row, Terminal
  <2>1. ~Cancel(f) /\ ~Resume(f)
    BY DEF Cancel, Resume
  <2>2. CASE Create(f) \/ AskCancel(f) \/ AskResume(f)
    BY <2>2 DEF Create, AskCancel, AskResume
  <2>3. CASE QueueNext(f)
    BY <2>3 DEF QueueNext, Dispatch, Published, Redispatch
  <2>4. CASE FailUnclaimed(f) \/ LeaseExpires(f) \/ Age(f)
    BY <2>4 DEF FailUnclaimed, LeaseExpires, Age
  <2>5. CASE RecoverLease(f)
    BY <2>5 DEF RecoverLease
  <2> QED
    BY <1>1, <2>1, <2>2, <2>3, <2>4, <2>5 DEF UserNext, Watchdog
<1>2. ASSUME NEW w \in Workers, NEW f \in Execs, ClaimNext(w, f) PROVE x'[e].st \in Terminal
  <2>1. UNCHANGED x \/ (Claimable(f) /\ \E r : Write(f, r))
    BY <1>2, <1>0 DEF ClaimNext, DropMessage, ClaimExhausted, ClaimDisabled, ClaimUnreadable,
       ClaimMismatch, Claim, FailClaim, MayRun, Calm
  <2> QED
    BY <1>0, <2>1 DEF Claimable, Write
<1>3. ASSUME NEW w \in Workers, RunNext(w) \/ HeartbeatRead(w) \/ HeartbeatWrite(w)
      PROVE  x'[e].st \in Terminal
  <2>1. Effect(w)
    BY <1>0, <1>3, RunEffect DEF Leased
  <2> QED
    BY <2>1 DEF Effect
<1>4. ASSUME NEW w \in Workers, Crash(w) \/ Abort(w) PROVE x'[e].st \in Terminal
  BY <1>4 DEF Crash, Abort
<1>5. CASE Disable
  BY <1>0, <1>5 DEF Disable, Terminal
<1> QED
  BY <1>1, <1>2, <1>3, <1>4, <1>5 DEF Next

LEMMA RInvariance == ASSUME Quiet PROVE Spec => []RInv
<1>1. IInv /\ RInv /\ [Next]_vars => RInv'
  BY RInvStep
<1> QED
  BY <1>1, RInvInit, Invariance, PTL DEF Spec

\* Without cancellations and stalls, and until somebody answers or disables the account,
\* no two workers run a turn of the session at once, whatever is delivered twice,
\* crashes or is recovered.
THEOREM OneRunner == ASSUME Quiet PROVE Spec => []SingleRunner
<1>1. IInv /\ RInv => SingleRunner
  <2> SUFFICES ASSUME IInv, Leased,
                      NEW v \in Workers, NEW w \in Workers, NEW e \in Execs, NEW f \in Execs,
                      InTurn(v, e), InTurn(w, f)
               PROVE  v = w
    BY DEF RInv, SingleRunner
  <2>1. x[e].st = "running" /\ x[f].st = "running" /\ run[v].pc # "idle" /\ run[w].pc # "idle"
    BY DEF InTurn, Leased, JobTrue, InGraph
  <2>2. e = f
    BY <2>1 DEF Leased, OneBusyExecution, Busy
  <2> QED
    BY <2>1, <2>2, Alone DEF InTurn, Terminal
<1> QED
  BY <1>1, RInvariance, Invariance, PTL

\* Who writes an outcome owns the execution, although nothing locks the row
\* between the last check and the write.
THEOREM OwnersOutcome == ASSUME Quiet PROVE Spec => []OutcomeByOwner
<1>1. IInv /\ RInv => OutcomeByOwner
  BY DEF RInv, OutcomeByOwner, Leased, JobTrue, InGraph, Late, Terminal
<1> QED
  BY <1>1, RInvariance, Invariance, PTL

\* What is over is not brought back by messages, the watchdog, heartbeats or
\* workers on their way out.
THEOREM OverForGood == ASSUME Quiet PROVE Spec => StaysOver
<1>1. IInv /\ RInv /\ [Next]_vars =>
        [Unattended => \A e \in Execs : x[e].st \in Terminal => x'[e].st \in Terminal]_vars
  BY OverStays
<1> QED
  BY <1>1, RInvariance, Invariance, PTL DEF Spec, StaysOver
------------------------------------------------------------------------------
(* What a waiting row shows of the checkpoint, under the same conditions *)

Single == \A e, f \in Execs : e = f

\* The checkpoint waits at k; in a session of several executions it may have been
\* erased by a worker that clears up after an earlier one.
Shown(k) == cp = Pending(k) \/ (cp = NoCheckpoint /\ ~Single)

Waits ==
    /\ \A w \in Workers : /\ run[w].rq = 0 /\ run[w].pc # "consume"
                          /\ run[w].pc \in {"interrupted", "park"} => Shown(run[w].seen)
    /\ \A e \in Execs : x[e].st = "waiting_input" => Shown(x[e].payload)

WInv == Unattended => Waits

\* A row comes to wait only by Park, and then keeps what it waits for.
LEMMA WaitingRow ==
    ASSUME Quiet, IInv, Calm, Unattended, Next, active', NEW e \in Execs, x'[e].st = "waiting_input"
    PROVE  \/ x[e].st = "waiting_input" /\ x'[e].payload = x[e].payload
           \/ \E w \in Workers : Park(w) /\ x'[e].payload = run[w].seen
<1>0. /\ x \in [Execs -> Row] /\ x[e] \in Row /\ run \in [Workers -> Job]
      /\ \A f \in Execs : asked[f].cancel = None /\ asked[f].resume = 0
  BY DEF IInv, TypeOK, Unattended, Unasked
<1>1. ASSUME NEW f \in Execs, NEW r, Write(f, r), r.st # "waiting_input"
      PROVE  x[e].st = "waiting_input" /\ x'[e].payload = x[e].payload
  BY <1>0, <1>1 DEF Write
<1>2. ASSUME NEW f \in Execs, NEW r, Write(f, r), r.st = x[f].st, r.payload = x[f].payload
      PROVE  x[e].st = "waiting_input" /\ x'[e].payload = x[e].payload
  BY <1>0, <1>2 DEF Write
<1>3. CASE UNCHANGED x
  BY <1>3
<1>4. ASSUME NEW f \in Execs,
             UserNext(f) \/ QueueNext(f) \/ Watchdog(f) \/ LeaseExpires(f) \/ Age(f)
      PROVE  x[e].st = "waiting_input" /\ x'[e].payload = x[e].payload
  <2>0. x[f] \in Row
    BY <1>0
  <2>1. CASE UserNext(f)
    <3>1. ~Cancel(f) /\ ~Resume(f)
      BY <1>0 DEF Cancel, Resume
    <3>2. [x[f] EXCEPT !.st = "pending"].st # "waiting_input"
      BY <2>0 DEF Row
    <3> QED
      BY <2>1, <3>1, <3>2, <1>1, <1>3 DEF UserNext, Create, AskCancel, AskResume
  <2>2. CASE QueueNext(f) \/ Age(f) \/ LeaseExpires(f)
    <3>1. \A n : /\ [x[f] EXCEPT !.age = n].st = x[f].st
                 /\ [x[f] EXCEPT !.age = n].payload = x[f].payload
                 /\ [x[f] EXCEPT !.lease = n].st = x[f].st
                 /\ [x[f] EXCEPT !.lease = n].payload = x[f].payload
      BY <2>0 DEF Row
    <3>2. \/ UNCHANGED x
          \/ \E n : Write(f, [x[f] EXCEPT !.age = n]) \/ Write(f, [x[f] EXCEPT !.lease = n])
      BY <2>2 DEF QueueNext, Dispatch, Published, Redispatch, Age, LeaseExpires
    <3> QED
      BY <3>1, <3>2, <1>2, <1>3
  <2>3. CASE FailUnclaimed(f)
    BY <2>0, <2>3, <1>1 DEF FailUnclaimed, Row
  <2>4. CASE RecoverLease(f)
    <3> DEFINE lost == [x[f] EXCEPT !.st = "failed", !.error = "limit"]
               again == [x[f] EXCEPT !.st = "pending", !.owner = None, !.claimed = FALSE,
                                     !.lease = "none"]
    <3>1. lost.st # "waiting_input" /\ again.st # "waiting_input"
      BY <2>0 DEF Row
    <3>2. Write(f, lost) \/ Write(f, again)
      BY <2>4 DEF RecoverLease
    <3> HIDE DEF lost, again
    <3> QED
      BY <3>1, <3>2, <1>1
  <2> QED
    BY <1>4, <2>1, <2>2, <2>3, <2>4 DEF Watchdog
<1>5. ASSUME NEW w \in Workers, NEW f \in Execs, ClaimNext(w, f)
      PROVE  x[e].st = "waiting_input" /\ x'[e].payload = x[e].payload
  <2>0. x[f] \in Row /\ ~ClaimDisabled(w, f)
    BY <1>0 DEF ClaimDisabled, Calm
  <2>1. CASE DropMessage(w, f)
    BY <2>1, <1>3 DEF DropMessage
  <2>2. CASE ClaimExhausted(w, f) \/ ClaimUnreadable(w, f) \/ ClaimMismatch(w, f)
    <3>1. \E why : FailClaim(f, why)
      BY <2>2 DEF ClaimExhausted, ClaimUnreadable, ClaimMismatch
    <3>2. \A why : [x[f] EXCEPT !.st = "failed", !.error = why].st # "waiting_input"
      BY <2>0 DEF Row
    <3> QED
      BY <3>1, <3>2, <1>1 DEF FailClaim
  <2>3. CASE Claim(w, f)
    <3>1. [x[f] EXCEPT !.st = "pending", !.owner = w, !.lease = "live", !.claimed = TRUE,
                       !.att = @ + 1].st # "waiting_input"
      BY <2>0 DEF Row
    <3> QED
      BY <2>3, <3>1, <1>1 DEF Claim
  <2> QED
    BY <1>5, <2>0, <2>1, <2>2, <2>3 DEF ClaimNext
<1>6. ASSUME NEW w \in Workers,
             RunNext(w) \/ Crash(w) \/ Abort(w) \/ HeartbeatRead(w) \/ HeartbeatWrite(w)
      PROVE  \/ x[e].st = "waiting_input" /\ x'[e].payload = x[e].payload
             \/ Park(w) /\ x'[e].payload = run[w].seen
  <2> DEFINE f == run[w].exec
  <2>0. /\ run[w].pc # "idle" \/ run[w].hb # "off" => f \in Execs /\ x[f] \in Row
        /\ run[w].pc # "idle" => run[w].pc # "cancelling"
    BY <1>0 DEF IInv, JobHasExecution, Calm
  <2>state. ASSUME NEW st, NEW p, NEW er, SetState(w, st, p, er), st # "waiting_input",
                   run[w].pc # "idle"
            PROVE  x[e].st = "waiting_input" /\ x'[e].payload = x[e].payload
    <3>1. [x[f] EXCEPT !.st = st, !.payload = p, !.error = er].st = st
      BY <2>0, <2>state DEF Row
    <3> QED
      BY <2>0, <2>state, <3>1, <1>1 DEF SetState
  <2>1. CASE \/ Load(w) \/ Begin(w) \/ Check(w) \/ ReachInterrupt(w) \/ ReachEnd(w)
             \/ TurnDone(w) \/ Consume(w) \/ Clear(w) \/ Close(w) \/ HeartbeatRead(w)
             \/ Crash(w) \/ Abort(w)
    BY <2>1, <1>3 DEF Load, Begin, Check, ReachInterrupt, ReachEnd, TurnDone, Consume, Clear,
       Close, HeartbeatRead, Crash, Abort
  <2>2. CASE Admit(w) \/ Schedule(w) \/ HeartbeatWrite(w)
    <3>1. /\ f \in Execs /\ x[f] \in Row
          /\ \/ UNCHANGED x
             \/ \E n : \/ Write(f, [x[f] EXCEPT !.claimed = n])
                       \/ Write(f, [x[f] EXCEPT !.post = n])
                       \/ Write(f, [x[f] EXCEPT !.lease = n])
      BY <2>0, <2>2 DEF Admit, Schedule, HeartbeatWrite, At
    <3>2. \A n : /\ [x[f] EXCEPT !.claimed = n].st = x[f].st
                 /\ [x[f] EXCEPT !.claimed = n].payload = x[f].payload
                 /\ [x[f] EXCEPT !.post = n].st = x[f].st
                 /\ [x[f] EXCEPT !.post = n].payload = x[f].payload
                 /\ [x[f] EXCEPT !.lease = n].st = x[f].st
                 /\ [x[f] EXCEPT !.lease = n].payload = x[f].payload
      BY <3>1 DEF Row
    <3> QED
      BY <3>1, <3>2, <1>2, <1>3
  <2>3. CASE Start(w) \/ RunFails(w) \/ Complete(w) \/ CancelRun(w)
    BY <2>3, <2>state DEF Start, RunFails, Complete, CancelRun, At
  <2>4. CASE Park(w)
    <3>1. f \in Execs /\ x[f] \in Row
      BY <2>0, <2>4 DEF Park, At
    <3>2. [x[f] EXCEPT !.st = "waiting_input", !.payload = run[w].seen, !.error = "none"].payload
            = run[w].seen
      BY <3>1 DEF Row
    <3> QED
      BY <1>0, <2>4, <3>1, <3>2 DEF Park, SetState, Write
  <2> QED
    BY <1>6, <2>1, <2>2, <2>3, <2>4 DEF RunNext
<1>7. ~Disable
  BY DEF Disable
<1> QED
  BY <1>4, <1>5, <1>6, <1>7, Next DEF Next

\* A worker that is about to park saw the interrupt before, or finds it now.
LEMMA SeenBefore ==
    ASSUME Quiet, IInv, Calm, Unattended, Waits, Next, active', NEW w \in Workers
    PROVE  /\ run'[w].rq = 0 /\ run'[w].pc # "consume"
           /\ run'[w].pc \in {"interrupted", "park"} =>
                \/ run[w].pc \in {"interrupted", "park"} /\ run'[w].seen = run[w].seen
                \/ (Begin(w) \/ ReachInterrupt(w)) /\ cp' = Pending(run'[w].seen)
<1>0. /\ run \in [Workers -> Job] /\ cp \in Checkpoint
      /\ \A v \in Workers : run[v].rq = 0 /\ run[v].pc # "consume"
      /\ \A v \in Workers : run[v].pc # "idle" => run[v].exec \in Execs /\ ~x[run[v].exec].cancel
  BY DEF IInv, TypeOK, Waits, JobHasExecution, Calm
<1>idle. Idle.rq = 0 /\ Idle.pc = "idle"
  BY DEF Idle
<1>1. ASSUME NEW v \in Workers, NEW l, Goto(v, l), l \notin {"consume", "interrupted"},
             l = "park" => run[v].pc \in {"interrupted", "park"}
      PROVE  /\ run'[w].rq = 0 /\ run'[w].pc # "consume"
             /\ run'[w].pc \in {"interrupted", "park"} =>
                  run[w].pc \in {"interrupted", "park"} /\ run'[w].seen = run[w].seen
  BY <1>0, <1>1, JobMoved
<1>2. CASE UNCHANGED run
  BY <1>0, <1>2
<1>3. ASSUME NEW v \in Workers, run' = [run EXCEPT ![v] = Idle]
      PROVE  /\ run'[w].rq = 0 /\ run'[w].pc # "consume"
             /\ run'[w].pc \in {"interrupted", "park"} =>
                  run[w].pc \in {"interrupted", "park"} /\ run'[w].seen = run[w].seen
  BY <1>0, <1>3, <1>idle
<1>4. ASSUME NEW e \in Execs, NEW v \in Workers, ClaimNext(v, e)
      PROVE  /\ run'[w].rq = 0 /\ run'[w].pc # "consume"
             /\ run'[w].pc \in {"interrupted", "park"} =>
                  run[w].pc \in {"interrupted", "park"} /\ run'[w].seen = run[w].seen
  <2>1. CASE Claim(v, e)
    <3>1. ActiveRequests(e) = {}
      BY DEF ActiveRequests, Unattended
    <3>2. \E m : run' = [run EXCEPT ![v] = [Idle EXCEPT !.pc = "claimed", !.exec = e, !.hb = "on",
                                            !.mode = m, !.rq = 0]]
      BY <2>1, <3>1 DEF Claim
    <3>3. \A u \in Workers : u # v => run'[u] = run[u]
      BY <1>0, <3>2
    <3>4. run'[v].rq = 0 /\ run'[v].pc = "claimed"
      BY <1>0, <3>2 DEF Idle
    <3> QED
      BY <1>0, <3>3, <3>4
  <2>2. UNCHANGED run \/ Claim(v, e)
    BY <1>4 DEF ClaimNext, DropMessage, ClaimExhausted, ClaimDisabled, ClaimUnreadable, ClaimMismatch,
       FailClaim
  <2> QED
    BY <1>2, <2>1, <2>2, <1>0
<1>5. ASSUME NEW v \in Workers, RunNext(v)
      PROVE  /\ run'[w].rq = 0 /\ run'[w].pc # "consume"
             /\ run'[w].pc \in {"interrupted", "park"} =>
                  \/ run[w].pc \in {"interrupted", "park"} /\ run'[w].seen = run[w].seen
                  \/ (Begin(w) \/ ReachInterrupt(w)) /\ cp' = Pending(run'[w].seen)
  <2>0. run[v].pc # "idle" => \A l : AfterCheck(v, l) \in {"closing", l}
    BY <1>0 DEF AfterCheck
  <2>1. CASE Load(v)
    <3>1. \E l \in {"closing", "loaded"} : run' = [run EXCEPT ![v].pc = l,
             ![v].st = x[run[v].exec].st, ![v].fence = x[run[v].exec].owner]
      BY <2>1 DEF Load
    <3>2. /\ run'[w].rq = run[w].rq /\ run'[w].seen = run[w].seen
          /\ run'[w].pc = run[w].pc \/ run'[w].pc \in {"closing", "loaded"}
      BY <1>0, <3>1 DEF Job
    <3> QED
      BY <1>0, <3>2
  <2>2. CASE Admit(v) \/ Check(v) \/ Schedule(v)
    <3>1. \E l \in {"closing", "admitted"} : Goto(v, l)
      BY <2>0, <2>2 DEF Admit, Check, Schedule, At
    <3> QED
      BY <3>1, <1>1
  <2>3. CASE \/ Start(v) \/ ReachEnd(v) \/ RunFails(v) \/ Park(v) \/ Complete(v) \/ Clear(v)
             \/ CancelRun(v)
    <3>1. \E l \in {"turn", "ended", "parked", "closing", "clear", "schedule"} : Goto(v, l)
      BY <2>3 DEF Start, ReachEnd, RunFails, Park, Complete, Clear, CancelRun
    <3> QED
      BY <3>1, <1>1
  <2>4. CASE Begin(v)
    <3>1. CASE Goto(v, "graph")
      BY <3>1, <1>1
    <3>2. CASE /\ cp.kind = "interrupt" /\ UNCHANGED cp
               /\ run' = [run EXCEPT ![v].pc = "interrupted", ![v].seen = cp.id]
      <4>1. cp = Pending(cp.id)
        BY <1>0, <3>2 DEF Checkpoint, Pending
      <4>2. /\ run'[v].pc = "interrupted" /\ run'[v].seen = cp.id /\ run'[v].rq = run[v].rq
            /\ \A u \in Workers : u # v => run'[u] = run[u]
        BY <1>0, <3>2 DEF Job
      <4>3. CASE w = v
        BY <1>0, <2>4, <3>2, <4>1, <4>2, <4>3
      <4>4. CASE w # v
        BY <1>0, <4>2, <4>4
      <4> QED
        BY <4>3, <4>4
    <3> QED
      BY <2>4, <3>1, <3>2 DEF Begin
  <2>5. CASE ReachInterrupt(v)
    <3>1. /\ cp' = Pending(raised + 1)
          /\ run' = [run EXCEPT ![v].pc = "interrupted", ![v].seen = raised + 1]
      BY <2>5 DEF ReachInterrupt
    <3>2. /\ run'[v].pc = "interrupted" /\ run'[v].seen = raised + 1 /\ run'[v].rq = run[v].rq
          /\ \A u \in Workers : u # v => run'[u] = run[u]
      BY <1>0, <3>1 DEF Job
    <3>3. CASE w = v
      BY <1>0, <2>5, <3>1, <3>2, <3>3
    <3>4. CASE w # v
      BY <1>0, <3>2, <3>4
    <3> QED
      BY <3>3, <3>4
  <2>6. CASE TurnDone(v)
    <3>1. run[v].pc \in {"interrupted", "ended"} /\ run[v].rq = 0
      BY <1>0, <2>6 DEF TurnDone
    <3>2. Goto(v, AfterCheck(v, IF At(v, "interrupted") THEN "park" ELSE "complete"))
      BY <2>6, <3>1 DEF TurnDone
    <3>3. \E l \in {"closing", "park", "complete"} :
            Goto(v, l) /\ (l = "park" => run[v].pc = "interrupted")
      BY <2>0, <3>1, <3>2 DEF At
    <3> QED
      BY <3>3, <1>1
  <2>7. CASE Close(v)
    BY <2>7, <1>3 DEF Close
  <2>8. ~Consume(v)
    BY <1>0 DEF Consume, At
  <2> QED
    BY <1>5, <2>1, <2>2, <2>3, <2>4, <2>5, <2>6, <2>7, <2>8 DEF RunNext
<1>6. ASSUME NEW v \in Workers, Crash(v) \/ Abort(v)
      PROVE  /\ run'[w].rq = 0 /\ run'[w].pc # "consume"
             /\ run'[w].pc \in {"interrupted", "park"} =>
                  run[w].pc \in {"interrupted", "park"} /\ run'[w].seen = run[w].seen
  BY <1>3, <1>6 DEF Crash, Abort
<1>7. ASSUME NEW v \in Workers, HeartbeatRead(v) \/ HeartbeatWrite(v)
      PROVE  /\ run'[w].rq = 0 /\ run'[w].pc # "consume"
             /\ run'[w].pc \in {"interrupted", "park"} =>
                  run[w].pc \in {"interrupted", "park"} /\ run'[w].seen = run[w].seen
  <2>1. \E h : run' = [run EXCEPT ![v].hb = h]
    BY <1>7 DEF HeartbeatRead, HeartbeatWrite
  <2>2. run'[w].rq = run[w].rq /\ run'[w].pc = run[w].pc /\ run'[w].seen = run[w].seen
    BY <1>0, <2>1 DEF Job
  <2> QED
    BY <1>0, <2>2
<1>8. ASSUME NEW e \in Execs, UserNext(e) PROVE UNCHANGED run
  BY <1>8 DEF UserNext, Create, AskCancel, Cancel, AskResume, Resume
<1>9. ASSUME NEW e \in Execs, QueueNext(e) \/ Watchdog(e) \/ LeaseExpires(e) \/ Age(e)
      PROVE  UNCHANGED run
  BY <1>9 DEF QueueNext, Dispatch, Published, Redispatch, Watchdog, FailUnclaimed, RecoverLease,
     LeaseExpires, Age
<1>10. ~Disable
  BY DEF Disable
<1> QED
  BY <1>2, <1>4, <1>5, <1>6, <1>7, <1>8, <1>9, <1>10, Next DEF Next

\* Only a worker in the graph, or one that clears up, touches the checkpoint.
LEMMA CheckpointUntouched ==
    ASSUME Next
    PROVE  \/ UNCHANGED cp
           \/ \E w \in Workers : \/ (Begin(w) \/ ReachInterrupt(w) \/ ReachEnd(w))
                                 \/ Clear(w) /\ cp' = NoCheckpoint
<1>1. ASSUME NEW e \in Execs,
             UserNext(e) \/ QueueNext(e) \/ Watchdog(e) \/ LeaseExpires(e) \/ Age(e)
      PROVE  UNCHANGED cp
  BY <1>1 DEF UserNext, Create, AskCancel, Cancel, AskResume, Resume, QueueNext, Dispatch,
     Published, Redispatch, Watchdog, FailUnclaimed, RecoverLease, LeaseExpires, Age, graphVars
<1>2. ASSUME NEW w \in Workers, NEW e \in Execs, ClaimNext(w, e) PROVE UNCHANGED cp
  BY <1>2 DEF ClaimNext, DropMessage, ClaimExhausted, ClaimDisabled, ClaimUnreadable,
     ClaimMismatch, Claim, FailClaim, graphVars
<1>3. ASSUME NEW w \in Workers, RunNext(w)
      PROVE  \/ UNCHANGED cp \/ Begin(w) \/ ReachInterrupt(w) \/ ReachEnd(w)
             \/ Clear(w) /\ cp' = NoCheckpoint
  BY <1>3 DEF RunNext, Load, Admit, Start, Check, RunFails, TurnDone, Consume, Park, Complete,
     Clear, Schedule, CancelRun, Close, graphVars
<1>4. ASSUME NEW w \in Workers, HeartbeatRead(w) \/ HeartbeatWrite(w) \/ Crash(w) \/ Abort(w)
      PROVE  UNCHANGED cp
  BY <1>4 DEF HeartbeatRead, HeartbeatWrite, Crash, Abort, graphVars
<1>5. Disable => UNCHANGED cp
  BY DEF Disable, graphVars
<1> QED
  BY <1>1, <1>2, <1>3, <1>4, <1>5 DEF Next

\* While a worker is in the graph no row waits, and nobody else is about to park.
LEMMA AloneInGraph ==
    ASSUME IInv, Leased, NEW w \in Workers, run[w].pc \in InGraph
    PROVE  /\ \A v \in Workers : run[v].pc \in InGraph => v = w
           /\ \A e \in Execs : x[e].st # "waiting_input"
<1>0. \A v \in Workers : run[v].pc \in InGraph =>
        run[v].pc # "idle" /\ run[v].exec \in Execs /\ x[run[v].exec].st = "running"
  BY DEF IInv, JobHasExecution, Leased, JobTrue, InGraph
<1>1. \A e \in Execs : x[e].st \in Busy => e = run[w].exec
  BY <1>0 DEF Leased, OneBusyExecution, Busy
<1>2. \A v \in Workers : run[v].pc \in InGraph => v = w
  BY <1>0, <1>1, Alone DEF Busy, Terminal
<1> QED
  BY <1>0, <1>1, <1>2 DEF Busy

LEMMA WaitsStep ==
    ASSUME Quiet, IInv, Calm, Leased, Unattended, Waits, Next, active'
    PROVE  Waits'
<1> DEFINE ShownNext(k) == cp' = Pending(k) \/ (cp' = NoCheckpoint /\ ~Single)
<1>1. \A w \in Workers : run'[w].rq = 0 /\ run'[w].pc # "consume"
  BY SeenBefore
<1> SUFFICES /\ \A w \in Workers : run'[w].pc \in {"interrupted", "park"} => ShownNext(run'[w].seen)
             /\ \A e \in Execs : x'[e].st = "waiting_input" => ShownNext(x'[e].payload)
  BY <1>1 DEF Waits, Shown, Pending, NoCheckpoint, Single
<1>2. \A k : cp' = Pending(k) => ShownNext(k)
  OBVIOUS
<1>3. CASE UNCHANGED cp
  <2>1. \A k : Shown(k) => ShownNext(k)
    BY <1>3 DEF Shown, Pending, NoCheckpoint, Single
  <2>2. ASSUME NEW w \in Workers, run'[w].pc \in {"interrupted", "park"}
        PROVE  ShownNext(run'[w].seen)
    <3>1. \/ run[w].pc \in {"interrupted", "park"} /\ run'[w].seen = run[w].seen
          \/ cp' = Pending(run'[w].seen)
      BY <2>2, SeenBefore
    <3> QED
      BY <1>2, <2>1, <3>1 DEF Waits
  <2>3. ASSUME NEW e \in Execs, x'[e].st = "waiting_input" PROVE ShownNext(x'[e].payload)
    <3>1. \/ x[e].st = "waiting_input" /\ x'[e].payload = x[e].payload
          \/ \E w \in Workers : Park(w) /\ x'[e].payload = run[w].seen
      BY <2>3, WaitingRow
    <3> QED
      BY <2>1, <3>1 DEF Waits, Park, At
  <2> QED
    BY <2>2, <2>3
<1>4. ASSUME NEW w \in Workers, Begin(w) \/ ReachInterrupt(w) \/ ReachEnd(w)
      PROVE  /\ \A v \in Workers : run'[v].pc \in {"interrupted", "park"} => ShownNext(run'[v].seen)
             /\ \A e \in Execs : x'[e].st # "waiting_input"
  <2>1. run[w].pc \in {"turn", "graph"} /\ UNCHANGED x
    BY <1>4 DEF Begin, ReachInterrupt, ReachEnd, At
  <2>2. /\ \A v \in Workers : run[v].pc \in InGraph => v = w
        /\ \A e \in Execs : x[e].st # "waiting_input"
    BY <2>1, AloneInGraph DEF InGraph
  <2>3. \A v \in Workers : run[v].pc \notin {"interrupted", "park"}
    BY <2>1, <2>2 DEF InGraph
  <2> QED
    BY <1>2, <2>1, <2>2, <2>3, SeenBefore
<1>5. ASSUME NEW w \in Workers, Clear(w), cp' = NoCheckpoint
      PROVE  /\ \A v \in Workers : run'[v].pc \in {"interrupted", "park"} => ShownNext(run'[v].seen)
             /\ \A e \in Execs : x'[e].st = "waiting_input" => ShownNext(x'[e].payload)
  <2>1. CASE ~Single
    BY <1>5, <2>1 DEF Shown, Single, NoCheckpoint
  <2>2. CASE Single
    <3>1. run[w].exec \in Execs /\ x[run[w].exec].st = "completed" /\ UNCHANGED x
      BY <1>5 DEF Clear, At, IInv, JobHasExecution, Leased, JobTrue, Late
    <3>2. \A e \in Execs : x[e].st = "completed"
      BY <2>2, <3>1 DEF Single
    <3>3. \A v \in Workers : run[v].pc \notin {"interrupted", "park"}
      BY <3>2 DEF IInv, JobHasExecution, Leased, JobTrue, InGraph
    <3>4. \A v \in Workers : ~Begin(v) /\ ~ReachInterrupt(v)
      BY <3>2 DEF IInv, JobHasExecution, Leased, JobTrue, InGraph, Begin, ReachInterrupt, At
    <3> QED
      BY <3>1, <3>2, <3>3, <3>4, SeenBefore
  <2> QED
    BY <2>1, <2>2
<1> QED
  BY <1>3, <1>4, <1>5, CheckpointUntouched

LEMMA WInvInit == Init => WInv
<1> SUFFICES ASSUME Init PROVE Waits
  BY DEF WInv
<1>1. (\A w \in Workers : run[w] = Idle) /\ \A e \in Execs : x[e] = NewRow
  BY DEF Init
<1> QED
  BY <1>1 DEF Waits, Idle, NewRow

LEMMA WInvStep == Quiet /\ IInv /\ RInv /\ WInv /\ [Next]_vars => WInv'
<1> SUFFICES ASSUME Quiet, IInv, RInv, WInv, [Next]_vars, Unattended' PROVE Waits'
  BY DEF WInv
<1>1. CASE Next
  <2>1. active' /\ Calm
    BY <1>1, StaysDisabled DEF RInv, Unattended
  <2>2. Unattended /\ Leased
    BY <1>1, <2>1, StaysAttended DEF RInv
  <2> QED
    BY <1>1, <2>1, <2>2, WaitsStep DEF WInv
<1>2. CASE UNCHANGED vars
  <2>1. Unattended
    BY <1>2 DEF vars, Unattended
  <2> QED
    BY <1>2, <2>1 DEF vars, WInv, Waits, Shown, Single, Pending, NoCheckpoint
<1> QED
  BY <1>1, <1>2

LEMMA WInvariance == ASSUME Quiet PROVE Spec => []WInv
<1>1. IInv /\ RInv /\ WInv /\ [Next]_vars => WInv'
  BY WInvStep
<1> QED
  BY <1>1, WInvInit, Invariance, RInvariance, PTL DEF Spec

\* The interrupt a waiting row shows is the one the checkpoint waits at, for a
\* session with one execution, any number of workers and crashes.
THEOREM WaitTrue == ASSUME Quiet, Single PROVE Spec => []WaitShowsCheckpoint
<1>1. WInv => WaitShowsCheckpoint
  BY DEF WInv, Waits, Shown, WaitShowsCheckpoint
<1> QED
  BY <1>1, WInvariance, PTL

\* A checkpoint beside a waiting row is at the interrupt the row shows, or erased.
WaitShowsNoOther ==
    Unattended =>
        \A e \in Execs : x[e].st = "waiting_input" => cp \in {Pending(x[e].payload), NoCheckpoint}

\* With several executions in the session: unless a worker that clears up after an
\* earlier execution erased the checkpoint (runner.py:155), it waits at the interrupt
\* the row shows, and never at another.
THEOREM WaitNeverWrong == ASSUME Quiet PROVE Spec => []WaitShowsNoOther
<1>1. WInv => WaitShowsNoOther
  BY DEF WInv, Waits, Shown, WaitShowsNoOther
<1> QED
  BY <1>1, WInvariance, PTL
==============================================================================
