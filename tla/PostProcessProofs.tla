-------------------------- MODULE PostProcessProofs ---------------------------
(***************************************************************************)
(* What holds of PostProcess for any executions, workers and budget.       *)
(***************************************************************************)
EXTENDS PostProcess, TLAPS

\* Delivery and processing share one column: the dispatchers see a row exactly
\* while no worker has given it a processing status.
OneStatus == \A e \in Execs : phase[e] = "revoked" <=> work[e] # "none"

\* Whoever works, or could begin to, does so for a row that exists; work that
\* may complete was counted.
JobSound ==
    \A w \in Workers :
        /\ job[w].pc # "idle" => job[w].exec \in Execs /\ phase[job[w].exec] # "none"
        /\ job[w].pc \in {"working", "worked"} => attempts[job[w].exec] > 0

MsgsSound == \A e \in Execs : msgs[e] > 0 => phase[e] # "none"

IInv == TypeOK /\ OneStatus /\ DoneIsCompleted /\ JobSound /\ MsgsSound

\* No row exists at first.
LEMMA InitInv == Init => IInv
BY PostProcessAssumption
   DEF Init, IInv, TypeOK, OneStatus, DoneIsCompleted, JobSound, MsgsSound, Idle,
       Queue!Init, Queue!Phases

\* A row that is put back is visible to the dispatchers again, one that is given
\* up is not.
LEMMA NextInv == IInv /\ [Next]_vars => IInv'
<1> SUFFICES ASSUME IInv, [Next]_vars
             PROVE  IInv'
    OBVIOUS
<1> USE PostProcessAssumption DEF IInv, TypeOK, OneStatus, DoneIsCompleted, JobSound, MsgsSound,
        Queue!Phases, queueVars, rowVars, Idle
<1>1. ASSUME NEW e \in Execs, Schedule(e)
      PROVE  IInv'
    BY <1>1 DEF Schedule, Queue!Request
<1>2. ASSUME NEW e \in Execs, Dispatch(e)
      PROVE  IInv'
    BY <1>2 DEF Dispatch, Queue!Send
<1>3. ASSUME NEW e \in Execs, Published(e)
      PROVE  IInv'
    BY <1>3 DEF Published, Queue!Settle
<1>4. ASSUME NEW e \in Execs, Redispatch(e)
      PROVE  IInv'
    BY <1>4 DEF Redispatch, Queue!Forget
<1>5. ASSUME NEW e \in Execs, Watchdog(e)
      PROVE  IInv'
  <2>1. phase[e] # "none" /\ ~done[e]
    BY <1>5 DEF Watchdog
  <2>2. CASE Reopen(e)
    BY <1>5, <2>1, <2>2 DEF Watchdog, Reopen, Queue!Request
  <2>3. CASE Take(e, "failed", "none") /\ UNCHANGED msgs
    BY <1>5, <2>1, <2>3 DEF Watchdog, Take
  <2>4. QED
    BY <1>5, <2>2, <2>3 DEF Watchdog, RetryOrFail
<1>6. ASSUME NEW e \in Execs, LockExpires(e) \/ Late(e)
      PROVE  IInv'
  <2>1. CASE LockExpires(e)
    BY <2>1 DEF LockExpires
  <2>2. CASE Late(e)
    BY <2>2 DEF Late
  <2>3. QED
    BY <1>6, <2>1, <2>2
<1>7. ASSUME NEW e \in Execs, NEW w \in Workers, Receive(w, e)
      PROVE  IInv'
    BY <1>7 DEF Receive, Queue!Deliver
<1>8. ASSUME NEW w \in Workers, Drop(w)
      PROVE  IInv'
    BY <1>8 DEF Drop, Leave
<1>9. ASSUME NEW w \in Workers, Exhaust(w)
      PROVE  IInv'
    BY <1>9 DEF Exhaust, Openable, Take, Leave
<1>10. ASSUME NEW w \in Workers, Begin(w)
       PROVE  IInv'
    BY <1>10 DEF Begin, Openable, Take, Goto
<1>11. ASSUME NEW w \in Workers, Unreadable(w) \/ Work(w)
       PROVE  IInv'
    BY SMTT(20), <1>11 DEF Unreadable, Work, Goto
<1>12. ASSUME NEW w \in Workers, Complete(w)
       PROVE  IInv'
    BY <1>12 DEF Complete, Take, Leave
<1>13. ASSUME NEW w \in Workers, RecordFailure(w)
       PROVE  IInv'
  <2>1. PICK e \in Execs : e = job[w].exec /\ phase[e] # "none"
    BY <1>13 DEF RecordFailure
  <2>2. CASE UNCHANGED <<phase, msgs, work, lock, late>>
    BY <1>13, <2>2 DEF RecordFailure, Leave
  <2>3. CASE work[e] \notin {"completed", "failed"} /\ Reopen(e)
    BY <1>13, <2>1, <2>3 DEF RecordFailure, Reopen, Leave, Queue!Request
  <2>4. CASE work[e] \notin {"completed", "failed"} /\ Take(e, "failed", "none") /\ UNCHANGED msgs
    BY <1>13, <2>1, <2>4 DEF RecordFailure, Take, Leave
  <2>5. QED
    BY <1>13, <2>1, <2>2, <2>3, <2>4 DEF RecordFailure, RetryOrFail
<1>14. ASSUME NEW w \in Workers, Crash(w)
       PROVE  IInv'
    BY <1>14 DEF Crash, Leave
<1>15. CASE UNCHANGED vars
    BY <1>15 DEF vars
<1>16. QED
    BY <1>1, <1>2, <1>3, <1>4, <1>5, <1>6, <1>7, <1>8, <1>9, <1>10, <1>11, <1>12, <1>13,
       <1>14, <1>15 DEF Next, Step, Look

\* The invariant holds in every reachable state.
LEMMA Invariance == Spec => []IInv
BY InitInv, NextInv, PTL DEF Spec

\* No attempt beyond the budget is ever counted, and every variable keeps its type.
THEOREM TypeCorrect == Spec => []TypeOK
<1>1. IInv => TypeOK
    BY DEF IInv
<1>2. QED
    BY <1>1, Invariance, PTL

\* What is done and what is completed are the same: see DoneIsCompleted.
THEOREM DoneCorrect == Spec => []DoneIsCompleted
<1>1. IInv => DoneIsCompleted
    BY DEF IInv
<1>2. QED
    BY <1>1, Invariance, PTL
------------------------------------------------------------------------------
(* The refinement *)

AbstractState == [e \in Execs |-> State(e)]

\* No row, no work.
LEMMA InitRefines == Init => Abstract!Init
BY DEF Init, Queue!Init, Abstract!Init, State

\* Putting a row back, or giving it up, is a step of the abstract machine for a
\* row that exists and is not over.
LEMMA RetryRefines ==
    ASSUME IInv, NEW e \in Execs, RetryOrFail(e), phase[e] # "none",
           work[e] \notin {"completed", "failed"}, UNCHANGED attempts
    PROVE  Abstract!GiveUp(e) \/ UNCHANGED <<AbstractState, attempts>>
<1> USE DEF IInv, TypeOK, AbstractState
<1>1. \A f \in Execs \ {e} : State(f)' = State(f)
    BY DEF RetryOrFail, Reopen, Take, Queue!Request, State
<1>2. CASE attempts[e] < MaxAttempts /\ Reopen(e)
  <2>1. State(e)' = State(e)
    BY <1>2 DEF Reopen, Queue!Request, State
  <2>2. QED
    BY <1>1, <2>1
<1>3. CASE attempts[e] >= MaxAttempts /\ Take(e, "failed", "none")
  <2>1. State(e) = "open" /\ State(e)' = "failed" /\ attempts[e] = MaxAttempts
    BY <1>3, PostProcessAssumption DEF Take, State
  <2>2. QED
    BY <1>1, <2>1 DEF Abstract!GiveUp
<1>4. QED
    BY <1>2, <1>3 DEF RetryOrFail

\* Every step of a runner, a dispatcher, a worker, the watchdog or the clock is
\* a step of bounded retry or is invisible to it.
LEMMA StepRefines ==
    IInv /\ [Next]_vars => [Abstract!Next]_<<AbstractState, attempts>>
<1> SUFFICES ASSUME IInv, [Next]_vars
             PROVE  [Abstract!Next]_<<AbstractState, attempts>>
    OBVIOUS
<1> USE PostProcessAssumption DEF AbstractState
<1>1. ASSUME NEW e \in Execs, Schedule(e)
      PROVE  Abstract!Schedule(e)
    BY <1>1 DEF IInv, TypeOK, OneStatus, Schedule, Queue!Request, Abstract!Schedule, State
<1>2. ASSUME NEW e \in Execs, Dispatch(e) \/ Published(e) \/ Redispatch(e)
      PROVE  UNCHANGED <<AbstractState, attempts>>
    BY <1>2 DEF IInv, TypeOK, Dispatch, Published, Redispatch, Queue!Send, Queue!Settle,
       Queue!Forget, State
<1>3. ASSUME NEW e \in Execs, LockExpires(e) \/ Late(e)
      PROVE  UNCHANGED <<AbstractState, attempts>>
    BY <1>3 DEF LockExpires, Late, queueVars, State
<1>4. ASSUME NEW e \in Execs, NEW w \in Workers, Receive(w, e)
      PROVE  UNCHANGED <<AbstractState, attempts>>
    BY <1>4 DEF Receive, Queue!Deliver, State
<1>5. ASSUME NEW w \in Workers, Drop(w) \/ Unreadable(w) \/ Work(w) \/ Crash(w)
      PROVE  UNCHANGED <<AbstractState, attempts>>
    BY <1>5 DEF Drop, Unreadable, Work, Crash, rowVars, State
\* Published, or being processed: the row exists and is not over.
<1>6. ASSUME NEW e \in Execs, Watchdog(e)
      PROVE  Abstract!GiveUp(e) \/ UNCHANGED <<AbstractState, attempts>>
  <2>1. phase[e] # "none" /\ work[e] \notin {"completed", "failed"}
    BY <1>6 DEF IInv, OneStatus, TypeOK, Watchdog
  <2>2. QED
    BY <1>6, <2>1, RetryRefines DEF Watchdog
<1>7. ASSUME NEW w \in Workers, RecordFailure(w)
      PROVE  (\E e \in Execs : Abstract!GiveUp(e)) \/ UNCHANGED <<AbstractState, attempts>>
  <2>1. job[w].exec \in Execs /\ phase[job[w].exec] # "none"
    BY <1>7 DEF IInv, JobSound, RecordFailure
  <2>2. CASE work[job[w].exec] \in {"completed", "failed"}
    BY <1>7, <2>2 DEF RecordFailure, State
  <2>3. CASE work[job[w].exec] \notin {"completed", "failed"}
    BY <1>7, <2>1, <2>3, RetryRefines DEF RecordFailure
  <2>4. QED
    BY <2>2, <2>3
<1>8. ASSUME NEW w \in Workers, Exhaust(w)
      PROVE  \E e \in Execs : Abstract!GiveUp(e)
  <2>1. PICK e \in Execs : e = job[w].exec /\ phase[e] # "none"
    BY <1>8 DEF IInv, JobSound, Exhaust
  <2>2. State(e) = "open" /\ State(e)' = "failed" /\ attempts[e] = MaxAttempts
    BY <1>8, <2>1 DEF IInv, TypeOK, Exhaust, Openable, Take, State
  <2>3. \A f \in Execs \ {e} : State(f)' = State(f)
    BY <1>8, <2>1 DEF IInv, TypeOK, Exhaust, Take, State
  <2>4. Abstract!GiveUp(e)
    BY <1>8, <2>2, <2>3 DEF Exhaust, Abstract!GiveUp
  <2>5. QED
    BY <2>4
<1>9. ASSUME NEW w \in Workers, Begin(w)
      PROVE  \E e \in Execs : Abstract!Try(e)
  <2>1. PICK e \in Execs : e = job[w].exec /\ phase[e] # "none"
    BY <1>9 DEF IInv, JobSound, Begin
  <2>2. State(e) = "open" /\ State(e)' = "open"
    BY <1>9, <2>1 DEF IInv, TypeOK, Begin, Openable, Take, State
  <2>3. \A f \in Execs \ {e} : State(f)' = State(f)
    BY <1>9, <2>1 DEF IInv, TypeOK, Begin, Take, State
  <2>4. Abstract!Try(e)
    BY <1>9, <2>1, <2>2, <2>3 DEF Begin, Abstract!Try
  <2>5. QED
    BY <2>4
\* A second completion is invisible, a late one turns given up into completed.
<1>10. ASSUME NEW w \in Workers, Complete(w)
       PROVE  (\E e \in Execs : Abstract!Succeed(e)) \/ UNCHANGED <<AbstractState, attempts>>
  <2>1. PICK e \in Execs : e = job[w].exec /\ phase[e] # "none" /\ attempts[e] > 0
    BY <1>10 DEF IInv, JobSound, Complete
  <2>2. State(e)' = "completed" /\ State(e) \in {"open", "completed", "failed"}
    BY <1>10, <2>1 DEF IInv, TypeOK, Complete, Take, State
  <2>3. \A f \in Execs \ {e} : State(f)' = State(f)
    BY <1>10, <2>1 DEF IInv, TypeOK, Complete, Take, State
  <2>4. attempts' = attempts
    BY <1>10 DEF Complete
  <2>5. CASE State(e) = "completed"
    BY <2>2, <2>3, <2>4, <2>5
  <2>6. CASE State(e) # "completed"
    BY <2>1, <2>2, <2>3, <2>4, <2>6 DEF Abstract!Succeed
  <2>7. QED
    BY <2>5, <2>6
<1>11. CASE UNCHANGED vars
    BY <1>11 DEF vars, State
<1>12. QED
    BY <1>1, <1>2, <1>3, <1>4, <1>5, <1>6, <1>7, <1>8, <1>9, <1>10, <1>11
       DEF Next, Step, Look, Abstract!Next

\* The work after a turn is bounded retry (docs/SESSION_TO_CONTENT_PIPELINE.md:77).
THEOREM Refinement == Spec => ImplementsBoundedRetry
<1>1. Init => Abstract!Init
    BY InitRefines
<1>2. IInv /\ [Next]_vars => [Abstract!Next]_<<AbstractState, attempts>>
    BY StepRefines
<1>3. QED
    BY <1>1, <1>2, Invariance, PTL
       DEF Spec, ImplementsBoundedRetry, Abstract!Spec, AbstractState
==============================================================================
