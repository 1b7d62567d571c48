--------------------------- MODULE ToolCallsProofs ----------------------------
(***************************************************************************)
(* What holds of ToolCalls for any calls, policies and iteration limit.    *)
(***************************************************************************)
EXTENDS ToolCalls, TLAPS

\* The calls the tools node is about to make are covered by consent.
NextConfirmed == next = "tools" => calls \cap Protected \subseteq consent

ActsConfirmed ==
    \A c \in Protected : performed[c] > 0 \/ InFlight(c) \/ c \in late => c \in consent

\* While a thread of a side-effecting call may act or be recorded, its audit row
\* says so; and every failure the audit shows is remembered.
AuditTrue ==
    /\ \A c \in SideEffecting : c \in late \/ InFlight(c) => audit[c] = "running"
    /\ \A c \in Calls : audit[c] = "failed" => c \in faulted

\* A call without a failure acted at most once, and not while it still may.
ActsOnce ==
    \A c \in SideEffecting : c \notin faulted =>
        /\ audit[c] = "absent" \/ th[c] = "called" \/ c \in late => performed[c] = 0
        /\ performed[c] <= 1

IInv == TypeOK /\ NextConfirmed /\ ActsConfirmed /\ AuditTrue /\ OneThread /\ ActsOnce

\* No call was made at first.
LEMMA InitInv == Init => IInv
BY ToolCallsAssumption
   DEF Init, IInv, TypeOK, NextConfirmed, ActsConfirmed, AuditTrue, OneThread, ActsOnce,
       InFlight, NoThreads

\* A step of the nodes or of a leg gives no thread anything to do.
LEMMA NodeInv ==
    ASSUME IInv, NodeNext \/ StartLeg \/ Die \/ Raise \/ OverBudget
                    \/ \E v \in {"unset", "yes", "no"} : Answer(v)
    PROVE  IInv'
<1> USE ToolCallsAssumption
    DEF IInv, TypeOK, NextConfirmed, ActsConfirmed, AuditTrue, OneThread, ActsOnce, InFlight,
        NoThreads, graphVars, threadVars, history, Running
<1>1. CASE Agent
    BY <1>1 DEF Agent, NeedsConfirmation, Counted
<1>2. CASE ToolError \/ AskHuman \/ End
    BY <1>2 DEF ToolError, AskHuman, End
<1>3. CASE FinishTools
    BY <1>3 DEF FinishTools
<1>4. CASE StartLeg \/ OverBudget
    BY <1>4 DEF StartLeg, OverBudget
<1>5. CASE Die
    BY <1>5 DEF Die
<1>6. CASE Raise
    BY <1>6 DEF Raise
<1>7. ASSUME NEW v \in {"unset", "yes", "no"}, Answer(v)
      PROVE  IInv'
    BY <1>7 DEF Answer
<1>8. QED
    BY <1>1, <1>2, <1>3, <1>4, <1>5, <1>6, <1>7 DEF NodeNext

\* A call starts only if no thread of it is left and nothing is recorded of it
\* but a failure.
LEMMA CallInv ==
    ASSUME IInv, NEW c \in Calls, CallNext(c)
    PROVE  IInv'
<1> USE ToolCallsAssumption
    DEF IInv, TypeOK, NextConfirmed, ActsConfirmed, AuditTrue, OneThread, ActsOnce, InFlight,
        graphVars, history, Running, Goto, SetAudit
<1>1. CASE StartCall(c)
    BY <1>1 DEF StartCall, Settled
<1>2. CASE Act(c)
    BY <1>2 DEF Act, Perform
<1>3. CASE Return(c)
    BY <1>3 DEF Return
<1>4. CASE Fail(c)
    BY <1>4 DEF Fail
<1>5. CASE Timeout(c)
    BY <1>5 DEF Timeout
<1>6. QED
    BY <1>1, <1>2, <1>3, <1>4, <1>5 DEF CallNext

\* The invariant holds in every reachable state.
LEMMA Invariance == Spec => []IInv
<1>1. IInv /\ [Next]_vars => IInv'
  <2>1. IInv /\ UNCHANGED vars => IInv'
    BY DEF IInv, TypeOK, NextConfirmed, ActsConfirmed, AuditTrue, OneThread, ActsOnce,
       InFlight, vars
  <2>2. QED
    BY <2>1, NodeInv, CallInv DEF Next
<1>2. QED
    BY <1>1, InitInv, PTL DEF Spec

\* Every variable keeps its type: a leg exceeds its iterations by one at most.
THEOREM TypeCorrect == Spec => []TypeOK
<1>1. IInv => TypeOK
    BY DEF IInv
<1>2. QED
    BY <1>1, Invariance, PTL

\* No protected call without the user's approval: see NothingUnconfirmed.
THEOREM Confirmation == Spec => []NothingUnconfirmed
<1>1. IInv => NothingUnconfirmed
    BY DEF IInv, ActsConfirmed, NothingUnconfirmed, InFlight
<1>2. QED
    BY <1>1, Invariance, PTL

\* Replays repeat a side effect only after a failure: see RepeatedOnlyAfterFailure.
THEOREM AtMostOnce == Spec => []RepeatedOnlyAfterFailure
<1>1. IInv => RepeatedOnlyAfterFailure
    BY ToolCallsAssumption DEF IInv, TypeOK, ActsOnce, RepeatedOnlyAfterFailure
<1>2. QED
    BY <1>1, Invariance, PTL

\* Threads that timed out are never joined by a second one: see OneThread.
THEOREM SingleThread == Spec => []OneThread
<1>1. IInv => OneThread
    BY DEF IInv
<1>2. QED
    BY <1>1, Invariance, PTL
==============================================================================
