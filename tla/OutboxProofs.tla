---------------------------- MODULE OutboxProofs -----------------------------
(***************************************************************************)
(* Proofs about Outbox for any set of rows and dispatchers: the type       *)
(* invariant, the agreement of lock columns and status, and that the       *)
(* dispatchers implement AtLeastOnce.                                      *)
(***************************************************************************)
EXTENDS Outbox, TLAPS

\* What the fences rely on: a dispatcher records an outcome only for a row it
\* has in hand, and only rows that were submitted ever reach a dispatcher.
DispatcherInv ==
    \A d \in Dispatchers :
        /\ pc[d] = "send" <=> cur[d] = None
        /\ cur[d] # None => status[cur[d]] # "absent"
        /\ \A r \in batch[d] : status[r] # "absent"

Inv == TypeOK /\ LocksMatchStatus /\ DispatcherInv

\* The empty table satisfies the inductive invariant.
LEMMA InitInv == Init => Inv
BY OutboxAssumption
   DEF Init, Inv, TypeOK, Statuses, LocksMatchStatus, DispatcherInv

\* Type correctness and the lock columns are kept together: the fence of a mark
\* is what tells that the row still is under the lock it removes.
LEMMA NextInv == Inv /\ [Next]_vars => Inv'
<1> SUFFICES ASSUME Inv, [Next]_vars
             PROVE  Inv'
    OBVIOUS
<1> USE OutboxAssumption DEF Inv, TypeOK, Statuses, LocksMatchStatus, DispatcherInv,
        rowVars, dispatcherVars
<1>1. ASSUME NEW r \in Rows, Submit(r)
      PROVE  Inv'
    BY <1>1 DEF Submit
<1>2. ASSUME NEW r \in Rows, Requeue(r)
      PROVE  Inv'
    BY <1>2 DEF Requeue
<1>3. ASSUME NEW r \in Rows, Revoke(r)
      PROVE  Inv'
    BY <1>3 DEF Revoke
<1>4. ASSUME NEW r \in Rows, LockExpires(r)
      PROVE  Inv'
    BY <1>4 DEF LockExpires
<1>5. ASSUME NEW r \in Rows, BackoffEnds(r)
      PROVE  Inv'
    BY <1>5 DEF BackoffEnds
<1>6. ASSUME NEW r \in Rows, Deliver(r)
      PROVE  Inv'
    BY <1>6 DEF Deliver
<1>7. ASSUME NEW d \in Dispatchers, Claim(d)
      PROVE  Inv'
    BY <1>7 DEF Claim, TakeLocks, Batches, Claimables, Claimable
<1>8. ASSUME NEW d \in Dispatchers, MarkPublished(d)
      PROVE  Inv'
    BY <1>8 DEF MarkPublished, Holds, Unlock, NextDelivery
<1>9. ASSUME NEW d \in Dispatchers, MarkRetry(d)
      PROVE  Inv'
  <2>1. cur[d] \in Rows
    BY <1>9 DEF MarkRetry
  <2>2. CASE Holds(d, cur[d])
    <3>1. TypeOK'
      BY <1>9, <2>1, <2>2 DEF MarkRetry, Unlock, NextDelivery
    <3>2. LocksMatchStatus' /\ DispatcherInv'
      BY <1>9, <2>1, <2>2 DEF MarkRetry, Unlock, NextDelivery, Holds
    <3>3. QED
      BY <3>1, <3>2
  <2>3. CASE ~Holds(d, cur[d])
    BY <1>9, <2>1, <2>3 DEF MarkRetry, NextDelivery
  <2>4. QED
    BY <2>2, <2>3
<1>10. ASSUME NEW d \in Dispatchers, Crash(d)
       PROVE  Inv'
    BY <1>10 DEF Crash
<1>11. ASSUME NEW d \in Dispatchers, NEW r \in Rows, SendOk(d, r)
       PROVE  Inv'
    BY <1>11 DEF SendOk
<1>12. ASSUME NEW d \in Dispatchers, NEW r \in Rows, SendFail(d, r)
       PROVE  Inv'
    BY <1>12 DEF SendFail
<1>13. CASE UNCHANGED vars
    BY <1>13 DEF vars
<1>14. QED
    BY <1>1, <1>2, <1>3, <1>4, <1>5, <1>6, <1>7, <1>8, <1>9, <1>10, <1>11, <1>12, <1>13
       DEF Next

\* The conjunction of the two is an invariant of every behaviour.
LEMMA Invariance == Spec => []Inv
<1>1. Init => Inv
    BY InitInv
<1>2. Inv /\ [Next]_vars => Inv'
    BY NextInv
<1>3. QED
    BY <1>1, <1>2, PTL DEF Spec

\* Every reachable state has the declared types.
THEOREM TypeCorrect == Spec => []TypeOK
<1>1. Inv => TypeOK
    BY DEF Inv
<1>2. QED
    BY <1>1, Invariance, PTL

\* The lock columns of a row agree with its status whatever the dispatchers,
\* the clients and the clock do: see LocksMatchStatus.
THEOREM LocksCorrect == Spec => []LocksMatchStatus
<1>1. Inv => LocksMatchStatus
    BY DEF Inv
<1>2. QED
    BY <1>1, Invariance, PTL
------------------------------------------------------------------------------
(* The refinement: every step of the outbox is a step of AtLeastOnce or     *)
(* leaves its variables alone.                                              *)

AbstractPhase == [r \in Rows |-> Phase(r)]

\* A step that leaves a row's own columns alone, and the stage of every
\* dispatcher that has the row in hand, leaves its phase alone.
LEMMA PhaseUnchanged ==
    ASSUME NEW r \in Rows,
           status'[r] = status[r],
           lockedBy'[r] = lockedBy[r],
           \A d \in Dispatchers :
               lockedBy[r] = d => pc'[d] = pc[d] /\ cur'[d] = cur[d]
    PROVE  Phase(r)' = Phase(r)
BY DEF Phase, Sent, Holds

\* A row that does not exist yet is idle in the abstract machine.
LEMMA InitRefines == Init => Abstract!Init
BY DEF Init, Abstract!Init, Phase

\* Every step of the dispatchers, the clients, the watchdog or the clock is a
\* step of the abstract machine or leaves the phase of every row alone.
LEMMA StepRefines ==
    Inv /\ [Next]_vars => [Abstract!Next]_<<AbstractPhase, msgs>>
<1> SUFFICES ASSUME Inv, [Next]_vars
             PROVE  [Abstract!Next]_<<AbstractPhase, msgs>>
    OBVIOUS
<1> USE OutboxAssumption DEF Inv, TypeOK, Statuses, LocksMatchStatus, DispatcherInv,
        rowVars, dispatcherVars, AbstractPhase
<1>1. ASSUME NEW r \in Rows, Submit(r)
      PROVE  Abstract!Request(r)
    BY ZenonT(30), <1>1 DEF Submit, Abstract!Request, Phase, Sent, Holds
<1>2. ASSUME NEW r \in Rows, Requeue(r)
      PROVE  Abstract!Request(r)
    BY ZenonT(30), <1>2 DEF Requeue, Abstract!Request, Phase, Sent, Holds
<1>3. ASSUME NEW r \in Rows, Revoke(r)
      PROVE  Abstract!Revoke(r)
    BY ZenonT(30), <1>3 DEF Revoke, Abstract!Revoke, Phase, Sent, Holds
<1>4. ASSUME NEW r \in Rows, Deliver(r)
      PROVE  Abstract!Deliver(r)
    BY <1>4 DEF Deliver, Abstract!Deliver, Phase, Sent, Holds
<1>5. ASSUME NEW d \in Dispatchers, NEW r \in Rows, SendOk(d, r)
      PROVE  Abstract!Send(r)
    BY <1>5 DEF SendOk, Abstract!Send, Phase, Sent, Holds
<1>6. ASSUME NEW d \in Dispatchers, NEW r \in Rows, SendFail(d, r)
      PROVE  UNCHANGED <<AbstractPhase, msgs>>
    BY <1>6 DEF SendFail, Phase, Sent, Holds
<1>7. ASSUME NEW r \in Rows, LockExpires(r) \/ BackoffEnds(r)
      PROVE  UNCHANGED <<AbstractPhase, msgs>>
    BY <1>7 DEF LockExpires, BackoffEnds, Phase, Sent, Holds
\* Taking over rows under expired locks forgets what their holders have sent.
<1>8. ASSUME NEW d \in Dispatchers, Claim(d)
      PROVE  \E S \in SUBSET Rows : Abstract!Forget(S)
  <2>1. PICK S \in Batches : TakeLocks(d, S)
    BY <1>8 DEF Claim
  <2>2. S \subseteq Rows /\ \A r \in S : Claimable(r)
    BY <2>1 DEF Batches, Claimables
  <2> DEFINE F == {r \in S : Phase(r) = "sent"}
  <2>3. \A r \in S : Phase(r)' = "owed"
    BY <1>8, <2>1, <2>2 DEF Claim, TakeLocks, Phase, Sent, Holds
  <2>4. \A r \in Rows \ S : Phase(r)' = Phase(r)
    <3> SUFFICES ASSUME NEW r \in Rows \ S
                 PROVE  Phase(r)' = Phase(r)
      OBVIOUS
    <3>1. status'[r] = status[r] /\ lockedBy'[r] = lockedBy[r]
      BY <2>1 DEF TakeLocks
    <3>2. pc' = pc /\ cur' = cur
      BY <1>8 DEF Claim
    <3>3. QED
      BY <3>1, <3>2, PhaseUnchanged
  <2>5. \A r \in S : Phase(r) \in {"owed", "sent"}
    BY <2>2 DEF Claimable, Phase
  <2>6. Abstract!Forget(F)
    BY <1>8, <2>2, <2>3, <2>4, <2>5 DEF Abstract!Forget, Claim
  <2>7. QED
    BY <2>2, <2>6
<1>9. ASSUME NEW d \in Dispatchers, MarkPublished(d)
      PROVE  Abstract!Settle(cur[d]) \/ UNCHANGED <<AbstractPhase, msgs>>
  <2>1. cur[d] \in Rows
    BY <1>9 DEF MarkPublished
  <2>2. PICK c \in Rows : c = cur[d]
    BY <2>1
  <2>3. \A r \in Rows \ {c} : Phase(r)' = Phase(r)
    BY <1>9, <2>2 DEF MarkPublished, Unlock, NextDelivery, Phase, Sent, Holds
  <2>4. CASE Holds(d, c)
    <3>1. Phase(c) = "sent"
      BY <1>9, <2>2, <2>4 DEF MarkPublished, Phase, Sent, Holds
    <3>2. Phase(c)' = "done" /\ msgs' = msgs
      BY <1>9, <2>2, <2>4 DEF MarkPublished, NextDelivery, Phase
    <3>3. Abstract!Settle(c)
      BY ZenonT(30), <2>3, <3>1, <3>2 DEF Abstract!Settle
    <3>4. QED
      BY <2>2, <3>3
  <2>5. CASE ~Holds(d, c)
    BY <1>9, <2>2, <2>3, <2>5 DEF MarkPublished, NextDelivery, Phase, Sent, Holds
  <2>6. QED
    BY <2>4, <2>5
<1>10. ASSUME NEW d \in Dispatchers, MarkRetry(d)
       PROVE  UNCHANGED <<AbstractPhase, msgs>>
  <2>1. cur[d] \in Rows
    BY <1>10 DEF MarkRetry
  <2>2. \A r \in Rows \ {cur[d]} : Phase(r)' = Phase(r)
    BY <1>10, <2>1 DEF MarkRetry, Unlock, NextDelivery, Phase, Sent, Holds
  <2> DEFINE c == cur[d]
  <2>3. CASE Holds(d, c)
    <3>1. status[c] = "publishing" /\ ~Sent(c) /\ status'[c] = "pending"
      BY <1>10, <2>1, <2>3 DEF MarkRetry, Sent, Holds
    <3>2. QED
      BY <1>10, <2>1, <2>2, <3>1 DEF MarkRetry, NextDelivery, Phase
  <2>4. CASE ~Holds(d, c)
    BY <1>10, <2>1, <2>2, <2>4 DEF MarkRetry, NextDelivery, Phase, Sent, Holds
  <2>5. QED
    BY <2>3, <2>4
\* A crashed dispatcher forgets the delivery whose outcome it had to record.
<1>11. ASSUME NEW d \in Dispatchers, Crash(d)
       PROVE  \E S \in SUBSET Rows : Abstract!Forget(S)
  <2> DEFINE F == {r \in Rows : Phase(r) = "sent" /\ lockedBy[r] = d}
  <2>1. \A r \in Rows \ F : Phase(r)' = Phase(r)
    BY <1>11 DEF Crash, Phase, Sent, Holds
  <2>2. \A r \in F : Phase(r)' = "owed"
    BY <1>11 DEF Crash, Phase, Sent, Holds
  <2>3. Abstract!Forget(F)
    BY <1>11, <2>1, <2>2 DEF Crash, Abstract!Forget
  <2>4. QED
    BY <2>3
<1>12. CASE UNCHANGED vars
    BY <1>12 DEF vars, Phase, Sent, Holds
<1>13. CASE \E r \in Rows : \/ Submit(r) \/ Requeue(r) \/ Revoke(r)
                            \/ LockExpires(r) \/ BackoffEnds(r) \/ Deliver(r)
    BY ONLY <1>1, <1>2, <1>3, <1>4, <1>7, <1>13 DEF Abstract!Next
<1>14. CASE \E d \in Dispatchers :
               \/ Claim(d) \/ MarkPublished(d) \/ MarkRetry(d) \/ Crash(d)
               \/ \E r \in Rows : SendOk(d, r) \/ SendFail(d, r)
  <2>1. \A d \in Dispatchers : MarkPublished(d) => cur[d] \in Rows
    BY DEF MarkPublished
  <2>2. QED
    BY ONLY <1>5, <1>6, <1>8, <1>9, <1>10, <1>11, <1>14, <2>1 DEF Abstract!Next
<1>15. QED
    BY <1>12, <1>13, <1>14 DEF Next

\* The dispatchers implement at-least-once delivery: a row is published only
\* after a message was sent for the latest request (docs/PRODUCT.md:63).
THEOREM Refinement == Spec => ImplementsAtLeastOnce
<1>1. Init => Abstract!Init
    BY InitRefines
<1>2. Inv /\ [Next]_vars => [Abstract!Next]_<<AbstractPhase, msgs>>
    BY StepRefines
<1>3. QED
    BY <1>1, <1>2, Invariance, PTL
       DEF Spec, ImplementsAtLeastOnce, Abstract!Spec, AbstractPhase
==============================================================================
