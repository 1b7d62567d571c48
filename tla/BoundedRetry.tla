---------------------------- MODULE BoundedRetry -----------------------------
(***************************************************************************)
(* What the background work after a turn promises                          *)
(* (docs/SESSION_TO_CONTENT_PIPELINE.md:77): scheduled work is tried a     *)
(* bounded number of times and given up only when the budget is spent.     *)
(* Completed work stays completed; a try that outlives the decision to     *)
(* give up may still complete it.                                          *)
(***************************************************************************)
EXTENDS Naturals

CONSTANTS Execs,        \* executions whose background work is scheduled
          MaxAttempts   \* the budget

VARIABLES state,    \* of the work of each execution
          tries     \* how often it was begun

Init == /\ state = [e \in Execs |-> "none"]
        /\ tries = [e \in Execs |-> 0]

Schedule(e) == /\ state[e] = "none"
               /\ state' = [state EXCEPT ![e] = "open"]
               /\ UNCHANGED tries

Try(e) == /\ state[e] = "open"
          /\ tries[e] < MaxAttempts
          /\ tries' = [tries EXCEPT ![e] = @ + 1]
          /\ UNCHANGED state

Succeed(e) == /\ state[e] \in {"open", "failed"}
              /\ tries[e] > 0
              /\ state' = [state EXCEPT ![e] = "completed"]
              /\ UNCHANGED tries

GiveUp(e) == /\ state[e] = "open"
             /\ tries[e] = MaxAttempts
             /\ state' = [state EXCEPT ![e] = "failed"]
             /\ UNCHANGED tries

Next == \E e \in Execs : Schedule(e) \/ Try(e) \/ Succeed(e) \/ GiveUp(e)

Spec == Init /\ [][Next]_<<state, tries>>
==============================================================================
