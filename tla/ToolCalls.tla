------------------------------ MODULE ToolCalls -------------------------------
(***************************************************************************)
(* The agent graph of one execution and the tool calls it makes            *)
(*   agent/graph/nodes.py, edges.py, factory.py   the nodes and routes     *)
(*   agent/runtime/tool_execution.py              one call, with its audit *)
(*   agent/runtime/execution_services.py          the iteration limit      *)
(*                                                                         *)
(* A leg is one run of the graph by a worker: it starts from the latest    *)
(* checkpoint and ends at an interrupt, at the end, by a failure or by the *)
(* death of its process, after which another leg may go on from the        *)
(* checkpoint.  There is one leg at a time (ExecutionLifecycle,            *)
(* SingleRunner).  A checkpoint is written when a node ends, so a node     *)
(* that was under way runs again, with the same tool call ids.             *)
(*                                                                         *)
(* The tools node makes the calls of the model's last message at once,     *)
(* each in a thread.  A call that times out is answered with an error      *)
(* while its thread goes on and may still act.                             *)
(***************************************************************************)
EXTENDS Naturals

CONSTANTS Calls,          \* tool_call_ids the model may come up with
          Protected,      \* calls of tools that need a confirmation
          SideEffecting,  \* calls of tools whose policy is side_effecting
          MaxIterations   \* settings.agent.max_iterations

ASSUME ToolCallsAssumption ==
    /\ Protected \subseteq Calls
    /\ SideEffecting \subseteq Calls
    /\ MaxIterations \in Nat \ {0}

VARIABLES
    next,       \* checkpoint: the node to run next
    calls,      \* checkpoint: tool calls of the last message, not answered yet
    approved,   \* checkpoint: human_approved
    unused,     \* ids the model has not used yet
    leg,        \* the leg that runs, waits for an answer, or is over
    iter,       \* agent_iterations of the leg
    th,         \* what the leg's thread of each call does
    late,       \* calls whose thread outlived its timeout and may still act
    audit,      \* ToolExecution.status
    performed,  \* history: how often the call acted, 2 for more than once
    faulted,    \* history: calls that were recorded as failed
    consent     \* history: calls the user was asked about and approved

graphVars == <<next, calls, approved, unused>>
threadVars == <<th, late, audit>>
history == <<performed, faulted, consent>>
vars == <<next, calls, approved, unused, leg, iter, th, late, audit, performed, faulted, consent>>

NoThreads == [c \in Calls |-> "idle"]

TypeOK ==
    /\ next \in {"agent", "tools", "human", "tool_error", "end"}
    /\ calls \subseteq Calls
    /\ approved \in {"unset", "yes", "no"}
    /\ unused \subseteq Calls
    /\ leg \in {"off", "on", "waiting", "over"}
    /\ iter \in 0..(MaxIterations + 1)
    /\ th \in [Calls -> {"idle", "called", "acted", "answered", "error"}]
    /\ late \subseteq Calls
    /\ audit \in [Calls -> {"absent", "running", "completed", "failed"}]
    /\ performed \in [Calls -> 0..2]
    /\ faulted \subseteq Calls
    /\ consent \subseteq Calls

Init ==
    /\ next = "agent" /\ calls = {} /\ approved = "unset" /\ unused = Calls
    /\ leg = "off" /\ iter = 0
    /\ th = NoThreads /\ late = {} /\ audit = [c \in Calls |-> "absent"]
    /\ performed = [c \in Calls |-> 0] /\ faulted = {} /\ consent = {}

------------------------------------------------------------------------------
(* Legs *)

\* A worker starts or continues the graph; the iterations count from nought.
StartLeg ==
    /\ leg = "off"
    /\ leg' = "on"
    /\ iter' = 0
    /\ UNCHANGED <<graphVars, threadVars, history>>

\* A process dies, with its threads: those of the leg, and of the ones that timed
\* out those that are its own.  Earlier legs may have left theirs in other processes.
Die ==
    /\ leg \in {"on", "off"}
    /\ leg' = "off"
    /\ th' = NoThreads
    /\ late' \in SUBSET late
    /\ UNCHANGED <<graphVars, iter, audit, history>>

\* An exception ends the leg, for another worker or for good, once its calls have
\* returned or timed out.  A call whose outcome could not be recorded stays
\* `running`.  The process lives on, and so do threads that timed out, those too
\* whose timeout is what could not be recorded.
Raise ==
    /\ leg = "on"
    /\ leg' \in {"off", "over"}
    /\ th' = NoThreads
    /\ \E C \in SUBSET {c \in Calls : th[c] = "called"} : late' = late \cup C
    /\ UNCHANGED <<graphVars, iter, audit, history>>

\* AGENT_MAX_ITERATIONS_EXCEEDED, when the update of the agent node is seen.
OverBudget ==
    /\ leg = "on"
    /\ iter > MaxIterations
    /\ leg' = "over"
    /\ UNCHANGED <<graphVars, iter, threadVars, history>>

\* Mutant: the graph goes on although the limit was passed.
RunningUnlimited(node) == leg = "on" /\ next = node

\* The node runs, unless the limit stops the leg first.
Running(node) == leg = "on" /\ iter <= MaxIterations /\ next = node

------------------------------------------------------------------------------
(* The nodes *)

\* Mutant: one call that needs no confirmation exempts the others.
NeedsConfirmationAll(C) == C \subseteq Protected

NeedsConfirmation(C) == C \cap Protected # {}

\* Mutant: an answer of the model is not counted.
Uncounted == iter

\* agent_iterations counts the updates of the agent node.
Counted == iter + 1

\* The model answers: with nothing to do, with calls, or with one of a tool it
\* does not have.
Agent ==
    /\ Running("agent")
    /\ approved' = "unset"
    /\ iter' = Counted
    /\ \/ \E C \in SUBSET unused :
            /\ calls' = C
            /\ unused' = unused \ C
            /\ next' = IF C = {} THEN "end"
                       ELSE IF NeedsConfirmation(C) THEN "human" ELSE "tools"
       \/ calls' = {} /\ next' = "tool_error" /\ UNCHANGED unused
    /\ UNCHANGED <<leg, threadVars, history>>

\* The node after a failed call only leads back to the model.
ToolError ==
    /\ Running("tool_error")
    /\ next' = "agent"
    /\ UNCHANGED <<calls, approved, unused, leg, iter, threadVars, history>>

\* The graph interrupts itself and waits for the user.
AskHuman ==
    /\ Running("human")
    /\ leg' = "waiting"
    /\ UNCHANGED <<graphVars, iter, threadVars, history>>

\* A new leg resumes the human node with the user's answer; one that is neither
\* yes nor no is asked again.
Answer(v) ==
    /\ leg = "waiting"
    /\ leg' = "on"
    /\ iter' = 0
    /\ approved' = v
    /\ next' = CASE v = "yes" -> "tools" [] v = "no" -> "end" [] v = "unset" -> "human"
    /\ consent' = IF v = "yes" THEN consent \cup calls ELSE consent
    /\ UNCHANGED <<calls, unused, threadVars, performed, faulted>>

End ==
    /\ Running("end")
    /\ leg' = "over"
    /\ UNCHANGED <<graphVars, iter, threadVars, history>>

\* Every call is answered: back to the model, by way of the error node if one
\* of them failed.
FinishTools ==
    /\ Running("tools")
    /\ \A c \in calls : th[c] \in {"answered", "error"}
    /\ next' = IF \E c \in calls : th[c] = "error" THEN "tool_error" ELSE "agent"
    /\ approved' = "unset"
    /\ calls' = {}
    /\ th' = NoThreads
    /\ UNCHANGED <<unused, leg, iter, late, audit, history>>

------------------------------------------------------------------------------
(* execute_tool_call: one call of the tools node *)

Goto(c, s) == th' = [th EXCEPT ![c] = s]
SetAudit(c, s) == audit' = [audit EXCEPT ![c] = s]

\* Mutant: a call that was under way is made again.
AlreadyDone(c) == c \in SideEffecting /\ audit[c] = "completed"

InFlight(c) == th[c] \in {"called", "acted"}

\* A side-effecting call that is completed, or may be under way, is not made.
Settled(c) == c \in SideEffecting /\ audit[c] \in {"completed", "running"}

\* _start_audit.
StartCall(c) ==
    /\ Running("tools")
    /\ c \in calls /\ th[c] = "idle"
    /\ \/ /\ Settled(c)
          /\ Goto(c, IF audit[c] = "completed" THEN "answered" ELSE "error")
          /\ UNCHANGED audit
       \/ ~Settled(c) /\ SetAudit(c, "running") /\ Goto(c, "called")
    /\ UNCHANGED <<graphVars, leg, iter, late, history>>

Perform(c) == performed' = [performed EXCEPT ![c] = IF @ = 0 THEN 1 ELSE 2]

\* The tool does what it is for, in its thread or in one that was given up.
Act(c) ==
    /\ \/ th[c] = "called" /\ Goto(c, "acted") /\ UNCHANGED late
       \/ c \in late /\ late' = late \ {c} /\ UNCHANGED th
    /\ Perform(c)
    /\ UNCHANGED <<graphVars, leg, iter, audit, faulted, consent>>

\* The tool returns, and _finish_audit records the result.
Return(c) ==
    /\ th[c] = "acted"
    /\ SetAudit(c, "completed")
    /\ Goto(c, "answered")
    /\ UNCHANGED <<graphVars, leg, iter, late, history>>

\* The tool raises, before or after it acted.
Fail(c) ==
    /\ InFlight(c)
    /\ SetAudit(c, "failed")
    /\ faulted' = faulted \cup {c}
    /\ Goto(c, "error")
    /\ UNCHANGED <<graphVars, leg, iter, late, performed, consent>>

\* Mutant: a call that timed out counts as failed, whatever its thread does.
TimeoutFails(c) ==
    /\ InFlight(c)
    /\ SetAudit(c, "failed") /\ faulted' = faulted \cup {c}
    /\ late' = IF th[c] = "called" THEN late \cup {c} ELSE late
    /\ Goto(c, "error")
    /\ UNCHANGED <<graphVars, leg, iter, performed, consent>>

\* The time limit of the call: a side-effecting one stays `running`, as nobody
\* knows whether it acted or will.
Timeout(c) ==
    /\ InFlight(c)
    /\ \/ c \in SideEffecting /\ UNCHANGED <<audit, faulted>>
       \/ c \notin SideEffecting /\ SetAudit(c, "failed") /\ faulted' = faulted \cup {c}
    /\ late' = IF th[c] = "called" THEN late \cup {c} ELSE late
    /\ Goto(c, "error")
    /\ UNCHANGED <<graphVars, leg, iter, performed, consent>>

------------------------------------------------------------------------------
CallNext(c) == StartCall(c) \/ Act(c) \/ Return(c) \/ Fail(c) \/ Timeout(c)

NodeNext == Agent \/ ToolError \/ AskHuman \/ FinishTools \/ End

Next ==
    \/ StartLeg \/ Die \/ Raise \/ OverBudget \/ NodeNext
    \/ \E v \in {"unset", "yes", "no"} : Answer(v)
    \/ \E c \in Calls : CallNext(c)

Spec == Init /\ [][Next]_vars

\* Nodes run, the limit is looked at, calls start, and a call that does not
\* return runs into its time limit.  Nobody is bound to answer or to take over.
Fairness ==
    /\ WF_vars(NodeNext) /\ WF_vars(OverBudget)
    /\ \A c \in Calls : WF_vars(StartCall(c)) /\ WF_vars(Timeout(c))

LiveSpec == Spec /\ Fairness

------------------------------------------------------------------------------
(* Properties *)

\* A tool that needs a confirmation acts only for calls the user was shown and
\* approved: an answer never covers calls of another message, whatever legs end,
\* fail or are taken over in between (docs/SESSION_TO_CONTENT_PIPELINE.md:87).
NothingUnconfirmed ==
    \A c \in Protected : performed[c] > 0 \/ th[c] = "called" \/ c \in late => c \in consent

\* A side-effecting call acts a second time only if a run of it was recorded as
\* failed: crashes, replays from the checkpoint and timeouts alone never repeat
\* it (docs/DESIGN.md:52).
RepeatedOnlyAfterFailure ==
    \A c \in SideEffecting : performed[c] > 1 => c \in faulted

\* A side-effecting call is not made while a thread of an earlier run of it, one
\* that timed out in this or another leg, may still act.
OneThread ==
    \A c \in SideEffecting : ~(c \in late /\ InFlight(c))

\* A leg ends: it completes, waits for the user, fails or is lost.
LegEnds == leg = "on" ~> leg # "on"
==============================================================================
