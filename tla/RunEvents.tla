------------------------------ MODULE RunEvents -------------------------------
(***************************************************************************)
(* The live events of one execution, from the worker to the web workbench  *)
(*   agent/runtime/events.py            PersistentAgentEventWriter         *)
(*   services/event_stream.py           the Redis stream                   *)
(*   services/conversation_service.py   replay_execution_events            *)
(*   api/chat.py                        the bridge to server-sent events   *)
(*   apps/web/src/stores/workbench.ts   the view that follows the run      *)
(*                                                                         *)
(* The row tells the truth about the run; the events only announce it.     *)
(* Each status is committed before its event is published, and an event    *)
(* may never be published at all.  The view learns from events while it    *)
(* has a connection, and otherwise asks for the status.                    *)
(*                                                                         *)
(* Events differ as far as the view tells them apart: "finish" stands for  *)
(* run_finish, run_cancel and run_error, "interrupt" asks the user, and    *)
(* one "progress" stands for what an attempt publishes before it ends with *)
(* one of these.  The sequence number of an event is its index in the log. *)
(***************************************************************************)
EXTENDS Naturals, Sequences

CONSTANTS MaxTries,  \* SSE_RECOVERY_MAX_ATTEMPTS
          MaxLength, \* settings.redis.event_max_length
          MaxSeq,    \* bound: events in the log, publishing another fails
          Mishaps    \* what may go wrong on the way to the view

ASSUME RunEventsAssumption ==
    /\ MaxTries \in Nat \ {0}
    /\ MaxLength \in Nat \ {0}
    /\ MaxSeq \in Nat \ {0}
    /\ Mishaps \subseteq {"query", "done", "cancel"}

VARIABLES
    status,    \* AgentExecution.status; "over" for the three terminal ones
    degraded,  \* AgentExecution.streaming_degraded
    first,     \* AgentExecution.first_event_at is set
    writer,    \* the worker's event writer
    log,       \* the stream; empty when its keys are gone
    lo,        \* the sequence of the earliest event that is not trimmed
    conn,      \* the server's side of the view's connection
    pipe,      \* what the view has not received from it
    view,      \* the workbench
    lost       \* history: something made the view stop following for good

rowVars == <<status, degraded, first>>
streamVars == <<log, lo>>
serverVars == <<conn, pipe>>
viewVars == <<view, lost>>
vars == <<rowVars, writer, streamVars, serverVars, viewVars>>

Events == {"progress", "interrupt", "finish"}
\* A degraded stream, a refused cursor, and the end of the response.
Signals == {"degraded", "invalid", "end"}
Active == {"queued", "running", "reconnecting"}

Writer(next, mute) == [next |-> next, mute |-> mute /\ next # "off"]
NoWriter == Writer("off", FALSE)
Conn(pc, cursor) == [pc |-> pc, cursor |-> cursor, over |-> FALSE, first |-> FALSE]
NoConn == Conn("none", 0)
Signal(k) == [kind |-> k, seq |-> 0]

Items == [kind : Events \cup Signals, seq : 0..MaxSeq]
Conns == [pc : {"none", "look", "read", "closed"}, cursor : 0..MaxSeq,
          over : BOOLEAN, first : BOOLEAN]
Views ==
    [life  : Active \cup {"waiting", "over", "cancelling"},  \* runLifecycle
     link  : {"none", "open", "done"},      \* eventSource, terminalEventReceived
     seen  : 0..MaxSeq,                     \* lastEventSequence
     timer : {"none", "recover", "poll"},   \* ssePollTimer
     tries : 0..MaxTries,                   \* sseRecoveryAttempts
     asks  : SUBSET {"terminal", "recover", "cancel"},  \* queries under way
     info  : BOOLEAN]                       \* executionInfo shows it active

TypeOK ==
    /\ status \in {"pending", "running", "waiting", "over"}
    /\ degraded \in BOOLEAN /\ first \in BOOLEAN
    /\ writer \in [next : {"off", "turn"} \cup Events, mute : BOOLEAN]
    /\ log \in Seq(Events) /\ Len(log) <= MaxSeq
    /\ lo \in 1..(MaxSeq + 1)
    /\ conn \in Conns
    /\ pipe \in Seq(Items)
    /\ view \in Views
    /\ lost \in BOOLEAN

Connect(c) == conn' = Conn("look", c) /\ pipe' = <<>>
Disconnect == conn' = NoConn /\ pipe' = <<>>

\* toRunLifecycle
Shown(s) == CASE s = "pending" -> "queued" [] OTHER -> s

\* The view has just submitted the turn and listens to its events.
Init ==
    /\ status = "pending" /\ degraded = FALSE /\ first = FALSE
    /\ writer = NoWriter
    /\ log = <<>> /\ lo = 1
    /\ conn = Conn("look", 0) /\ pipe = <<>>
    /\ view = [life |-> "queued", link |-> "open", seen |-> 0, timer |-> "none",
               tries |-> 0, asks |-> {}, info |-> FALSE]
    /\ lost = FALSE

------------------------------------------------------------------------------
(* The run and its event writer *)

\* The writer takes the degradation of the row when it is made.
Begin ==
    /\ status = "pending" /\ writer.next = "off"
    /\ status' = "running"
    /\ writer' = Writer("progress", degraded)
    /\ UNCHANGED <<degraded, first, streamVars, serverVars, viewVars>>

\* XADD; MAXLEN with "~" trims no more than it may, and possibly less.
Store(k) ==
    /\ log' = Append(log, k)
    /\ lo' \in {n \in lo..Len(log') : n = lo \/ n + MaxLength <= Len(log') + 1}

\* The event that is next, then `after`.  A failure silences the writer; noting
\* it in the row may fail as well, and so may noting the first event.
Publish(after) ==
    \/ /\ writer.mute
       /\ writer' = Writer(after, TRUE)
       /\ UNCHANGED <<degraded, first, streamVars>>
    \/ /\ ~writer.mute /\ Len(log) < MaxSeq
       /\ Store(writer.next)
       /\ first' \in {first, TRUE}
       /\ writer' = Writer(after, FALSE)
       /\ UNCHANGED degraded
    \/ /\ ~writer.mute
       /\ degraded' \in {degraded, TRUE}
       /\ writer' = Writer(after, TRUE)
       /\ UNCHANGED <<first, streamVars>>

\* What the attempt publishes while it runs.
Emit ==
    /\ writer.next = "progress"
    /\ Publish("turn")
    /\ UNCHANGED <<status, serverVars, viewVars>>

\* A status is committed, then its event is due.
Commit(s, k) ==
    /\ status = "running" /\ writer.next = "turn"
    /\ status' = s
    /\ writer' = [writer EXCEPT !.next = k]
    /\ UNCHANGED <<degraded, first, streamVars, serverVars, viewVars>>

Park == Commit("waiting", "interrupt")
Finish == Commit("over", "finish")

Announce ==
    /\ writer.next \in {"interrupt", "finish"}
    /\ Publish("off")
    /\ UNCHANGED <<status, serverVars, viewVars>>

WorkerDies ==
    /\ writer.next # "off"
    /\ writer' = NoWriter
    /\ UNCHANGED <<rowVars, streamVars, serverVars, viewVars>>

\* The watchdog puts a run without a worker back or fails it.
Recovered ==
    /\ status = "running" /\ writer.next = "off"
    /\ status' \in {"pending", "over"}
    /\ UNCHANGED <<degraded, first, writer, streamVars, serverVars, viewVars>>

\* Cancelled from elsewhere, refused by the claim, or not claimed in time.
EndIdle ==
    /\ status \in {"pending", "waiting"}
    /\ status' = "over"
    /\ UNCHANGED <<degraded, first, writer, streamVars, serverVars, viewVars>>

\* Nothing was published for event_ttl_seconds, and what was sent has long
\* arrived; numbers start from one again.
Expire ==
    /\ status \in {"waiting", "over"} /\ writer.next = "off"
    /\ log # <<>> /\ pipe = <<>>
    /\ log' = <<>> /\ lo' = 1
    /\ UNCHANGED <<rowVars, writer, serverVars, viewVars>>

------------------------------------------------------------------------------
(* The replay and its connection *)

Close(k) ==
    /\ pipe' = pipe \o <<Signal(k), Signal("end")>>
    /\ conn' = Conn("closed", 0)

\* Mutant: a replay is over with its outcome, not with the row.
LookForOutcome ==
    /\ conn.pc = "look"
    /\ IF degraded THEN Close("degraded")
       ELSE /\ conn' = [conn EXCEPT !.pc = "read", !.first = first,
                            !.over = \E n \in DOMAIN log : log[n] = "finish"]
            /\ UNCHANGED pipe
    /\ UNCHANGED <<rowVars, writer, streamVars, viewVars>>

\* The row as it is before the stream is read.
Look ==
    /\ conn.pc = "look"
    /\ IF degraded THEN Close("degraded")
       ELSE /\ conn' = [conn EXCEPT !.pc = "read", !.over = status = "over", !.first = first]
            /\ UNCHANGED pipe
    /\ UNCHANGED <<rowVars, writer, streamVars, viewVars>>

CursorRefused == log # <<>> /\ conn.cursor > Len(log)
ReplayGap == log # <<>> /\ lo > conn.cursor + 1
ReplayExpired == log = <<>> /\ conn.first

\* What the stream cannot give back degrades the run for good, and so does a
\* Redis that does not answer, which it may do at any time.
Unreadable ==
    /\ conn.pc = "read"
    /\ degraded' = TRUE
    /\ Close("degraded")
    /\ UNCHANGED <<status, first, writer, streamVars, viewVars>>

\* XREAD; nothing is trimmed between the check and it, or it would be missing.
Rows == [i \in 1..(IF conn.cursor > Len(log) THEN 0 ELSE Len(log) - conn.cursor) |->
            [kind |-> log[conn.cursor + i], seq |-> conn.cursor + i]]

\* The replay ends when the row was over before it read, else it looks again.
\* The last item of the bridge, which ends the response, is dropped when the
\* queue stays full, and nothing notices.
Read ==
    /\ conn.pc = "read" /\ ~ReplayGap /\ ~ReplayExpired
    /\ IF CursorRefused THEN Close("invalid") /\ UNCHANGED lost
       ELSE IF conn.over
       THEN /\ conn' = Conn("closed", 0)
            /\ \/ pipe' = pipe \o Rows \o <<Signal("end")>> /\ UNCHANGED lost
               \/ "done" \in Mishaps /\ pipe' = pipe \o Rows /\ lost' = TRUE
       ELSE /\ conn' = Conn("look", IF Rows = <<>> THEN conn.cursor ELSE Len(log))
            /\ pipe' = pipe \o Rows
            /\ UNCHANGED lost
    /\ UNCHANGED <<rowVars, writer, streamVars, view>>

------------------------------------------------------------------------------
(* What the view receives *)

\* _startRunStatusPolling
Polling(v) == [v EXCEPT !.life = "reconnecting", !.timer = "poll"]

\* Mutant: attempts are counted and not limited.
ScheduleForever(v) == [v EXCEPT !.timer = IF @ # "none" THEN @ ELSE "recover"]

\* Mutant: it gives up after the last attempt.
ScheduleOrGiveUp(v) ==
    [v EXCEPT !.timer = IF @ # "none" \/ v.tries >= MaxTries THEN @ ELSE "recover"]

\* _scheduleSseRecovery
Schedule(v) == [v EXCEPT !.timer = IF @ # "none" THEN @
                                   ELSE IF v.tries >= MaxTries THEN "poll" ELSE "recover"]

\* _stopSseRecoveryPoll
Stop(v) == [v EXCEPT !.timer = "none", !.tries = 0]

\* waitForInput, completeRun, cancelRun, failRun, up to the query of the session
Conclude(v, life) == IF v.link = "done" THEN v
                     ELSE [Stop(v) EXCEPT !.life = life, !.link = "done", !.asks = @ \cup {"terminal"}]

\* An open response brings the next item.
Receives(kinds) ==
    /\ view.link # "none" /\ pipe # <<>> /\ Head(pipe).kind \in kinds
    /\ pipe' = Tail(pipe)
    /\ UNCHANGED <<rowVars, writer, streamVars, conn>>

\* lastEventSequence follows every event that carries one.
Noted == LET s == Head(pipe).seq IN [view EXCEPT !.seen = IF s > @ THEN s ELSE @]

ReceiveProgress ==
    /\ Receives({"progress"})
    /\ view' = [Noted EXCEPT !.life = "running"]
    /\ UNCHANGED lost

\* The run went on after the interrupt that is received.
Stale ==
    \/ status \in {"pending", "running"}
    \/ \E i \in DOMAIN pipe : pipe[i].kind = "progress"
    \/ \E n \in DOMAIN log : n > Head(pipe).seq /\ log[n] = "progress"

\* The replay after an answer begins with the interrupt that was answered.
ReceiveInterrupt ==
    /\ Receives({"interrupt"})
    /\ view' = Conclude(Noted, "waiting")
    /\ lost' = (lost \/ (view.link = "open" /\ Stale))

\* A refused cursor is taken for a failure of the run.
ReceiveOutcome ==
    /\ Receives({"finish", "invalid"})
    /\ view' = Conclude(Noted, "over")
    /\ UNCHANGED lost

\* Mutant: a degraded stream is a failure like any other.
ReceiveDegradedAsFailure ==
    /\ Receives({"degraded"})
    /\ view' = Conclude(Noted, "over")
    /\ UNCHANGED lost

\* A degraded stream is not a failure: the connection is closed for polling.
ReceiveDegraded ==
    /\ view.link # "none" /\ pipe # <<>> /\ Head(pipe).kind = "degraded"
    /\ view' = Polling([view EXCEPT !.link = "none", !.timer = "none"])
    /\ Disconnect
    /\ UNCHANGED <<rowVars, writer, streamVars, lost>>

\* _recoverFromSseRunState is called unless an outcome was received before.
Unlink(v) == [v EXCEPT !.link = "none", !.asks = IF v.link = "done" THEN @ ELSE @ \cup {"recover"}]

ReceiveEnd ==
    /\ view.link # "none" /\ pipe # <<>> /\ Head(pipe).kind = "end"
    /\ view' = Unlink(view)
    /\ Disconnect
    /\ UNCHANGED <<rowVars, writer, streamVars, lost>>

\* The connection fails, or its bridge gives up on a full queue.
Break ==
    /\ view.link # "none"
    /\ view' = [Unlink(view) EXCEPT !.life = IF view.link = "done" THEN @ ELSE "reconnecting"]
    /\ Disconnect
    /\ UNCHANGED <<rowVars, writer, streamVars, lost>>

------------------------------------------------------------------------------
(* What the view asks for; each query is answered with the row as it is *)

behind == <<rowVars, writer, streamVars>>
Answered(v) == [v EXCEPT !.life = Shown(status), !.info = Shown(status) \in Active]
Asked(q) == [view EXCEPT !.asks = @ \ {q}]

\* refreshSession after an outcome, and the end of the connection.
AnswerTerminal ==
    /\ "terminal" \in view.asks
    /\ view' = [Answered(Asked("terminal")) EXCEPT !.link = "none"]
    /\ Disconnect
    /\ UNCHANGED <<behind, lost>>

\* It fails: nothing closes the connection, and nobody asks again.
LoseTerminal ==
    /\ "query" \in Mishaps /\ "terminal" \in view.asks
    /\ view' = Asked("terminal")
    /\ UNCHANGED <<behind, serverVars, lost>>

\* _recoverFromSseRunState
AnswerRecover ==
    /\ "recover" \in view.asks
    /\ LET v == Answered(Asked("recover"))
       IN  view' = IF v.life \notin Active THEN Stop(v)
                   ELSE IF degraded THEN Polling([v EXCEPT !.timer = "none"])
                   ELSE [Schedule(v) EXCEPT !.life = "reconnecting"]
    /\ UNCHANGED <<behind, serverVars, lost>>

\* It fails: the view goes by what it knew before, and gives up if it knew
\* nothing of this run, with or without the session.
LoseRecover ==
    /\ "query" \in Mishaps /\ "recover" \in view.asks
    /\ LET v == Asked("recover")
       IN  \/ /\ view.info
              /\ view' = [Schedule(v) EXCEPT !.life = "reconnecting"]
              /\ UNCHANGED lost
           \/ /\ ~view.info
              /\ view' \in {Stop(v), [Stop(v) EXCEPT !.life = "over"], Answered(Stop(v))}
              /\ lost' = TRUE
    /\ UNCHANGED <<behind, serverVars>>

\* The timer of _scheduleSseRecovery: listen again, after the last event seen.  The
\* poll's query and what follows from its answer are one step here.
Reconnect(v) ==
    /\ view' = [v EXCEPT !.link = "open", !.timer = "none", !.tries = @ + 1]
    /\ Connect(view.seen)

RecoverTimer ==
    /\ view.timer = "recover"
    /\ LET v == Answered(view)
       IN  IF v.life \notin Active
           THEN view' = [v EXCEPT !.timer = "none"] /\ UNCHANGED serverVars
           ELSE IF degraded THEN view' = Polling(v) /\ UNCHANGED serverVars
           ELSE Reconnect(v)
    /\ UNCHANGED <<behind, lost>>

RecoverBlind ==
    /\ "query" \in Mishaps /\ view.timer = "recover"
    /\ IF view.life \in Active THEN Reconnect(view)
       ELSE view' = [view EXCEPT !.timer = "none"] /\ UNCHANGED serverVars
    /\ UNCHANGED <<behind, lost>>

\* The timer of _startRunStatusPolling; a query that fails is repeated.
PollTimer ==
    /\ view.timer = "poll"
    /\ LET v == Answered(view)
       IN  view' = IF v.life \notin Active THEN [v EXCEPT !.timer = "none"]
                   ELSE IF degraded THEN [v EXCEPT !.life = "reconnecting"] ELSE v
    /\ UNCHANGED <<behind, serverVars, lost>>

------------------------------------------------------------------------------
(* What the user does *)

\* Mutant: the replay goes on after the last event seen.
ResumeFromSeen ==
    /\ view.life = "waiting" /\ "terminal" \notin view.asks
    /\ IF status = "waiting"
       THEN /\ status' = "pending"
            /\ view' = [view EXCEPT !.life = "queued", !.link = "open",
                                    !.timer = "none", !.info = TRUE]
            /\ Connect(view.seen)
       ELSE /\ view' = Answered(view)
            /\ UNCHANGED <<status, serverVars>>
    /\ UNCHANGED <<degraded, first, writer, streamVars, lost>>

\* The answer to an interrupt: the replay starts from nought.  A run that does
\* not wait refuses, and the view asks how it stands.
Resume ==
    /\ view.life = "waiting" /\ "terminal" \notin view.asks
    /\ IF status = "waiting"
       THEN /\ status' = "pending"
            /\ view' = [view EXCEPT !.life = "queued", !.link = "open", !.seen = 0,
                                    !.timer = "none", !.info = TRUE]
            /\ Connect(0)
       ELSE /\ view' = Answered(view)
            /\ UNCHANGED <<status, serverVars>>
    /\ UNCHANGED <<degraded, first, writer, streamVars, lost>>

\* cancelActiveRun closes the connection; a run under way is only asked to stop.
Cancel ==
    /\ view.life \in Active
    /\ view' = [Stop(view) EXCEPT !.life = "cancelling", !.link = "none", !.asks = @ \cup {"cancel"}]
    /\ Disconnect
    /\ status' = IF status = "running" THEN status ELSE "over"
    /\ UNCHANGED <<degraded, first, writer, streamVars, lost>>

\* It asks twenty times whether the run has stopped, then no more.
AnswerCancel ==
    /\ "cancel" \in view.asks
    /\ LET v == Asked("cancel")
       IN  \/ /\ Shown(status) \notin Active
              /\ view' = Answered(v)
              /\ UNCHANGED lost
           \/ /\ "cancel" \in Mishaps /\ Shown(status) \in Active
              /\ view' = [v EXCEPT !.info = TRUE]
              /\ lost' = TRUE
           \/ /\ "query" \in Mishaps
              /\ view' = [v EXCEPT !.life = "running"]
              /\ lost' = TRUE
    /\ UNCHANGED <<behind, serverVars>>

\* loadSession, when the page is opened again.
Reload ==
    /\ view' = [life |-> Shown(status), link |-> "none", seen |-> 0, tries |-> 0,
                timer |-> IF Shown(status) \in Active THEN "recover" ELSE "none",
                asks |-> {}, info |-> Shown(status) \in Active]
    /\ lost' = FALSE
    /\ Disconnect
    /\ UNCHANGED behind

------------------------------------------------------------------------------
Worker == Begin \/ Emit \/ Park \/ Finish \/ Announce \/ WorkerDies
Environment == Recovered \/ EndIdle \/ Expire
Replay == Look \/ Unreadable \/ Read
Receive == ReceiveProgress \/ ReceiveInterrupt \/ ReceiveOutcome \/ ReceiveDegraded \/ ReceiveEnd
Ask == AnswerTerminal \/ LoseTerminal \/ AnswerRecover \/ LoseRecover \/ RecoverTimer
          \/ RecoverBlind \/ PollTimer \/ AnswerCancel
User == Resume \/ Cancel \/ Reload

Next == Worker \/ Environment \/ Replay \/ Receive \/ Break \/ Ask \/ User

Spec == Init /\ [][Next]_vars

\* As long as a thread of the server, what it sent, a query or a timer can go on,
\* one of them does, and the queries after a cancellation come to an end.
\* Nothing is assumed of workers and users.
LiveSpec == Spec /\ WF_vars(Replay \/ Receive \/ Ask) /\ WF_vars(AnswerCancel)

------------------------------------------------------------------------------
(* Properties *)

\* workbench.ts listen, _recoverFromSseRunState: while the view shows the run
\* under way there is something that will tell it more: a connection, a query,
\* or a timer.
Follows ==
    view.life \in Active \cup {"cancelling"}
        => view.link = "open" \/ view.asks # {} \/ view.timer # "none"

\* The view follows, unless an old interrupt, a lost query, a dropped end of response or
\* a cancellation that takes long made the view stop.
FollowsUnlessLost == ~lost => Follows

\* docs/SESSION_TO_CONTENT_PIPELINE.md:128: a degraded or expired stream is not
\* taken for a failure.  Unless one of these four things happened, what the view
\* shows as concluded is concluded, however events were trimmed, repeated or refused.
ShowsTruth ==
    ~lost => /\ (view.life = "over" => status = "over")
             /\ (view.life = "waiting" => status \in {"waiting", "over"})

\* event_stream.py validate_cursor: no view asks for events after those the
\* stream has, though their numbers start again when the stream expires.
CursorKnown == ~(conn.pc = "read" /\ CursorRefused)

\* conversation_service.py replay_execution_events, workbench.ts: a run that is
\* over is shown so in the end, even if its last event was never published; or as
\* waiting, if it ended while it waited, until the user answers and is refused.
LearnsOver == status = "over" ~> view.life \in {"over", "waiting"} \/ lost
==============================================================================
