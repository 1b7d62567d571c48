--------------------------- MODULE RunEventsProofs ----------------------------
(***************************************************************************)
(* What holds of RunEvents for any limits and mishaps:                     *)
(*   - no view asks for events after those the stream has (CursorKnown):   *)
(*     the sequence numbers it, its connection and what is on the way have *)
(*     are within the stream, or the stream is gone and nobody is about to *)
(*     start another before the view forgets what it has seen (IInv),      *)
(*   - a view follows its run unless it is lost (FollowsUnlessLost), and   *)
(*     shows as concluded what is (ShowsTruth): what the stream has, and   *)
(*     what is on the way, fits the row (SInv), and so does what the view  *)
(*     made of it (VInv).                                                  *)
(***************************************************************************)
EXTENDS RunEvents, TLAPS

ItemsTo(n) == [kind : Events \cup Signals, seq : 0..n]

\* A view that has seen no more than n events.
Sound(v, n) ==
    /\ v \in Views /\ v.seen <= n
    /\ v.timer = "recover" => v.tries < MaxTries

Served(n) == conn \in Conns /\ conn.cursor <= n /\ pipe \in Seq(ItemsTo(n))

Within(n) == Sound(view, n) /\ Served(n)

\* The rest of the type invariant.
RunOK ==
    /\ status \in {"pending", "running", "waiting", "over"}
    /\ degraded \in BOOLEAN /\ first \in BOOLEAN
    /\ writer \in [next : {"off", "turn"} \cup Events, mute : BOOLEAN]
    /\ log \in Seq(Events) /\ Len(log) <= MaxSeq
    /\ lo \in 1..(MaxSeq + 1)
    /\ lost \in BOOLEAN

Dormant == log = <<>> /\ status \in {"waiting", "over"} /\ writer.next = "off"

IInv == RunOK /\ Within(MaxSeq) /\ (Within(Len(log)) \/ Dormant)

\* A later bound holds as well.
LEMMA WithinMore ==
    ASSUME NEW n \in Nat, NEW m \in Nat, n <= m, Within(n)
    PROVE  Within(m)
<1>1. ItemsTo(n) \subseteq ItemsTo(m)
    BY DEF ItemsTo
<1>2. Seq(ItemsTo(n)) \subseteq Seq(ItemsTo(m))
    BY <1>1
<1>3. QED
    BY <1>2, RunEventsAssumption DEF Within, Sound, Served, Views, Conns

\* What the handlers do to a view.
LEMMA ViewSteps ==
    ASSUME NEW n \in Nat, NEW v, Sound(v, n)
    PROVE  /\ Sound(Schedule(v), n)
           /\ Sound(Stop(v), n)
           /\ Sound(Polling(v), n)
           /\ Sound(Unlink(v), n)
           /\ \A s \in Active \cup {"waiting", "over", "cancelling"} :
                 Sound([v EXCEPT !.life = s], n) /\ Sound(Conclude(v, s), n)
           /\ Sound([Schedule(v) EXCEPT !.life = "reconnecting"], n)
           /\ Sound([Stop(v) EXCEPT !.life = "over"], n)
           /\ Sound(Polling([v EXCEPT !.timer = "none"]), n)
           /\ \A k \in {"none", "poll"} : Sound([v EXCEPT !.timer = k], n)
           /\ \A k \in {"none", "open"} : Sound([v EXCEPT !.link = k], n)
           /\ \A b \in BOOLEAN : Sound([v EXCEPT !.info = b], n)
           /\ \A q : Sound([v EXCEPT !.asks = @ \ {q}], n)
<1> USE RunEventsAssumption DEF Sound, Views
<1>1. Sound(Schedule(v), n)
    BY DEF Schedule
<1>2. Sound(Stop(v), n)
    <2>1. Stop(v).timer = "none" /\ Stop(v).seen = v.seen
        BY DEF Stop
    <2>2. 0 \in 0..MaxTries
        OBVIOUS
    <2>3. Stop(v) \in Views
        BY <2>2 DEF Stop
    <2>4. QED
        BY <2>1, <2>3
<1>3. Sound(Polling(v), n)
    BY DEF Polling, Active
<1>4. Sound(Unlink(v), n)
    BY DEF Unlink
<1>5. ASSUME NEW s \in Active \cup {"waiting", "over", "cancelling"}
      PROVE  Sound([v EXCEPT !.life = s], n) /\ Sound(Conclude(v, s), n)
    <2>1. Sound([v EXCEPT !.life = s], n)
        BY <1>5 DEF Active
    <2> DEFINE u == Stop(v)
    <2>2. ASSUME v.link # "done"
          PROVE  Sound([u EXCEPT !.life = s, !.link = "done", !.asks = @ \cup {"terminal"}], n)
        <3> HIDE DEF u
        <3>1. Sound(u, n)
            BY <1>2 DEF u
        <3>2. QED
            BY <3>1, <1>5 DEF Active
    <2>3. QED
        BY <2>1, <2>2 DEF Conclude
<1>6. \A k \in {"none", "poll"} : Sound([v EXCEPT !.timer = k], n)
    OBVIOUS
<1>7. \A k \in {"none", "open"} : Sound([v EXCEPT !.link = k], n)
    OBVIOUS
<1>8. \A b \in BOOLEAN : Sound([v EXCEPT !.info = b], n)
    OBVIOUS
<1>9. \A q : Sound([v EXCEPT !.asks = @ \ {q}], n)
    OBVIOUS
<1>10. Sound([Schedule(v) EXCEPT !.life = "reconnecting"], n)
    <2> DEFINE u == Schedule(v)
    <2> HIDE DEF u
    <2>1. Sound(u, n)
        BY <1>1 DEF u
    <2>2. Sound([u EXCEPT !.life = "reconnecting"], n)
        BY <2>1 DEF Active
    <2>3. QED
        BY <2>2 DEF u
<1>11. Sound([Stop(v) EXCEPT !.life = "over"], n)
    <2> DEFINE u == Stop(v)
    <2> HIDE DEF u
    <2>1. Sound(u, n)
        BY <1>2 DEF u
    <2>2. Sound([u EXCEPT !.life = "over"], n)
        BY <2>1
    <2>3. QED
        BY <2>2 DEF u
<1>12. Sound(Polling([v EXCEPT !.timer = "none"]), n)
    BY DEF Polling, Active
<1>13. QED
    BY <1>1, <1>2, <1>3, <1>4, <1>5, <1>6, <1>7, <1>8, <1>9, <1>10, <1>11, <1>12

\* A row of the stream or a signal is sent within the bound.
LEMMA ReplayServed ==
    ASSUME NEW n \in Nat, n <= MaxSeq, RunOK, Len(log) <= n, Served(n), Replay
    PROVE  Served(n)' /\ RunOK' /\ UNCHANGED <<status, writer, log, view>>
<1> USE RunEventsAssumption DEF Served, Conns, vars, streamVars, viewVars
<1>1. \A k \in Signals : Signal(k) \in ItemsTo(n)
    BY DEF Signal, ItemsTo
<1>2. \A k \in Signals : <<Signal(k), Signal("end")>> \in Seq(ItemsTo(n)) /\ <<Signal("end")>> \in Seq(ItemsTo(n))
    BY <1>1 DEF Signals
<1>3. Rows \in Seq(ItemsTo(n))
    <2> DEFINE k == IF conn.cursor > Len(log) THEN 0 ELSE Len(log) - conn.cursor
    <2>1. k \in Nat
        BY DEF RunOK
    <2>2. \A i \in 1..k : conn.cursor + i \in 1..Len(log)
        BY DEF RunOK
    <2>3. \A i \in 1..k : [kind |-> log[conn.cursor + i], seq |-> conn.cursor + i] \in ItemsTo(n)
        BY <2>2 DEF RunOK, ItemsTo
    <2>4. QED
        BY SMTT(20), <2>1, <2>3 DEF Rows
<1>4. ASSUME NEW k \in Signals, Close(k)
      PROVE  Served(n)'
    BY <1>2, <1>4 DEF Close, Conn
<1>5. CASE Look
    BY ZenonT(30), <1>4, <1>5 DEF Look, RunOK, rowVars, Signals
<1>6. CASE Unreadable
    BY <1>4, <1>6 DEF Unreadable, RunOK, Signals
<1>7. CASE Read
    <2>1. RunOK' /\ UNCHANGED <<status, writer, log, view>>
        BY <1>7 DEF Read, RunOK, rowVars
    <2>2. CASE CursorRefused
        BY <1>4, <1>7, <2>1, <2>2 DEF Read, Signals
    <2>3. CASE ~CursorRefused /\ conn.over
        <3>1. conn' = Conn("closed", 0)
            BY <1>7, <2>3 DEF Read
        <3>2. pipe' = pipe \o Rows \o <<Signal("end")>> \/ pipe' = pipe \o Rows
            BY <1>7, <2>3 DEF Read
        <3>3. pipe' \in Seq(ItemsTo(n))
            <4>1. pipe \o Rows \in Seq(ItemsTo(n))
                BY <1>3
            <4>2. pipe \o Rows \o <<Signal("end")>> \in Seq(ItemsTo(n))
                BY <1>2, <4>1 DEF Signals
            <4>3. CASE pipe' = pipe \o Rows
                BY <4>1, <4>3
            <4>4. CASE pipe' = pipe \o Rows \o <<Signal("end")>>
                BY <4>2, <4>4
            <4>5. QED
                BY <3>2, <4>3, <4>4
        <3>4. QED
            BY <2>1, <3>1, <3>3 DEF Conn
    <2>4. CASE ~CursorRefused /\ ~conn.over
        <3>1. conn' = Conn("look", IF Rows = <<>> THEN conn.cursor ELSE Len(log)) /\ pipe' = pipe \o Rows
            BY <1>7, <2>4 DEF Read
        <3>2. QED
            BY <1>3, <2>1, <3>1 DEF Conn, RunOK
    <2>5. QED
        BY <2>1, <2>2, <2>3, <2>4
<1>8. QED
    BY <1>5, <1>6, <1>7 DEF Replay

\* A new connection, or none, has sent nothing.
LEMMA EmptyServed ==
    ASSUME NEW n \in Nat, NEW c \in 0..MaxSeq, c <= n, Disconnect \/ Connect(c)
    PROVE  Served(n)'
<1>1. <<>> \in Seq(ItemsTo(n))
    OBVIOUS
<1>2. Conn("none", 0) \in Conns /\ Conn("look", c) \in Conns
    BY RunEventsAssumption DEF Conn, Conns
<1>3. Conn("none", 0).cursor = 0 /\ Conn("look", c).cursor = c
    BY DEF Conn
<1>4. QED
    <2>1. conn' \in Conns /\ conn'.cursor <= n /\ pipe' = <<>>
        BY <1>2, <1>3 DEF Connect, Disconnect, NoConn
    <2>2. QED
        BY <1>1, <2>1 DEF Served, Conns

\* What arrives leaves the view within the bound.
LEMMA ReceiveWithin ==
    ASSUME NEW n \in Nat, n <= MaxSeq, RunOK, Len(log) <= n, Within(n), Receive \/ Break
    PROVE  Within(n)' /\ RunOK' /\ UNCHANGED <<status, writer, log>>
<1> USE DEF Within, rowVars, streamVars
<1>1. Sound(view, n)
    OBVIOUS
<1>2. ASSUME pipe # <<>>
      PROVE  Head(pipe).seq \in 0..n /\ Tail(pipe) \in Seq(ItemsTo(n))
    <2>1. Head(pipe) \in ItemsTo(n) /\ Tail(pipe) \in Seq(ItemsTo(n))
        BY <1>2 DEF Served
    <2>2. QED
        BY <2>1 DEF ItemsTo
<1>3. ASSUME pipe # <<>>
      PROVE  Sound(Noted, n)
    BY SMTT(20), <1>1, <1>2, <1>3, RunEventsAssumption DEF Noted, Sound, Views
<1>4. ASSUME NEW K, Receives(K), lost' \in BOOLEAN
      PROVE  Served(n)' /\ RunOK' /\ UNCHANGED <<status, writer, log>>
    BY <1>2, <1>4 DEF Receives, Served, RunOK
<1>5. ASSUME Disconnect
      PROVE  Served(n)'
    BY <1>5, EmptyServed
<1>6. CASE ReceiveProgress
    <2>1. pipe # <<>> /\ lost' \in BOOLEAN /\ Receives({"progress"})
        BY <1>6 DEF ReceiveProgress, Receives, RunOK
    <2>2. view' = [Noted EXCEPT !.life = "running"]
        BY <1>6 DEF ReceiveProgress
    <2>3. QED
        BY <1>3, <1>4, <2>1, <2>2, ViewSteps DEF Active
<1>7. CASE ReceiveInterrupt
    <2>1. pipe # <<>> /\ Receives({"interrupt"})
        BY <1>7 DEF ReceiveInterrupt, Receives
    <2>2. lost' \in BOOLEAN /\ view' = Conclude(Noted, "waiting")
        BY <1>7 DEF ReceiveInterrupt, RunOK
    <2>3. QED
        BY <1>3, <1>4, <2>1, <2>2, ViewSteps
<1>8. CASE ReceiveOutcome
    <2>1. pipe # <<>> /\ Receives({"finish", "invalid"})
        BY <1>8 DEF ReceiveOutcome, Receives
    <2>2. lost' \in BOOLEAN /\ view' = Conclude(Noted, "over")
        BY <1>8 DEF ReceiveOutcome, RunOK
    <2>3. QED
        BY <1>3, <1>4, <2>1, <2>2, ViewSteps
<1>9. CASE ReceiveDegraded
    <2>1. Sound([view EXCEPT !.link = "none", !.timer = "none"], n)
        BY <1>1 DEF Sound, Views
    <2>2. view' = Polling([view EXCEPT !.link = "none", !.timer = "none"])
        BY <1>9 DEF ReceiveDegraded
    <2>3. QED
        BY <1>5, <1>9, <2>1, <2>2, ViewSteps DEF ReceiveDegraded, RunOK
<1>10. CASE ReceiveEnd
    BY <1>1, <1>5, <1>10, ViewSteps DEF ReceiveEnd, RunOK
<1>11. CASE Break
    <2>1. Sound(Unlink(view), n)
        BY <1>1, ViewSteps
    <2>2. Unlink(view).life = view.life /\ view.life \in Active \cup {"waiting", "over", "cancelling"}
        BY <1>1 DEF Unlink, Sound, Views
    <2>3. view' = [Unlink(view) EXCEPT !.life = IF view.link = "done" THEN @ ELSE "reconnecting"]
        BY <1>11 DEF Break
    <2>4. Sound(view', n)
        BY <2>1, <2>2, <2>3, ViewSteps DEF Active
    <2>5. QED
        BY <1>5, <1>11, <2>4 DEF Break, RunOK
<1>12. QED
    BY <1>6, <1>7, <1>8, <1>9, <1>10, <1>11 DEF Receive

\* What the row says, shown in the view.
LEMMA AnsweredSound ==
    ASSUME NEW n \in Nat, NEW v, Sound(v, n), RunOK
    PROVE  Sound(Answered(v), n) /\ Answered(v).timer = v.timer /\ Answered(v).seen = v.seen
<1>1. Shown(status) \in Active \cup {"waiting", "over"}
    BY DEF Shown, Active, RunOK
<1> DEFINE b == Shown(status) \in Active
<1>2. b \in BOOLEAN
    OBVIOUS
<1>3. Answered(v) = [v EXCEPT !.life = Shown(status), !.info = b]
    BY DEF Answered
<1> HIDE DEF b
<1>4. QED
    BY <1>1, <1>2, <1>3 DEF Sound, Views, Active

\* An answer, a timer, or the lack of an answer leaves the view within the bound.
LEMMA AskWithin ==
    ASSUME NEW n \in Nat, n <= MaxSeq, RunOK, Within(n), Ask
    PROVE  Within(n)' /\ RunOK' /\ UNCHANGED <<status, writer, log>>
<1> USE DEF Within, behind, rowVars, streamVars, serverVars
<1>1. Sound(view, n) /\ \A q : Sound(Asked(q), n)
    BY ViewSteps DEF Asked
<1>2. ASSUME UNCHANGED <<behind, lost>> \/ (UNCHANGED behind /\ lost' = TRUE)
      PROVE  RunOK' /\ UNCHANGED <<status, writer, log>>
    BY <1>2 DEF RunOK
<1>3. ASSUME UNCHANGED serverVars
      PROVE  Served(n)'
    BY <1>3 DEF Served
<1>4. ASSUME Disconnect
      PROVE  Served(n)'
    BY <1>4, EmptyServed, RunEventsAssumption
<1>5. ASSUME NEW v, Sound(v, n), v.timer = "recover", v.seen = view.seen, Reconnect(v)
      PROVE  Sound(view, n)' /\ Served(n)'
    <2>1. view.seen \in 0..MaxSeq /\ view.seen <= n
        BY <1>1 DEF Sound, Views
    <2>2. view' = [v EXCEPT !.link = "open", !.timer = "none", !.tries = @ + 1]
        BY <1>5 DEF Reconnect
    <2>3. v.tries + 1 \in 0..MaxTries
        BY <1>5, RunEventsAssumption DEF Sound, Views
    <2>4. Sound(view, n)'
        BY <1>5, <2>2, <2>3 DEF Sound, Views
    <2>5. QED
        BY <1>5, <2>1, <2>4, EmptyServed DEF Reconnect
<1>6. CASE AnswerTerminal
    BY <1>1, <1>2, <1>4, <1>6, AnsweredSound, ViewSteps DEF AnswerTerminal
<1>7. CASE LoseTerminal
    BY <1>1, <1>2, <1>3, <1>7 DEF LoseTerminal
<1>8. CASE AnswerRecover
    <2> DEFINE v == Answered(Asked("recover"))
    <2>1. Sound(v, n)
        BY <1>1, AnsweredSound
    <2>2. \/ view' = Stop(v)
          \/ view' = Polling([v EXCEPT !.timer = "none"])
          \/ view' = [Schedule(v) EXCEPT !.life = "reconnecting"]
        BY <1>8 DEF AnswerRecover
    <2> HIDE DEF v
    <2>3. Sound(view, n)'
        BY <2>1, <2>2, ViewSteps DEF Active
    <2>4. QED
        BY <1>2, <1>3, <1>8, <2>3 DEF AnswerRecover
<1>9. CASE LoseRecover
    <2> DEFINE v == Asked("recover")
    <2>1. Sound(v, n)
        BY <1>1
    <2>2. \/ view' = [Schedule(v) EXCEPT !.life = "reconnecting"]
          \/ view' = Stop(v) \/ view' = [Stop(v) EXCEPT !.life = "over"]
          \/ view' = Answered(Stop(v))
        BY <1>9 DEF LoseRecover
    <2>3. lost' = lost \/ lost' = TRUE
        BY <1>9 DEF LoseRecover
    <2> HIDE DEF v
    <2>4. Sound(view, n)'
        BY ZenonT(30), <2>1, <2>2, ViewSteps, AnsweredSound DEF Active
    <2>5. QED
        BY <1>2, <1>3, <1>9, <2>3, <2>4 DEF LoseRecover
<1>10. CASE RecoverTimer
    <2> DEFINE v == Answered(view)
    <2>1. Sound(v, n) /\ v.timer = "recover" /\ v.seen = view.seen
        BY <1>1, <1>10, AnsweredSound DEF RecoverTimer
    <2>2. \/ view' = [v EXCEPT !.timer = "none"] /\ UNCHANGED serverVars
          \/ view' = Polling(v) /\ UNCHANGED serverVars
          \/ Reconnect(v)
        BY <1>10 DEF RecoverTimer
    <2> HIDE DEF v
    <2>3. Sound(view, n)' /\ Served(n)'
        BY <1>3, <1>5, <2>1, <2>2, ViewSteps
    <2>4. QED
        BY <1>2, <1>10, <2>3 DEF RecoverTimer
<1>11. CASE RecoverBlind
    <2>1. \/ view' = [view EXCEPT !.timer = "none"] /\ UNCHANGED serverVars
          \/ Reconnect(view)
        BY <1>11 DEF RecoverBlind
    <2>2. Sound(view, n)' /\ Served(n)'
        BY <1>1, <1>3, <1>5, <1>11, <2>1, ViewSteps DEF RecoverBlind
    <2>3. QED
        BY <1>2, <1>11, <2>2 DEF RecoverBlind
<1>12. CASE PollTimer
    <2> DEFINE v == Answered(view)
    <2>1. Sound(v, n)
        BY <1>1, AnsweredSound
    <2>2. \/ view' = [v EXCEPT !.timer = "none"]
          \/ view' = [v EXCEPT !.life = "reconnecting"] \/ view' = v
        BY <1>12 DEF PollTimer
    <2> HIDE DEF v
    <2>3. "reconnecting" \in Active \cup {"waiting", "over", "cancelling"}
        BY DEF Active
    <2>4. Sound([v EXCEPT !.life = "reconnecting"], n) /\ Sound([v EXCEPT !.timer = "none"], n)
        BY <2>1, <2>3, ViewSteps
    <2>5. Sound(view, n)'
        BY <2>1, <2>2, <2>4
    <2>6. QED
        BY <1>2, <1>3, <1>12, <2>5 DEF PollTimer
<1>13. CASE AnswerCancel
    <2> DEFINE v == Asked("cancel")
    <2>1. Sound(v, n)
        BY <1>1
    <2>2. \/ view' = Answered(v) \/ view' = [v EXCEPT !.info = TRUE]
          \/ view' = [v EXCEPT !.life = "running"]
        BY <1>13 DEF AnswerCancel
    <2>3. lost' = lost \/ lost' = TRUE
        BY <1>13 DEF AnswerCancel
    <2> HIDE DEF v
    <2>4. "running" \in Active \cup {"waiting", "over", "cancelling"}
        BY DEF Active
    <2>5. Sound([v EXCEPT !.life = "running"], n) /\ Sound([v EXCEPT !.info = TRUE], n)
        BY <2>1, <2>4, ViewSteps
    <2>6. Sound(view, n)'
        BY <2>1, <2>2, <2>5, AnsweredSound
    <2>7. QED
        BY <1>2, <1>3, <1>13, <2>3, <2>6 DEF AnswerCancel
<1>14. QED
    BY <1>6, <1>7, <1>8, <1>9, <1>10, <1>11, <1>12, <1>13 DEF Ask

\* The user forgets what was seen, or keeps it; only an answer starts the run again.
LEMMA UserWithin ==
    ASSUME NEW n \in Nat, n <= MaxSeq, RunOK, Within(n), User
    PROVE  /\ Within(n)' /\ RunOK' /\ UNCHANGED <<writer, log>>
           /\ \/ status' = status \/ status' = "over"
              \/ status = "waiting" /\ view'.seen = 0 /\ conn'.cursor = 0 /\ pipe' = <<>>
<1> USE DEF Within, behind, rowVars, streamVars, serverVars
<1>1. Sound(view, n)
    OBVIOUS
<1>2. Disconnect \/ Connect(0) => Served(n)'
    BY EmptyServed, RunEventsAssumption
<1>3. CASE Resume
    <2>1. CASE status = "waiting"
        <3>1. view' = [view EXCEPT !.life = "queued", !.link = "open", !.seen = 0,
                                   !.timer = "none", !.info = TRUE]
              /\ Connect(0) /\ status' = "pending"
            BY <1>3, <2>1 DEF Resume
        <3>2. Sound(view, n)' /\ view'.seen = 0
            <4>1. view'.seen = 0 /\ view'.timer = "none"
                BY <1>1, <3>1 DEF Sound, Views
            <4>2. 0 \in 0..MaxSeq /\ "queued" \in Active
                BY RunEventsAssumption DEF Active
            <4>3. view' \in Views
                BY <1>1, <3>1, <4>2 DEF Sound, Views
            <4>4. QED
                BY <4>1, <4>3 DEF Sound
        <3>3. conn'.cursor = 0 /\ pipe' = <<>>
            BY <3>1 DEF Connect, Conn
        <3>4. QED
            BY <1>2, <1>3, <2>1, <3>1, <3>2, <3>3 DEF Resume, RunOK
    <2>2. CASE status # "waiting"
        <3>1. view' = Answered(view) /\ UNCHANGED <<status, serverVars>>
            BY <1>3, <2>2 DEF Resume
        <3>2. QED
            BY <1>1, <1>3, <3>1, AnsweredSound DEF Resume, RunOK, Served
    <2>3. QED
        BY <2>1, <2>2
<1>4. CASE Cancel
    <2>1. Sound(Stop(view), n)
        BY <1>1, ViewSteps
    <2> DEFINE v == Stop(view)
    <2>2. view' = [v EXCEPT !.life = "cancelling", !.link = "none", !.asks = @ \cup {"cancel"}]
        BY <1>4 DEF Cancel
    <2>3. Sound(v, n)
        BY <2>1
    <2> HIDE DEF v
    <2>4. Sound(view, n)'
        BY <2>2, <2>3 DEF Sound, Views
    <2>5. QED
        BY <1>2, <1>4, <2>4 DEF Cancel, RunOK
<1>5. CASE Reload
    <2>1. Shown(status) \in Active \cup {"waiting", "over"}
        BY DEF Shown, Active, RunOK
    <2> DEFINE b == Shown(status) \in Active
    <2>2. b \in BOOLEAN
        OBVIOUS
    <2>3. \E k \in {"recover", "none"} :
             view' = [life |-> Shown(status), link |-> "none", seen |-> 0, tries |-> 0,
                      timer |-> k, asks |-> {}, info |-> b]
        BY <1>5 DEF Reload
    <2> HIDE DEF b
    <2>4. Sound(view, n)'
        BY <2>1, <2>2, <2>3, RunEventsAssumption DEF Sound, Views
    <2>5. QED
        BY <1>2, <1>5, <2>4 DEF Reload, RunOK
<1>6. QED
    BY <1>3, <1>4, <1>5 DEF User

\* Every step of server, view and user keeps the bound and leaves the stream alone.
LEMMA ViewStep ==
    ASSUME NEW n \in Nat, n <= MaxSeq, RunOK, Len(log) <= n, Within(n),
           Replay \/ Receive \/ Break \/ Ask \/ User
    PROVE  /\ Within(n)' /\ RunOK' /\ UNCHANGED <<writer, log>>
           /\ \/ status' \in {status, "over"}
              \/ view'.seen = 0 /\ conn'.cursor = 0 /\ pipe' = <<>>
<1>1. CASE Replay
    BY <1>1, ReplayServed DEF Within, Sound
<1>2. CASE Receive \/ Break
    BY <1>2, ReceiveWithin
<1>3. CASE Ask
    BY <1>3, AskWithin
<1>4. CASE User
    BY <1>4, UserWithin
<1>5. QED
    BY <1>1, <1>2, <1>3, <1>4

\* The run adds to the stream, or the stream goes while the run rests.
LEMMA RunSteps ==
    ASSUME RunOK, Worker \/ Environment
    PROVE  /\ RunOK' /\ UNCHANGED <<conn, pipe, view>>
           /\ Len(log') >= Len(log) \/ Dormant'
           /\ Dormant => Dormant'
<1> USE RunEventsAssumption DEF RunOK, rowVars, streamVars, serverVars, viewVars
<1>1. ASSUME NEW k \in Events, Store(k), Len(log) < MaxSeq
      PROVE  log' \in Seq(Events) /\ Len(log') = Len(log) + 1 /\ lo' \in 1..(MaxSeq + 1)
    BY <1>1 DEF Store
<1>2. ASSUME NEW a \in {"turn", "off"}, Publish(a), writer.next \in Events
      PROVE  /\ degraded' \in BOOLEAN /\ first' \in BOOLEAN
             /\ writer' \in [next : {"off", "turn"} \cup Events, mute : BOOLEAN]
             /\ log' \in Seq(Events) /\ Len(log') <= MaxSeq /\ Len(log') >= Len(log)
             /\ lo' \in 1..(MaxSeq + 1)
    <2> DEFINE W == [next : {"off", "turn"} \cup Events, mute : BOOLEAN]
    <2>1. Writer(a, TRUE) \in W /\ Writer(a, FALSE) \in W
        BY DEF Writer
    <2>2. CASE writer.mute /\ writer' = Writer(a, TRUE) /\ UNCHANGED <<degraded, first, streamVars>>
        <3>1. writer' \in W
            BY <2>1, <2>2
        <3>2. lo' \in 1..(MaxSeq + 1) /\ log' = log
            BY <2>2
        <3>3. degraded' \in BOOLEAN /\ first' \in BOOLEAN
            BY <2>2
        <3>4. QED
            BY <3>1, <3>2, <3>3
    <2>3. CASE /\ Len(log) < MaxSeq /\ Store(writer.next) /\ first' \in {first, TRUE}
               /\ writer' = Writer(a, FALSE) /\ UNCHANGED degraded
        <3>1. writer' \in W
            BY <2>1, <2>3
        <3>2. log' \in Seq(Events) /\ Len(log') = Len(log) + 1 /\ lo' \in 1..(MaxSeq + 1)
            BY <1>1, <1>2, <2>3
        <3>3. Len(log') <= MaxSeq /\ Len(log') >= Len(log)
            BY <2>3, <3>2
        <3>4. degraded' \in BOOLEAN /\ first' \in BOOLEAN
            BY <2>3
        <3>5. QED
            BY <3>1, <3>2, <3>3, <3>4
    <2>4. CASE degraded' \in {degraded, TRUE} /\ writer' = Writer(a, TRUE) /\ UNCHANGED <<first, streamVars>>
        <3>1. writer' \in W
            BY <2>1, <2>4
        <3>2. lo' \in 1..(MaxSeq + 1) /\ log' = log
            BY <2>4
        <3>3. degraded' \in BOOLEAN /\ first' \in BOOLEAN
            BY <2>4
        <3>4. QED
            BY <3>1, <3>2, <3>3
    <2>5. QED
        BY <1>2, <2>2, <2>3, <2>4 DEF Publish
<1>3. CASE Begin
    BY <1>3 DEF Begin, Writer, Events, Dormant
<1>4. CASE Emit
    BY <1>2, <1>4 DEF Emit, Events, Dormant
<1>5. CASE Announce
    BY <1>2, <1>5 DEF Announce, Events, Dormant
<1>6. CASE Park \/ Finish
    BY <1>6 DEF Park, Finish, Commit, Events, Dormant
<1>7. CASE WorkerDies
    BY <1>7 DEF WorkerDies, NoWriter, Writer, Dormant
<1>8. CASE Recovered \/ EndIdle
    BY <1>8 DEF Recovered, EndIdle, Dormant
<1>9. CASE Expire
    BY <1>9 DEF Expire, Dormant
<1>10. QED
    BY <1>3, <1>4, <1>5, <1>6, <1>7, <1>8, <1>9 DEF Worker, Environment

\* Nothing has been published or seen at first.
LEMMA InitInv == Init => IInv
<1> SUFFICES ASSUME Init
             PROVE  IInv
    OBVIOUS
<1> USE RunEventsAssumption
<1>1. RunOK /\ Len(log) = 0
    <2>1. <<>> \in Seq(Events) /\ Len(<<>>) = 0
        OBVIOUS
    <2>2. NoWriter \in [next : {"off", "turn"} \cup Events, mute : BOOLEAN]
        BY DEF NoWriter, Writer
    <2>3. writer \in [next : {"off", "turn"} \cup Events, mute : BOOLEAN]
        BY <2>2 DEF Init
    <2>4. log \in Seq(Events) /\ Len(log) = 0 /\ Len(log) <= MaxSeq
        BY <2>1 DEF Init
    <2>5. lo \in 1..(MaxSeq + 1)
        BY DEF Init
    <2>6. status = "pending" /\ degraded \in BOOLEAN /\ first \in BOOLEAN /\ lost \in BOOLEAN
        BY DEF Init
    <2>7. QED
        BY <2>3, <2>4, <2>5, <2>6 DEF RunOK
<1>2. Within(0)
    BY DEF Init, Within, Sound, Served, Views, Conns, Conn, Active
<1>3. QED
    BY <1>1, <1>2, WithinMore DEF IInv

\* A step keeps the bound on what was seen, or ends the stream of a run that rests.
LEMMA NextInv == IInv /\ [Next]_vars => IInv'
<1> SUFFICES ASSUME IInv, [Next]_vars
             PROVE  IInv'
    OBVIOUS
<1> USE RunEventsAssumption DEF IInv
<1>1. Len(log) \in Nat /\ Len(log) <= MaxSeq /\ MaxSeq \in Nat
    BY DEF RunOK
<1>2. CASE Replay \/ Receive \/ Break \/ Ask \/ User
    <2>1. Within(MaxSeq)' /\ RunOK' /\ UNCHANGED <<writer, log>>
        BY <1>1, <1>2, ViewStep
    <2>2. CASE Within(Len(log))
        <3>1. PICK n \in Nat : n = Len(log)
            BY <1>1
        <3>2. Within(n)'
            BY <1>1, <1>2, <2>2, <3>1, ViewStep
        <3>3. n = Len(log')
            BY <2>1, <3>1
        <3>4. Within(Len(log))'
            BY <3>2, <3>3 DEF Within, Sound, Served
        <3>5. QED
            BY <2>1, <3>4
    <2>3. CASE Dormant /\ status' \in {status, "over"}
        BY <2>1, <2>3 DEF Dormant
    <2>4. CASE Dormant /\ view'.seen = 0 /\ conn'.cursor = 0 /\ pipe' = <<>>
        <3>1. Len(log') = 0 /\ <<>> \in Seq(ItemsTo(0))
            BY <2>1, <2>4 DEF Dormant
        <3>2. Within(Len(log))'
            BY <2>1, <2>4, <3>1 DEF Within, Sound, Served
        <3>3. QED
            BY <2>1, <3>2
    <2>5. QED
        BY <1>1, <1>2, <2>2, <2>3, <2>4, ViewStep
<1>3. CASE Worker \/ Environment
    <2>1. RunOK' /\ UNCHANGED <<conn, pipe, view>>
        BY <1>3, RunSteps
    <2>2. Within(MaxSeq)'
        BY <2>1 DEF Within, Sound, Served
    <2>3. Len(log)' \in Nat
        BY <2>1 DEF RunOK
    <2>4. CASE Dormant
        BY <1>3, <2>1, <2>2, <2>4, RunSteps
    <2>5. CASE Within(Len(log)) /\ Len(log') >= Len(log)
        <3>1. Within(Len(log'))
            BY <1>1, <2>3, <2>5, WithinMore
        <3>2. QED
            BY <2>1, <2>2, <3>1 DEF Within, Sound, Served
    <2>6. QED
        BY <1>3, <2>1, <2>2, <2>4, <2>5, RunSteps
<1>4. CASE UNCHANGED vars
    BY <1>4 DEF vars, rowVars, streamVars, serverVars, viewVars, RunOK, Within, Sound, Served, Dormant
<1>5. QED
    BY <1>2, <1>3, <1>4 DEF Next

\* The sequence numbers held anywhere stay within the stream while it can grow.
THEOREM Invariance == Spec => []IInv
<1>1. QED
    BY InitInv, NextInv, PTL DEF Spec

\* The state of run, stream, connection and view has its declared types for any
\* limits; the view never tries to reconnect more often than it may.
THEOREM TypeCorrect == Spec => []TypeOK
<1>1. IInv => TypeOK
    <2>1. ASSUME IInv
          PROVE  pipe \in Seq(Items)
        BY <2>1 DEF IInv, Within, Served, ItemsTo, Items
    <2>2. QED
        BY <2>1 DEF IInv, Within, Sound, Served, RunOK, TypeOK
<1>2. QED
    BY <1>1, Invariance, PTL

\* event_stream.py validate_cursor: no view ever asks for events after those the
\* stream has, however it is trimmed, expires and starts again.
THEOREM CursorsKnown == Spec => []CursorKnown
<1>1. IInv => CursorKnown
    BY DEF IInv, Within, Served, Dormant, CursorKnown, CursorRefused, RunOK, Conns
<1>2. QED
    BY <1>1, Invariance, PTL


------------------------------------------------------------------------------
(* What is in the stream and on the way *)

Says(k) == \E n \in DOMAIN log : log[n] = k

\* A worker that has not committed an outcome works on a row that says so.
Working == writer.next \in {"progress", "turn"} => status = "running"

\* The last event is due, and in the stream, only when the run is over.
FinishOver == writer.next = "finish" \/ Says("finish") => status = "over"

\* No progress follows it.
LastWord == \A i, j \in DOMAIN log : i < j /\ log[i] = "finish" => log[j] # "progress"

StreamOK == Working /\ FinishOver /\ LastWord

\* What is on the way is in the stream, and before the cursor of who sends more.
Genuine(e) ==
    /\ e.kind # "invalid"
    /\ e.kind \in Events => e.seq \in DOMAIN log /\ log[e.seq] = e.kind
    /\ conn.pc \in {"look", "read"} => e.seq <= conn.cursor

Ordered(p) == \A i, j \in DOMAIN p : i < j /\ p[i].kind = "finish" => p[j].kind # "progress"

Sent == Ordered(pipe) /\ \A i \in DOMAIN pipe : Genuine(pipe[i])

SInv == StreamOK /\ Sent

\* Nothing on the way, and nothing that will be sent, is progress.
NoneAhead ==
    /\ \A i \in DOMAIN pipe : pipe[i].kind # "progress"
    /\ conn.pc \in {"look", "read"} => \A n \in DOMAIN log : n > conn.cursor => log[n] # "progress"

LEMMA InitStream == Init => SInv
BY DEF Init, SInv, StreamOK, Working, FinishOver, LastWord, Says, Sent, Ordered, NoWriter, Writer

\* The run keeps its order of statuses and events.
LEMMA RunStream ==
    ASSUME RunOK, SInv, Worker \/ Environment
    PROVE  SInv' /\ UNCHANGED <<conn, pipe, view, lost>>
<1> USE DEF SInv, StreamOK, rowVars, streamVars, serverVars, viewVars
<1>1. UNCHANGED <<conn, pipe, view, lost>>
    BY DEF Worker, Environment, Begin, Emit, Park, Finish, Commit, Announce, WorkerDies,
           Recovered, EndIdle, Expire
<1>2. ASSUME UNCHANGED log \/ (pipe = <<>> /\ log' = <<>>)
      PROVE  LastWord' /\ Sent' /\ (Says("finish")' => Says("finish"))
    <2>1. CASE UNCHANGED log
        BY <1>1, <2>1 DEF LastWord, Sent, Ordered, Genuine, Says
    <2>2. CASE pipe = <<>> /\ log' = <<>>
        BY <1>1, <2>2 DEF LastWord, Sent, Ordered, Says
    <2>3. QED
        BY <1>2, <2>1, <2>2
<1>3. ASSUME NEW k \in Events, log' = Append(log, k), k = "progress" => status # "over"
      PROVE  LastWord' /\ Sent' /\ (Says("finish")' => Says("finish") \/ k = "finish")
    <2>1. /\ DOMAIN log' = 1..(Len(log) + 1) /\ DOMAIN log = 1..Len(log)
          /\ \A n \in DOMAIN log : log'[n] = log[n]
          /\ log'[Len(log) + 1] = k /\ Len(log) \in Nat
        BY <1>3 DEF RunOK
    <2>2. \A n \in DOMAIN log' : n \in DOMAIN log \/ n = Len(log) + 1
        BY <2>1
    <2>3. Sent'
        <3>1. \A e : Genuine(e) => Genuine(e)'
            BY <1>1, <2>1 DEF Genuine
        <3>2. QED
            BY <1>1, <3>1 DEF Sent, Ordered
    <2>4. Says("finish")' => Says("finish") \/ k = "finish"
        BY <2>1, <2>2 DEF Says
    <2>5. LastWord'
        <3>1. SUFFICES ASSUME NEW i \in DOMAIN log', NEW j \in DOMAIN log', i < j, log'[i] = "finish"
                       PROVE  log'[j] # "progress"
            BY DEF LastWord
        <3>2. i \in DOMAIN log
            BY <2>1, <3>1
        <3>3. CASE j \in DOMAIN log
            BY <2>1, <3>1, <3>2, <3>3 DEF LastWord
        <3>4. CASE j = Len(log) + 1
            <4>1. Says("finish")
                BY <2>1, <3>1, <3>2 DEF Says
            <4>2. QED
                BY <1>3, <2>1, <3>4, <4>1 DEF FinishOver
        <3>5. QED
            BY <2>2, <3>3, <3>4
    <2>6. QED
        BY <2>3, <2>4, <2>5
<1>4. ASSUME NEW a \in {"turn", "off"}, Publish(a), writer.next \in Events, UNCHANGED status,
             a = "turn" => writer.next = "progress"
      PROVE  SInv'
    <2>1. writer'.next = a
        <3>1. \A b : Writer(a, b).next = a
            BY DEF Writer
        <3>2. \E b : writer' = Writer(a, b)
            BY <1>4 DEF Publish
        <3>3. QED
            BY <3>1, <3>2
    <2>2. \/ UNCHANGED log
          \/ log' = Append(log, writer.next)
        BY <1>4 DEF Publish, Store
    <2>3. writer.next = "progress" => status = "running"
        BY DEF Working
    <2>4. writer.next = "finish" => status = "over"
        BY DEF FinishOver
    <2>5. LastWord' /\ Sent' /\ (Says("finish")' => Says("finish") \/ writer.next = "finish")
        BY <1>2, <1>3, <1>4, <2>2, <2>3
    <2>6. Working' /\ FinishOver'
        BY <1>4, <2>1, <2>3, <2>4, <2>5 DEF Working, FinishOver
    <2>7. QED
        BY <2>5, <2>6
<1>5. CASE Begin
    <2>1. ~Says("finish")
        BY <1>5 DEF Begin, FinishOver
    <2>2. QED
        BY <1>2, <1>5, <2>1 DEF Begin, Writer, Working, FinishOver
<1>6. CASE Emit
    BY <1>4, <1>6 DEF Emit, Events
<1>7. CASE Park \/ Finish
    <2>1. ~Says("finish") /\ UNCHANGED log
        BY <1>7 DEF Park, Finish, Commit, FinishOver
    <2>2. \/ status' = "waiting" /\ writer'.next = "interrupt"
          \/ status' = "over" /\ writer'.next = "finish"
        BY <1>7 DEF Park, Finish, Commit, RunOK
    <2>3. LastWord' /\ Sent' /\ ~Says("finish")'
        BY <1>2, <2>1
    <2>4. Working' /\ FinishOver'
        BY <2>2, <2>3 DEF Working, FinishOver
    <2>5. QED
        BY <1>1, <2>3, <2>4
<1>8. CASE Announce
    BY <1>4, <1>8 DEF Announce, Events
<1>9. CASE WorkerDies
    BY <1>2, <1>9 DEF WorkerDies, NoWriter, Writer, Working, FinishOver
<1>10. CASE Recovered \/ EndIdle
    <2>1. status' = "over" \/ (status' = "pending" /\ status = "running")
        BY <1>10 DEF Recovered, EndIdle
    <2>2. UNCHANGED <<writer, log>> /\ writer.next \notin {"progress", "turn"}
        BY <1>10 DEF Recovered, EndIdle, Working
    <2>3. LastWord' /\ Sent' /\ (Says("finish")' => Says("finish"))
        BY <1>2, <2>2
    <2>4. Working' /\ FinishOver'
        BY <2>1, <2>2, <2>3 DEF Working, FinishOver
    <2>5. QED
        BY <1>1, <2>3, <2>4
<1>11. CASE Expire
    BY <1>2, <1>11 DEF Expire, Working, FinishOver
<1>12. QED
    BY <1>1, <1>5, <1>6, <1>7, <1>8, <1>9, <1>10, <1>11 DEF Worker, Environment

\* What the server adds comes after what it sent before.
LEMMA ReplayStream ==
    ASSUME RunOK, Within(Len(log)) \/ Dormant, conn \in Conns, pipe \in Seq(Items), SInv, Replay
    PROVE  /\ SInv' /\ UNCHANGED <<status, log, view>>
           /\ lost => lost'
           /\ NoneAhead => NoneAhead'
<1> USE DEF rowVars, streamVars, serverVars, viewVars
<1>1. UNCHANGED <<status, log, view, writer>> /\ (lost => lost')
    BY DEF Replay, Look, Unreadable, Read, RunOK
<1>2. StreamOK'
    BY <1>1 DEF SInv, StreamOK, Working, FinishOver, LastWord, Says
<1>3. Sent
    BY DEF SInv
<1>4. /\ Len(log) \in Nat /\ DOMAIN log = 1..Len(log)
      /\ Len(pipe) \in Nat /\ DOMAIN pipe = 1..Len(pipe)
      /\ conn.cursor \in Nat
    BY RunEventsAssumption DEF RunOK, Conns
<1>5. \A k \in {"degraded", "end"} : Signal(k).kind = k /\ Signal(k).seq = 0
    BY DEF Signal
<1>6. ASSUME Close("degraded")
      PROVE  Sent' /\ (NoneAhead => NoneAhead')
    <2>1. conn'.pc = "closed"
        BY <1>6 DEF Close, Conn
    <2> DEFINE a == Signal("degraded")
    <2> DEFINE b == Signal("end")
    <2>2. a.kind = "degraded" /\ b.kind = "end"
        BY <1>5
    <2>3. pipe' = pipe \o <<a, b>>
        BY <1>6 DEF Close
    <2> HIDE DEF a, b
    <2>4. \A i \in DOMAIN pipe' :
             \/ i \in DOMAIN pipe /\ pipe'[i] = pipe[i]
             \/ i > Len(pipe) /\ pipe'[i].kind \in {"degraded", "end"}
        BY <1>4, <2>2, <2>3
    <2>5. \A i \in DOMAIN pipe' : Genuine(pipe[i])'
        BY <1>1, <1>3, <2>1, <2>4 DEF Sent, Genuine, Events
    <2>6. Ordered(pipe')
        BY <1>3, <1>4, <2>4 DEF Sent, Ordered
    <2>7. QED
        BY <2>1, <2>4, <2>5, <2>6 DEF Sent, NoneAhead, Ordered
<1>7. CASE Look
    <2>1. CASE degraded
        BY <1>1, <1>2, <1>6, <1>7, <2>1 DEF Look, SInv
    <2>2. CASE ~degraded
        <3>1. pipe' = pipe /\ conn'.pc = "read" /\ conn'.cursor = conn.cursor /\ conn.pc = "look"
            BY <1>7, <2>2 DEF Look, Conns
        <3>2. QED
            BY <1>1, <1>2, <1>3, <3>1 DEF SInv, Sent, Ordered, Genuine, NoneAhead
    <2>3. QED
        BY <2>1, <2>2
<1>8. CASE Unreadable
    BY <1>1, <1>2, <1>6, <1>8 DEF Unreadable, SInv
<1>9. CASE Read
    <2>1. conn.pc = "read"
        BY <1>9 DEF Read
    <2>2. ~CursorRefused
        BY <1>4, <2>1 DEF Within, Served, Dormant, CursorRefused
    <2> DEFINE c == conn.cursor
    <2> DEFINE n == Len(Rows)
    <2>3. /\ n \in Nat /\ DOMAIN Rows = 1..n /\ Rows \in Seq(Items)
          /\ \A i \in 1..n : c + i \in DOMAIN log /\ Rows[i].kind = log[c + i] /\ Rows[i].seq = c + i
          /\ n = 0 \/ c + n = Len(log)
          /\ ~(c + n < Len(log))
        <3> DEFINE m == IF c > Len(log) THEN 0 ELSE Len(log) - c
        <3>1. m \in Nat
            BY <1>4
        <3>2. \A i \in 1..m : c + i \in DOMAIN log /\ c + i \in 0..MaxSeq
            BY <1>4, RunEventsAssumption DEF RunOK
        <3>3. Rows = [i \in 1..m |-> [kind |-> log[c + i], seq |-> c + i]]
            BY DEF Rows
        <3>4. \A i \in 1..m : log[c + i] \in Events
            BY <1>4, <3>2 DEF RunOK
        <3> HIDE DEF m
        <3>5. Rows \in Seq(Items)
            BY <3>1, <3>2, <3>3, <3>4 DEF Items
        <3>6. n = m
            BY <3>1, <3>3
        <3>7. QED
            BY <1>4, <3>1, <3>2, <3>3, <3>5, <3>6 DEF m
    <2> DEFINE q == pipe \o Rows
    <2>4. \A i \in DOMAIN q :
             \/ i \in DOMAIN pipe /\ q[i] = pipe[i]
             \/ /\ i > Len(pipe) /\ i - Len(pipe) \in 1..n /\ q[i] = Rows[i - Len(pipe)]
        BY <1>4, <2>3
    <2> HIDE DEF n
    <2>5. Ordered(q)
        <3>1. SUFFICES ASSUME NEW i \in DOMAIN q, NEW j \in DOMAIN q, i < j, q[i].kind = "finish"
                       PROVE  q[j].kind # "progress"
            BY DEF Ordered
        <3>2. CASE j \in DOMAIN pipe /\ q[j] = pipe[j]
            BY <1>3, <1>4, <2>4, <3>1, <3>2 DEF Sent, Ordered
        <3>3. CASE j - Len(pipe) \in 1..n /\ q[j] = Rows[j - Len(pipe)] /\ j > Len(pipe)
            <4>1. c + (j - Len(pipe)) \in DOMAIN log /\ q[j].kind = log[c + (j - Len(pipe))]
                BY <2>3, <3>3
            <4>2. CASE i \in DOMAIN pipe /\ q[i] = pipe[i]
                <5>1. pipe[i].seq \in DOMAIN log /\ log[pipe[i].seq] = "finish" /\ pipe[i].seq <= c
                    BY <1>3, <2>1, <3>1, <4>2 DEF Sent, Genuine, Events
                <5>2. pipe[i].seq < c + (j - Len(pipe))
                    <6>1. c \in Nat /\ pipe[i].seq \in Nat
                        BY <1>4, <5>1
                    <6>2. j - Len(pipe) \in Nat /\ j - Len(pipe) >= 1
                        BY <2>3, <3>3
                    <6>3. QED
                        BY <5>1, <6>1, <6>2
                <5>3. QED
                    BY <4>1, <5>1, <5>2 DEF SInv, StreamOK, LastWord
            <4>3. CASE i - Len(pipe) \in 1..n /\ q[i] = Rows[i - Len(pipe)]
                <5>1. c + (i - Len(pipe)) \in DOMAIN log /\ log[c + (i - Len(pipe))] = "finish"
                    BY <2>3, <3>1, <4>3
                <5>2. c + (i - Len(pipe)) < c + (j - Len(pipe))
                    BY <1>4, <3>1, <3>3, <4>3
                <5>3. QED
                    BY <4>1, <5>1, <5>2 DEF SInv, StreamOK, LastWord
            <4>4. QED
                BY <2>4, <4>2, <4>3
        <3>4. QED
            BY <2>4, <3>2, <3>3
    <2>6. \A i \in DOMAIN q : /\ q[i].kind # "invalid"
                              /\ q[i].kind \in Events => q[i].seq \in DOMAIN log /\ log[q[i].seq] = q[i].kind
                              /\ q[i].seq <= c \/ (n # 0 /\ q[i].seq <= Len(log))
        <3>1. SUFFICES ASSUME NEW i \in DOMAIN q
                       PROVE  /\ q[i].kind # "invalid"
                              /\ q[i].kind \in Events => q[i].seq \in DOMAIN log /\ log[q[i].seq] = q[i].kind
                              /\ q[i].seq <= c \/ (n # 0 /\ q[i].seq <= Len(log))
            OBVIOUS
        <3>2. CASE i \in DOMAIN pipe /\ q[i] = pipe[i]
            BY <1>3, <2>1, <3>2 DEF Sent, Genuine
        <3>3. CASE i - Len(pipe) \in 1..n /\ q[i] = Rows[i - Len(pipe)]
            <4>1. PICK k \in 1..n : q[i] = Rows[k]
                BY <3>3
            <4>2. c + k \in DOMAIN log /\ q[i].kind = log[c + k] /\ q[i].seq = c + k /\ n # 0
                BY <2>3, <4>1
            <4>3. log[c + k] \in Events
                BY <1>4, <4>2 DEF RunOK
            <4>4. QED
                BY <1>4, <4>2, <4>3 DEF Events
        <3>4. QED
            BY <2>4, <3>2, <3>3
    <2>7. \A i \in DOMAIN q : NoneAhead => q[i].kind # "progress"
        <3>1. SUFFICES ASSUME NEW i \in DOMAIN q, NoneAhead
                       PROVE  q[i].kind # "progress"
            OBVIOUS
        <3>2. CASE i \in DOMAIN pipe /\ q[i] = pipe[i]
            BY <3>1, <3>2 DEF NoneAhead
        <3>3. CASE i - Len(pipe) \in 1..n /\ q[i] = Rows[i - Len(pipe)]
            <4>1. PICK k \in 1..n : q[i] = Rows[k]
                BY <3>3
            <4>2. c + k \in DOMAIN log /\ q[i].kind = log[c + k] /\ c + k > c
                BY <1>4, <2>3, <4>1
            <4>3. QED
                BY <2>1, <3>1, <4>2 DEF NoneAhead
        <3>4. QED
            BY <2>4, <3>2, <3>3
    <2>8. CASE conn.over
        <3>1. conn'.pc = "closed"
            BY <1>9, <2>2, <2>8 DEF Read, Conn
        <3>2. \/ pipe' = q
              \/ pipe' = q \o <<Signal("end")>>
            BY <1>9, <2>2, <2>8 DEF Read
        <3>3. q \in Seq(Items)
            BY <2>3
        <3> DEFINE e == Signal("end")
        <3>4. e.kind = "end" /\ (pipe' = q \/ pipe' = q \o <<e>>)
            BY <1>5, <3>2
        <3> HIDE DEF q, e
        <3>5. \A i \in DOMAIN pipe' :
                 \/ i \in DOMAIN q /\ pipe'[i] = q[i]
                 \/ i > Len(q) /\ pipe'[i].kind = "end"
            BY SMTT(20), <3>3, <3>4
        <3>6. \A i \in DOMAIN q : i <= Len(q)
            BY <3>3
        <3>7. \A i \in DOMAIN pipe' : Genuine(pipe[i])'
            <4>1. SUFFICES ASSUME NEW i \in DOMAIN pipe'
                           PROVE  Genuine(pipe[i])'
                OBVIOUS
            <4>2. CASE i \in DOMAIN q /\ pipe'[i] = q[i]
                BY <1>1, <2>6, <3>1, <4>2 DEF Genuine
            <4>3. CASE pipe'[i].kind = "end"
                BY <3>1, <4>3 DEF Genuine, Events
            <4>4. QED
                BY <3>5, <4>1, <4>2, <4>3
        <3>9. \A i, j \in DOMAIN pipe' : i < j /\ j \in DOMAIN q => i \in DOMAIN q
            BY <3>3, <3>4
        <3>10. Ordered(pipe')
            BY <2>5, <3>5, <3>9 DEF Ordered
        <3>11. NoneAhead => NoneAhead'
            BY <2>7, <3>1, <3>5 DEF NoneAhead
        <3>12. QED
            BY <1>1, <1>2, <3>7, <3>10, <3>11 DEF SInv, Sent, Ordered
    <2>9. CASE ~conn.over
        <3>1. conn' = Conn("look", IF Rows = <<>> THEN c ELSE Len(log)) /\ pipe' = q
            BY <1>9, <2>2, <2>9 DEF Read
        <3>2. /\ conn'.pc = "look"
              /\ n = 0 => conn'.cursor = c
              /\ n # 0 => conn'.cursor = Len(log)
            <4>1. Rows = <<>> <=> n = 0
                BY <2>3 DEF n
            <4>2. QED
                BY <3>1, <4>1 DEF Conn
        <3> HIDE DEF q
        <3>3. n # 0 => c <= Len(log)
            BY <1>4, <2>3
        <3>4. q \in Seq(Items)
            BY <2>3 DEF q
        <3>5. \A i \in DOMAIN q : q[i].seq \in Nat
            <4>1. \A i \in DOMAIN q : q[i] \in Items
                BY <3>4
            <4>2. QED
                BY <4>1, RunEventsAssumption DEF Items
        <3>6. \A i \in DOMAIN q : q[i].seq <= conn'.cursor
            BY <1>4, <2>6, <3>2, <3>3, <3>5
        <3>7. \A i \in DOMAIN pipe' : Genuine(pipe[i])'
            BY <1>1, <2>6, <3>1, <3>6 DEF Genuine
        <3>8. NoneAhead => NoneAhead'
            <4>1. ASSUME NEW k \in DOMAIN log, k > conn'.cursor
                  PROVE  FALSE
                BY <1>4, <2>3, <3>2, <4>1
            <4>2. QED
                BY <1>1, <2>7, <3>1, <4>1 DEF NoneAhead
        <3>9. QED
            BY <1>1, <1>2, <2>5, <3>1, <3>7, <3>8 DEF SInv, Sent, Ordered
    <2>10. QED
        BY <2>8, <2>9
<1>10. QED
    BY <1>7, <1>8, <1>9 DEF Replay

\* A connection that is new, or closed, has nothing on the way.
LEMMA FreshStream ==
    ASSUME SInv, UNCHANGED <<status, writer, log>>, pipe' = <<>>
    PROVE  SInv'
BY DEF SInv, StreamOK, Working, FinishOver, LastWord, Says, Sent, Ordered

\* What is received is no longer on the way.
LEMMA ReceivedStream ==
    ASSUME SInv, conn \in Conns, pipe \in Seq(Items), NEW K, Receives(K)
    PROVE  /\ SInv' /\ (NoneAhead => NoneAhead')
           /\ Genuine(Head(pipe)) /\ Head(pipe) = pipe[1] /\ 1 \in DOMAIN pipe
           /\ \A i \in DOMAIN pipe' : i + 1 \in DOMAIN pipe /\ pipe'[i] = pipe[i + 1] /\ 1 < i + 1
<1> USE DEF rowVars, streamVars
<1>1. UNCHANGED <<status, writer, log, conn>> /\ pipe # <<>> /\ pipe' = Tail(pipe)
    BY DEF Receives
<1>2. /\ Head(pipe) = pipe[1] /\ 1 \in DOMAIN pipe
      /\ \A i \in DOMAIN pipe' : i + 1 \in DOMAIN pipe /\ pipe'[i] = pipe[i + 1] /\ 1 < i + 1
      /\ DOMAIN pipe' \subseteq Nat
    BY <1>1
<1>3. Genuine(Head(pipe))
    BY <1>2 DEF SInv, Sent
<1>4. StreamOK'
    BY <1>1 DEF SInv, StreamOK, Working, FinishOver, LastWord, Says
<1>5. Ordered(pipe)'
    <2>1. SUFFICES ASSUME NEW i \in DOMAIN pipe', NEW j \in DOMAIN pipe', i < j, pipe'[i].kind = "finish"
                   PROVE  pipe'[j].kind # "progress"
        BY DEF Ordered
    <2>2. i + 1 \in DOMAIN pipe /\ j + 1 \in DOMAIN pipe /\ i + 1 < j + 1
        BY <1>2, <2>1
    <2>3. QED
        BY <1>2, <2>1, <2>2 DEF SInv, Sent, Ordered
<1>6. \A i \in DOMAIN pipe' : Genuine(pipe[i])'
    BY <1>1, <1>2 DEF SInv, Sent, Genuine
<1>7. NoneAhead => NoneAhead'
    BY <1>1, <1>2 DEF NoneAhead
<1>8. QED
    BY <1>2, <1>3, <1>4, <1>5, <1>6, <1>7 DEF SInv, Sent

LEMMA ViewStream ==
    ASSUME RunOK, conn \in Conns, pipe \in Seq(Items), SInv, Receive \/ Break \/ Ask \/ User
    PROVE  SInv'
<1> USE DEF rowVars, streamVars, serverVars, behind
<1>1. ASSUME UNCHANGED <<status, writer, log>>, UNCHANGED <<conn, pipe>>
      PROVE  SInv'
    BY <1>1 DEF SInv, StreamOK, Working, FinishOver, LastWord, Says, Sent, Ordered, Genuine
<1>2. ASSUME \/ UNCHANGED <<status, writer, log>>
             \/ /\ UNCHANGED <<writer, log>> /\ status' \in {"pending", "over"}
                /\ status \in {"pending", "waiting", "over"}
                /\ status' = "over" \/ status = "waiting",
             pipe' = <<>>
      PROVE  SInv'
    BY <1>2 DEF SInv, StreamOK, Working, FinishOver, LastWord, Says, Sent, Ordered
<1>3. CASE Receive
    <2>1. CASE ReceiveProgress \/ ReceiveInterrupt \/ ReceiveOutcome
        BY <2>1, ReceivedStream DEF ReceiveProgress, ReceiveInterrupt, ReceiveOutcome
    <2>2. CASE ReceiveDegraded \/ ReceiveEnd
        BY <1>2, <2>2 DEF ReceiveDegraded, ReceiveEnd, Disconnect
    <2>3. QED
        BY <1>3, <2>1, <2>2 DEF Receive
<1>4. CASE Break
    BY <1>2, <1>4 DEF Break, Disconnect
<1>5. CASE Ask
    <2>1. UNCHANGED <<status, writer, log>> /\ (UNCHANGED <<conn, pipe>> \/ pipe' = <<>>)
        BY <1>5 DEF Ask, AnswerTerminal, LoseTerminal, AnswerRecover, LoseRecover, RecoverTimer,
                    RecoverBlind, PollTimer, AnswerCancel, Disconnect, Connect, Reconnect
    <2>2. QED
        BY <1>1, <1>2, <2>1
<1>6. CASE Resume
    BY <1>1, <1>2, <1>6 DEF Resume, Connect
<1>7. CASE Cancel
    BY <1>2, <1>7 DEF Cancel, Disconnect, RunOK
<1>8. CASE Reload
    BY <1>2, <1>8 DEF Reload, Disconnect
<1>9. QED
    BY <1>3, <1>4, <1>5, <1>6, <1>7, <1>8 DEF User

------------------------------------------------------------------------------
(* What the view shows, and how it learns more *)

\* The view has taken the run for one that waits or is over, and learns the rest
\* from the session.
Concluded == view.link = "done" \/ "terminal" \in view.asks

\* What the view goes on with; the query after an outcome is not part of it.
Attended == view.link = "open" \/ view.timer # "none" \/ view.asks \ {"terminal"} # {}

Honest ==
    /\ Concluded => status \in {"waiting", "over"}
    /\ view.link = "done" => NoneAhead
    /\ view.life = "over" => status = "over"
    /\ view.life = "waiting" => status \in {"waiting", "over"}
    /\ view.life = "cancelling" => "cancel" \in view.asks
    /\ view.life \in Active => Attended

VInv == ~lost => Honest

LEMMA InitView == Init => VInv
BY DEF Init, VInv, Honest, Concluded, Attended, Active, Conn

\* The run does not take back what the view concluded from it.
LEMMA RunView ==
    ASSUME RunOK, SInv, VInv, Worker \/ Environment
    PROVE  VInv'
<1> USE DEF rowVars, streamVars, serverVars, viewVars
<1>1. UNCHANGED <<conn, pipe, view, lost>>
    BY RunStream
<1>2. /\ status \in {"waiting", "over"} => status' \in {"waiting", "over"}
      /\ status = "over" => status' = "over"
    BY DEF Worker, Environment, Begin, Emit, Park, Finish, Commit, Announce, WorkerDies,
           Recovered, EndIdle, Expire
<1>3. \/ UNCHANGED log \/ log' = <<>>
      \/ log' = Append(log, writer.next) /\ writer.next \in Events
    BY DEF Worker, Environment, Begin, Emit, Park, Finish, Commit, Announce, WorkerDies,
           Recovered, EndIdle, Expire, Publish, Store, Events
<1>4. status \in {"waiting", "over"} /\ NoneAhead => NoneAhead'
    <2>1. SUFFICES ASSUME status \in {"waiting", "over"}, NoneAhead
                   PROVE  NoneAhead'
        OBVIOUS
    <2>2. writer.next # "progress"
        BY <2>1 DEF SInv, StreamOK, Working
    <2>3. \A n \in DOMAIN log' : log'[n] # "progress" \/ (n \in DOMAIN log /\ log'[n] = log[n])
        <3>1. CASE UNCHANGED log
            BY <3>1
        <3>2. CASE log' = <<>>
            BY <3>2
        <3>3. CASE log' = Append(log, writer.next) /\ writer.next \in Events
            BY <2>2, <3>3 DEF RunOK
        <3>4. QED
            BY <1>3, <3>1, <3>2, <3>3
    <2>4. QED
        BY <1>1, <2>1, <2>3 DEF NoneAhead
<1>5. QED
    BY <1>1, <1>2, <1>4 DEF VInv, Honest, Concluded, Attended

\* Nor does the server.
LEMMA ReplayView ==
    ASSUME RunOK, Within(Len(log)) \/ Dormant, conn \in Conns, pipe \in Seq(Items), SInv, VInv, Replay
    PROVE  VInv'
<1>1. UNCHANGED <<status, log, view>> /\ (lost => lost') /\ (NoneAhead => NoneAhead')
    BY ReplayStream
<1>2. QED
    BY <1>1 DEF VInv, Honest, Concluded, Attended

\* What the handlers do to the fields that matter.
LEMMA Handlers ==
    ASSUME NEW v, v \in Views
    PROVE  /\ Schedule(v) \in Views /\ Schedule(v).timer # "none"
           /\ Schedule(v).link = v.link /\ Schedule(v).asks = v.asks
           /\ Stop(v) \in Views /\ Stop(v).timer = "none" /\ Stop(v).link = v.link
           /\ Stop(v).asks = v.asks /\ Stop(v).life = v.life
           /\ Polling(v) \in Views /\ Polling(v).timer = "poll" /\ Polling(v).life = "reconnecting"
           /\ Polling(v).link = v.link /\ Polling(v).asks = v.asks
           /\ Unlink(v) \in Views /\ Unlink(v).link = "none" /\ Unlink(v).life = v.life
           /\ Unlink(v).timer = v.timer
           /\ Unlink(v).asks = IF v.link = "done" THEN v.asks ELSE v.asks \cup {"recover"}
<1> USE RunEventsAssumption
<1>1. Schedule(v) \in Views /\ Schedule(v).timer # "none" /\ Schedule(v).link = v.link /\ Schedule(v).asks = v.asks
    BY DEF Schedule, Views
<1>2. /\ Stop(v) \in Views /\ Stop(v).timer = "none" /\ Stop(v).link = v.link
      /\ Stop(v).asks = v.asks /\ Stop(v).life = v.life
    <2>1. 0 \in 0..MaxTries
        OBVIOUS
    <2>2. Stop(v) \in Views
        BY <2>1 DEF Stop, Views
    <2>3. QED
        BY <2>2 DEF Stop, Views
<1>3. /\ Polling(v) \in Views /\ Polling(v).timer = "poll" /\ Polling(v).life = "reconnecting"
      /\ Polling(v).link = v.link /\ Polling(v).asks = v.asks
    BY DEF Polling, Views, Active
<1>4. /\ Unlink(v) \in Views /\ Unlink(v).link = "none" /\ Unlink(v).life = v.life
      /\ Unlink(v).timer = v.timer
      /\ Unlink(v).asks = IF v.link = "done" THEN v.asks ELSE v.asks \cup {"recover"}
    BY DEF Unlink, Views
<1>5. QED
    BY <1>1, <1>2, <1>3, <1>4

LEMMA AnsweredView ==
    ASSUME RunOK, NEW v, v \in Views
    PROVE  /\ Answered(v) \in Views /\ Answered(v).life = Shown(status)
           /\ Answered(v).link = v.link /\ Answered(v).timer = v.timer /\ Answered(v).asks = v.asks
           /\ Shown(status) \in Active \cup {"waiting", "over"}
           /\ Shown(status) \notin Active => status = Shown(status) /\ status \in {"waiting", "over"}
<1>1. /\ Shown(status) \in Active \cup {"waiting", "over"}
      /\ Shown(status) \notin Active => status = Shown(status) /\ status \in {"waiting", "over"}
    BY DEF Shown, Active, RunOK
<1> DEFINE b == Shown(status) \in Active
<1>2. b \in BOOLEAN
    OBVIOUS
<1>3. Answered(v) = [v EXCEPT !.life = Shown(status), !.info = b]
    BY DEF Answered
<1> HIDE DEF b
<1>4. QED
    BY <1>1, <1>2, <1>3 DEF Views

\* What the view concludes from an event is so, and stays so.
LEMMA ReceiveView ==
    ASSUME RunOK, conn \in Conns, pipe \in Seq(Items), view \in Views, SInv, VInv, Receive
    PROVE  VInv'
<1> USE DEF rowVars, streamVars
<1>1. SUFFICES ASSUME ~lost'
               PROVE  Honest'
    BY DEF VInv
<1>2. Honest /\ ~lost
    BY <1>1 DEF VInv, Receive, ReceiveProgress, ReceiveInterrupt, ReceiveOutcome, ReceiveDegraded, ReceiveEnd, RunOK
<1> DEFINE h == Head(pipe)
<1>3. ASSUME NEW K, Receives(K)
      PROVE  /\ h = pipe[1] /\ 1 \in DOMAIN pipe /\ Genuine(h) /\ h \in Items
             /\ Noted \in Views /\ Noted.life = view.life /\ Noted.link = view.link
             /\ Noted.timer = view.timer /\ Noted.asks = view.asks
             /\ view.link # "none" /\ h.kind \in K
             /\ UNCHANGED <<status, log, conn>> /\ (NoneAhead => NoneAhead')
             /\ \A i \in DOMAIN pipe' : i + 1 \in DOMAIN pipe /\ pipe'[i] = pipe[i + 1] /\ 1 < i + 1
    <2>1. /\ h = pipe[1] /\ 1 \in DOMAIN pipe /\ Genuine(h) /\ (NoneAhead => NoneAhead')
          /\ \A i \in DOMAIN pipe' : i + 1 \in DOMAIN pipe /\ pipe'[i] = pipe[i + 1] /\ 1 < i + 1
        BY <1>3, ReceivedStream
    <2>2. h \in Items
        BY <2>1
    <2>3. h.seq \in 0..MaxSeq
        BY <2>2 DEF Items
    <2>4. /\ Noted \in Views /\ Noted.life = view.life /\ Noted.link = view.link
          /\ Noted.timer = view.timer /\ Noted.asks = view.asks
        BY <2>3 DEF Noted, Views
    <2>5. QED
        BY <1>3, <2>1, <2>2, <2>4 DEF Receives
<1>4. ASSUME NEW s \in {"waiting", "over"}, view' = Conclude(Noted, s),
             NEW K, Receives(K),
             view.link = "open" => NoneAhead' /\ status \in {"waiting", "over"} /\ (s = "over" => status = "over")
      PROVE  Honest'
    <2>1. CASE view.link = "done"
        <3>1. view' = Noted
            BY <1>3, <1>4, <2>1 DEF Conclude
        <3>2. QED
            BY <1>2, <1>3, <1>4, <3>1 DEF Honest, Concluded, Attended
    <2>2. CASE view.link = "open"
        <3> DEFINE u == Stop(Noted)
        <3>1. u \in Views /\ view' = [u EXCEPT !.life = s, !.link = "done", !.asks = @ \cup {"terminal"}]
            BY <1>3, <1>4, <2>2, Handlers DEF Conclude
        <3> HIDE DEF u
        <3>2. view'.life = s /\ view'.link = "done"
            BY <3>1 DEF Views
        <3>3. QED
            BY <1>3, <1>4, <2>2, <3>2 DEF Honest, Active
    <2>3. QED
        BY <1>3, <1>4, <2>1, <2>2 DEF Views
<1>5. CASE ReceiveProgress
    <2>1. Receives({"progress"}) /\ view' = [Noted EXCEPT !.life = "running"]
        BY <1>5 DEF ReceiveProgress
    <2>2. h.kind = "progress" /\ ~NoneAhead
        BY <1>3, <2>1 DEF NoneAhead
    <2>3. view.link = "open"
        BY <1>2, <1>3, <2>1, <2>2 DEF Honest, Views
    <2>4. view'.link = "open" /\ view'.life = "running" /\ view'.asks = view.asks
        BY <1>3, <2>1, <2>3 DEF Views
    <2>5. UNCHANGED status
        BY <1>3, <2>1
    <2>6. QED
        BY <1>2, <2>3, <2>4, <2>5 DEF Honest, Concluded, Attended
<1>6. CASE ReceiveInterrupt
    <2>1. Receives({"interrupt"}) /\ view' = Conclude(Noted, "waiting")
        BY <1>6 DEF ReceiveInterrupt
    <2>2. ASSUME view.link = "open"
          PROVE  NoneAhead' /\ status \in {"waiting", "over"}
        <3>1. ~Stale
            BY <1>1, <1>6, <2>2 DEF ReceiveInterrupt
        <3>2. status \in {"waiting", "over"}
            BY <3>1 DEF Stale, RunOK
        <3>3. \A i \in DOMAIN pipe' : pipe'[i].kind # "progress"
            BY <1>3, <2>1, <3>1 DEF Stale
        <3>4. conn.pc \in {"look", "read"} => h.seq <= conn.cursor
            BY <1>3, <2>1 DEF Genuine
        <3>5. conn.pc \in {"look", "read"} => \A n \in DOMAIN log : n > conn.cursor => log[n] # "progress"
            <4>1. SUFFICES ASSUME conn.pc \in {"look", "read"}, NEW n \in DOMAIN log, n > conn.cursor
                           PROVE  log[n] # "progress"
                OBVIOUS
            <4>2. n \in Nat /\ h.seq \in Nat /\ conn.cursor \in Nat
                BY <1>3, <2>1, RunEventsAssumption DEF RunOK, Items, Conns
            <4>3. n > h.seq
                BY <3>4, <4>1, <4>2
            <4>4. QED
                BY <3>1, <4>3 DEF Stale
        <3>6. QED
            BY <1>3, <2>1, <3>2, <3>3, <3>5 DEF NoneAhead
    <2>3. QED
        BY <1>4, <2>1, <2>2
<1>7. CASE ReceiveOutcome
    <2>1. Receives({"finish", "invalid"}) /\ view' = Conclude(Noted, "over")
        BY <1>7 DEF ReceiveOutcome
    <2>2. h.kind = "finish" /\ h.seq \in DOMAIN log /\ log[h.seq] = "finish"
        BY <1>3, <2>1 DEF Genuine, Events
    <2>3. status = "over"
        BY <2>2 DEF SInv, StreamOK, FinishOver, Says
    <2>4. NoneAhead'
        <3>1. \A i \in DOMAIN pipe' : pipe'[i].kind # "progress"
            BY <1>3, <2>1, <2>2 DEF SInv, Sent, Ordered
        <3>2. conn.pc \in {"look", "read"} => \A n \in DOMAIN log : n > conn.cursor => log[n] # "progress"
            <4>1. SUFFICES ASSUME conn.pc \in {"look", "read"}, NEW n \in DOMAIN log, n > conn.cursor
                           PROVE  log[n] # "progress"
                OBVIOUS
            <4>2. n \in Nat /\ h.seq \in Nat /\ conn.cursor \in Nat /\ h.seq <= conn.cursor
                BY <1>3, <2>1, <4>1, RunEventsAssumption DEF RunOK, Items, Conns, Genuine
            <4>3. h.seq < n
                BY <4>1, <4>2
            <4>4. QED
                BY <2>2, <4>3 DEF SInv, StreamOK, LastWord
        <3>3. QED
            BY <1>3, <2>1, <3>1, <3>2 DEF NoneAhead
    <2>5. QED
        BY <1>4, <2>1, <2>3, <2>4
<1>8. CASE ReceiveDegraded
    <2> DEFINE u == [view EXCEPT !.link = "none", !.timer = "none"]
    <2>1. u \in Views /\ u.link = "none" /\ u.asks = view.asks /\ view' = Polling(u)
        BY <1>8 DEF ReceiveDegraded, Views
    <2> HIDE DEF u
    <2>2. view'.link = "none" /\ view'.asks = view.asks /\ view'.timer = "poll" /\ view'.life = "reconnecting"
        BY <2>1, Handlers
    <2>3. QED
        BY <1>2, <1>8, <2>2 DEF ReceiveDegraded, Honest, Concluded, Attended
<1>9. CASE ReceiveEnd
    <2>1. /\ view'.link = "none" /\ view'.life = view.life /\ view'.timer = view.timer
          /\ view'.asks = IF view.link = "done" THEN view.asks ELSE view.asks \cup {"recover"}
          /\ UNCHANGED status
        BY <1>9, Handlers DEF ReceiveEnd
    <2>2. CASE view.link = "done"
        BY <1>2, <2>1, <2>2 DEF Honest, Concluded, Attended
    <2>3. CASE view.link # "done"
        <3>1. "recover" \in view'.asks \ {"terminal"}
            BY <2>1, <2>3
        <3>2. QED
            BY <1>2, <2>1, <2>3, <3>1 DEF Honest, Concluded, Attended
    <2>4. QED
        BY <2>2, <2>3
<1>10. QED
    BY <1>5, <1>6, <1>7, <1>8, <1>9 DEF Receive

\* A connection that fails leaves a query behind.
LEMMA BreakView ==
    ASSUME RunOK, view \in Views, VInv, Break
    PROVE  VInv'
<1>1. SUFFICES ASSUME ~lost'
               PROVE  Honest'
    BY DEF VInv
<1>2. Honest /\ UNCHANGED status
    BY <1>1 DEF VInv, Break, rowVars
<1> DEFINE u == Unlink(view)
<1> DEFINE s == IF view.link = "done" THEN view.life ELSE "reconnecting"
<1>3. /\ u \in Views /\ u.link = "none" /\ u.life = view.life /\ u.timer = view.timer
      /\ u.asks = IF view.link = "done" THEN view.asks ELSE view.asks \cup {"recover"}
    BY Handlers
<1>4. view' = [u EXCEPT !.life = s]
    BY <1>3 DEF Break
<1> HIDE DEF u
<1>5. /\ view'.link = "none" /\ view'.timer = view.timer /\ view'.life = s
      /\ view'.asks = IF view.link = "done" THEN view.asks ELSE view.asks \cup {"recover"}
    BY <1>3, <1>4 DEF Views
<1>6. QED
    BY <1>2, <1>5 DEF Honest, Concluded, Attended

\* The answer is the row; a query that fails leaves a timer, or the view gives up.
LEMMA AskView ==
    ASSUME RunOK, view \in Views, VInv, Ask
    PROVE  VInv'
<1> USE DEF behind, rowVars, streamVars, serverVars
<1>1. SUFFICES ASSUME ~lost'
               PROVE  Honest'
    BY DEF VInv
<1>2. UNCHANGED <<status, log>> /\ (lost => lost')
    BY DEF Ask, AnswerTerminal, LoseTerminal, AnswerRecover, LoseRecover, RecoverTimer,
           RecoverBlind, PollTimer, AnswerCancel, RunOK
<1>3. Honest
    BY <1>1, <1>2 DEF VInv
<1> DEFINE s == Shown(status)
<1>4. /\ s \in Active \cup {"waiting", "over"}
      /\ s \notin Active => status = s /\ status \in {"waiting", "over"}
    BY AnsweredView
<1>5. \A q : /\ Asked(q) \in Views /\ Asked(q).asks = view.asks \ {q} /\ Asked(q).life = view.life
             /\ Asked(q).link = view.link /\ Asked(q).timer = view.timer
    BY DEF Asked, Views
<1>6. ASSUME UNCHANGED <<conn, pipe>>
      PROVE  NoneAhead => NoneAhead'
    BY <1>2, <1>6 DEF NoneAhead
<1> HIDE DEF s
<1>7. ASSUME NEW u \in Views, view' = [u EXCEPT !.link = "open", !.timer = "none", !.tries = @ + 1],
             u.asks = view.asks, u.life \in Active
      PROVE  Honest'
    <2>1. view'.link = "open" /\ view'.asks = view.asks /\ view'.life \in Active
        BY <1>7 DEF Views
    <2>2. QED
        BY <1>2, <1>3, <2>1 DEF Honest, Concluded, Attended, Active
<1>8. CASE AnswerTerminal
    <2> DEFINE u == Answered(Asked("terminal"))
    <2>1. u \in Views /\ u.life = s /\ u.asks = view.asks \ {"terminal"}
        BY <1>5, AnsweredView DEF s
    <2>2. view' = [u EXCEPT !.link = "none"] /\ "terminal" \in view.asks
        BY <1>8 DEF AnswerTerminal
    <2> HIDE DEF u
    <2>3. view'.link = "none" /\ view'.life = s /\ view'.asks = view.asks \ {"terminal"}
        BY <2>1, <2>2 DEF Views
    <2>4. status \in {"waiting", "over"} /\ s = status
        BY <1>3, <2>2 DEF Honest, Concluded, s, Shown
    <2>5. QED
        BY <1>2, <2>3, <2>4 DEF Honest, Concluded, Active
<1>9. CASE LoseTerminal
    <2>1. /\ view'.asks = view.asks \ {"terminal"} /\ view'.life = view.life
          /\ view'.link = view.link /\ view'.timer = view.timer
        BY <1>5, <1>9 DEF LoseTerminal
    <2>2. UNCHANGED <<conn, pipe>>
        BY <1>9 DEF LoseTerminal
    <2>3. QED
        BY <1>2, <1>3, <1>6, <2>1, <2>2 DEF Honest, Concluded, Attended
<1>10. CASE AnswerRecover
    <2> DEFINE u == Answered(Asked("recover"))
    <2>1. /\ u \in Views /\ u.life = s /\ u.asks = view.asks \ {"recover"}
          /\ u.link = view.link
        BY <1>5, AnsweredView DEF s
    <2> DEFINE w == [u EXCEPT !.timer = "none"]
    <2>2. \/ u.life \notin Active /\ view' = Stop(u)
          \/ view' = Polling(w)
          \/ view' = [Schedule(u) EXCEPT !.life = "reconnecting"]
        BY <1>10 DEF AnswerRecover
    <2>3. UNCHANGED <<conn, pipe>>
        BY <1>10 DEF AnswerRecover
    <2> HIDE DEF u
    <2>4. w \in Views /\ w.asks = u.asks /\ w.link = u.link
        BY <2>1 DEF Views
    <2> HIDE DEF w
    <2>5. CASE u.life \notin Active /\ view' = Stop(u)
        <3>1. view'.life = s /\ view'.asks = u.asks /\ view'.link = u.link
            BY <2>1, <2>5, Handlers
        <3>2. s \notin Active /\ view'.life # "cancelling"
            BY <1>4, <2>1, <2>5, <3>1 DEF Active
        <3>3. QED
            BY <1>2, <1>3, <1>4, <1>6, <2>1, <2>3, <3>1, <3>2 DEF Honest, Concluded
    <2>6. CASE view' = Polling(w)
        <3>1. view'.life = "reconnecting" /\ view'.asks = u.asks /\ view'.link = u.link /\ view'.timer = "poll"
            BY <2>4, <2>6, Handlers
        <3>2. QED
            BY <1>2, <1>3, <1>6, <2>1, <2>3, <3>1 DEF Honest, Concluded, Attended
    <2>7. CASE view' = [Schedule(u) EXCEPT !.life = "reconnecting"]
        <3>1. /\ Schedule(u) \in Views /\ Schedule(u).asks = u.asks /\ Schedule(u).link = u.link
              /\ Schedule(u).timer # "none"
            BY <2>1, Handlers
        <3>2. view'.life = "reconnecting" /\ view'.asks = u.asks /\ view'.link = u.link /\ view'.timer # "none"
            BY <2>7, <3>1 DEF Views
        <3>3. QED
            BY <1>2, <1>3, <1>6, <2>1, <2>3, <3>2 DEF Honest, Concluded, Attended
    <2>8. QED
        BY <2>2, <2>5, <2>6, <2>7
<1>11. CASE LoseRecover
    <2> DEFINE u == Asked("recover")
    <2>1. view' = [Schedule(u) EXCEPT !.life = "reconnecting"] /\ UNCHANGED <<conn, pipe>>
        BY <1>1, <1>11 DEF LoseRecover
    <2>2. u \in Views /\ u.asks = view.asks \ {"recover"} /\ u.link = view.link
        BY <1>5
    <2> HIDE DEF u
    <2>3. /\ Schedule(u) \in Views /\ Schedule(u).asks = u.asks /\ Schedule(u).link = u.link
          /\ Schedule(u).timer # "none"
        BY <2>2, Handlers
    <2>4. view'.life = "reconnecting" /\ view'.asks = u.asks /\ view'.link = u.link /\ view'.timer # "none"
        BY <2>1, <2>3 DEF Views
    <2>5. QED
        BY <1>2, <1>3, <1>6, <2>1, <2>2, <2>4 DEF Honest, Concluded, Attended
<1>12. CASE RecoverTimer
    <2> DEFINE u == Answered(view)
    <2>1. u \in Views /\ u.life = s /\ u.asks = view.asks /\ u.link = view.link
        BY AnsweredView DEF s
    <2>2. \/ u.life \notin Active /\ view' = [u EXCEPT !.timer = "none"] /\ UNCHANGED <<conn, pipe>>
          \/ view' = Polling(u) /\ UNCHANGED <<conn, pipe>>
          \/ u.life \in Active /\ Reconnect(u)
        BY <1>12 DEF RecoverTimer
    <2> HIDE DEF u
    <2>3. CASE u.life \notin Active /\ view' = [u EXCEPT !.timer = "none"] /\ UNCHANGED <<conn, pipe>>
        <3>1. view'.life = s /\ view'.asks = view.asks /\ view'.link = view.link
            BY <2>1, <2>3 DEF Views
        <3>2. s \notin Active /\ s # "cancelling"
            BY <1>4, <2>1, <2>3 DEF Active
        <3>3. QED
            BY <1>2, <1>3, <1>4, <1>6, <2>3, <3>1, <3>2 DEF Honest, Concluded
    <2>4. CASE view' = Polling(u) /\ UNCHANGED <<conn, pipe>>
        <3>1. view'.life = "reconnecting" /\ view'.asks = view.asks /\ view'.link = view.link /\ view'.timer = "poll"
            BY <2>1, <2>4, Handlers
        <3>2. QED
            BY <1>2, <1>3, <1>6, <2>4, <3>1 DEF Honest, Concluded, Attended
    <2>5. CASE u.life \in Active /\ Reconnect(u)
        BY <1>7, <2>1, <2>5 DEF Reconnect
    <2>6. QED
        BY <2>2, <2>3, <2>4, <2>5
<1>13. CASE RecoverBlind
    <2>1. CASE view.life \in Active
        BY <1>7, <1>13, <2>1 DEF RecoverBlind, Reconnect
    <2>2. CASE view.life \notin Active
        <3>1. view' = [view EXCEPT !.timer = "none"] /\ UNCHANGED <<conn, pipe>>
            BY <1>13, <2>2 DEF RecoverBlind
        <3>2. view'.life = view.life /\ view'.asks = view.asks /\ view'.link = view.link
            BY <3>1 DEF Views
        <3>3. QED
            BY <1>2, <1>3, <1>6, <2>2, <3>1, <3>2 DEF Honest, Concluded
    <2>3. QED
        BY <2>1, <2>2
<1>14. CASE PollTimer
    <2> DEFINE u == Answered(view)
    <2>1. u \in Views /\ u.life = s /\ u.asks = view.asks /\ u.link = view.link /\ u.timer = "poll"
        BY <1>14, AnsweredView DEF s, PollTimer
    <2>2. \/ u.life \notin Active /\ view' = [u EXCEPT !.timer = "none"]
          \/ u.life \in Active /\ (view' = [u EXCEPT !.life = "reconnecting"] \/ view' = u)
        BY <1>14 DEF PollTimer
    <2>3. UNCHANGED <<conn, pipe>>
        BY <1>14 DEF PollTimer
    <2> HIDE DEF u
    <2>4. view'.asks = view.asks /\ view'.link = view.link
        BY <2>1, <2>2 DEF Views
    <2>5. \/ view'.life = s /\ s \notin Active
          \/ view'.life \in Active /\ view'.timer = "poll"
        BY <2>1, <2>2 DEF Views, Active
    <2>6. QED
        BY <1>2, <1>3, <1>4, <1>6, <2>3, <2>4, <2>5 DEF Honest, Concluded, Attended, Active
<1>15. CASE AnswerCancel
    <2> DEFINE u == Asked("cancel")
    <2>1. s \notin Active /\ view' = Answered(u) /\ UNCHANGED <<conn, pipe>>
        BY <1>1, <1>15 DEF AnswerCancel, s
    <2>2. u \in Views /\ u.asks = view.asks \ {"cancel"} /\ u.link = view.link
        BY <1>5
    <2> HIDE DEF u
    <2>3. view'.life = s /\ view'.asks = u.asks /\ view'.link = u.link
        BY <2>1, <2>2, AnsweredView DEF s
    <2>4. s # "cancelling"
        BY <1>4, <2>1
    <2>5. QED
        BY <1>2, <1>3, <1>4, <1>6, <2>1, <2>2, <2>3, <2>4 DEF Honest, Concluded
<1>16. QED
    BY <1>8, <1>9, <1>10, <1>11, <1>12, <1>13, <1>14, <1>15 DEF Ask

\* The user's answer, cancellation or new page leaves something to follow.
LEMMA UserView ==
    ASSUME RunOK, view \in Views, VInv, User
    PROVE  VInv'
<1> USE DEF behind, rowVars, streamVars, serverVars
<1> DEFINE s == Shown(status)
<1>1. /\ s \in Active \cup {"waiting", "over"}
      /\ s \notin Active => status = s /\ status \in {"waiting", "over"}
    BY AnsweredView
<1> HIDE DEF s
<1>2. CASE Reload
    <2>1. /\ view'.life = s /\ view'.link = "none" /\ view'.asks = {} /\ UNCHANGED status
          /\ view'.timer = IF s \in Active THEN "recover" ELSE "none"
        BY <1>2 DEF Reload, s
    <2>2. Honest'
        BY <1>1, <2>1 DEF Honest, Concluded, Attended, Active
    <2>3. QED
        BY <2>2 DEF VInv
<1>3. ASSUME ~lost', UNCHANGED lost, Resume \/ Cancel
      PROVE  Honest'
    <2>1. Honest
        BY <1>3 DEF VInv
    <2>2. CASE Resume /\ status = "waiting"
        <3>1. /\ status' = "pending" /\ "terminal" \notin view.asks
              /\ view' = [view EXCEPT !.life = "queued", !.link = "open", !.seen = 0,
                                      !.timer = "none", !.info = TRUE]
            BY <2>2 DEF Resume
        <3>2. view'.life = "queued" /\ view'.link = "open" /\ view'.asks = view.asks
            BY <3>1 DEF Views
        <3>3. QED
            BY <3>1, <3>2 DEF Honest, Concluded, Attended
    <2>3. CASE Resume /\ status # "waiting"
        <3>1. view.life = "waiting" /\ view' = Answered(view) /\ UNCHANGED <<status, conn, pipe, log>>
            BY <2>3 DEF Resume
        <3>2. status = "over"
            BY <2>1, <2>3, <3>1 DEF Honest
        <3>3. s = "over"
            BY <3>2 DEF s, Shown
        <3>4. view'.life = "over" /\ view'.link = view.link /\ view'.asks = view.asks
            BY <3>1, <3>3, AnsweredView DEF s
        <3>5. NoneAhead => NoneAhead'
            BY <3>1 DEF NoneAhead
        <3>6. QED
            BY <2>1, <3>1, <3>2, <3>4, <3>5 DEF Honest, Concluded, Active
    <2>4. CASE Cancel
        <3> DEFINE u == Stop(view)
        <3>1. u \in Views /\ u.asks = view.asks
            BY Handlers
        <3>2. view' = [u EXCEPT !.life = "cancelling", !.link = "none", !.asks = @ \cup {"cancel"}]
            BY <2>4 DEF Cancel
        <3> HIDE DEF u
        <3>3. view'.life = "cancelling" /\ view'.link = "none" /\ view'.asks = view.asks \cup {"cancel"}
            BY <3>1, <3>2 DEF Views
        <3>4. status \in {"waiting", "over"} => status' = "over"
            BY <2>4 DEF Cancel
        <3>5. QED
            BY <2>1, <3>3, <3>4 DEF Honest, Concluded, Active
    <2>5. QED
        BY <1>3, <2>2, <2>3, <2>4
<1>4. CASE Resume \/ Cancel
    BY <1>3, <1>4 DEF VInv, Resume, Cancel
<1>5. QED
    BY <1>2, <1>4 DEF User

\* What the view concluded is so, and while it shows the run under way something
\* will tell it more.
THEOREM Following == Spec => [](IInv /\ SInv /\ VInv)
<1>1. Init => IInv /\ SInv /\ VInv
    BY InitInv, InitStream, InitView
<1>2. IInv /\ SInv /\ VInv /\ [Next]_vars => (IInv /\ SInv /\ VInv)'
    <2> SUFFICES ASSUME IInv, SInv, VInv, [Next]_vars
                 PROVE  SInv' /\ VInv'
        BY NextInv
    <2>1. /\ RunOK /\ conn \in Conns /\ pipe \in Seq(Items) /\ view \in Views
          /\ Within(Len(log)) \/ Dormant
        BY DEF IInv, Within, Served, Sound, ItemsTo, Items
    <2>2. CASE Worker \/ Environment
        BY <2>1, <2>2, RunStream, RunView
    <2>3. CASE Replay
        BY <2>1, <2>3, ReplayStream, ReplayView
    <2>4. CASE Receive
        BY <2>1, <2>4, ViewStream, ReceiveView
    <2>5. CASE Break
        BY <2>1, <2>5, ViewStream, BreakView
    <2>6. CASE Ask
        BY <2>1, <2>6, ViewStream, AskView
    <2>7. CASE User
        BY <2>1, <2>7, ViewStream, UserView
    <2>8. CASE UNCHANGED vars
        BY <2>8 DEF vars, rowVars, streamVars, serverVars, viewVars, SInv, StreamOK, Working, FinishOver,
                    LastWord, Says, Sent, Ordered, Genuine, VInv, Honest, Concluded, Attended, NoneAhead
    <2>9. QED
        BY <2>2, <2>3, <2>4, <2>5, <2>6, <2>7, <2>8 DEF Next
<1>3. QED
    BY <1>1, <1>2, PTL DEF Spec

\* workbench.ts listen, _recoverFromSseRunState: a view that shows the run under way
\* has a connection, a query or a timer, for any limits and whatever fails, as long
\* as none of the four mishaps made it give up.
THEOREM ViewFollows == Spec => []FollowsUnlessLost
<1>1. VInv => FollowsUnlessLost
    BY DEF VInv, Honest, Attended, FollowsUnlessLost, Follows
<1>2. QED
    BY <1>1, Following, PTL

\* docs/SESSION_TO_CONTENT_PIPELINE.md:128: what the view shows as over or waiting is
\* so, through degraded, trimmed and expired streams, unless it is lost.
THEOREM ViewShowsTruth == Spec => []ShowsTruth
<1>1. VInv => ShowsTruth
    BY DEF VInv, Honest, ShowsTruth
<1>2. QED
    BY <1>1, Following, PTL

=============================================================================
