# Verification of ContentAI

ContentAI answers chat turns with a LangGraph agent that runs in Celery workers.
The correctness of the service rests on a durable pipeline: an API transaction
records what has to run, an outbox carries it to the broker, a worker claims it
under a lease, runs the graph from a PostgreSQL checkpoint, and writes an
outcome, while users cancel and answer confirmations, administrators disable
accounts, and a watchdog repairs what crashed. What happens is announced on a
Redis stream that a web view follows. The tools the agent calls collect hot
topics from many platforms and research a topic at two search providers, in
threads that share caches and can be cancelled; agents, their versions, sessions
and memories are rows that requests and jobs change without locks. This
directory holds TLA+ models of these parts, TLC configurations that check them on small instances, and
TLAPS proofs for instances of every size. Paths below are relative to
`apps/api/src` unless they start with `docs/` or `tests/`; `workbench.ts` is
`apps/web/src/stores/workbench.ts`.

## 1. Inventory

| Component | State | Operations | Interacts with | Correct when |
|---|---|---|---|---|
| Outbox and dispatcher (`services/dispatcher.py`) | `ExecutionOutbox` rows: status, lock holder, lock expiry, due time | claim a batch, send, mark published or retry | written by API, watchdog, administration; sends to the broker | what was requested reaches the broker, nothing is settled unsent |
| Turns (`services/conversation_service.py`) | `AgentExecution`, `ExecutionResumeRequest` | create, cancel, resume, delete, replay | outbox, runner, Redis stream | one busy execution per session, one answer under way, idempotent retries |
| Claim (`services/execution_claim.py`) | lease, owner, attempts, answer status | claim one message | broker, checkpoint store | one live lease; a claim continues what the checkpoint holds |
| Runner (`agent/runtime/runner.py`, `memory/execution_state.py`) | snapshot, fence, position | admit, start, turn, consume, park, complete, clean up, schedule | engine, state manager, postprocess | outcomes by their owner, final, cancellations honoured |
| Worker task, heartbeat, watchdog (`services/tasks.py`) | heartbeat thread; row lease | renew, recover, fail unclaimed | claims, outbox | nothing is stuck, live workers keep their execution |
| Administration (`services/admin_service.py`) | user status, roles | disable, enable, change role | executions, outbox, sessions | a disabled user's work comes to rest; one administrator remains |
| Turn engine (`agent/runtime/execution_services.py`) | stream position, messages | run a turn, check per item, persist | graph, tools, events | messages persisted once, interrupts surface |
| Agent graph (`agent/graph/*`) | messages, approval, error count | model, tools, confirm, recover | tools, checkpoint | no unconfirmed call of a protected tool; bounded loops |
| Tool execution (`agent/runtime/tool_execution.py`) | `ToolExecution` audit rows | start, time out, finish | tools, retries | side effects at most once |
| Postprocess (`AgentPostExecutionService`) | outbox row of kind postprocess, attempts | schedule, process, retry | memory, summary, title | runs at least once, never past its budget, never touches the outcome |
| Event stream (`services/event_stream.py`, `agent/runtime/events.py`) | Redis stream and sequence, degradation flag | publish, read, validate cursor | runner, SSE | no silent gap, sticky degradation |
| SSE bridge (`api/chat.py`) | bounded queue, two stop flags | produce, consume, disconnect | stream, client | both sides end |
| Agents, sessions, memory, summaries (`services/catalog_service.py`, `services/conversation_service.py`, `memory/*`) | profiles, versions, sessions, messages, the summary with its cursor, memories | create, rename, version, delete; create and delete a session; refresh a summary; upsert a memory | turns, postprocess jobs, the constraints of the tables | nothing loses what it refers to, numbers without gaps, no message is missed |
| Context window (`agent/context_window.py`) | none | trim messages to a budget | turn engine | bounded |
| Hotspots (`agent/tools/hotspots.py`, `integrations/hotspot/hotspots.py`) | the blocks of a fetch, a cache by selection of sources | select, fetch a group, ask endpoints, merge, score | platforms, scoring model, execution checks | partial failure tolerated, fair capacity, nothing cut short is cached |
| Research and search (`agent/tools/research.py`, `agent/workflows/*`, `integrations/search/search.py`) | stages of a call, circuit and caches of a provider, `ResearchPackage` rows | search, retry, merge, synthesise, persist | providers, model, execution checks | one usable provider is enough, references are grounded, calls end |
| Accounts (`services/auth_service.py`) | users, sessions, action tokens | register, verify, log in, reset | mail | tokens single use, sessions revoked |
| Web workbench (`workbench.ts`, `services/api.ts`) | lifecycle shown, connection, last sequence, timer | submit, listen, recover, poll, resume, cancel, reload | SSE, status queries | shows no false end, goes on following, learns of the end |
| Rate limiter (`core/rate_limit.py`) | windows in Redis | count a request | | windows end |

What is hard here: three stores (PostgreSQL rows, LangGraph checkpoints, Redis)
written in separate transactions; at-least-once delivery; crashes and redelivery
at every point of a run; leases against live workers; rows read before they are
locked (SQLAlchemy does not refresh a loaded object on `SELECT ... FOR UPDATE`
unless told to), so that decisions are made on stale values; user operations
that race with all of it; and tools whose threads swallow exceptions, share
process-wide dictionaries without locks, and cache what they got. `PROJECT.json` lists each such place with its line
(`hazards`) and the properties that cover it.

## 2. Modules

| Module | Models |
|---|---|
| `AtLeastOnce` | the promise of the outbox: each row is owed, sent, done or revoked |
| `Outbox` | the rows, the dispatchers, their locks, crashes and the broker |
| `OutboxProofs` | types, lock columns, and that `Outbox` implements `AtLeastOnce` |
| `ExecutionLifecycle` | executions of one session: API, claim, runner, heartbeat, watchdog, administration; uses `AtLeastOnce` as its queue |
| `ExecutionLifecycleProofs` | types, one active answer, consumed after it was applied and for good; one runner, outcomes by their owner, over for good, what a waiting row shows |
| `BoundedRetry` | the promise of background work: bounded tries, given up only when they are spent |
| `PostProcess` | the postprocess row between dispatchers, background workers and the watchdog; uses `AtLeastOnce` as its queue |
| `PostProcessProofs` | types, timestamp against status, and that `PostProcess` implements `BoundedRetry` |
| `ToolCalls` | the agent graph of one execution, its confirmations, and the audit of its tool calls |
| `ToolCallsProofs` | types, confirmation, side effects at most once, one thread per call |
| `RunEvents` | the events of one run: writer, Redis stream, replay, connection, and the view that follows |
| `RunEventsProofs` | types, no cursor ahead of the stream, the view follows unless it is lost and shows what is true |
| `Hotspots` | the calls of the hotspot tool: groups, threads, endpoints, merge, the shared cache |
| `HotspotsProofs` | types, the merge is fair and full, a call is given only what it asked for, nothing cut short is cached |
| `Research` | the calls of the research tool: both searches, the circuit, the stages, the row of the package |
| `ResearchProofs` | types, a circuit opens only when it should, stored packages are grounded |
| `Conversations` | agents, versions, sessions, summaries and memories under interleaved requests |
| `ConversationsProofs` | types, nothing loses what it refers to, summaries are true |
| `MCOutbox`, `MCLifecycle`, `MCPostProcess`, `MCToolCalls`, `MCRunEvents`, `MCHotspots`, `MCResearch`, `MCConversations` | what TLC runs |

The composition is by contract: `Outbox` is shown to implement `AtLeastOnce`,
and `ExecutionLifecycle` uses the actions of `AtLeastOnce` (`Queue!Request`,
`Queue!Send`, ...) for the execute row of each execution, so nothing of the
dispatchers has to be repeated there. `PostProcess` uses it in the same way for
the postprocess row. `ToolCalls` is the inside of a worker's turn: one leg of it
runs at a time, which is what `SingleRunner` of the lifecycle gives. `Hotspots`
and `Research` are the inside of one tool call; what they take from the lifecycle
is that an execution may be cancelled at any time, for good.

### Outbox

One action per transaction: `Claim` is the first transaction of `dispatch_once`
(its `WHERE` clause is `Claimable`, its limit `Batches`), `SendOk` and
`SendFail` the call of `send_task`, `MarkPublished` and `MarkRetry` the fenced
transactions that record the outcome. `Submit`, `Requeue` and `Revoke` are what
the other components do to a row. `LockExpires` and `BackoffEnds` are the clock,
reduced to what the comparisons distinguish. `Crash` loses what a dispatcher has
in memory.

The refinement maps a row to `done` when it is published, to `revoked` when it
is cancelled, and to `sent` when it is `publishing` and a dispatcher that still
holds its lock has sent it; otherwise it is `owed`. A takeover or a crash is a
`Forget` of the abstract specification.

### ExecutionLifecycle

`x` holds the rows of `AgentExecution`, `req` the answers
(`ExecutionResumeRequest.status`), `cp` the latest checkpoint of the session's
thread (none, open, or waiting at an interrupt), `run`
what each worker process is doing, `asked` the API requests that have read and
not yet locked, `phase` and `msgs` the outbox row and the broker.

| Code | Actions |
|---|---|
| `create_turn` | `Create` |
| `cancel_execution`, `_cancel_execution` | `AskCancel` (the read), `Cancel` (the write under the row lock, deciding on what was read) |
| `resume_execution`, `_resume_execution` | `AskResume`, `Resume` |
| `set_disabled`, `_disable_user_runtime` | `Disable` |
| `claim_execution` | `DropMessage`, `ClaimExhausted`, `ClaimDisabled`, `ClaimUnreadable`, `ClaimMismatch`, `Claim` |
| `AgentRunner.run` | `Load`, `Admit`, `Start`, `Begin`, `Check`, `ReachInterrupt`, `ReachEnd`, `TurnDone`, `Consume`, `Park`, `Complete`, `Clear`, `Schedule`; handlers `RunFails`, `CancelRun`; `Close` |
| worker process | `Crash` (message redelivered, `acks_late`), `Abort` (message acknowledged) |
| `WorkerHeartbeat._run` | `HeartbeatRead`, `HeartbeatWrite` |
| `recover_expired_executions` | `FailUnclaimed`, `RecoverLease` |
| time | `LeaseExpires`, `Age` |

A step of the runner is one transaction or one unlocked read the code acts on
later. Any step may end in `RunFails` until the attempt is recorded: also after
`waiting_input` is committed (stage `parked`) or `completed` (stage `clear`), in
which case the handlers write `failed` over the outcome.
A request carries what it read in `asked` until it writes: `Resume` leaves a
cancellation that was requested since, because the ORM writes only the columns whose
value differs from the one loaded (`Resumed`). `ensure_execution_not_cancelled` (operator `AfterCheck`) reads in a
session of its own, so its verdict may be stale when the next write happens.
The graph numbers its interrupts (`raised`) through all executions of the session,
as LangGraph's interrupt ids are unique in a thread: the checkpoint knows an
interrupt by its id alone, and the requests and rows name the same ids.
`Stalls` says whether a lease can expire under a live worker whose heartbeat
thread runs: with `FALSE` only crashed, aborted or finished workers lose theirs.

### PostProcess

One status column serves two masters: the dispatchers (`pending`, `publishing`,
`published`) and the background workers (`processing`, `completed`, `failed`).
`phase` is the first part, `work` the second, and `Take` is the passage from one
to the other. `process` is three transactions and the work between them: the
unlocked read of the execution (`Receive`), the decision under the row lock
(`Drop`, `Exhaust`, `Begin`), and the unfenced success (`Complete`) or failure
(`RecordFailure`). `Unreadable` is an exception before the attempt is counted.
Workers whose lock ran out go on, so several may be at one row. The refinement
maps the row to `none`, `open`, `completed` or `failed` and the tries to
`processing_attempts`; a success that comes after the row was given up is a
`Succeed` of the abstract specification, a second success a stutter.

### ToolCalls

`next`, `calls`, `approved` and `unused` are the checkpoint of the graph, which
is written when a node ends; `leg`, `iter`, `th` and `late` live in the worker's
process; `audit` is the table. `Agent`, `ToolError`, `AskHuman`, `Answer`,
`FinishTools` and `End` are the nodes with the routes behind them, `StartCall`,
`Act`, `Return`, `Fail` and `Timeout` one `execute_tool_call`, of which a message
makes several at once. `Die` loses a process and those of the forgotten threads
(`late`) that are its own, for legs taken over leave theirs in other processes;
`Raise` ends a leg by an exception, after which the process and the forgotten threads
live on, those too whose timeout could not be recorded.
`performed`, `faulted` and `consent` are history: what acted, what was recorded
as failed, what the user approved.

### RunEvents

`status`, `degraded` and `first` are the columns of the row the view's questions
and the replay read; `writer` is the event writer of the worker at work, `log`
and `lo` the stream, `conn` the server's thread for the view's connection and
`pipe` what it sent and the view has not received, `view` the fields of the
workbench store that decide whether it follows.

| Code | Actions |
|---|---|
| `AgentRunner.run`, `PersistentAgentEventWriter` | `Begin`, `Emit`, then `Park` or `Finish` (the commit) and `Announce` (its event); `Publish` is `_write_event` with its failures |
| `_PUBLISH_EVENT_LUA` | `Store` (append, approximate trimming), `Expire` |
| `replay_execution_events` | `Look` (the row), `Read` (check of the cursor and `XREAD`), `Unreadable` (gap, expired, Redis away: degraded for good) |
| `_event_stream_response`, `_consume_sync_events` | the tail of `Read` and `Close`: what is sent last; `Break` when it gives up |
| `listen` | `ReceiveProgress`, `ReceiveInterrupt`, `ReceiveOutcome`, `ReceiveDegraded`, `ReceiveEnd`, `Break` |
| `refreshSession` after an outcome | `AnswerTerminal`, `LoseTerminal` |
| `_recoverFromSseRunState`, `_scheduleSseRecovery`, `_startRunStatusPolling` | `AnswerRecover`, `LoseRecover`; `RecoverTimer`, `RecoverBlind`; `PollTimer` |
| `resume`, `cancelActiveRun`, `loadSession` | `Resume`, `Cancel` with `AnswerCancel`, `Reload` |
| lease recovery, claim failures, cancellation elsewhere | `Recovered`, `EndIdle` |

`lost` is history: one of four things happened after which the view stops
following and nothing brings it back but opening it again. An interrupt was
received that had been answered; a status query failed when the view knew
nothing of the run; the end of a response was dropped on a full queue; a
cancellation took longer than the view waits. `Mishaps` chooses which of the
last three may happen.

### Hotspots

A fetch goes through three groups of sources (RSS and other feeds, TikHub, AI
HOT); in a group a pool of threads asks platforms, each its endpoints in turn,
while the caller handles what is finished. Every place that checks for a
cancellation is an action of its own, because where the check raises decides who
takes the exception for a failure: a thread (`Interrupted`, `NotAnswered`), the
group's loop (`Break`, `WindUp`), the start of a group (`OpenFails`), or nobody
(`Stop`).

| Code | Actions |
|---|---|
| `fetch_hotspots` (tool) | `Ask` with `Selected` and `Ranked`, `Score` with `Rendered`, `Reply` |
| `fetch_hotspot_sources`, the cache | `Hit`, `Miss`, `NextGroup`, `Finish` |
| `_fetch_rss`, `_fetch_tikhub`, `_fetch_aihot` | `Open`, `OpenFails`, `Take`, `Break`, `GroupDone`, `WindUp` |
| a thread and its endpoints | `Asking`, `Interrupted`, `Answered`, `NotAnswered` |
| the merge, signatures, health | `Merge` (`Turns`, `Visit`, `Passed`), `Signature`, `Status` |

A candidate is identified by its `Signature` (`candidate_id` is its hash): its link
without the query or, without a link, its title. Two platforms that give one title
different search pages make two candidates of it, and when the scoring model names
both ids both are shown, as `tests/test_hotspots.py:699` wants it. `Named` is what a
sequence names of a set, each once and in its order: the platforms of a request in
each group (`Ranked`), and the ids of the model's answer (`Rendered`).

The merge is a recursive function of the turns taken. `Turn` is whose turn it is,
`Visit` what it does (skip what is there, append its first new item), `Passed` the
next turn, a round starting one platform later than the one before. As many rounds as the longest list has topics are enough; what
the code leaves out, the turns after all lists are at their end, changes nothing.

`cut` is history: a cancellation was taken for a failure somewhere in the fetch.

### Research

One process, one topic. `search` is the search of a call at a provider, from the
lookup in the caches over its attempts to the record of a failure, which reads the
count (`Fail`) and writes it (`Record`) in two steps without a lock. `call` is
the workflow: both searches, `Gathered`, the model (`Synthesised`), the unlocked
lookup of the row (`Look`) and its write (`Write`), which replaces the columns
that differ from what was read, inserts, or yields to the unique constraint. `StageOver` is the
limit of the stage, `Stop` a check that raised, `Drop` a check inside a search.
Another topic of the same process shares the circuit (`OtherFails`,
`OtherSucceeds`). `losses` is history: the failures since the last success. From
items to sources everything is an operator: `Merged` (links without query are one
source, `FirstSaid` the first field that says something), `Safe` (isolation), `Usable`,
`Cleaned` (references the model may keep).

### Conversations

Every request that changes agents or sessions is a read (`Ask...`) and a write
that only the constraints can refuse; a refresh of a summary is a read of the
summary, a read of the messages behind its cursor (`MergeMessages`) and a write
over whatever is there (`WriteSummary`). `Abandon` is a refused constraint or a
process that dies.

| Code | Actions |
|---|---|
| `create_agent`, `update_agent` | `AskAgent`, `CreateAgent`; `AskName`, `Rename` |
| `create_agent_version` | `AskVersion`, `CreateVersion` |
| `delete_agent` | `AskRemoval`, `RemoveAgent` |
| `create_session`, `delete_session` | `AskChat`, `CreateChat`; `RemoveChat` |
| `create_turn`, `_persist_success` (their messages) | `Ask`, `Reply` |
| `refresh_summary` in a turn, after it | `LoadSummary`, `RefreshLater` |
| `MemoryRepository.upsert` in a turn, after it | `Remember`, `RememberLater` |

External parts are modelled from how the code uses them: the broker delivers and
redelivers, and LangGraph writes a checkpoint before the worker sees an
interrupt or the end, resumes a pending interrupt with an answer, and raises it
again when it is continued without one.

## 3. Runs

Every `cfg` names its constants; `None` is NULL. Deadlock is not checked in the
lifecycle runs, where everything may be over and nobody asks for more.

| Run | Instance | Shows |
|---|---|---|
| `outbox` | 2 rows, 2 dispatchers, batches of 2, 1 message per row | types, lock columns, the refinement, and that what is owed is sent |
| `answers` | 1 execution, 2 workers, 3 attempts, 2 interrupts, 2 messages, resume requests | unattended: one runner, outcomes by the owner, row and checkpoint agree, what is over stays over; always: one active answer, consumed only after the checkpoint took it, consumed for good |
| `cancel` | 1 execution, 2 workers, 2 attempts, 1 interrupt, 1 message, cancel and disable | everything settles, cancellations are honoured, disabled users come to rest |
| `background` | 1 row, 3 workers, 3 attempts, 2 messages | bounded retry is implemented, timestamp and status agree, scheduled work concludes |
| `follow` | 1 reconnection, streams of 2 events, 3 events, all mishaps | the view follows unless lost, shows nothing as over or waiting that is not, never sends a cursor the stream does not know, learns of the end |
| `tools` | 3 calls of which 2 are protected and side-effecting, 2 iterations | nothing unconfirmed acts, no repetition without a recorded failure, one thread per call, legs end |
| `hotspots` | 2 calls of two accounts; a feed with 2 endpoints, 2 platforms of TikHub, AI HOT; 4 topics, 2 per source, 3 in all, pools of 2 | nothing cut short is cached, a call is given only what it asked for, the merge is fair and full |
| `research` | 2 calls of one execution, a provider with a key and one without, 2 attempts, a threshold of 2, 2 sources | stored packages are grounded, a circuit opens only when it should, calls end |
| `conversation` | 2 agents, 2 names, 1 session, 1 fact, 3 requests at a time, 3 versions, 2 messages | nothing loses what it refers to, versions are numbered without gaps, summaries are true |

Why the bounds are enough: two workers are what a race for one execution needs,
and a third would have to wait for a lease one of the two holds; three attempts
let a run crash, be taken over and crash again, and reach the limit; two
interrupts let an answer meet the interrupt after its own; two messages let a
duplicate be delivered while the first is worked on. `MaxMsgs` bounds the copies
the outbox puts into the broker (`InFlight`), redelivery comes on top.
`MaxInterrupts` bounds how often the session's graph asks. Three background workers let two
overtake one whose lock ran out, and three attempts give each of them one. Three
calls let a message mix protected and free calls and another message follow it;
legs are unbounded in number. In `follow` one reconnection passes from recovery
to polling, two events in the stream let a third trim one away, and three events
are an attempt, its interrupt and what follows. Publishing more than `MaxSeq` fails, as it
may at any time. In `hotspots` the feed has a second endpoint to fall back to, two
topics share a link but for the query and two have none, of which two platforms make
two candidates, the capacity is less than
what the platforms can offer, and the pool has room for both platforms of a group,
so that they interleave; the second account may use one platform, which the first
may ask for as well, so that both share an entry of the cache. In `research` a threshold of two is what makes a
lost update of the count possible, two attempts a retry; the provider without a key
reports nothing, which leaves the partial answer (in `single` both have a key). In
`conversation` three requests are what a race of two and a deletion needs.

What holds depends on who acts, and the properties say so. `SingleRunner`,
`OutcomeByOwner`, `WaitShowsCheckpoint` and `StaysOver` are claimed while the
session is `Unattended`, that is, before anybody cancelled, answered or disabled,
with crashes, duplicates and the watchdog in any order: afterwards TLC finds executions
of two workers, because of the stale reads listed under findings. None of the lifecycle
runs lets a lease expire under a live worker (`Stalls`). `WaitShowsCheckpoint` is
claimed for one execution of a session only; with a second one it fails, as told
below, in one way only: a late worker erases the checkpoint, and never is it at another
interrupt (theorem `WaitNeverWrong`). `OneActiveAnswer`, `ConsumedAfterApplied` and
`AnswerFinal` hold with resumptions and crashes in any order; the proofs cover all
three with every operation and with stalls.

Fairness. Live workers proceed (the time limits of the Celery task end any turn),
heartbeat threads run, `run_forever` polls, beat triggers the watchdog every 30
seconds, locks, leases and back-offs run out, the broker delivers. Strong
fairness is used where an action is enabled again and again but may be disabled
in between: sending (`Dispatch`, `SendOk`), delivery to background workers,
their decision about a row (`Look`, as a worker that cannot read it may fail again
and again, but not for ever), and claiming. In `tools` nodes run, calls start
and time out; that also stands for the time limit of the Celery task where a
cooperative tool has none of its own. Nobody is bound to take over a leg or to
answer. In `follow` the server's thread, what it sent, the
queries and the timers go on as long as one of them can, and the queries after a
cancellation end; workers, the stream and the user are under no fairness. In
`research` the threads of a call are scheduled and the limits of its stages pass
(`Work`); no provider and no model is bound to answer. Users, crashes and
stalls are under no fairness: a property may not rely on them, and they may
happen up to their bounds at any time. Crashes are bounded only through the
attempt budget, as in the code.

### Findings

Each of these runs checks one statement of the documentation or the tests and
finds a behaviour of the code that contradicts it.

| Run | Statement | What happens |
|---|---|---|
| `parallel` | one busy execution per session (`docs/SESSION_TO_CONTENT_PIPELINE.md:70`) | a cancel that read `pending` overwrites a started run; the next turn is accepted while the worker goes on |
| `resumed` | the view follows the run and learns of its end (`docs/SESSION_TO_CONTENT_PIPELINE.md:128`, `docs/API.md:50`) | after an answer the replay starts at 0 and brings the answered interrupt, on which the view closes its connection; it shows a run under way that nothing follows |
| `single` | one usable result of one provider is enough for a package (`docs/PRODUCT.md:32`, `docs/SESSION_TO_CONTENT_PIPELINE.md:113`) | while the other provider stays silent the limit of the stage passes first, and the answer that was there is lost with the stage |

Other behaviour seen while modelling has no run of its own.
A worker that claimed an execution before its user was disabled, and
had not started it, is seen as queued by `_disable_user_runtime`; it then
sets `running` on what disabling cancelled and runs to its outcome, although
`docs/PRODUCT.md:64` says that a disabled user's work is not started
(`DisabledComesToRest` holds: the outcome comes). And the fence of a runner is read from the row
when it loads the execution, not taken from its claim, so that a worker that lost
its lease in between takes its successor's id for its own; this needs a lease to
expire under a live worker (`Stalls`). What fails after the commit of `completed`,
or the check that follows it when a cancellation was decided on a stale read, has
the handlers write `failed` or `cancelled` over the outcome; `StaysOver` allows one
outcome to replace another and says that the execution does not run again. A crash
between the commit of `completed` and the creation of the postprocess row leaves none for good, since the watchdog
looks only at rows that exist (`docs/DESIGN.md:44` promises one). The claim
deadline of the watchdog counts from the creation of an execution, so one that is
published late may be failed as unclaimed right after (`docs/DESIGN.md:34`).

A worker that crashes after the graph reached the next interrupt and before it
consumed the answer to the last is not replaced: the next claim finds the checkpoint
at another interrupt than the answer's own and fails the execution (`docs/DESIGN.md:51` says it can be replaced).
A retry continues whatever checkpoint the thread of the session has, which
may be that of an earlier, failed execution (`docs/DESIGN.md:10` says that
the two are verified to belong together), and a slow worker that clears the
checkpoint of a completed turn may erase the one the next turn has begun
(`agent/runtime/runner.py:155`); both are why `WaitShowsCheckpoint` is claimed for
one execution. A worker whose execution was cancelled may still write a
checkpoint after its session was deleted.

Of the tools: a failed search is copied from Redis into the process with the time to live of a
success (`integrations/search/search.py:132`). A check that fails for a moment inside a
fetcher of hotspots makes that group or platform fail, and the degraded result is
cached like a full one for up to three minutes (`CutNeverCached` is about
cancellations, which the last check sees). Topics without a link from those TikHub
platforms whose search page has the title in its query collapse into one
candidate. Three calls for one topic may leave a research row whose sources come
from one call and whose references from another (`research_repository.py:70`),
each of which is grounded by itself.

Of the rows: two requests for a new version of an agent compute the same number, and
the second one's constraint error is not handled as others are
(`catalog_service.py:145`). Two refreshes that create the first summary of a session
collide in the same way, which may fail a turn. Of a stream of message parts,
`_message_text_delta` (`agent/runtime/execution_services.py:1367`) drops true
increments that repeat the end of what came before.

Of the view: when a worker dies, or its writer is silent, between the commit of
`waiting_input` and the event that announces it, the view shows a running run on
an open connection, and the user learns that an answer is due only by opening the
page again; the interrupt is not repeated. A cancellation that takes more than
five seconds leaves the view at `cancelling`. Redis is configured with a
per-second fsync, so that a restart may forget the last events; a cursor is then
ahead of the stream, and the view takes the refusal for a failed run. This is
outside the model, in which Redis keeps what it accepted until it expires.

## 4. Proofs

`OutboxProofs`, for any rows, dispatchers and batch size. The inductive
invariant `Inv` is `TypeOK`, `LocksMatchStatus` and `DispatcherInv`: a dispatcher
that has to record an outcome knows for which row, and only submitted rows are
in anybody's hands. It is needed because the fence of a mark tells that the row
is still locked, and so what the lock columns are before they are cleared. With
it every action is shown to be a step of `AtLeastOnce` or to leave its variables
alone (`StepRefines`), which gives `Refinement`.

`ExecutionLifecycleProofs`, first part, for any executions, workers, limits, user operations
and stalls. `IInv` is `TypeOK`, `OneActiveAnswer` and `JobHasExecution` (a worker
that is busy, or whose heartbeat thread runs, has an execution). The last is
needed because a worker writes to the row of its job. `OneActiveAnswer` is
preserved because only `Resume` creates an answer and it looks for active ones
under the row lock, while `Claim` and `Consume` move one along. `AnswerFinal`
follows: the latest active answer is not a consumed one, so a claim never
touches a consumed answer, and a resume is refused by the unique constraint.

`ConsumedAfterApplied` needs `AInv`. `KnownInterrupts` says that nothing names an
interrupt the graph has not raised, so that a new one cannot be the one of an old
answer. `LeftBehind` says of a worker that works for an answer: once it is in the
graph, or if the claim found the checkpoint past the interrupt, the checkpoint is
no longer at the interrupt it answers. It is needed because the row of the answer says
nothing of the checkpoint, which another worker may move. The argument is the numbering: the
checkpoint only comes to an interrupt by a new number, so what was left behind is
left for good, also with two workers at one answer.

Its second part is for lifecycles in which nobody cancels and leases do not expire
under live workers (`Quiet`), with any number of executions, workers, crashes,
duplicates, answers and disabled accounts. Cancellation is out because `Unattended`
may come back after it: a worker that is under way writes over the cancelled row, and
nothing tells any more that two executions were busy. `RInv` is `Calm` (the consequences of that for
what workers have been told), until the account is disabled, and, while the session is `Unattended`, `Leased`:
`JobTrue` (while a worker's heartbeat thread runs, the lease is live and its own, a
worker in the graph has a running row, one on its way out a completed one),
`NotYet` (no message of an execution that does not exist) and `OneBusyExecution`.
The lease is what separates two workers: a claim of a running row needs it
expired, and it expires only when the heartbeat thread is gone, which a live
worker stops only when the row is over. `OneBusyExecution` carries this from one
execution to all of a session. Since `Unattended` is lost for good
(`StaysAttended`), nothing has to be known of what comes after. From `RInv` follow `OneRunner`,
`OwnersOutcome` and `OverForGood`.

Its third part is about what a waiting row shows. `Waits` says, while unattended, that
no worker has an answer and that the interrupt a worker is about to show, or a
waiting row shows, is the one the checkpoint waits at (`Shown`). Between the two
writes, in two stores, only `RInv` keeps others away from the checkpoint: the worker
is the only one in a turn, and the only busy execution of the session is its own.
What `RInv` does not exclude is a late worker of an execution that is completed,
which clears the checkpoint. With one execution (`Single`) there is none beside a waiting row, which gives
`WaitTrue`; with several the checkpoint may be erased, and that is all that may
happen to it (`WaitNeverWrong`).

`PostProcessProofs`, for any executions, workers and budgets. `IInv` is `TypeOK`,
`DoneIsCompleted`, `OneStatus` (a row the dispatchers see has no processing
status, and the other way round), `JobSound` (who works does so for a row
that exists, and work that may complete was counted) and `MsgsSound` (messages exist only for
rows that were scheduled). They are needed to see that a late `Complete` finds a
positive number of tries, and that a failure recorded by an overtaken worker
reopens only what the abstract specification still calls open.

`ToolCallsProofs`, for any calls, policies and iteration limits. `IInv` is
`TypeOK`, `OneThread`, `NextConfirmed` (when the tools node is next, its
protected calls are approved), `ActsConfirmed` (so is every call that acted or
still may), `AuditTrue` (while a thread may act or is to be recorded, the row of a
side-effecting call says `running`; every failure the audit shows is remembered)
and `ActsOnce` (without a recorded failure a call acted at most once, and not at
all while it still may). `NothingUnconfirmed`
needs the checkpoint part because a leg takes the tools node from there.

`RunEventsProofs`, for any limits and mishaps. `IInv` says that the view, its
connection and everything on the way to it hold sequence numbers `Within` the
stream, or that the run is `Dormant`: the stream is gone, the run waits or is
over, and no writer is there to start a new one. It is needed because numbers
start from one again after an expiry: only an answer wakes a waiting run, and the view
forgets its sequence when it sends one. The bound is a parameter, so that one
lemma serves for the types (with `MaxSeq`) and for the stream (with its length).

Its second part is about what the view makes of it. `SInv` is about the run: a
worker before its outcome has a row that says `running`, the last event is in the stream only when
the row is over, and no progress follows it; what is on the way is in the stream, in order
and before the cursor of who sends more. `VInv` is about the view, as long as it is
not lost. What it concluded is so; a view that has closed because of the outcome has nothing ahead of it
that would make it show a run under way (`NoneAhead`); and while it shows one it is
`Attended`: by its connection, a timer, or a query other than the one that follows
an outcome, since that one's answer does not start a timer. `Attended` is stronger
than `Follows` and is what the handlers really keep. `FollowsUnlessLost` and
`ShowsTruth` follow from `VInv`.

`HotspotsProofs`, for any calls, platforms, reports and limits. Most of it is about
the merge, a recursive function. The library's induction rules take an operator and
are of no use here; `SetInduction` is induction for a set of numbers, which follows
from the least element of its complement, and from it `Recursion` gets the values
of a function defined by recursion. `MergeInv` is the invariant of the merge after `i` turns: the
candidates are new items of the platforms, each once (`Sourced`), with the signature
their platform gives them and among the platforms that report them (`Attributed`); what was passed over
in a list is among them (`Covered`); and there is a number of rounds such that each
platform has brought as many candidates as it had turns, or its list is at its end
(`Counted`). `MergeStarts` and `MergeAdvances` are the two steps of the induction, and
`MergeFair` draws the conclusion: a merge that is not full has had so many rounds that every list is at
its end. `HInv` then says of each call that its result is made of its sources, is such a
merge when the call fetched it itself, and is what the agent is shown a part of, each
candidate once; its order has each selected platform once (`RankedOrder`); and
of the cache that what is under a key is of the sources of the key. From it follow
`TypeOK`, `OnlyWanted` and `FairMerge`.

Its last part is about cancellations. `CutCancelled` says that a
check was swallowed only when the execution is cancelled. It is needed because
the last check before the cache then fails as well; without it a cached result
could have been cut short. It needs next to nothing of the types (`Shape`),
since the flag is the only part of a call it looks at.

`ResearchProofs`, for any calls, providers, answers and thresholds, in three parts. For the
circuit, `CountEarned` and `SeenEarned` say that neither the count nor what a
thread is about to write exceeds the failures since the last success: a
success orphans the readers, so that an old count is not written into the
new state, and a lost update only makes the count smaller. For the rows,
`PackageSound` says that what a call carries is grounded, and `Sound` that each column of
a row, and of a row that was seen, comes from a call that is done; it is needed
because a write may leave a column as it is found. For the types, `TInv` adds to them
that a row which a call has seen is still there, since a write replaces columns of
it. That what the searches report becomes a set of sources is shown through
`FlattenType` (the reports one after the other, by induction on their number)
and `FirstSaidType`.

`ConversationsProofs`, for any agents, sessions, names and requests. `WorkSound` is
what of a read is still true when it is acted upon: a number to be inserted is at
most one more than there are versions, a version to be referred to exists as
long as its agent does, a summary that was read is a prefix of what was said.
`NothingLeft` (a deleted session has neither messages nor a summary) is needed
because identifiers are drawn before the row is inserted.

Assumptions are those of the modules: `OutboxAssumption`, `LifecycleAssumption`,
`PostProcessAssumption`, `ToolCallsAssumption`, `RunEventsAssumption`,
`HotspotsAssumption`, `ResearchAssumption` and `ConversationsAssumption` (NULL is nobody's id, limits are
positive, protected and side-effecting calls are calls, the scoring model names ids or nothing known),
`Quiet` for the second and third part of the lifecycle, and `Single` for `WaitTrue`.
The run `answers` (one execution, answers, no stalls) satisfies both.

Model-checked only: the liveness properties (`OwedIsSent`, `Settles`,
`CancelHonoured`, `DisabledComesToRest`, `Concludes`, `LegEnds`, `LearnsOver`,
`Ends`), which are beyond the prover. Every invariant and every action property of
a run that passes is a theorem for every value of the constants, those of the second
and third part of the lifecycle for every value that `Quiet` allows. `OneBusyExecution`
is false in general (run `parallel`), and proved under `Quiet` as a part of `RInv`.

## 5. Abstractions

- Payloads, prompts, messages, events, error texts and the attempt ledger are
  left out of the lifecycle: no step modelled here depends on them, except the
  checks on which interrupt an answer is for.
- Time appears as live or expired leases and locks, due or not, and the age of
  an execution relative to the claim deadline. The freshness of `heartbeat_at`
  that the admission looks at may go either way.
- `close` waits two seconds for the heartbeat thread; this is taken to be enough
  for a renewal in progress.
- A check that fails to reach the database, or any other exception in the try
  block of `run`, is `RunFails` at any step of it; an exception that leaves the
  task is `Abort`.
- What `Resume` leaves alone is kept for the request to cancel and the error. The
  owner, claim time and lease of a row that waits are taken to be set when it is read
  and cleared by the answer, as those of every row that a worker made wait are. A
  row cancelled on a stale read keeps its `interrupt_payload`; no step looks at it.
- The tool-call hash of an answer is part of the interrupt's identity.
- `PostProcess` schedules a row once. `schedule` also puts an existing row back to
  pending, without a lock; for that an execution has to complete twice, which
  takes a lease that expires under a live worker.
- `ToolCalls` has one leg at a time; the branch of `_start_audit` for an insert
  that lost a race is then not reached. Tools do not interrupt the graph
  themselves (none of the registered ones does). Tool call ids are unique within
  an execution, as the audit's unique constraint assumes. A call that failed is
  repeated when its node runs again, also when it had acted before it failed:
  `RepeatedOnlyAfterFailure` says exactly that much.
- The model's answer is any set of unused calls; a broken model stream that is
  retried before it returns leaves no trace.
- `RunEvents` has one view with one connection at a time, and one worker with a
  writer. A query is answered with the row at one moment; the query of a timer's poll
  and what the poll does with the answer are one step, while in the code
  (`workbench.ts:1273`) the view may be told something in between, at which it starts
  no timer, as the one that fired still counts, and which cannot stop the poll. Apart,
  the two steps would have the liveness of `follow` checked on graphs several times as
  large, for which its streams would have to be too short to hold the events of
  a resumed run. The user answers an
  interrupt after the refresh that follows it. The check of a cursor and `XREAD`
  are one step. Streams expire only while the run waits or is over and nothing is
  on its way to the view, since the time to live is hours. Events of an attempt
  before its outcome are one `progress`; events received twice have no further
  effect on what the model keeps. The database answers the replay: if it does
  not, the error reaches the view, which takes it for a failed run until its
  refresh.
- `Hotspots` and `Research`: the cache in the process and the one in Redis are
  one, which holds an answer or does not (where they differ is told under findings).
  Time is not modelled: providers may be silent, limits may pass and entries expire
  at any moment. What is read from a feed or an answer is the list of items; its
  formats, dates and ranks are left out. The title of a search result counts as one
  of its text fields, and the `ok` flags of answers, which are only reported, are
  dropped. The id of a candidate, a hash of its signature, is the signature.
- `Conversations`: identifiers are used once. Messages are ordered as they are
  committed (`created_at` is set before the commit; a summary's cursor would miss a
  message committed later with an earlier time, which needs two turns of one session
  at once). The text of a summary is cut to a length; the model keeps what it was
  made from. Memories are keys: their text is replaced as a whole. A session is
  deleted only when it has no busy execution, which is the lifecycle's business.
- Enabling a user again is not modelled: the lifecycle instance ends with the
  disabled user.

## 6. Not modelled, and plan

Left out for good: the usage metering (callbacks that add up numbers nobody
reads), the runtime container (a cache of compiled graphs), table definitions and
migrations, request parsing, mail, probes and scripts. The rate limiter is one
counter per window; what could go wrong there is a crash between two commands, after which the
window has no end (`core/rate_limit.py:36`, listed as a hazard). The context window is a pure function of
the messages and a budget.

In the order of their weight for the system:

1. `Accounts`: sessions, action tokens, lock-out, the guard on the last
   administrator.
2. `SseBridge`: the two sides of a response, its queue, and how both end.
3. Idempotency keys of turns, deletion of a session against creation of a turn.
4. Scheduling a postprocess row that exists, once two workers can complete.
5. Theorems: what of the second part of the lifecycle survives cancellations and leases
   that expire; what holds of the view of a resumed run.
