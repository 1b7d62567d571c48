------------------------------- MODULE Research -------------------------------
(***************************************************************************)
(* The prepare_topic_research tool, for one topic in one worker process:   *)
(*   agent/tools/research.py, search.py       the tools and their checks   *)
(*   integrations/search/search.py            caches, retries, circuit     *)
(*   core/json_cache.py                       the cache in Redis           *)
(*   agent/workflows/deep_research.py         the stages and their limits  *)
(*   agent/workflows/research_repository.py   the package's row            *)
(*                                                                         *)
(* A call asks both providers at the same time, in an event loop of its    *)
(* own, waits for both, merges what they report, has a model write the     *)
(* package and stores it.  Calls run in threads and share the caches and   *)
(* the circuit breaker of a provider; the row of a package is shared by    *)
(* the calls of an execution.                                              *)
(*                                                                         *)
(* Time is not modelled: a provider may stay silent as long as it wants,   *)
(* the limit of the stage may pass whenever a search is not finished, and  *)
(* a cached answer may expire whenever it is there.                        *)
(***************************************************************************)
EXTENDS Integers, Sequences, FiniteSets, SequencesExt

CONSTANTS Calls,       \* calls of the tool with the topic
          Execution,   \* the execution of a call
          Order,       \* the providers, in the order their answers are merged
          Keyed,       \* whether there is an API key, by provider
          Links,       \* the links providers may report
          Canonical,   \* a link without its query
          Unsafe,      \* links that must not be cited (no public web host)
          Answers,     \* bound: the lists of items a provider may report
          References,  \* bound: the sources the model may refer to
          Tries,       \* HTTP_RETRY_ATTEMPTS + 1
          Threshold,   \* CIRCUIT_FAILURE_THRESHOLD
          MaxSources,  \* MAX_RESEARCH_SOURCES
          None         \* NULL

Providers == {Order[i] : i \in DOMAIN Order}
Executions == {Execution[c] : c \in Calls}
Ids == {Canonical[u] : u \in Links}

\* What a field of an item holds: nothing, text, or text that looks like a
\* command to the model.
Text == {"none", "text", "command"}
Item == [url : Links, snippet : Text, summary : Text]

ASSUME ResearchAssumption ==
    /\ Order \in Seq(Providers)
    /\ Keyed \in [Providers -> BOOLEAN]
    /\ Unsafe \subseteq Links
    /\ Answers \subseteq Seq(Item) /\ <<>> \in Answers
    /\ References \subseteq SUBSET Ids
    /\ Tries \in Nat \ {0} /\ Threshold \in Nat \ {0} /\ MaxSources \in Nat \ {0}

VARIABLES
    call,       \* what each call is doing
    search,     \* the search of a call at a provider
    cache,      \* _RESULT_CACHE and SharedJsonCache("search"): the answer of a provider
    circuit,    \* _CIRCUIT_STATE of a provider
    losses,     \* history: searches it failed since the last success
    rows,       \* the ResearchPackage of an execution for the topic
    cancelled   \* executions that are cancelled, or leased to another worker

netVars == <<cache, circuit, losses>>
vars == <<call, search, cache, circuit, losses, rows, cancelled>>

------------------------------------------------------------------------------
(* From items to sources *)

\* Items with the same link but for the query are one source, where the first is.
Firsts(items) ==
    {i \in DOMAIN items : \A j \in 1 .. i - 1 : Canonical[items[j].url] # Canonical[items[i].url]}

\* The items of the source of the i-th that say something in a field.
Saying(items, i, field) ==
    {j \in DOMAIN items : /\ Canonical[items[j].url] = Canonical[items[i].url]
                          /\ items[j][field] # "none"}

\* A field of a source is that of the first item that says anything.
FirstSaid(items, i, field) ==
    LET saying == Saying(items, i, field)
    IN  IF saying = {} THEN "none" ELSE items[Min(saying)][field]

\* dedupe_sources, and the first MaxSources of what it returns.
Merged(items) ==
    LET kept == {i \in Firsts(items) : Cardinality({j \in Firsts(items) : j <= i}) <= MaxSources}
    IN  {[id      |-> Canonical[items[i].url],
          url     |-> items[i].url,
          snippet |-> FirstSaid(items, i, "snippet"),
          summary |-> FirstSaid(items, i, "summary")] : i \in kept}

Commanding(s) == "command" \in {s.snippet, s.summary}

\* _safe_source: a source with a command in it keeps its link and nothing else.
Safe(s) == [id       |-> s.id,
            url      |-> s.url,
            snippet  |-> IF Commanding(s) THEN "none" ELSE s.snippet,
            summary  |-> IF Commanding(s) THEN "none" ELSE s.summary,
            isolated |-> Commanding(s)]

Source == [id : Ids, url : Links, snippet : Text, summary : Text, isolated : BOOLEAN]

SafeSources(items) == {Safe(s) : s \in {x \in Merged(items) : x.url \notin Unsafe}}

\* The sources of what the providers reported.
SourcesOf == [reports \in [Providers -> Answers] |->
                 SafeSources(FlattenSeq([i \in DOMAIN Order |-> reports[Order[i]]]))]

\* The sources the model is given and may refer to.
Usable(sources) ==
    {s \in sources : ~s.isolated /\ {s.snippet, s.summary} # {"none"}}

\* Mutant: references to any source of the package are kept.
CleanedAgainstAll(sources, refs) == refs \cap {s.id : s \in sources}

\* _validate_package_references.
Cleaned(sources, refs) == refs \cap {s.id : s \in Usable(sources)}

------------------------------------------------------------------------------
Package == [sources : SUBSET Source, refs : SUBSET Ids]

Search == [st    : {"lookup", "asking", "failing", "done", "cut"},
           tries : 0 .. Tries,
           seen  : 0 .. Threshold \cup {None},   \* the count of failures _record_failure has read
           items : Answers]

Circuit == [failures : 0 .. Threshold,           \* up to the threshold
            open     : BOOLEAN]                  \* opened_until is not over
Closed == [failures |-> 0, open |-> FALSE]

Ended == {"noResults", "timedOut", "stopped", "failed", "done"}

Call == [pc      : {"idle", "search", "synth", "persist", "write"} \cup Ended,
         package : Package,
         seen    : Package \cup {None}]          \* the row when it was looked up

TypeOK ==
    /\ call \in [Calls -> Call]
    /\ search \in [Calls -> [Providers -> Search]]
    /\ cache \in [Providers -> Answers \cup {None}]
    /\ circuit \in [Providers -> Circuit]
    /\ losses \in [Providers -> 0 .. Threshold]
    /\ rows \in [Executions -> Package \cup {None}]
    /\ cancelled \subseteq Executions

NewCall == [pc |-> "idle", package |-> [sources |-> {}, refs |-> {}], seen |-> None]
NewSearch == [st |-> "lookup", tries |-> 0, seen |-> None, items |-> <<>>]

Init ==
    /\ call = [c \in Calls |-> NewCall]
    /\ search = [c \in Calls |-> [p \in Providers |-> NewSearch]]
    /\ cache = [p \in Providers |-> None]
    /\ circuit = [p \in Providers |-> Closed]
    /\ losses = [p \in Providers |-> 0]
    /\ rows = [e \in Executions |-> None]
    /\ cancelled = {}

At(c, pc) == call[c].pc = pc
Clear(c) == Execution[c] \notin cancelled
Becomes(c, new) == call' = [call EXCEPT ![c] = new]

\* The runtime's check passes only while the execution is not cancelled; it may
\* raise at any time, because it reads the database.
Start(c) ==
    /\ At(c, "idle") /\ Clear(c)
    /\ Becomes(c, [call[c] EXCEPT !.pc = "search"])
    /\ UNCHANGED <<search, netVars, rows, cancelled>>

------------------------------------------------------------------------------
(* One search: the caches, the circuit, the attempts *)

Searching(c, p, st) == At(c, "search") /\ search[c][p].st = st

Found(s, items) == [s EXCEPT !.st = "done", !.seen = None, !.items = items]

\* The answer is kept, in the process and in Redis.
Store(c, p, items) ==
    /\ search' = [search EXCEPT ![c][p] = Found(@, items)]
    /\ cache' = [cache EXCEPT ![p] = items]

\* Found in the process, or in Redis and copied into the process, whatever it is.
Cached(c, p) ==
    /\ Searching(c, p, "lookup") /\ cache[p] # None
    /\ search' = [search EXCEPT ![c][p] = Found(@, cache[p])]
    /\ UNCHANGED <<call, netVars, rows, cancelled>>

Ask(c, p) ==
    /\ Searching(c, p, "lookup") /\ cache[p] = None /\ Keyed[p] /\ ~circuit[p].open
    /\ search' = [search EXCEPT ![c][p].st = "asking", ![c][p].tries = 1]
    /\ UNCHANGED <<call, netVars, rows, cancelled>>

\* Without a key or with an open circuit nobody is asked.
Refuse(c, p) ==
    /\ Searching(c, p, "lookup") /\ cache[p] = None /\ (~Keyed[p] \/ circuit[p].open)
    /\ Store(c, p, <<>>)
    /\ UNCHANGED <<call, circuit, losses, rows, cancelled>>

\* Mutant: a success resets the count where it is.
ResetInPlace(p) == search

\* A failure being recorded by another thread goes to a state nobody has any more.
Orphaned(p) == [d \in Calls |-> [search[d] EXCEPT ![p].seen = None]]

\* _record_success.
Close(p) ==
    /\ circuit' = [circuit EXCEPT ![p] = Closed]
    /\ losses' = [losses EXCEPT ![p] = 0]

\* The provider answers; what cannot be read counts as nothing found.
Answered(c, p, items) ==
    /\ Searching(c, p, "asking")
    /\ Close(p)
    /\ search' = [Orphaned(p) EXCEPT ![c][p] = Found(@, items)]
    /\ cache' = [cache EXCEPT ![p] = items]
    /\ UNCHANGED <<call, rows, cancelled>>

\* Mutant: an attempt too many.
RetryAlways(c, p) ==
    /\ Searching(c, p, "asking") /\ search[c][p].tries <= Tries
    /\ search' = [search EXCEPT ![c][p].tries = @ + 1]
    /\ UNCHANGED <<call, netVars, rows, cancelled>>

\* An attempt fails or is answered with an error, and another follows.
Retry(c, p) ==
    /\ Searching(c, p, "asking") /\ search[c][p].tries < Tries
    /\ search' = [search EXCEPT ![c][p].tries = @ + 1]
    /\ UNCHANGED <<call, netVars, rows, cancelled>>

\* The deadline of the search passes before another attempt: no failure is recorded.
TooLate(c, p) ==
    /\ Searching(c, p, "asking") /\ search[c][p].tries > 1
    /\ Store(c, p, <<>>)
    /\ UNCHANGED <<call, circuit, losses, rows, cancelled>>

Counted(n) == IF n < Threshold THEN n + 1 ELSE n

\* The last attempt fails: _record_failure reads the count ...
Fail(c, p) ==
    /\ Searching(c, p, "asking") /\ search[c][p].tries = Tries
    /\ search' = [search EXCEPT ![c][p].st = "failing", ![c][p].seen = circuit[p].failures]
    /\ losses' = [losses EXCEPT ![p] = Counted(@)]
    /\ UNCHANGED <<call, cache, circuit, rows, cancelled>>

\* ... and writes it, without a lock against the other threads.
Record(c, p) ==
    /\ Searching(c, p, "failing")
    /\ IF search[c][p].seen = None THEN UNCHANGED circuit
       ELSE LET n == Counted(search[c][p].seen)
            IN  circuit' = [circuit EXCEPT ![p] = [failures |-> n,
                                                   open |-> @.open \/ n = Threshold]]
    /\ Store(c, p, <<>>)
    /\ UNCHANGED <<call, losses, rows, cancelled>>

\* The check around a search raised, or the run lacks the tool: the provider
\* counts as one that reported nothing.
Drop(c, p) ==
    /\ \/ Searching(c, p, "lookup")
       \/ Searching(c, p, "done") /\ search[c][p].items # <<>>
    /\ search' = [search EXCEPT ![c][p] = Found(@, <<>>)]
    /\ UNCHANGED <<call, netVars, rows, cancelled>>

------------------------------------------------------------------------------
(* The workflow *)

Done(c) == \A p \in Providers : search[c][p].st = "done"

\* The event loop of the call is not in the middle of _record_failure.
Idle(c) == \A p \in Providers : search[c][p].st # "failing"

Sources(c) == SourcesOf[[p \in Providers |-> search[c][p].items]]

Cut(s) == IF s.st = "done" THEN s ELSE [s EXCEPT !.st = "cut"]

\* The stage is left early: its searches are cancelled, and leave no trace.
Leave(c, pc) ==
    /\ Becomes(c, [call[c] EXCEPT !.pc = pc])
    /\ search' = [search EXCEPT ![c] = [p \in Providers |-> Cut(search[c][p])]]
    /\ UNCHANGED <<netVars, rows, cancelled>>

\* Mutant: the limit does not end a request that waits for its provider.
StageOverBetween(c) ==
    /\ At(c, "search") /\ Idle(c) /\ ~Done(c)
    /\ \A p \in Providers : search[c][p].st # "asking"
    /\ Leave(c, "timedOut")

\* The limit of the stage passes before both are done.
StageOver(c) ==
    /\ At(c, "search") /\ Idle(c) /\ ~Done(c)
    /\ Leave(c, "timedOut")

\* A check raises, between the stages or while one is waited for.
Stop(c) ==
    /\ call[c].pc \in {"search", "synth", "persist"} /\ Idle(c)
    /\ Leave(c, "stopped")

Gathered(c) ==
    /\ At(c, "search") /\ Done(c) /\ Clear(c)
    /\ Becomes(c, [call[c] EXCEPT
                     !.pc = IF Usable(Sources(c)) = {} THEN "noResults" ELSE "synth"])
    /\ UNCHANGED <<search, netVars, rows, cancelled>>

\* The model writes a package with references; those it invents are removed.
Synthesised(c, refs) ==
    /\ At(c, "synth") /\ Clear(c)
    /\ Becomes(c, [call[c] EXCEPT !.pc = "persist",
                                  !.package = [sources |-> Sources(c),
                                               refs |-> Cleaned(Sources(c), refs)]])
    /\ UNCHANGED <<search, netVars, rows, cancelled>>

\* It fails, writes nothing valid, or takes too long.
NotSynthesised(c) ==
    /\ At(c, "synth")
    /\ Becomes(c, [call[c] EXCEPT !.pc = "failed"])
    /\ UNCHANGED <<search, netVars, rows, cancelled>>

\* ResearchPackageRepository.persist looks for a row of the execution and topic ...
Look(c) ==
    /\ At(c, "persist") /\ Clear(c)
    /\ Becomes(c, [call[c] EXCEPT !.pc = "write", !.seen = rows[Execution[c]]])
    /\ UNCHANGED <<search, netVars, rows, cancelled>>

Stored(c, row) ==
    /\ rows' = [rows EXCEPT ![Execution[c]] = row]
    /\ Becomes(c, [call[c] EXCEPT !.pc = "done", !.seen = None])
    /\ UNCHANGED <<search, netVars, cancelled>>

\* Of a row that is there, the columns whose value differs from what was read.
Replaced(c, row) ==
    LET new == call[c].package
        seen == call[c].seen
    IN  [sources |-> IF new.sources = seen.sources THEN row.sources ELSE new.sources,
         refs    |-> IF new.refs = seen.refs THEN row.refs ELSE new.refs]

\* ... and replaces or inserts it; if another call has inserted one in between,
\* the unique constraint refuses, and the other's row is the package.
Write(c) ==
    LET row == rows[Execution[c]]
    IN  /\ At(c, "write")
        /\ Stored(c, IF call[c].seen # None THEN Replaced(c, row)
                     ELSE IF row = None THEN call[c].package ELSE row)

------------------------------------------------------------------------------
(* The environment *)

Cancel(e) ==
    /\ e \notin cancelled
    /\ cancelled' = cancelled \cup {e}
    /\ UNCHANGED <<call, search, netVars, rows>>

Expire(p) ==
    /\ cache[p] # None
    /\ cache' = [cache EXCEPT ![p] = None]
    /\ UNCHANGED <<call, search, circuit, losses, rows, cancelled>>

\* The circuit is let through again, with its count.
Cool(p) ==
    /\ circuit[p].open
    /\ circuit' = [circuit EXCEPT ![p].open = FALSE]
    /\ UNCHANGED <<call, search, cache, losses, rows, cancelled>>

\* A search for another topic in the process fails or succeeds.
OtherFails(p) ==
    /\ Keyed[p]
    /\ circuit' = [circuit EXCEPT ![p] = [failures |-> Counted(@.failures),
                                          open |-> @.open \/ Counted(@.failures) = Threshold]]
    /\ losses' = [losses EXCEPT ![p] = Counted(@)]
    /\ UNCHANGED <<call, search, cache, rows, cancelled>>

OtherSucceeds(p) ==
    /\ Keyed[p]
    /\ Close(p)
    /\ search' = Orphaned(p)
    /\ UNCHANGED <<call, cache, rows, cancelled>>

\* What a worker does without an answer from outside.
Work(c) ==
    \/ ~Clear(c) /\ Stop(c)
    \/ StageOver(c) \/ Gathered(c) \/ NotSynthesised(c) \/ Look(c) \/ Write(c)
    \/ \E p \in Providers :
        Cached(c, p) \/ Ask(c, p) \/ Refuse(c, p) \/ Record(c, p)

Next ==
    \/ \E c \in Calls :
        \/ Start(c) \/ Work(c) \/ Stop(c)
        \/ \E refs \in References : Synthesised(c, refs)
        \/ \E p \in Providers :
            \/ Retry(c, p) \/ TooLate(c, p) \/ Fail(c, p) \/ Drop(c, p)
            \/ \E items \in Answers : Answered(c, p, items)
    \/ \E e \in Executions : Cancel(e)
    \/ \E p \in Providers : Expire(p) \/ Cool(p) \/ OtherFails(p) \/ OtherSucceeds(p)

\* Threads are scheduled, and the limits of the stages pass.
Fairness == \A c \in Calls : WF_vars(Work(c))

Spec == Init /\ [][Next]_vars /\ Fairness

------------------------------------------------------------------------------
(* Properties *)

\* The sources whose text a call gave to its model.
Given(c) == {s.id : s \in {x \in call[c].package.sources :
                              ~x.isolated /\ ~Commanding(x) /\ {x.snippet, x.summary} # {"none"}}}

\* What is stored of a topic comes from calls of its execution: it refers only to
\* sources whose text the model of such a call was given, cites no unsafe link and
\* shows nothing of a source that was isolated, however calls overtake each other.
Grounded ==
    \A e \in Executions : rows[e] # None =>
        /\ \E c \in Calls : Execution[c] = e /\ rows[e].sources = call[c].package.sources
        /\ rows[e].refs \subseteq UNION {Given(c) : c \in {d \in Calls : Execution[d] = e}}
        /\ \A s \in rows[e].sources : s.url \notin Unsafe /\ ~Commanding(s)

\* The circuit of a provider is only open after as many failed searches in a row
\* as it takes, although threads count them without a lock.
TripEarned == \A p \in Providers : circuit[p].open => losses[p] >= Threshold

\* A research ends, whatever a provider or the model does: again and again none
\* is under way (a call starts once).
Ends == []<>(\A c \in Calls : call[c].pc \in {"idle"} \cup Ended)

\* What docs/SESSION_TO_CONTENT_PIPELINE.md:113 says: a usable result of one
\* provider is enough for a package.  A silent provider makes the stage run into
\* its limit, and what the other has reported is lost.
SingleSuffices == \A c \in Calls : At(c, "timedOut") => Usable(Sources(c)) = {}
==============================================================================
