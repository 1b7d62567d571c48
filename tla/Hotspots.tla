------------------------------- MODULE Hotspots -------------------------------
(***************************************************************************)
(* The fetch_hotspots tool, from the request of an agent to its answer:    *)
(*   agent/tools/hotspots.py            which sources, scoring, the answer *)
(*   integrations/hotspot/hotspots.py   fetch, merge, health, cache        *)
(*   agent/tools/hotspot_filter.py      which candidates the model selects *)
(*                                                                         *)
(* A fetch goes through its source groups in order.  In a group a pool of  *)
(* threads asks the platforms, each its endpoints one after the other,     *)
(* while the caller collects what is finished.  Everybody checks for a     *)
(* cancellation in between; where the check raises decides what the rest   *)
(* of the fetch makes of it: a thread, a group or the whole fetch fails.   *)
(* A check also raises when it cannot read the execution (any time) and    *)
(* always does so once the execution is cancelled or its lease is lost.    *)
(*                                                                         *)
(* What a provider answers is a list of topics.  Feeds that are asked over *)
(* RSS, JSON or HTML differ in how they are read, not in what follows.     *)
(***************************************************************************)
EXTENDS Integers, Sequences, FiniteSets

CONSTANTS Calls,       \* calls of the tool, by agent executions of any account
          Platforms,   \* the logical platforms
          Group,       \* "rss", "tikhub" or "aihot", by platform
          Endpoints,   \* how many endpoints a platform has (candidates)
          Topics,      \* what providers may report
          Url,         \* the link of a topic without its query, or None
          SearchPage,  \* by platform and topic: the page it gets without one, or None
          Answers,     \* bound: the lists a provider may answer with
          Asks,        \* what an agent may ask for, in its order, None for what is unknown
          Allowed,     \* the sources of the account, by call
          Keyed,       \* whether the worker of the call has a key for TikHub
          Selections,  \* bound: the candidates the scoring model may name, by their ids
          PerSource,   \* settings.search.hotspot_per_source_limit
          MaxItems,    \* settings.search.hotspot_raw_candidate_limit
          Pool,        \* threads of a group's pool
          None         \* NULL

Groups == <<"rss", "tikhub", "aihot">>

\* A topic without a link gets a search page from some platforms of TikHub: one
\* with the title in its path, or in the query, which does not tell topics apart.
Link(p, t) == IF Url[t] = None THEN SearchPage[p][t] ELSE Url[t]

\* Two items are the same candidate if their links without query agree, or
\* without links their titles: this makes the id of the candidate.
Signature(p, t) ==
    IF Link(p, t) = None THEN <<"title", t>> ELSE <<"url", Link(p, t)>>

Signatures == {Signature(p, t) : p \in Platforms, t \in Topics}

ASSUME HotspotsAssumption ==
    /\ Group \in [Platforms -> {"rss", "tikhub", "aihot"}]
    /\ Endpoints \in [Platforms -> Nat \ {0}]
    /\ \A p \in Platforms : Group[p] # "tikhub" => SearchPage[p] = [t \in Topics |-> None]
    /\ Answers \subseteq Seq(Topics) /\ Selections \subseteq Seq(Signatures \cup {None})
    /\ Asks \subseteq Seq(Platforms \cup {None})
    /\ Allowed \in [Calls -> SUBSET Platforms]
    /\ Keyed \in [Calls -> BOOLEAN]
    /\ PerSource \in Nat \ {0} /\ MaxItems \in Nat \ {0} /\ Pool \in Nat \ {0}
    /\ None \notin Topics \cup Platforms

VARIABLES
    call,       \* what each call is doing
    cancelled,  \* the execution of the call is cancelled, or leased to another worker
    cache       \* SharedJsonCache("hotspots"), by its key

vars == <<call, cancelled, cache>>

\* A platform being asked: its endpoint, and what came of it.
Thread == [at    : Nat,
           state : {"ready", "asking", "ok", "failed"},
           items : Seq(Topics)]

NotAsked == [at |-> 0, state |-> "ready", items |-> <<>>]
Failed == [at |-> 0, state |-> "failed", items |-> <<>>]
Over(t) == t.state \in {"ok", "failed"}

------------------------------------------------------------------------------
(* Which sources: the account's, as far as the agent asked for them *)

\* The k-th of a set of numbers.
Nth(S, k) == CHOOSE i \in S : Cardinality({j \in S : j <= i}) = k

\* What a sequence names of a set, once each, in its order.
Named(s, S) ==
    LET first == {i \in DOMAIN s : s[i] \in S /\ \A j \in 1 .. i - 1 : s[j] # s[i]}
    IN  [k \in 1 .. Cardinality(first) |-> s[Nth(first, k)]]

\* The sources in a list.
Sources(list) == {list[i] : i \in DOMAIN list}

\* An unknown source in the request makes the whole request invalid.
Selected(c, ask) == IF Sources(ask) \subseteq Platforms THEN Sources(ask) \cap Allowed[c] ELSE {}

Keys == [plats : SUBSET Platforms, key : BOOLEAN]

InGroup(plats, g) == {p \in plats : Group[p] = Groups[g]}

------------------------------------------------------------------------------
(* Merging what the platforms reported *)

Shown(out) == {out[i].sig : i \in DOMAIN out}

\* Mutant: the request is put in order, not what is selected of it.
RankedAsAsked(ask, plats) == ask

\* The selected platforms, group by group, in the order of the request.
Ranked(ask, plats) ==
    Named(ask, InGroup(plats, 1)) \o Named(ask, InGroup(plats, 2)) \o Named(ask, InGroup(plats, 3))

\* Where the merge is in the lists of n platforms, the candidates, the platform
\* this round starts with, and how many had their turn in it.
Start(n) == [at |-> [k \in 1..n |-> 0], out |-> <<>>, first |-> 1, step |-> 0]

\* Mutant: the platform a round starts with has the turns of all.
TurnOfFirst(st, n) == st.first

\* The platforms take turns ...
Turn(st, n) == IF st.first + st.step <= n THEN st.first + st.step ELSE st.first + st.step - n

\* ... each round starting one platform later.
Passed(st, n) ==
    IF st.step + 1 < n THEN [st EXCEPT !.step = @ + 1]
    ELSE [st EXCEPT !.step = 0, !.first = IF @ < n THEN @ + 1 ELSE 1]

\* In its turn, duplicates of what is there already name the platform as one of
\* theirs, and its first new item is appended.
Visit(p, items, st, k) ==
    LET rest == st.at[k] + 1 .. Len(items)
        fresh == {j \in rest : Signature(p, items[j]) \notin Shown(st.out)}
        next == IF fresh = {} THEN Len(items) + 1
                              ELSE CHOOSE j \in fresh : \A l \in fresh : j <= l
        known == {Signature(p, items[j]) : j \in {l \in rest : l < next}}
        named == [i \in DOMAIN st.out |->
                    IF st.out[i].sig \in known
                    THEN [st.out[i] EXCEPT !.from = @ \cup {p}] ELSE st.out[i]]
    IN  [st EXCEPT !.at[k] = IF fresh = {} THEN Len(items) ELSE next,
                   !.out = IF fresh = {} THEN named
                           ELSE Append(named, [sig |-> Signature(p, items[next]), topic |-> items[next],
                                               by |-> p, from |-> {p}])]

\* The turns of the merge, until the limit is reached or nothing can be left.
Turns(order, items, last) ==
    LET n == Len(order)
        turn[i \in 0 .. last] ==
            IF i = 0 THEN Start(n)
            ELSE LET st == turn[i - 1]
                     k == Turn(st, n)
                 IN  IF Len(st.out) >= MaxItems THEN st
                     ELSE Passed(Visit(order[k], items[order[k]], st, k), n)
    IN  turn

Longest(plats, items) ==
    CHOOSE m \in {Len(items[p]) : p \in plats} \cup {0} : \A p \in plats : Len(items[p]) <= m

Merge(order, items) ==
    LET last == Len(order) * Longest(Sources(order), items)
    IN  Turns(order, items, last)[last].out

\* The health of a platform: it was asked in vain, after some endpoints that
\* gave nothing, or at once.
Status(t) ==
    IF t.state # "ok" THEN "failed" ELSE IF t.at > 1 THEN "degraded" ELSE "ok"

Entry == [sig : Signatures, topic : Topics, by : Platforms, from : SUBSET Platforms]

\* A result: the candidates, the health of the sources, and (history) whether a
\* cancellation made a part of the fetch fail.
Result == [out : Seq(Entry), health : UNION {[S -> {"ok", "degraded", "failed"}] :
                                              S \in SUBSET Platforms}, cut : BOOLEAN]
NoResult == [out |-> <<>>, health |-> [p \in {} |-> "ok"], cut |-> FALSE]

Stages == {"idle", "lookup", "group", "open", "fetch", "score", "reply", "refused", "stopped", "done"}

Call == [pc     : Stages,
         plats  : SUBSET Platforms,           \* the selected sources
         order  : Seq(Platforms),             \* and their order
         group  : 1..4,                       \* the group at hand
         th     : [Platforms -> Thread],      \* the blocks of the result
         taken  : SUBSET Platforms,           \* finished threads the loop has handled
         broken : BOOLEAN,                    \* the loop raised; the pool winds up
         res    : Result,
         picks  : Seq(Entry),                 \* candidates rendered for the agent
         cut    : BOOLEAN]                    \* history: a check for a cancellation was swallowed

NewCall == [pc |-> "idle", plats |-> {}, order |-> <<>>, group |-> 1, th |-> [p \in Platforms |-> NotAsked],
            taken |-> {}, broken |-> FALSE, res |-> NoResult, picks |-> <<>>, cut |-> FALSE]

TypeOK ==
    /\ call \in [Calls -> Call]
    /\ cancelled \in [Calls -> BOOLEAN]
    /\ cache \in [Keys -> Result \cup {None}]

Init ==
    /\ call = [c \in Calls |-> NewCall]
    /\ cancelled = [c \in Calls |-> FALSE]
    /\ cache = [k \in Keys |-> None]

At(c, pc) == call[c].pc = pc
Members(c) == InGroup(call[c].plats, call[c].group)

\* Mutant: the key forgets the selection.
KeyWithoutSelection(c) == [plats |-> Platforms, key |-> Keyed[c]]

\* The key of the cache: the selection, and whether there is a key for TikHub.
Key(c) == [plats |-> call[c].plats, key |-> Keyed[c]]

\* A check passes only while the execution is not cancelled; it may raise at any
\* time, because it reads the database.
Clear(c) == ~cancelled[c]

Update(c, new) == call' = [call EXCEPT ![c] = new]

\* The check raised where nothing catches it: the tool call fails.
Stop(c) ==
    /\ call[c].pc \in {"lookup", "group", "open", "score", "reply"}
    /\ Update(c, [call[c] EXCEPT !.pc = "stopped"])
    /\ UNCHANGED <<cancelled, cache>>

\* fetch_hotspots: the request of the agent meets the sources of its account.
Ask(c, ask) ==
    /\ At(c, "idle") /\ Clear(c)
    /\ Update(c, [call[c] EXCEPT !.pc = IF Selected(c, ask) = {} THEN "refused" ELSE "lookup",
                                  !.plats = Selected(c, ask),
                                  !.order = Ranked(ask, Selected(c, ask))])
    /\ UNCHANGED <<cancelled, cache>>

\* The cache, which may miss what it holds when Redis does not answer.
Hit(c) ==
    /\ At(c, "lookup") /\ Clear(c) /\ cache[Key(c)] # None
    /\ Update(c, [call[c] EXCEPT !.pc = "score", !.res = cache[Key(c)]])
    /\ UNCHANGED <<cancelled, cache>>

Miss(c) ==
    /\ At(c, "lookup") /\ Clear(c)
    /\ Update(c, [call[c] EXCEPT !.pc = "group"])
    /\ UNCHANGED <<cancelled, cache>>

\* Before each group; when none is left, the results are merged, and a last
\* check decides whether they are cached and used.
NextGroup(c) ==
    /\ At(c, "group") /\ Clear(c) /\ call[c].group <= 3
    /\ Update(c, IF Members(c) = {} THEN [call[c] EXCEPT !.group = @ + 1]
                                    ELSE [call[c] EXCEPT !.pc = "open"])
    /\ UNCHANGED <<cancelled, cache>>

\* The fetcher of the group raised, or has no key: nothing of it is in the result.
Lost(c) == [call[c] EXCEPT !.pc = "group", !.group = @ + 1, !.taken = {}, !.broken = FALSE,
                           !.th = [p \in Platforms |-> IF p \in Members(c) THEN Failed ELSE @[p]]]

\* _fetch_rss, _fetch_tikhub, _fetch_aihot: the check at their start, then the pool.
HasKey(c) == Groups[call[c].group] = "tikhub" => Keyed[c]

Open(c) ==
    /\ At(c, "open") /\ Clear(c) /\ HasKey(c)
    /\ Update(c, [call[c] EXCEPT !.pc = "fetch"])
    /\ UNCHANGED <<cancelled, cache>>

OpenFails(c) ==
    /\ At(c, "open")
    /\ Update(c, [Lost(c) EXCEPT !.cut = @ \/ cancelled[c]])
    /\ UNCHANGED <<cancelled, cache>>

Set(c, p, t, cut) ==
    Update(c, [call[c] EXCEPT !.th[p] = t, !.cut = @ \/ cut])

\* Threads of the pool at work: each has one platform until that is settled.
Working(c) == {p \in Members(c) : call[c].th[p].at > 0 /\ ~Over(call[c].th[p])}

\* A thread is about to ask the next endpoint of its platform; the first check
\* of a fetch of AI HOT is the one of Open.
Asking(c, p) ==
    /\ At(c, "fetch") /\ p \in Members(c) /\ call[c].th[p].state = "ready"
    /\ (Clear(c) \/ Group[p] = "aihot")
    /\ call[c].th[p].at = 0 => Cardinality(Working(c)) < Pool
    /\ Set(c, p, [call[c].th[p] EXCEPT !.state = "asking", !.at = @ + 1], FALSE)
    /\ UNCHANGED <<cancelled, cache>>

\* The check before it raised: the platform has failed.
Interrupted(c, p) ==
    /\ At(c, "fetch") /\ p \in Members(c) /\ call[c].th[p].state = "ready"
    /\ Group[p] # "aihot"
    /\ call[c].th[p].at = 0 => Cardinality(Working(c)) < Pool
    /\ Set(c, p, [call[c].th[p] EXCEPT !.state = "failed"], cancelled[c])
    /\ UNCHANGED <<cancelled, cache>>

\* Whether an answer is taken, or the next endpoint tried: an empty one is only
\* taken from the last endpoint, and of a feed not even then.
Enough(p, at, items) == items # <<>> \/ (Group[p] # "rss" /\ at = Endpoints[p])

\* What is read of an answer: the first topics of the list.
Capped(items) == SubSeq(items, 1, IF Len(items) < PerSource THEN Len(items) ELSE PerSource)

\* An endpoint answered with topics, and the check after it passes.
Answered(c, p, items) ==
    /\ At(c, "fetch") /\ p \in Members(c) /\ call[c].th[p].state = "asking" /\ Clear(c)
    /\ Enough(p, call[c].th[p].at, items)
    /\ Set(c, p, [call[c].th[p] EXCEPT !.state = "ok", !.items = Capped(items)], FALSE)
    /\ UNCHANGED <<cancelled, cache>>

\* It failed, answered with an error or with nothing, or the check after it raised
\* and is taken for a failure of the endpoint.
NotAnswered(c, p) ==
    /\ At(c, "fetch") /\ p \in Members(c) /\ call[c].th[p].state = "asking"
    /\ Set(c, p, [call[c].th[p] EXCEPT
                    !.state = IF call[c].th[p].at < Endpoints[p] THEN "ready" ELSE "failed"],
           cancelled[c])
    /\ UNCHANGED <<cancelled, cache>>

\* The caller handles what is finished, in any order, with a check for each.
Take(c, p) ==
    /\ At(c, "fetch") /\ ~call[c].broken /\ p \in Members(c) \ call[c].taken /\ Over(call[c].th[p])
    /\ (Clear(c) \/ Group[p] = "aihot")
    /\ Update(c, [call[c] EXCEPT !.taken = @ \cup {p}])
    /\ UNCHANGED <<cancelled, cache>>

\* The check raised: the loop is left, but the pool waits for its threads.
Break(c, p) ==
    /\ At(c, "fetch") /\ ~call[c].broken /\ p \in Members(c) \ call[c].taken /\ Over(call[c].th[p])
    /\ Group[p] # "aihot"
    /\ Update(c, [call[c] EXCEPT !.broken = TRUE, !.cut = @ \/ cancelled[c]])
    /\ UNCHANGED <<cancelled, cache>>

\* The group is through, or its pool has wound up after a break.
GroupDone(c) ==
    /\ At(c, "fetch") /\ ~call[c].broken /\ call[c].taken = Members(c)
    /\ Update(c, [call[c] EXCEPT !.pc = "group", !.group = @ + 1, !.taken = {}])
    /\ UNCHANGED <<cancelled, cache>>

WindUp(c) ==
    /\ At(c, "fetch") /\ call[c].broken /\ \A p \in Members(c) : Over(call[c].th[p])
    /\ Update(c, Lost(c))
    /\ UNCHANGED <<cancelled, cache>>

\* All groups are through: merge, health, the last check, and the cache.
Health(c) == [p \in call[c].plats |-> Status(call[c].th[p])]

Results(c) == [out |-> Merge(call[c].order, [p \in Platforms |-> call[c].th[p].items]),
               health |-> Health(c), cut |-> call[c].cut]

\* Mutant: no check between the last group and the cache.
FinishUnchecked(c) ==
    /\ At(c, "group") /\ call[c].group = 4
    /\ Update(c, [call[c] EXCEPT !.pc = "score", !.res = Results(c)])
    /\ cache' = [cache EXCEPT ![Key(c)] = Results(c)]
    /\ UNCHANGED cancelled

Finish(c) ==
    /\ At(c, "group") /\ Clear(c) /\ call[c].group = 4
    /\ Update(c, [call[c] EXCEPT !.pc = "score", !.res = Results(c)])
    /\ cache' = [cache EXCEPT ![Key(c)] = Results(c)]
    /\ UNCHANGED cancelled

\* The candidate with an id.
Candidate(out, id) == out[CHOOSE i \in DOMAIN out : out[i].sig = id]

\* Mutant: the candidates the model names are shown as often as it names them.
RenderedAsNamed(out, named) ==
    LET known == {i \in DOMAIN named : named[i] \in Shown(out)}
    IN  [k \in 1 .. Cardinality(known) |-> Candidate(out, named[Nth(known, k)])]

\* What is shown of the ids the scoring model names: the candidates it was given,
\* once each, in its order.  Without candidates, a model or a prompt, or after an
\* invalid answer, nothing is shown; what it does not name never is.
Rendered(out, named) ==
    LET ids == Named(named, Shown(out))
    IN  [k \in DOMAIN ids |-> Candidate(out, ids[k])]

Score(c, named) ==
    /\ At(c, "score") /\ Clear(c)
    /\ Update(c, [call[c] EXCEPT !.pc = "reply", !.picks = Rendered(call[c].res.out, named)])
    /\ UNCHANGED <<cancelled, cache>>

Reply(c) ==
    /\ At(c, "reply") /\ Clear(c)
    /\ Update(c, [call[c] EXCEPT !.pc = "done"])
    /\ UNCHANGED <<cancelled, cache>>

------------------------------------------------------------------------------
(* The environment *)

Cancel(c) ==
    /\ ~cancelled[c] /\ call[c].pc \notin {"refused", "stopped", "done"}
    /\ cancelled' = [cancelled EXCEPT ![c] = TRUE]
    /\ UNCHANGED <<call, cache>>

Expire(k) ==
    /\ cache[k] # None
    /\ cache' = [cache EXCEPT ![k] = None]
    /\ UNCHANGED <<call, cancelled>>

Fetch(c) ==
    \/ NextGroup(c) \/ Open(c) \/ OpenFails(c) \/ GroupDone(c) \/ WindUp(c) \/ Finish(c)
    \/ \E p \in Platforms :
        \/ Asking(c, p) \/ Interrupted(c, p) \/ NotAnswered(c, p) \/ Take(c, p) \/ Break(c, p)
        \/ \E items \in Answers : Answered(c, p, items)

Next ==
    \/ \E c \in Calls :
        \/ \E ask \in Asks : Ask(c, ask)
        \/ Hit(c) \/ Miss(c) \/ Fetch(c) \/ Reply(c) \/ Stop(c) \/ Cancel(c)
        \/ \E named \in Selections : Score(c, named)
    \/ \E k \in Keys : Expire(k)

Spec == Init /\ [][Next]_vars

------------------------------------------------------------------------------
(* Properties *)

\* What is cached, for every account with the same selection and for minutes, was
\* not cut short by the cancellation of the execution that fetched it, although
\* threads and groups swallow the exception and report a failed source.
CutNeverCached == \A k \in Keys : cache[k] # None => ~cache[k].cut

\* An agent is shown only candidates reported by sources of its account which it
\* asked for, and by no other, whoever fetched them and whatever the scoring model
\* names.  Each has the link its source gave the title, and is shown once: a title
\* comes again only with another link (tests/test_hotspots.py:699).
OnlyWanted ==
    \A c \in Calls : At(c, "done") =>
        LET picks == call[c].picks
        IN  /\ \A i \in DOMAIN picks :
                /\ picks[i].by \in picks[i].from /\ picks[i].from \subseteq call[c].plats
                /\ picks[i].sig = Signature(picks[i].by, picks[i].topic)
            /\ \A i, j \in DOMAIN picks : picks[i].sig = picks[j].sig => i = j

\* The pool is fair and full (docs/SESSION_TO_CONTENT_PIPELINE.md:97): candidates
\* are distinct, capacity that failures and duplicates leave is used by others,
\* and no platform that still has something new is two topics behind another.
Placed(out, p) == Cardinality({i \in DOMAIN out : out[i].by = p})

Fair(plats, items, out) ==
    LET sigs(p) == {Signature(p, items[p][i]) : i \in DOMAIN items[p]}
        all == UNION {sigs(p) : p \in plats}
    IN  /\ \A i, j \in DOMAIN out : out[i].sig = out[j].sig => i = j
        /\ Len(out) = IF Cardinality(all) < MaxItems THEN Cardinality(all) ELSE MaxItems
        /\ \A p, q \in plats :
            Placed(out, q) > Placed(out, p) + 1 => sigs(p) \subseteq Shown(out)

FairMerge ==
    \A c \in Calls : call[c].group = 4 /\ At(c, "score") =>
        Fair(call[c].plats, [p \in Platforms |-> call[c].th[p].items], call[c].res.out)
==============================================================================
