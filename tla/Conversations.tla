---------------------------- MODULE Conversations ----------------------------
(***************************************************************************)
(* The accounts a user writes for (agents) with their versions, the chat   *)
(* sessions that use them, and what is remembered of both:                 *)
(*   services/catalog_service.py       agents and versions                 *)
(*   services/conversation_service.py  creating and deleting sessions      *)
(*   memory/short_term.py              the summary of a session            *)
(*   memory/long_term.py, repository.py  the memories of an agent          *)
(*                                                                         *)
(* Apart from the lock on a session nothing is locked: a request reads,    *)
(* decides, and writes in a transaction (READ COMMITTED) that only the     *)
(* constraints of the tables can refuse.  Requests of the user and jobs of *)
(* the workers interleave between their reads and their writes; any of     *)
(* them may end in between.  An identifier is used once.                   *)
(*                                                                         *)
(* Of a session's messages only the order counts: the summary is the list  *)
(* of the messages it was made from (its text is cut to a length).         *)
(***************************************************************************)
EXTENDS Integers, Sequences, FiniteSets

CONSTANTS Agents,       \* identifiers of agents
          Names,        \* their names
          Chats,        \* identifiers of sessions
          Facts,        \* keys of memories
          Requests,     \* requests and jobs that run at the same time
          MaxVersions,  \* bound: versions of an agent
          MaxTalk,      \* bound: messages of a session
          None          \* NULL, or not there yet

Summary == [of : Seq(1 .. MaxTalk), cursor : 0 .. MaxTalk]
Chat == [agent : Agents, version : 1 .. MaxVersions, open : BOOLEAN]

ASSUME ConversationsAssumption ==
    /\ MaxVersions \in Nat \ {0} /\ MaxTalk \in Nat
    /\ None \notin Names /\ "gone" \notin Names \cup {None}
    /\ None \notin Summary \cup Chat

VARIABLES
    agent,     \* AgentProfile: its name; "gone" once deleted
    versions,  \* AgentVersion: the numbers of an agent's versions, as inserted
    chat,      \* ChatSession: its agent and version, and whether it still exists
    talk,      \* ChatMessage: how many messages a session has
    summary,   \* MemoryRecord of a session
    facts,     \* MemoryRecords of an agent, by their key
    work       \* what a request has read

vars == <<agent, versions, chat, talk, summary, facts, work>>

Idle == [op |-> "idle"]
Work == {Idle}
    \cup [op : {"create", "rename"}, agent : Agents, name : Names]
    \cup [op : {"version"}, agent : Agents, number : 1 .. MaxVersions]
    \cup [op : {"remove"}, agent : Agents]
    \cup [op : {"chat"}, chat : Chats, agent : Agents, number : 1 .. MaxVersions]
    \cup [op : {"refresh", "merged"}, chat : Chats, of : Seq(1 .. MaxTalk), cursor : 0 .. MaxTalk]

TypeOK ==
    /\ agent \in [Agents -> Names \cup {None, "gone"}]
    /\ versions \in [Agents -> Seq(1 .. MaxVersions)]
    /\ chat \in [Chats -> Chat \cup {None}]
    /\ talk \in [Chats -> 0 .. MaxTalk]
    /\ summary \in [Chats -> Summary \cup {None}]
    /\ facts \in [Agents -> SUBSET Facts]
    /\ work \in [Requests -> Work]

Init ==
    /\ agent = [a \in Agents |-> None]
    /\ versions = [a \in Agents |-> <<>>]
    /\ chat = [s \in Chats |-> None]
    /\ talk = [s \in Chats |-> 0]
    /\ summary = [s \in Chats |-> None]
    /\ facts = [a \in Agents |-> {}]
    /\ work = [r \in Requests |-> Idle]

Exists(a) == agent[a] \in Names
Open(s) == chat[s] # None /\ chat[s].open

Begins(r, w) == work[r] = Idle /\ work' = [work EXCEPT ![r] = w]
Ends(r) == work' = [work EXCEPT ![r] = Idle]
Doing(r, op) == work[r].op = op

\* The request is refused by a constraint, or its process dies.
Abandon(r) ==
    /\ work[r] # Idle
    /\ Ends(r)
    /\ UNCHANGED <<agent, versions, chat, talk, summary, facts>>

------------------------------------------------------------------------------
(* Agents *)

Taken(n, a) == \E b \in Agents \ {a} : agent[b] = n

\* An identifier is drawn for one request.
Fresh(r, a) == agent[a] = None /\ \A q \in Requests \ {r} :
                                    Doing(q, "create") => work[q].agent # a

\* create_agent finds the name free ...
AskAgent(r, a, n) ==
    /\ Fresh(r, a) /\ ~Taken(n, a)
    /\ Begins(r, [op |-> "create", agent |-> a, name |-> n])
    /\ UNCHANGED <<agent, versions, chat, talk, summary, facts>>

\* Mutant: versions are counted from zero.
CreateAgentAtZero(r) ==
    /\ Doing(r, "create") /\ ~Taken(work[r].name, work[r].agent)
    /\ agent' = [agent EXCEPT ![work[r].agent] = work[r].name]
    /\ versions' = [versions EXCEPT ![work[r].agent] = <<0>>]
    /\ Ends(r)
    /\ UNCHANGED <<chat, talk, summary, facts>>

\* ... and inserts the agent with its first version, if the name is still free.
CreateAgent(r) ==
    /\ Doing(r, "create") /\ ~Taken(work[r].name, work[r].agent)
    /\ agent' = [agent EXCEPT ![work[r].agent] = work[r].name]
    /\ versions' = [versions EXCEPT ![work[r].agent] = <<1>>]
    /\ Ends(r)
    /\ UNCHANGED <<chat, talk, summary, facts>>

\* update_agent.
AskName(r, a, n) ==
    /\ Exists(a) /\ ~Taken(n, a)
    /\ Begins(r, [op |-> "rename", agent |-> a, name |-> n])
    /\ UNCHANGED <<agent, versions, chat, talk, summary, facts>>

Rename(r) ==
    /\ Doing(r, "rename") /\ Exists(work[r].agent) /\ ~Taken(work[r].name, work[r].agent)
    /\ agent' = [agent EXCEPT ![work[r].agent] = work[r].name]
    /\ Ends(r)
    /\ UNCHANGED <<versions, chat, talk, summary, facts>>

Latest(a) == CHOOSE n \in {versions[a][i] : i \in DOMAIN versions[a]} :
                 \A i \in DOMAIN versions[a] : versions[a][i] <= n

\* create_agent_version computes the next number ...
AskVersion(r, a) ==
    /\ Exists(a) /\ Latest(a) < MaxVersions
    /\ Begins(r, [op |-> "version", agent |-> a, number |-> Latest(a) + 1])
    /\ UNCHANGED <<agent, versions, chat, talk, summary, facts>>

\* Mutant: no unique constraint on the number.
NumberFreeAlways(a, n) == Exists(a)

\* What the constraints of agentversion ask for.
NumberFree(a, n) == Exists(a) /\ \A i \in DOMAIN versions[a] : versions[a][i] # n

\* ... and inserts it, if another request has not, and the agent is still there.
CreateVersion(r) ==
    /\ Doing(r, "version") /\ NumberFree(work[r].agent, work[r].number)
    /\ versions' = [versions EXCEPT ![work[r].agent] = Append(@, work[r].number)]
    /\ Ends(r)
    /\ UNCHANGED <<agent, chat, talk, summary, facts>>

Referred(a) == \E s \in Chats : Open(s) /\ chat[s].agent = a

\* delete_agent finds no session and no memory of the agent ...
AskRemoval(r, a) ==
    /\ Exists(a) /\ ~Referred(a) /\ facts[a] = {}
    /\ Begins(r, [op |-> "remove", agent |-> a])
    /\ UNCHANGED <<agent, versions, chat, talk, summary, facts>>

\* Mutant: the foreign keys of a session do not restrict.
Unrestricted(a) == TRUE

\* ON DELETE RESTRICT of chatsession.agent_id and agent_version_id.
Deletable(a) == ~Referred(a)

\* ... and deletes it with its versions; what memories there are by now go too.
RemoveAgent(r) ==
    /\ Doing(r, "remove") /\ Exists(work[r].agent) /\ Deletable(work[r].agent)
    /\ agent' = [agent EXCEPT ![work[r].agent] = "gone"]
    /\ versions' = [versions EXCEPT ![work[r].agent] = <<>>]
    /\ facts' = [facts EXCEPT ![work[r].agent] = {}]
    /\ Ends(r)
    /\ UNCHANGED <<chat, talk, summary>>

\* MemoryRepository.upsert: a memory of the agent with this key, which may be there.
Upsert(a, k) ==
    /\ Exists(a)
    /\ facts' = [facts EXCEPT ![a] = @ \cup {k}]
    /\ UNCHANGED <<agent, versions, chat, talk, summary, work>>

\* In a turn the tool remembers something, or the message of the user says it.
Remember(s, k) == Open(s) /\ Upsert(chat[s].agent, k)

\* The job after a turn remembers something for the agent of a session that may be
\* deleted by then: the insert asks for the agent only.
RememberLater(s, k) == chat[s] # None /\ Upsert(chat[s].agent, k)

------------------------------------------------------------------------------
(* Sessions *)

\* create_session reads the agent and its latest version ...
AskChat(r, s, a) ==
    /\ chat[s] = None /\ Exists(a)
    /\ \A q \in Requests \ {r} : Doing(q, "chat") => work[q].chat # s
    /\ Begins(r, [op |-> "chat", chat |-> s, agent |-> a, number |-> Latest(a)])
    /\ UNCHANGED <<agent, versions, chat, talk, summary, facts>>

\* ... and inserts the session, if both are still there.
CreateChat(r) ==
    /\ Doing(r, "chat") /\ Exists(work[r].agent)
    /\ chat' = [chat EXCEPT ![work[r].chat] =
                  [agent |-> work[r].agent, version |-> work[r].number, open |-> TRUE]]
    /\ Ends(r)
    /\ UNCHANGED <<agent, versions, talk, summary, facts>>

\* delete_session, under the lock of the session; it has no busy execution.
RemoveChat(s) ==
    /\ Open(s)
    /\ chat' = [chat EXCEPT ![s].open = FALSE]
    /\ talk' = [talk EXCEPT ![s] = 0]
    /\ summary' = [summary EXCEPT ![s] = None]
    /\ UNCHANGED <<agent, versions, facts, work>>

\* A message is added to the session ...
Say(s) ==
    /\ Open(s) /\ talk[s] < MaxTalk
    /\ talk' = [talk EXCEPT ![s] = @ + 1]
    /\ UNCHANGED <<agent, versions, chat, summary, facts, work>>

\* ... by its user with a turn, or by the worker at the end of one.
Ask(s) == Say(s)
Reply(s) == Say(s)

\* refresh_summary reads the summary ...
Refresh(r, s) ==
    /\ Open(s)
    /\ Begins(r, [op     |-> "refresh", chat |-> s,
                  of     |-> IF summary[s] = None THEN <<>> ELSE summary[s].of,
                  cursor |-> IF summary[s] = None THEN 0 ELSE summary[s].cursor])
    /\ UNCHANGED <<agent, versions, chat, talk, summary, facts>>

\* ... for a turn of a session that has none, or in the job after a turn ...
LoadSummary(r, s) == summary[s] = None /\ Refresh(r, s)
RefreshLater(r, s) == Refresh(r, s)

\* ... then the messages after its cursor, and merges them ...
MergeMessages(r) ==
    /\ Doing(r, "refresh") /\ Open(work[r].chat)
    /\ LET w == work[r]
           rows == [i \in 1 .. talk[w.chat] - w.cursor |-> w.cursor + i]
       IN  work' = [work EXCEPT ![r] = [op     |-> "merged", chat |-> w.chat,
                                        of     |-> w.of \o rows,
                                        cursor |-> talk[w.chat]]]
    /\ UNCHANGED <<agent, versions, chat, talk, summary, facts>>

\* Mutant: the cursor is set to the messages there are when it is written.
WriteSummaryToNow(r) ==
    /\ Doing(r, "merged") /\ Open(work[r].chat) /\ work[r].of # <<>>
    /\ summary' = [summary EXCEPT ![work[r].chat] = [of |-> work[r].of,
                                                     cursor |-> talk[work[r].chat]]]
    /\ Ends(r)
    /\ UNCHANGED <<agent, versions, chat, talk, facts>>

\* ... and writes text and cursor over what is there, unless it has nothing to say.
WriteSummary(r) ==
    /\ Doing(r, "merged") /\ Open(work[r].chat) /\ work[r].of # <<>>
    /\ summary' = [summary EXCEPT ![work[r].chat] = [of |-> work[r].of,
                                                     cursor |-> work[r].cursor]]
    /\ Ends(r)
    /\ UNCHANGED <<agent, versions, chat, talk, facts>>

Next ==
    \/ \E r \in Requests :
        \/ Abandon(r) \/ CreateAgent(r) \/ Rename(r) \/ CreateVersion(r) \/ RemoveAgent(r)
        \/ CreateChat(r) \/ MergeMessages(r) \/ WriteSummary(r)
        \/ \E a \in Agents :
            \/ AskVersion(r, a) \/ AskRemoval(r, a)
            \/ \E n \in Names : AskAgent(r, a, n) \/ AskName(r, a, n)
            \/ \E s \in Chats : AskChat(r, s, a)
        \/ \E s \in Chats : LoadSummary(r, s) \/ RefreshLater(r, s)
    \/ \E s \in Chats :
        \/ RemoveChat(s) \/ Ask(s) \/ Reply(s)
        \/ \E k \in Facts : Remember(s, k) \/ RememberLater(s, k)

Spec == Init /\ [][Next]_vars

------------------------------------------------------------------------------
(* Properties *)

\* The versions of an agent are numbered 1, 2, ... without a gap or a double,
\* although requests compute the next number without a lock.
Numbered(a) == versions[a] = [i \in 1 .. Len(versions[a]) |-> i]

\* Whatever requests interleave, a session that exists has its agent and its
\* version, memories and versions belong to agents that exist, an agent has a
\* version, and no two agents have the same name.
Rooted ==
    /\ \A s \in Chats : Open(s) =>
        Exists(chat[s].agent) /\ chat[s].version \in 1 .. Len(versions[chat[s].agent])
    /\ \A a \in Agents :
        /\ Numbered(a)
        /\ Exists(a) <=> versions[a] # <<>>
        /\ facts[a] # {} => Exists(a)
        /\ \A b \in Agents \ {a} : Exists(a) => agent[a] # agent[b]

\* A summary was made from every message up to its cursor, each once, although
\* refreshes overlap and the last to write wins: what it lacks is still to come.
SummaryTrue ==
    \A s \in Chats : summary[s] # None =>
        summary[s].of = [i \in 1 .. summary[s].cursor |-> i] /\ summary[s].cursor <= talk[s]
==============================================================================
