------------------------- MODULE ConversationsProofs --------------------------
(***************************************************************************)
(* What holds of Conversations for any agents, sessions, requests and      *)
(* bounds.  What a request has read may be out of date when it writes; the *)
(* part of it that is still true then is what the invariant adds.          *)
(***************************************************************************)
EXTENDS Conversations, TLAPS

UpTo(n) == [i \in 1 .. n |-> i]

\* What a request may rely on until it writes.
StillTrue(w) ==
    /\ w.op = "create" => agent[w.agent] = None
    /\ w.op = "version" =>
        /\ agent[w.agent] # None
        /\ Exists(w.agent) => w.number <= Len(versions[w.agent]) + 1
    /\ w.op = "chat" =>
        /\ chat[w.chat] = None /\ agent[w.agent] # None
        /\ Exists(w.agent) => w.number <= Len(versions[w.agent])
    /\ w.op \in {"refresh", "merged"} =>
        /\ chat[w.chat] # None /\ w.of = UpTo(w.cursor)
        /\ Open(w.chat) => w.cursor <= talk[w.chat]

\* An identifier is drawn once.
Apart(v, w) ==
    /\ v.op = "create" /\ w.op = "create" => v.agent # w.agent
    /\ v.op = "chat" /\ w.op = "chat" => v.chat # w.chat

WorkSound ==
    /\ \A r \in Requests : StillTrue(work[r])
    /\ \A r \in Requests : \A q \in Requests \ {r} : Apart(work[q], work[r])

\* Nothing is left of a session that is not there.
NothingLeft == \A s \in Chats : ~Open(s) => talk[s] = 0 /\ summary[s] = None

IInv == TypeOK /\ Rooted /\ SummaryTrue /\ NothingLeft /\ WorkSound

\* The fields of what a request has read.
LEMMA WorkFields ==
    ASSUME NEW w \in Work
    PROVE  /\ w.op \in {"create", "rename"} => w.agent \in Agents /\ w.name \in Names
           /\ w.op = "version" => w.agent \in Agents /\ w.number \in 1 .. MaxVersions
           /\ w.op = "remove" => w.agent \in Agents
           /\ w.op = "chat" =>
                 w.chat \in Chats /\ w.agent \in Agents /\ w.number \in 1 .. MaxVersions
           /\ w.op \in {"refresh", "merged"} =>
                 w.chat \in Chats /\ w.of \in Seq(1 .. MaxTalk) /\ w.cursor \in 0 .. MaxTalk
    BY DEF Work, Idle

\* The latest version of an agent is the last one.
LEMMA LatestIsLast ==
    ASSUME TypeOK, NEW a \in Agents, Numbered(a), versions[a] # <<>>
    PROVE  Latest(a) = Len(versions[a]) /\ Latest(a) \in 1 .. MaxVersions
<1> DEFINE n == Len(versions[a])
           S == {versions[a][i] : i \in DOMAIN versions[a]}
<1>1. versions[a] \in Seq(1 .. MaxVersions) /\ n \in Nat /\ n >= 1
    BY DEF TypeOK
<1>2. DOMAIN versions[a] = 1 .. n /\ \A i \in 1 .. n : versions[a][i] = i
    BY <1>1 DEF Numbered
<1>3. n \in S /\ \A i \in DOMAIN versions[a] : versions[a][i] <= n
    BY <1>1, <1>2
<1>4. Latest(a) \in S /\ \A i \in DOMAIN versions[a] : versions[a][i] <= Latest(a)
    BY <1>3 DEF Latest
<1>5. n <= Latest(a) /\ Latest(a) \in 1 .. n
    BY <1>1, <1>2, <1>4
<1>6. \A i \in 1 .. n : versions[a][i] \in 1 .. MaxVersions
    <2>1. \A V : \A q \in Seq(V) : \A i \in 1 .. Len(q) : q[i] \in V
        OBVIOUS
    <2>2. QED
        BY <1>1, <2>1
<1>7. QED
    BY <1>1, <1>2, <1>5, <1>6

\* The messages after a cursor continue those before it.
LEMMA Continued ==
    ASSUME NEW c \in Nat, NEW t \in Nat, c <= t
    PROVE  UpTo(c) \o [i \in 1 .. t - c |-> c + i] = UpTo(t)
<1> DEFINE rows == [i \in 1 .. t - c |-> c + i]
<1>1. UpTo(c) \in Seq(Nat) /\ Len(UpTo(c)) = c
    BY DEF UpTo
<1>2. rows \in Seq(Nat) /\ Len(rows) = t - c
    OBVIOUS
<1>3. UpTo(c) \o rows \in Seq(Nat) /\ Len(UpTo(c) \o rows) = t
    BY <1>1, <1>2
<1>4. \A i \in 1 .. t : (UpTo(c) \o rows)[i] = i
    BY <1>1, <1>2 DEF UpTo
<1>5. UpTo(t) \in Seq(Nat) /\ Len(UpTo(t)) = t
    BY DEF UpTo
<1>6. QED
    BY <1>3, <1>4, <1>5 DEF UpTo

LEMMA InitSound == Init => IInv
<1> SUFFICES ASSUME Init PROVE IInv
    OBVIOUS
<1> USE ConversationsAssumption DEF Init
<1>1. TypeOK
    BY DEF TypeOK, Work
<1>2. Rooted
    <2>1. \A a \in Agents : Numbered(a)
        BY DEF Numbered
    <2>2. QED
        BY <2>1 DEF Rooted, Open, Exists
<1>3. SummaryTrue /\ NothingLeft
    BY DEF SummaryTrue, NothingLeft
<1>4. WorkSound
    BY DEF WorkSound, StillTrue, Apart, Idle
<1>5. QED
    BY <1>1, <1>2, <1>3, <1>4 DEF IInv

Rows == <<agent, versions, chat, talk, summary, facts>>

\* A request that reads, or ends, and writes nothing.
LEMMA Reading ==
    ASSUME IInv, NEW r \in Requests, NEW w \in Work, StillTrue(w),
           \A q \in Requests \ {r} : Apart(work[q], w),
           work' = [work EXCEPT ![r] = w], UNCHANGED Rows
    PROVE  IInv'
<1> USE DEF Rows
<1>1. TypeOK'
    BY DEF IInv, TypeOK
<1>2. Rooted' /\ SummaryTrue' /\ NothingLeft'
    BY DEF IInv, Rooted, SummaryTrue, NothingLeft, Numbered, Exists, Open
<1>3. \A q \in Requests : work'[q] = IF q = r THEN w ELSE work[q]
    BY DEF IInv, TypeOK
<1>4. \A q \in Requests : StillTrue(work[q])'
    <2> SUFFICES ASSUME NEW q \in Requests PROVE StillTrue(work[q])'
        OBVIOUS
    <2>1. CASE q = r
        BY <1>3, <2>1 DEF StillTrue, Exists, Open
    <2>2. CASE q # r
        <3>1. StillTrue(work[q]) /\ work'[q] = work[q]
            BY <1>3, <2>2 DEF IInv, WorkSound
        <3>2. QED
            BY <3>1 DEF StillTrue, Exists, Open
    <2>3. QED
        BY <2>1, <2>2
<1>5. \A p \in Requests : \A q \in Requests \ {p} : Apart(work[q], work[p])'
    <2> SUFFICES ASSUME NEW p \in Requests, NEW q \in Requests \ {p}
                 PROVE  Apart(work[q], work[p])'
        OBVIOUS
    <2>1. CASE p # r /\ q # r
        BY <1>3, <2>1 DEF IInv, WorkSound, Apart
    <2>2. CASE p = r
        BY <1>3, <2>2 DEF Apart
    <2>3. CASE q = r
        BY <1>3, <2>3 DEF Apart
    <2>4. QED
        BY <2>1, <2>2, <2>3
<1>6. QED
    BY <1>1, <1>2, <1>4, <1>5 DEF IInv, WorkSound

\* A write that ends its request, or is none of a request: the others keep what
\* they have read.
LEMMA Keeping ==
    ASSUME IInv, NEW r,
           \A q \in Requests : work'[q] = work[q] \/ work'[q] = Idle,
           \A q \in Requests : work'[q] = work[q] => StillTrue(work[q])'
    PROVE  WorkSound'
<1>1. \A q \in Requests : StillTrue(work[q])'
    BY DEF StillTrue, Idle
<1>2. \A p \in Requests : \A q \in Requests \ {p} : Apart(work[q], work[p])'
    BY DEF IInv, WorkSound, Apart, Idle
<1>3. QED
    BY <1>1, <1>2 DEF WorkSound

LEMMA AbandonSound ==
    ASSUME IInv, NEW r \in Requests, Abandon(r)
    PROVE  IInv'
<1>1. Idle \in Work /\ StillTrue(Idle) /\ \A q \in Requests : Apart(work[q], Idle)
    BY DEF Work, Idle, StillTrue, Apart
<1>2. QED
    BY <1>1, Reading DEF Abandon, Ends, Rows

LEMMA AskAgentSound ==
    ASSUME IInv, NEW r \in Requests, NEW a \in Agents, NEW n \in Names, AskAgent(r, a, n)
    PROVE  IInv'
<1> DEFINE w == [op |-> "create", agent |-> a, name |-> n]
<1>1. w \in Work
    BY DEF Work
<1>2. StillTrue(w) /\ \A q \in Requests \ {r} : Apart(work[q], w)
    BY DEF AskAgent, Fresh, Doing, StillTrue, Apart
<1>3. QED
    BY <1>1, <1>2, Reading DEF AskAgent, Begins, Rows

LEMMA AskNameSound ==
    ASSUME IInv, NEW r \in Requests, NEW a \in Agents, NEW n \in Names, AskName(r, a, n)
    PROVE  IInv'
<1> DEFINE w == [op |-> "rename", agent |-> a, name |-> n]
<1>1. w \in Work
    BY DEF Work
<1>2. StillTrue(w) /\ \A q \in Requests \ {r} : Apart(work[q], w)
    BY DEF StillTrue, Apart
<1>3. QED
    BY <1>1, <1>2, Reading DEF AskName, Begins, Rows

LEMMA AskVersionSound ==
    ASSUME IInv, NEW r \in Requests, NEW a \in Agents, AskVersion(r, a)
    PROVE  IInv'
<1> DEFINE w == [op |-> "version", agent |-> a, number |-> Latest(a) + 1]
<1>1. Exists(a) /\ Latest(a) < MaxVersions /\ Numbered(a) /\ versions[a] # <<>>
    BY DEF AskVersion, IInv, Rooted
<1>2. Latest(a) = Len(versions[a]) /\ Latest(a) \in 1 .. MaxVersions
    BY <1>1, LatestIsLast DEF IInv
<1>3. w \in Work
    <2>1. Latest(a) + 1 \in 1 .. MaxVersions
        BY <1>1, <1>2, ConversationsAssumption
    <2>2. QED
        BY <2>1 DEF Work
<1>4. StillTrue(w) /\ \A q \in Requests \ {r} : Apart(work[q], w)
    BY <1>1, <1>2, ConversationsAssumption DEF StillTrue, Apart, Exists
<1>5. QED
    BY <1>3, <1>4, Reading DEF AskVersion, Begins, Rows

LEMMA AskRemovalSound ==
    ASSUME IInv, NEW r \in Requests, NEW a \in Agents, AskRemoval(r, a)
    PROVE  IInv'
<1> DEFINE w == [op |-> "remove", agent |-> a]
<1>1. w \in Work
    BY DEF Work
<1>2. StillTrue(w) /\ \A q \in Requests \ {r} : Apart(work[q], w)
    BY DEF StillTrue, Apart
<1>3. QED
    BY <1>1, <1>2, Reading DEF AskRemoval, Begins, Rows

LEMMA AskChatSound ==
    ASSUME IInv, NEW r \in Requests, NEW s \in Chats, NEW a \in Agents, AskChat(r, s, a)
    PROVE  IInv'
<1> DEFINE w == [op |-> "chat", chat |-> s, agent |-> a, number |-> Latest(a)]
<1>1. Exists(a) /\ Numbered(a) /\ versions[a] # <<>> /\ chat[s] = None
    BY DEF AskChat, IInv, Rooted
<1>2. Latest(a) = Len(versions[a]) /\ Latest(a) \in 1 .. MaxVersions
    BY <1>1, LatestIsLast DEF IInv
<1>3. w \in Work
    BY <1>2 DEF Work
<1>4. StillTrue(w) /\ \A q \in Requests \ {r} : Apart(work[q], w)
    BY <1>1, <1>2, ConversationsAssumption DEF StillTrue, Apart, Exists, AskChat, Doing
<1>5. QED
    BY <1>3, <1>4, Reading DEF AskChat, Begins, Rows

LEMMA RefreshSound ==
    ASSUME IInv, NEW r \in Requests, NEW s \in Chats, Refresh(r, s)
    PROVE  IInv'
<1> DEFINE of == IF summary[s] = None THEN <<>> ELSE summary[s].of
           cursor == IF summary[s] = None THEN 0 ELSE summary[s].cursor
           w == [op |-> "refresh", chat |-> s, of |-> of, cursor |-> cursor]
<1>1. Open(s) /\ chat[s] # None /\ talk[s] \in 0 .. MaxTalk
    BY DEF Refresh, Open, IInv, TypeOK
<1>2. /\ of \in Seq(1 .. MaxTalk) /\ cursor \in 0 .. MaxTalk
      /\ of = UpTo(cursor) /\ cursor <= talk[s]
    <2>1. CASE summary[s] = None
        <3>1. of = <<>> /\ cursor = 0
            BY <2>1
        <3>2. <<>> = UpTo(0) /\ <<>> \in Seq(1 .. MaxTalk) /\ 0 \in 0 .. MaxTalk
            BY ConversationsAssumption DEF UpTo
        <3>3. 0 <= talk[s]
            BY <1>1, ConversationsAssumption
        <3> HIDE DEF of, cursor
        <3>4. QED
            BY <3>1, <3>2, <3>3
    <2>2. CASE summary[s] # None
        <3>1. of = summary[s].of /\ cursor = summary[s].cursor /\ summary[s] \in Summary
            BY <2>2 DEF IInv, TypeOK
        <3>2. summary[s].of = UpTo(summary[s].cursor) /\ summary[s].cursor <= talk[s]
            BY <2>2 DEF IInv, SummaryTrue, UpTo
        <3>3. QED
            BY <3>1, <3>2 DEF Summary
    <2>3. QED
        BY <2>1, <2>2
<1> HIDE DEF of, cursor
<1>4. w \in Work
    BY <1>2 DEF Work
<1>5. StillTrue(w) /\ \A q \in Requests \ {r} : Apart(work[q], w)
    BY <1>1, <1>2 DEF StillTrue, Apart
<1>6. work' = [work EXCEPT ![r] = w]
    BY DEF Refresh, Begins, of, cursor
<1>7. QED
    BY <1>4, <1>5, <1>6, Reading DEF Refresh, Rows

LEMMA MergeMessagesSound ==
    ASSUME IInv, NEW r \in Requests, MergeMessages(r)
    PROVE  IInv'
<1> DEFINE v == work[r]
           t == talk[v.chat]
           of == v.of \o [i \in 1 .. t - v.cursor |-> v.cursor + i]
           w == [op |-> "merged", chat |-> v.chat, of |-> of, cursor |-> t]
<1>1. v \in Work /\ v.op = "refresh" /\ StillTrue(v)
    BY DEF MergeMessages, Doing, IInv, TypeOK, WorkSound
<1>2. v.chat \in Chats /\ v.cursor \in 0 .. MaxTalk
    BY <1>1, WorkFields
<1>3. Open(v.chat) /\ chat[v.chat] # None /\ v.of = UpTo(v.cursor) /\ v.cursor <= t
      /\ t \in 0 .. MaxTalk
    BY <1>1, <1>2 DEF StillTrue, MergeMessages, IInv, TypeOK
<1>4. of = UpTo(t)
    <2>1. v.cursor \in Nat /\ t \in Nat
        BY <1>2, <1>3, ConversationsAssumption
    <2> HIDE DEF v, t
    <2>2. UpTo(v.cursor) \o [i \in 1 .. t - v.cursor |-> v.cursor + i] = UpTo(t)
        BY <2>1, <1>3, Continued
    <2>3. QED
        BY <2>2, <1>3
<1>5. UpTo(t) \in Seq(1 .. MaxTalk)
    BY <1>3, ConversationsAssumption DEF UpTo
<1>6. work' = [work EXCEPT ![r] = w]
    BY DEF MergeMessages
<1> HIDE DEF v, t, of
<1>7. w \in Work
    BY <1>2, <1>3, <1>4, <1>5 DEF Work
<1>8. StillTrue(w) /\ \A q \in Requests \ {r} : Apart(work[q], w)
    BY <1>3, <1>4, ConversationsAssumption DEF StillTrue, Apart, t
<1>9. QED
    BY <1>6, <1>7, <1>8, Reading DEF MergeMessages, Rows

\* The parts of Rooted.
ChatRooted(s) ==
    Open(s) => Exists(chat[s].agent) /\ chat[s].version \in 1 .. Len(versions[chat[s].agent])
AgentRooted(a) ==
    Numbered(a) /\ (Exists(a) <=> versions[a] # <<>>) /\ (facts[a] # {} => Exists(a))
NameApart(a, b) == Exists(a) => agent[a] # agent[b]

LEMMA CreateAgentSound ==
    ASSUME IInv, NEW r \in Requests, CreateAgent(r)
    PROVE  IInv'
<1> DEFINE a == work[r].agent
           n == work[r].name
<1>1. a \in Agents /\ n \in Names /\ agent[a] = None /\ work[r].op = "create" /\ ~Taken(n, a)
    <2>1. work[r] \in Work /\ work[r].op = "create" /\ StillTrue(work[r])
        BY DEF CreateAgent, Doing, IInv, TypeOK, WorkSound
    <2>2. QED
        BY <2>1, WorkFields DEF StillTrue, CreateAgent
<1>2. ~Exists(a)
    BY <1>1, ConversationsAssumption DEF Exists
<1>3. /\ agent' = [agent EXCEPT ![a] = n] /\ versions' = [versions EXCEPT ![a] = <<1>>]
      /\ work' = [work EXCEPT ![r] = Idle] /\ UNCHANGED <<chat, talk, summary, facts>>
    BY DEF CreateAgent, Ends
<1>4. /\ agent'[a] = n /\ versions'[a] = <<1>>
      /\ \A b \in Agents \ {a} : agent'[b] = agent[b] /\ versions'[b] = versions[b]
      /\ work'[r] = Idle /\ \A q \in Requests \ {r} : work'[q] = work[q]
    BY <1>1, <1>3 DEF IInv, TypeOK
<1>5. TypeOK'
    <2>1. <<1>> \in Seq(1 .. MaxVersions)
        BY ConversationsAssumption
    <2>2. Idle \in Work
        BY DEF Work
    <2>3. QED
        BY <1>1, <1>3, <2>1, <2>2 DEF IInv, TypeOK
<1> HIDE DEF a, n
<1>6. Rooted'
    <2>1. ASSUME NEW s \in Chats PROVE ChatRooted(s)'
        <3>1. Open(s)' => Open(s) /\ chat[s].agent \in Agents \ {a} /\ chat'[s] = chat[s]
            BY <1>2, <1>3 DEF IInv, TypeOK, Rooted, Open, Chat
        <3>2. QED
            BY <1>4, <3>1 DEF ChatRooted, Exists, IInv, Rooted
    <2>2. ASSUME NEW b \in Agents PROVE AgentRooted(b)'
        <3>1. CASE b = a
            <4>1. <<1>> = [i \in 1 .. Len(<<1>>) |-> i] /\ <<1>> # <<>>
                OBVIOUS
            <4>2. QED
                BY <1>1, <1>4, <3>1, <4>1 DEF AgentRooted, Numbered, Exists
        <3>2. CASE b # a
            BY <1>3, <1>4, <3>2 DEF AgentRooted, Numbered, Exists, IInv, Rooted
        <3>3. QED
            BY <3>1, <3>2
    <2>3. ASSUME NEW b \in Agents, NEW c \in Agents \ {b} PROVE NameApart(b, c)'
        <3>1. NameApart(b, c)
            BY DEF IInv, Rooted, NameApart
        <3>2. \A d \in Agents \ {a} : agent[d] # n
            BY <1>1 DEF Taken
        <3>3. QED
            BY <1>1, <1>4, <3>1, <3>2 DEF NameApart, Exists
    <2>4. QED
        BY <2>1, <2>2, <2>3 DEF Rooted, ChatRooted, AgentRooted, NameApart
<1>7. SummaryTrue' /\ NothingLeft'
    BY <1>3 DEF IInv, SummaryTrue, NothingLeft, Open
<1>8. WorkSound'
    <2>1. ASSUME NEW q \in Requests, work'[q] = work[q] PROVE StillTrue(work[q])'
        <3>1. CASE q = r
            BY <1>4, <2>1, <3>1 DEF StillTrue, Idle
        <3>2. CASE q # r
            <4>1. StillTrue(work[q]) /\ Apart(work[q], work[r]) /\ work[q] \in Work
                BY <3>2 DEF IInv, TypeOK, WorkSound
            <4>2. work[q].op \in {"create", "version", "chat"} => work[q].agent \in Agents \ {a}
                BY <1>1, <4>1, WorkFields DEF StillTrue, Apart, a
            <4>3. QED
                BY <1>3, <1>4, <2>1, <4>1, <4>2 DEF StillTrue, Exists, Open
        <3>3. QED
            BY <3>1, <3>2
    <2>2. QED
        BY <1>4, <2>1, Keeping
<1>9. QED
    BY <1>5, <1>6, <1>7, <1>8 DEF IInv

LEMMA RenameSound ==
    ASSUME IInv, NEW r \in Requests, Rename(r)
    PROVE  IInv'
<1> DEFINE a == work[r].agent
           n == work[r].name
<1>1. a \in Agents /\ n \in Names /\ Exists(a) /\ work[r].op = "rename" /\ ~Taken(n, a)
    <2>1. work[r] \in Work /\ work[r].op = "rename"
        BY DEF Rename, Doing, IInv, TypeOK
    <2>2. QED
        BY <2>1, WorkFields DEF Rename
<1>2. /\ agent' = [agent EXCEPT ![a] = n] /\ work' = [work EXCEPT ![r] = Idle]
      /\ UNCHANGED <<versions, chat, talk, summary, facts>>
    BY DEF Rename, Ends
<1>3. /\ agent'[a] = n /\ \A b \in Agents \ {a} : agent'[b] = agent[b]
      /\ work'[r] = Idle /\ \A q \in Requests \ {r} : work'[q] = work[q]
    BY <1>1, <1>2 DEF IInv, TypeOK
<1>4. TypeOK'
    <2>1. Idle \in Work
        BY DEF Work
    <2>2. QED
        BY <1>1, <1>2, <2>1 DEF IInv, TypeOK
<1> HIDE DEF a, n
<1>5. \A b \in Agents : (Exists(b)' <=> Exists(b)) /\ (agent'[b] = None <=> agent[b] = None)
    BY <1>1, <1>3, ConversationsAssumption DEF Exists
<1>6. Rooted'
    <2>1. ASSUME NEW s \in Chats PROVE ChatRooted(s)'
        <3>1. Open(s) => chat[s].agent \in Agents
            BY DEF IInv, TypeOK, Open, Chat
        <3>2. QED
            BY <1>2, <1>5, <3>1 DEF ChatRooted, IInv, Rooted, Open
    <2>2. ASSUME NEW b \in Agents PROVE AgentRooted(b)'
        BY <1>2, <1>5 DEF AgentRooted, Numbered, IInv, Rooted
    <2>3. ASSUME NEW b \in Agents, NEW c \in Agents \ {b} PROVE NameApart(b, c)'
        <3>1. NameApart(b, c)
            BY DEF IInv, Rooted, NameApart
        <3>2. \A d \in Agents \ {a} : agent[d] # n
            BY <1>1 DEF Taken
        <3>3. QED
            BY <1>1, <1>3, <3>1, <3>2 DEF NameApart, Exists
    <2>4. QED
        BY <2>1, <2>2, <2>3 DEF Rooted, ChatRooted, AgentRooted, NameApart
<1>7. SummaryTrue' /\ NothingLeft'
    BY <1>2 DEF IInv, SummaryTrue, NothingLeft, Open
<1>8. WorkSound'
    <2>1. ASSUME NEW q \in Requests, work'[q] = work[q] PROVE StillTrue(work[q])'
        <3>1. StillTrue(work[q]) /\ work[q] \in Work
            BY DEF IInv, TypeOK, WorkSound
        <3>2. work[q].op \in {"create", "version", "chat"} => work[q].agent \in Agents
            BY <3>1, WorkFields
        <3>3. QED
            BY <1>2, <1>5, <2>1, <3>1, <3>2 DEF StillTrue, Open
    <2>2. QED
        BY <1>3, <2>1, Keeping
<1>9. QED
    BY <1>4, <1>6, <1>7, <1>8 DEF IInv

\* A new version of an agent, after those there are.
LEMMA CreateVersionSound ==
    ASSUME IInv, NEW r \in Requests, CreateVersion(r)
    PROVE  IInv'
<1> DEFINE a == work[r].agent
           k == work[r].number
           n == Len(versions[a])
<1>1. /\ a \in Agents /\ k \in 1 .. MaxVersions /\ work[r].op = "version"
      /\ NumberFree(a, k) /\ k <= n + 1
    <2>1. work[r] \in Work /\ work[r].op = "version" /\ StillTrue(work[r]) /\ NumberFree(a, k)
        BY DEF CreateVersion, Doing, IInv, TypeOK, WorkSound
    <2>2. QED
        BY <2>1, WorkFields DEF StillTrue, NumberFree
<1>2. /\ versions' = [versions EXCEPT ![a] = Append(@, k)] /\ work' = [work EXCEPT ![r] = Idle]
      /\ UNCHANGED <<agent, chat, talk, summary, facts>>
    BY DEF CreateVersion, Ends
<1>3. /\ versions'[a] = Append(versions[a], k)
      /\ \A b \in Agents \ {a} : versions'[b] = versions[b]
      /\ work'[r] = Idle /\ \A q \in Requests \ {r} : work'[q] = work[q]
    BY <1>1, <1>2 DEF IInv, TypeOK
<1>4. versions[a] \in Seq(1 .. MaxVersions) /\ n \in Nat /\ versions[a] = UpTo(n) /\ Exists(a)
    BY SMTT(20), <1>1 DEF IInv, TypeOK, Rooted, Numbered, NumberFree, UpTo
<1>5. TypeOK'
    <2>1. Append(versions[a], k) \in Seq(1 .. MaxVersions)
        BY <1>1, <1>4
    <2>2. Idle \in Work
        BY DEF Work
    <2>3. QED
        BY <1>1, <1>2, <2>1, <2>2 DEF IInv, TypeOK
<1>6. k = n + 1
    <2>1. \A i \in 1 .. n : versions[a][i] = i
        BY <1>4 DEF UpTo
    <2>2. DOMAIN versions[a] = 1 .. n
        BY <1>4
    <2>3. k \notin 1 .. n
        BY <1>1, <2>1, <2>2 DEF NumberFree
    <2>4. k \in Nat /\ 1 <= k /\ k <= n + 1 /\ n \in Nat
        BY <1>1, <1>4, ConversationsAssumption
    <2> HIDE DEF a, k, n
    <2>5. QED
        BY <2>3, <2>4
<1> HIDE DEF a, k, n
<1>7. versions'[a] = UpTo(n + 1) /\ Len(versions'[a]) = n + 1
    <2>1. Append(UpTo(n), n + 1) = UpTo(n + 1)
        <3>1. UpTo(n) \in Seq(Nat) /\ Len(UpTo(n)) = n /\ UpTo(n + 1) \in Seq(Nat)
              /\ Len(UpTo(n + 1)) = n + 1
            BY <1>4 DEF UpTo
        <3>2. \A i \in 1 .. n + 1 : Append(UpTo(n), n + 1)[i] = UpTo(n + 1)[i]
            BY <1>4, <3>1 DEF UpTo
        <3>3. Append(UpTo(n), n + 1) \in Seq(Nat) /\ Len(Append(UpTo(n), n + 1)) = n + 1
            BY <1>4, <3>1
        <3>4. QED
            BY SMTT(20), <3>1, <3>2, <3>3
    <2>2. Len(UpTo(n + 1)) = n + 1
        BY <1>4 DEF UpTo
    <2>3. QED
        BY <1>3, <1>4, <1>6, <2>1, <2>2
<1>8. Rooted'
    <2>1. ASSUME NEW s \in Chats PROVE ChatRooted(s)'
        <3>1. Open(s) => /\ chat[s].agent \in Agents /\ chat[s].version \in Nat
                         /\ Exists(chat[s].agent)
                         /\ chat[s].version \in 1 .. Len(versions[chat[s].agent])
            BY ConversationsAssumption DEF IInv, TypeOK, Open, Chat, Rooted
        <3>2. CASE Open(s) /\ chat[s].agent = a
            BY <1>2, <1>4, <1>7, <3>1, <3>2 DEF ChatRooted, Open, Exists, n
        <3>3. CASE ~Open(s) \/ chat[s].agent # a
            BY <1>2, <1>3, <3>1, <3>3 DEF ChatRooted, Open, Exists
        <3>4. QED
            BY <3>2, <3>3
    <2>2. ASSUME NEW b \in Agents PROVE AgentRooted(b)'
        <3>1. CASE b = a
            <4>1. UpTo(n + 1) # <<>>
                BY <1>4 DEF UpTo
            <4>2. Numbered(b)'
                BY <1>7, <3>1 DEF Numbered, UpTo
            <4>3. Exists(b)'
                BY <1>2, <1>4, <3>1 DEF Exists
            <4>4. QED
                BY <1>7, <3>1, <4>1, <4>2, <4>3 DEF AgentRooted
        <3>2. CASE b # a
            BY <1>2, <1>3, <3>2 DEF AgentRooted, Numbered, Exists, IInv, Rooted
        <3>3. QED
            BY <3>1, <3>2
    <2>3. ASSUME NEW b \in Agents, NEW c \in Agents \ {b} PROVE NameApart(b, c)'
        BY <1>2 DEF IInv, Rooted, NameApart, Exists
    <2>4. QED
        BY <2>1, <2>2, <2>3 DEF Rooted, ChatRooted, AgentRooted, NameApart
<1>9. SummaryTrue' /\ NothingLeft'
    BY <1>2 DEF IInv, SummaryTrue, NothingLeft, Open
<1>10. WorkSound'
    <2>1. ASSUME NEW q \in Requests, work'[q] = work[q] PROVE StillTrue(work[q])'
        <3>1. StillTrue(work[q]) /\ work[q] \in Work
            BY DEF IInv, TypeOK, WorkSound
        <3>2. work[q].op \in {"version", "chat"} =>
                 work[q].agent \in Agents /\ work[q].number \in Nat
            BY <3>1, WorkFields, ConversationsAssumption
        <3>3. \A b \in Agents : Len(versions[b]) \in Nat /\ Len(versions'[b]) >= Len(versions[b])
                               /\ Len(versions'[b]) \in Nat
            <4> TAKE b \in Agents
            <4>1. Len(versions[b]) \in Nat
                BY DEF IInv, TypeOK
            <4>2. CASE b = a
                BY <1>4, <1>7, <4>1, <4>2 DEF n
            <4>3. CASE b # a
                BY <1>3, <4>1, <4>3
            <4>4. QED
                BY <4>2, <4>3
        <3>4. QED
            BY <1>2, <2>1, <3>1, <3>2, <3>3 DEF StillTrue, Exists, Open
    <2>2. QED
        BY <1>3, <2>1, Keeping
<1>11. QED
    BY <1>5, <1>8, <1>9, <1>10 DEF IInv

LEMMA RemoveAgentSound ==
    ASSUME IInv, NEW r \in Requests, RemoveAgent(r)
    PROVE  IInv'
<1> DEFINE a == work[r].agent
<1>1. a \in Agents /\ Exists(a) /\ ~Referred(a)
    <2>1. work[r] \in Work /\ work[r].op = "remove"
        BY DEF RemoveAgent, Doing, IInv, TypeOK
    <2>2. QED
        BY <2>1, WorkFields DEF RemoveAgent, Deletable
<1>2. /\ agent' = [agent EXCEPT ![a] = "gone"] /\ versions' = [versions EXCEPT ![a] = <<>>]
      /\ facts' = [facts EXCEPT ![a] = {}] /\ work' = [work EXCEPT ![r] = Idle]
      /\ UNCHANGED <<chat, talk, summary>>
    BY DEF RemoveAgent, Ends
<1>3. /\ agent'[a] = "gone" /\ versions'[a] = <<>> /\ facts'[a] = {}
      /\ \A b \in Agents \ {a} :
            agent'[b] = agent[b] /\ versions'[b] = versions[b] /\ facts'[b] = facts[b]
      /\ work'[r] = Idle /\ \A q \in Requests \ {r} : work'[q] = work[q]
    BY <1>1, <1>2 DEF IInv, TypeOK
<1>4. TypeOK'
    <2>1. Idle \in Work /\ <<>> \in Seq(1 .. MaxVersions)
        BY DEF Work
    <2>2. QED
        BY <1>1, <1>2, <2>1 DEF IInv, TypeOK
<1>5. agent'[a] \notin Names \cup {None}
    BY <1>3, ConversationsAssumption DEF Exists
<1> HIDE DEF a
<1>6. Rooted'
    <2>1. ASSUME NEW s \in Chats PROVE ChatRooted(s)'
        <3>1. Open(s) => chat[s].agent \in Agents \ {a} /\ ChatRooted(s)
            BY <1>1 DEF IInv, TypeOK, Open, Chat, Rooted, ChatRooted, Referred
        <3>2. QED
            BY <1>2, <1>3, <3>1 DEF ChatRooted, Open, Exists
    <2>2. ASSUME NEW b \in Agents PROVE AgentRooted(b)'
        <3>1. CASE b = a
            <4>1. <<>> = [i \in 1 .. Len(<<>>) |-> i]
                OBVIOUS
            <4>2. QED
                BY <1>3, <1>5, <3>1, <4>1 DEF AgentRooted, Numbered, Exists
        <3>2. CASE b # a
            BY <1>3, <3>2 DEF AgentRooted, Numbered, Exists, IInv, Rooted
        <3>3. QED
            BY <3>1, <3>2
    <2>3. ASSUME NEW b \in Agents, NEW c \in Agents \ {b} PROVE NameApart(b, c)'
        <3>1. NameApart(b, c)
            BY DEF IInv, Rooted, NameApart
        <3>2. QED
            BY <1>3, <1>5, <3>1, ConversationsAssumption DEF NameApart, Exists
    <2>4. QED
        BY <2>1, <2>2, <2>3 DEF Rooted, ChatRooted, AgentRooted, NameApart
<1>7. SummaryTrue' /\ NothingLeft'
    BY <1>2 DEF IInv, SummaryTrue, NothingLeft, Open
<1>8. WorkSound'
    <2>1. ASSUME NEW q \in Requests, work'[q] = work[q] PROVE StillTrue(work[q])'
        <3>1. StillTrue(work[q]) /\ work[q] \in Work
            BY DEF IInv, TypeOK, WorkSound
        <3>2. work[q].op \in {"create", "version", "chat"} => work[q].agent \in Agents
            BY <3>1, WorkFields
        <3>3. agent[a] # None
            BY <1>1, ConversationsAssumption DEF Exists
        <3>4. QED
            BY <1>2, <1>3, <1>5, <2>1, <3>1, <3>2, <3>3 DEF StillTrue, Exists, Open
    <2>2. QED
        BY <1>3, <2>1, Keeping
<1>9. QED
    BY <1>4, <1>6, <1>7, <1>8 DEF IInv

LEMMA UpsertSound ==
    ASSUME IInv, NEW a \in Agents, NEW k \in Facts, Upsert(a, k)
    PROVE  IInv'
<1>1. /\ facts' = [facts EXCEPT ![a] = @ \cup {k}] /\ Exists(a)
      /\ UNCHANGED <<agent, versions, chat, talk, summary, work>>
    BY DEF Upsert
<1>2. TypeOK'
    BY <1>1 DEF IInv, TypeOK
<1>3. Rooted'
    BY <1>1 DEF IInv, TypeOK, Rooted, Numbered, Exists, Open
<1>4. SummaryTrue' /\ NothingLeft' /\ WorkSound'
    BY <1>1 DEF IInv, SummaryTrue, NothingLeft, Open, WorkSound, StillTrue, Apart, Exists
<1>5. QED
    BY <1>2, <1>3, <1>4 DEF IInv

LEMMA CreateChatSound ==
    ASSUME IInv, NEW r \in Requests, CreateChat(r)
    PROVE  IInv'
<1> DEFINE s == work[r].chat
           a == work[r].agent
           k == work[r].number
           row == [agent |-> a, version |-> k, open |-> TRUE]
<1>1. /\ s \in Chats /\ a \in Agents /\ k \in 1 .. MaxVersions /\ work[r].op = "chat"
      /\ chat[s] = None /\ Exists(a) /\ k <= Len(versions[a])
    <2>1. work[r] \in Work /\ work[r].op = "chat" /\ StillTrue(work[r])
        BY DEF CreateChat, Doing, IInv, TypeOK, WorkSound
    <2>2. QED
        BY <2>1, WorkFields DEF CreateChat, StillTrue
<1>2. /\ chat' = [chat EXCEPT ![s] = row] /\ work' = [work EXCEPT ![r] = Idle]
      /\ UNCHANGED <<agent, versions, talk, summary, facts>>
    BY DEF CreateChat, Ends
<1>3. /\ chat'[s] = row /\ \A c \in Chats \ {s} : chat'[c] = chat[c]
      /\ work'[r] = Idle /\ \A q \in Requests \ {r} : work'[q] = work[q]
    BY <1>1, <1>2 DEF IInv, TypeOK
<1>4. row \in Chat /\ row # None /\ row.open /\ row.agent = a /\ row.version = k
    <2>1. row \in Chat
        BY <1>1 DEF Chat
    <2>2. row.open = TRUE /\ row.agent = a /\ row.version = k
        OBVIOUS
    <2>3. None \notin Chat
        BY ConversationsAssumption
    <2> HIDE DEF row
    <2>4. QED
        BY <2>1, <2>2, <2>3
<1>5. talk[s] = 0 /\ summary[s] = None
    BY <1>1 DEF IInv, NothingLeft, Open
<1>6. TypeOK'
    <2>1. Idle \in Work
        BY DEF Work
    <2>2. QED
        BY <1>1, <1>2, <1>4, <2>1 DEF IInv, TypeOK
<1>7. k \in Nat /\ 1 <= k /\ k <= MaxVersions /\ Len(versions[a]) \in Nat
    BY <1>1, ConversationsAssumption DEF IInv, TypeOK
<1> HIDE DEF s, a, k, row
<1>8. Rooted'
    <2>1. ASSUME NEW c \in Chats PROVE ChatRooted(c)'
        <3>1. CASE c = s
            BY <1>1, <1>2, <1>3, <1>4, <1>7, <3>1 DEF ChatRooted, Exists
        <3>2. CASE c # s
            BY <1>2, <1>3, <3>2 DEF ChatRooted, Exists, Open, IInv, Rooted
        <3>3. QED
            BY <3>1, <3>2
    <2>2. ASSUME NEW b \in Agents PROVE AgentRooted(b)'
        BY <1>2 DEF AgentRooted, Numbered, Exists, IInv, Rooted
    <2>3. ASSUME NEW b \in Agents, NEW c \in Agents \ {b} PROVE NameApart(b, c)'
        BY <1>2 DEF IInv, Rooted, NameApart, Exists
    <2>4. QED
        BY <2>1, <2>2, <2>3 DEF Rooted, ChatRooted, AgentRooted, NameApart
<1>9. SummaryTrue'
    BY <1>2 DEF IInv, SummaryTrue
<1>10. NothingLeft'
    BY <1>2, <1>3, <1>5 DEF IInv, NothingLeft, Open
<1>11. WorkSound'
    <2>1. ASSUME NEW q \in Requests, work'[q] = work[q] PROVE StillTrue(work[q])'
        <3>1. CASE q = r
            BY <1>3, <2>1, <3>1 DEF StillTrue, Idle
        <3>2. CASE q # r
            <4>1. StillTrue(work[q]) /\ Apart(work[q], work[r]) /\ work[q] \in Work
                BY <3>2 DEF IInv, TypeOK, WorkSound
            <4>2. work[q].op = "chat" => work[q].chat \in Chats \ {s}
                BY <1>1, <4>1, WorkFields DEF Apart, s
            <4>3. work[q].op \in {"refresh", "merged"} => work[q].chat \in Chats \ {s}
                BY <1>1, <4>1, WorkFields DEF StillTrue
            <4>4. QED
                BY <1>2, <1>3, <2>1, <4>1, <4>2, <4>3 DEF StillTrue, Exists, Open
        <3>3. QED
            BY <3>1, <3>2
    <2>2. QED
        BY <1>3, <2>1, Keeping
<1>12. QED
    BY <1>6, <1>8, <1>9, <1>10, <1>11 DEF IInv

LEMMA RemoveChatSound ==
    ASSUME IInv, NEW s \in Chats, RemoveChat(s)
    PROVE  IInv'
<1> DEFINE row == [chat[s] EXCEPT !.open = FALSE]
<1>1. Open(s) /\ chat[s] # None /\ chat[s] \in Chat
    BY DEF RemoveChat, Open, IInv, TypeOK
<1>2. /\ chat' = [chat EXCEPT ![s] = row] /\ talk' = [talk EXCEPT ![s] = 0]
      /\ summary' = [summary EXCEPT ![s] = None] /\ UNCHANGED <<agent, versions, facts, work>>
    BY DEF RemoveChat, IInv, TypeOK
<1>3. row \in Chat /\ row.open = FALSE /\ row # None
    BY <1>1, ConversationsAssumption DEF Chat
<1>4. /\ chat'[s] = row /\ talk'[s] = 0 /\ summary'[s] = None
      /\ \A c \in Chats \ {s} :
            chat'[c] = chat[c] /\ talk'[c] = talk[c] /\ summary'[c] = summary[c]
    BY <1>2 DEF IInv, TypeOK
<1> HIDE DEF row
<1>5. TypeOK'
    <2>1. 0 \in 0 .. MaxTalk
        BY ConversationsAssumption
    <2>2. QED
        BY <1>2, <1>3, <2>1 DEF IInv, TypeOK
<1>6. ~Open(s)' /\ \A c \in Chats \ {s} : Open(c)' <=> Open(c)
    BY <1>3, <1>4 DEF Open
<1>7. Rooted'
    <2>1. ASSUME NEW c \in Chats PROVE ChatRooted(c)'
        BY <1>2, <1>4, <1>6 DEF ChatRooted, Exists, IInv, Rooted
    <2>2. ASSUME NEW b \in Agents PROVE AgentRooted(b)'
        BY <1>2 DEF AgentRooted, Numbered, Exists, IInv, Rooted
    <2>3. ASSUME NEW b \in Agents, NEW c \in Agents \ {b} PROVE NameApart(b, c)'
        BY <1>2 DEF IInv, Rooted, NameApart, Exists
    <2>4. QED
        BY <2>1, <2>2, <2>3 DEF Rooted, ChatRooted, AgentRooted, NameApart
<1>8. SummaryTrue'
    BY <1>4 DEF IInv, SummaryTrue
<1>9. NothingLeft'
    BY <1>4, <1>6 DEF IInv, NothingLeft
<1>10. WorkSound'
    <2>1. ASSUME NEW q \in Requests, work'[q] = work[q] PROVE StillTrue(work[q])'
        <3>1. StillTrue(work[q]) /\ work[q] \in Work
            BY DEF IInv, TypeOK, WorkSound
        <3>2. work[q].op \in {"chat", "refresh", "merged"} => work[q].chat \in Chats
            BY <3>1, WorkFields
        <3>3. QED
            BY <1>1, <1>2, <1>3, <1>4, <1>6, <2>1, <3>1, <3>2 DEF StillTrue, Exists
    <2>2. QED
        BY <1>2, <2>1, Keeping
<1>11. QED
    BY <1>5, <1>7, <1>8, <1>9, <1>10 DEF IInv

LEMMA SaySound ==
    ASSUME IInv, NEW s \in Chats, Say(s)
    PROVE  IInv'
<1>1. Open(s) /\ talk[s] \in 0 .. MaxTalk /\ talk[s] < MaxTalk
    BY DEF Say, IInv, TypeOK
<1>2. /\ talk' = [talk EXCEPT ![s] = talk[s] + 1]
      /\ UNCHANGED <<agent, versions, chat, summary, facts, work>>
    BY DEF Say
<1>3. /\ talk'[s] = talk[s] + 1 /\ \A c \in Chats \ {s} : talk'[c] = talk[c]
    BY <1>2 DEF IInv, TypeOK
<1>4. \A c \in Chats : talk[c] \in Nat /\ talk'[c] \in Nat /\ talk[c] <= talk'[c]
    BY <1>1, <1>3, ConversationsAssumption DEF IInv, TypeOK
<1>5. TypeOK'
    <2>1. talk[s] + 1 \in 0 .. MaxTalk
        BY <1>1, ConversationsAssumption
    <2>2. QED
        BY <1>2, <2>1 DEF IInv, TypeOK
<1>6. Rooted'
    BY <1>2 DEF IInv, Rooted, Numbered, Exists, Open
<1>7. SummaryTrue'
    <2>1. \A c \in Chats : summary[c] # None => summary[c].cursor \in Nat
        BY ConversationsAssumption DEF IInv, TypeOK, Summary
    <2>2. QED
        BY <1>2, <1>4, <2>1 DEF IInv, SummaryTrue
<1>8. NothingLeft'
    BY <1>1, <1>2, <1>3 DEF IInv, NothingLeft, Open
<1>9. WorkSound'
    <2>1. ASSUME NEW q \in Requests PROVE StillTrue(work[q])'
        <3>1. StillTrue(work[q]) /\ work[q] \in Work
            BY DEF IInv, TypeOK, WorkSound
        <3>2. work[q].op \in {"refresh", "merged"} => work[q].chat \in Chats /\ work[q].cursor \in Nat
            BY <3>1, WorkFields, ConversationsAssumption
        <3>3. QED
            BY <1>2, <1>4, <3>1, <3>2 DEF StillTrue, Exists, Open
    <2>2. QED
        BY <1>2, <2>1, Keeping
<1>10. QED
    BY <1>5, <1>6, <1>7, <1>8, <1>9 DEF IInv

LEMMA WriteSummarySound ==
    ASSUME IInv, NEW r \in Requests, WriteSummary(r)
    PROVE  IInv'
<1> DEFINE s == work[r].chat
           row == [of |-> work[r].of, cursor |-> work[r].cursor]
<1>1. work[r] \in Work /\ work[r].op = "merged" /\ StillTrue(work[r]) /\ Open(s)
    BY DEF WriteSummary, Doing, IInv, TypeOK, WorkSound
<1>2. s \in Chats /\ row \in Summary /\ row.of = UpTo(row.cursor) /\ row.cursor <= talk[s]
    BY <1>1, WorkFields DEF StillTrue, Summary
<1>3. /\ summary' = [summary EXCEPT ![s] = row] /\ work' = [work EXCEPT ![r] = Idle]
      /\ UNCHANGED <<agent, versions, chat, talk, facts>>
    BY DEF WriteSummary, Ends
<1>4. /\ summary'[s] = row /\ \A c \in Chats \ {s} : summary'[c] = summary[c]
      /\ work'[r] = Idle /\ \A q \in Requests \ {r} : work'[q] = work[q]
    BY <1>2, <1>3 DEF IInv, TypeOK
<1>5. TypeOK'
    <2>1. Idle \in Work
        BY DEF Work
    <2>2. QED
        BY <1>2, <1>3, <2>1 DEF IInv, TypeOK
<1> HIDE DEF s, row
<1>6. Rooted'
    BY <1>3 DEF IInv, Rooted, Numbered, Exists, Open
<1>7. SummaryTrue'
    BY <1>2, <1>3, <1>4 DEF IInv, SummaryTrue, UpTo
<1>8. NothingLeft'
    BY <1>1, <1>3, <1>4 DEF IInv, NothingLeft, Open, s
<1>9. WorkSound'
    <2>1. ASSUME NEW q \in Requests, work'[q] = work[q] PROVE StillTrue(work[q])'
        BY <1>3, <2>1 DEF IInv, WorkSound, StillTrue, Exists, Open
    <2>2. QED
        BY <1>4, <2>1, Keeping
<1>10. QED
    BY <1>5, <1>6, <1>7, <1>8, <1>9 DEF IInv

LEMMA NextSound == IInv /\ [Next]_vars => IInv'
<1> SUFFICES ASSUME IInv, [Next]_vars PROVE IInv'
    OBVIOUS
<1>1. ASSUME NEW r \in Requests,
             \/ Abandon(r) \/ CreateAgent(r) \/ Rename(r) \/ CreateVersion(r) \/ RemoveAgent(r)
             \/ CreateChat(r) \/ MergeMessages(r) \/ WriteSummary(r)
      PROVE  IInv'
    BY <1>1, AbandonSound, CreateAgentSound, RenameSound, CreateVersionSound, RemoveAgentSound,
       CreateChatSound, MergeMessagesSound, WriteSummarySound
<1>2. ASSUME NEW r \in Requests, NEW a \in Agents,
             \/ AskVersion(r, a) \/ AskRemoval(r, a)
             \/ \E n \in Names : AskAgent(r, a, n) \/ AskName(r, a, n)
             \/ \E s \in Chats : AskChat(r, s, a)
      PROVE  IInv'
    BY <1>2, AskVersionSound, AskRemovalSound, AskAgentSound, AskNameSound, AskChatSound
<1>3. ASSUME NEW r \in Requests, NEW s \in Chats, LoadSummary(r, s) \/ RefreshLater(r, s)
      PROVE  IInv'
    BY <1>3, RefreshSound DEF LoadSummary, RefreshLater
<1>4. ASSUME NEW s \in Chats, RemoveChat(s) \/ Ask(s) \/ Reply(s)
      PROVE  IInv'
    BY <1>4, RemoveChatSound, SaySound DEF Ask, Reply
<1>5. ASSUME NEW s \in Chats, NEW k \in Facts, Remember(s, k) \/ RememberLater(s, k)
      PROVE  IInv'
    <2>1. chat[s] # None /\ Upsert(chat[s].agent, k)
        BY <1>5 DEF Remember, RememberLater, Open
    <2>2. chat[s].agent \in Agents
        BY <2>1 DEF IInv, TypeOK, Chat
    <2>3. QED
        BY <2>1, <2>2, UpsertSound
<1>6. CASE UNCHANGED vars
    BY <1>6 DEF vars, IInv, TypeOK, Rooted, SummaryTrue, NothingLeft, WorkSound, StillTrue,
               Apart, Numbered, Exists, Open
<1>7. QED
    BY <1>1, <1>2, <1>3, <1>4, <1>5, <1>6 DEF Next

LEMMA Invariance == Spec => []IInv
<1>1. Init => IInv
    BY InitSound
<1>2. IInv /\ [Next]_vars => IInv'
    BY NextSound
<1>3. QED
    BY <1>1, <1>2, PTL DEF Spec

\* Agents, versions, sessions, summaries and what requests have read have their
\* types: no version number passes its bound.
THEOREM TypeCorrect == Spec => []TypeOK
<1>1. IInv => TypeOK
    BY DEF IInv
<1>2. QED
    BY <1>1, Invariance, PTL

\* Without locks, by the constraints of the tables alone, nothing loses what it
\* refers to, versions are numbered without a gap, and names differ, for any
\* number of requests.
THEOREM AllRooted == Spec => []Rooted
<1>1. IInv => Rooted
    BY DEF IInv
<1>2. QED
    BY <1>1, Invariance, PTL

\* However refreshes overlap with each other, with new messages and with deletion,
\* a summary contains every message up to its cursor.
THEOREM SummariesTrue == Spec => []SummaryTrue
<1>1. IInv => SummaryTrue
    BY DEF IInv
<1>2. QED
    BY <1>1, Invariance, PTL
==============================================================================
