---------------------------- MODULE ResearchProofs ----------------------------
(***************************************************************************)
(* Of the prepare_topic_research tool, for any calls, providers, answers:  *)
(*   - a circuit trips only when it has earned it (TripEarned),            *)
(*   - what is stored of a topic is grounded (Grounded),                   *)
(*   - calls, searches, caches and rows have their types (TypeOK).         *)
(***************************************************************************)
EXTENDS Research, NaturalsInduction, WellFoundedInduction, TLAPS

\* The types of what searches share, and of the searches.
NetTypes ==
    /\ search \in [Calls -> [Providers -> Search]]
    /\ cache \in [Providers -> Answers \cup {None}]
    /\ circuit \in [Providers -> Circuit]
    /\ losses \in [Providers -> 0 .. Threshold]

\* The count of a circuit never exceeds the searches that failed since the last
\* success, and neither will what a thread is about to write.
CountEarned(p) == circuit[p].failures <= losses[p]
SeenEarned(c, p) ==
    search[c][p].seen # None => Counted(search[c][p].seen) <= losses[p]

IInv ==
    /\ NetTypes
    /\ \A p \in Providers : CountEarned(p)
    /\ \A c \in Calls, p \in Providers : SeenEarned(c, p)
    /\ TripEarned

LEMMA CountedBounds ==
    ASSUME NEW n \in 0 .. Threshold
    PROVE  /\ Counted(n) \in 0 .. Threshold
           /\ n <= Counted(n)
           /\ \A m \in 0 .. Threshold : n <= m => Counted(n) <= Counted(m)
BY ResearchAssumption DEF Counted

LEMMA InitInv == Init => IInv
<1> SUFFICES ASSUME Init PROVE IInv
  OBVIOUS
<1>1. NewSearch \in Search
  BY ResearchAssumption DEF NewSearch, Search
<1>2. Closed \in Circuit /\ Closed.failures = 0 /\ Closed.open = FALSE
  BY ResearchAssumption DEF Closed, Circuit
<1>3. search = [c \in Calls |-> [p \in Providers |-> NewSearch]]
  BY DEF Init
<1>4. /\ cache = [p \in Providers |-> None] /\ circuit = [p \in Providers |-> Closed]
      /\ losses = [p \in Providers |-> 0]
  BY DEF Init
<1>5. NetTypes
  <2>1. search \in [Calls -> [Providers -> Search]]
    BY <1>1, <1>3
  <2> QED
    BY <2>1, <1>2, <1>4, ResearchAssumption DEF NetTypes
<1>6. \A p \in Providers : CountEarned(p)
  BY <1>2, <1>4 DEF CountEarned
<1>7. \A c \in Calls, p \in Providers : search[c][p].seen = None
  BY <1>3 DEF NewSearch
<1>8. TripEarned
  BY <1>2, <1>4 DEF TripEarned
<1> QED
  BY <1>5, <1>6, <1>7, <1>8 DEF IInv, SeenEarned

\* A step that changes at most the search of one call at a provider, and sees
\* nothing new there.
LEMMA SearchKept ==
    ASSUME IInv, NEW c \in Calls, NEW p \in Providers, NEW new \in Search,
           new.seen = None \/ new.seen = search[c][p].seen,
           search' = [search EXCEPT ![c][p] = new],
           cache' \in [Providers -> Answers \cup {None}],
           UNCHANGED <<circuit, losses>>
    PROVE  IInv'
<1>1. search' \in [Calls -> [Providers -> Search]]
  BY DEF IInv, NetTypes
<1>2. \A d \in Calls, q \in Providers :
        search'[d][q].seen = None \/ search'[d][q].seen = search[d][q].seen
  BY DEF IInv, NetTypes
<1>3. NetTypes'
  BY <1>1 DEF IInv, NetTypes
<1>4. \A d \in Calls, q \in Providers : SeenEarned(d, q)'
  BY <1>2 DEF IInv, SeenEarned, Counted
<1> QED
  BY <1>3, <1>4 DEF IInv, CountEarned, TripEarned

\* What the fields of a search are after a step.
LEMMA SearchFields ==
    ASSUME IInv, NEW c \in Calls, NEW p \in Providers
    PROVE  /\ search[c][p] \in Search
           /\ \A items \in Answers :
                /\ Found(search[c][p], items) \in Search
                /\ Found(search[c][p], items).seen = None
<1>1. search[c][p] \in Search
  BY DEF IInv, NetTypes
<1> QED
  BY <1>1 DEF Search, Found

\* Steps of a search that record nothing.
LEMMA QuietSteps ==
    ASSUME IInv, NEW c \in Calls, NEW p \in Providers,
           \/ Cached(c, p) \/ Ask(c, p) \/ Refuse(c, p)
           \/ Retry(c, p) \/ TooLate(c, p) \/ Drop(c, p)
    PROVE  IInv'
<1>0. /\ search[c][p] \in Search /\ <<>> \in Answers
      /\ cache \in [Providers -> Answers \cup {None}]
      /\ Tries \in Nat \ {0}
  BY SearchFields, ResearchAssumption DEF IInv, NetTypes
<1>1. CASE Cached(c, p)
  <2>1. cache[p] \in Answers
    BY <1>0, <1>1 DEF Cached
  <2>2. search' = [search EXCEPT ![c][p] = Found(search[c][p], cache[p])]
    BY <1>1 DEF Cached, IInv, NetTypes
  <2>3. cache' = cache /\ circuit' = circuit /\ losses' = losses
    BY <1>1 DEF Cached, netVars
  <2>4. /\ Found(search[c][p], cache[p]) \in Search
        /\ Found(search[c][p], cache[p]).seen = None
    BY <2>1, SearchFields
  <2> QED
    BY <1>0, <2>2, <2>3, <2>4, SearchKept
<1>2. CASE Ask(c, p)
  <2> DEFINE new == [search[c][p] EXCEPT !.st = "asking", !.tries = 1]
  <2>1. new \in Search /\ new.seen = search[c][p].seen
    <3>1. 1 \in 0 .. Tries
      BY <1>0
    <3> QED
      BY <1>0, <3>1 DEF Search
  <2>2. search' = [search EXCEPT ![c][p] = new]
    BY <1>2 DEF Ask, IInv, NetTypes
  <2> HIDE DEF new
  <2>3. cache' = cache /\ circuit' = circuit /\ losses' = losses
    BY <1>2 DEF Ask, netVars
  <2> QED
    BY <1>0, <2>1, <2>2, <2>3, SearchKept
<1>3. CASE Refuse(c, p) \/ TooLate(c, p)
  <2>1. /\ search' = [search EXCEPT ![c][p] = Found(search[c][p], <<>>)]
        /\ cache' = [cache EXCEPT ![p] = <<>>]
    BY <1>3 DEF Refuse, TooLate, Store, IInv, NetTypes
  <2> QED
    BY <1>0, <1>3, <2>1, SearchFields, SearchKept DEF Refuse, TooLate
<1>4. CASE Retry(c, p)
  <2> DEFINE new == [search[c][p] EXCEPT !.tries = @ + 1]
  <2>1. new \in Search /\ new.seen = search[c][p].seen
    BY <1>0, <1>4 DEF Search, Retry
  <2>2. search' = [search EXCEPT ![c][p] = new]
    BY <1>4 DEF Retry, IInv, NetTypes
  <2> HIDE DEF new
  <2>3. cache' = cache /\ circuit' = circuit /\ losses' = losses
    BY <1>4 DEF Retry, netVars
  <2> QED
    BY <1>0, <2>1, <2>2, <2>3, SearchKept
<1>5. CASE Drop(c, p)
  <2>1. search' = [search EXCEPT ![c][p] = Found(search[c][p], <<>>)]
    BY <1>5 DEF Drop, IInv, NetTypes
  <2>2. cache' = cache /\ circuit' = circuit /\ losses' = losses
    BY <1>5 DEF Drop, netVars
  <2>3. Found(search[c][p], <<>>) \in Search /\ Found(search[c][p], <<>>).seen = None
    BY <1>0, SearchFields
  <2> QED
    BY <1>0, <2>1, <2>2, <2>3, SearchKept
<1> QED
  BY <1>1, <1>2, <1>3, <1>4, <1>5

\* A success closes the circuit and takes the count from every thread that is
\* about to write one.
LEMMA OrphanedSeen ==
    ASSUME IInv, NEW p \in Providers
    PROVE  /\ Orphaned(p) \in [Calls -> [Providers -> Search]]
           /\ \A d \in Calls : Orphaned(p)[d][p].seen = None
           /\ \A d \in Calls, q \in Providers \ {p} : Orphaned(p)[d][q] = search[d][q]
<1>1. ASSUME NEW d \in Calls
      PROVE  /\ [search[d] EXCEPT ![p].seen = None] \in [Providers -> Search]
             /\ [search[d] EXCEPT ![p].seen = None][p].seen = None
             /\ \A q \in Providers \ {p} : [search[d] EXCEPT ![p].seen = None][q] = search[d][q]
  <2>1. search[d] \in [Providers -> Search] /\ search[d][p] \in Search
    BY DEF IInv, NetTypes
  <2>2. [search[d][p] EXCEPT !.seen = None] \in Search
    BY <2>1 DEF Search
  <2> QED
    BY <2>1, <2>2 DEF Search
<1> QED
  BY <1>1 DEF Orphaned

LEMMA ClosedKeeps ==
    ASSUME IInv, NEW p \in Providers, Close(p),
           search' \in [Calls -> [Providers -> Search]],
           cache' \in [Providers -> Answers \cup {None}],
           \A d \in Calls : search'[d][p].seen = None,
           \A d \in Calls, q \in Providers \ {p} : search'[d][q] = search[d][q]
    PROVE  IInv'
<1>1. Closed \in Circuit /\ Closed.failures = 0 /\ Closed.open = FALSE
  BY ResearchAssumption DEF Closed, Circuit
<1>2. /\ circuit' = [circuit EXCEPT ![p] = Closed] /\ losses' = [losses EXCEPT ![p] = 0]
      /\ circuit \in [Providers -> Circuit] /\ losses \in [Providers -> 0 .. Threshold]
  BY DEF Close, IInv, NetTypes
<1>3. NetTypes'
  BY <1>1, <1>2, ResearchAssumption DEF NetTypes
<1>4. \A q \in Providers : CountEarned(q)'
  BY <1>1, <1>2 DEF IInv, CountEarned
<1>5. TripEarned'
  BY <1>1, <1>2 DEF IInv, TripEarned
<1>6. \A d \in Calls, q \in Providers : SeenEarned(d, q)'
  BY <1>2 DEF IInv, SeenEarned, Counted
<1> QED
  BY <1>3, <1>4, <1>5, <1>6 DEF IInv

LEMMA AnsweredKeeps ==
    ASSUME IInv, NEW c \in Calls, NEW p \in Providers, NEW items \in Answers,
           Answered(c, p, items)
    PROVE  IInv'
<1> DEFINE old == Orphaned(p)
<1>1. /\ old \in [Calls -> [Providers -> Search]]
      /\ \A d \in Calls : old[d][p].seen = None
      /\ \A d \in Calls, q \in Providers \ {p} : old[d][q] = search[d][q]
  BY OrphanedSeen
<1>2. search' = [old EXCEPT ![c][p] = Found(old[c][p], items)]
  BY <1>1 DEF Answered
<1> HIDE DEF old
<1>3. Found(old[c][p], items) \in Search /\ Found(old[c][p], items).seen = None
  <2>1. old[c][p] \in Search
    BY <1>1
  <2> QED
    BY <2>1 DEF Found, Search
<1>4. search' \in [Calls -> [Providers -> Search]]
  BY <1>1, <1>2, <1>3
<1>5. \A d \in Calls : search'[d][p].seen = None
  BY <1>1, <1>2, <1>3
<1>6. \A d \in Calls, q \in Providers \ {p} : search'[d][q] = search[d][q]
  BY <1>1, <1>2
<1>7. Close(p) /\ cache' \in [Providers -> Answers \cup {None}]
  BY DEF Answered, IInv, NetTypes
<1> QED
  BY <1>4, <1>5, <1>6, <1>7, ClosedKeeps

\* A failure is counted as a loss before its count is written.
LEMMA FailKeeps ==
    ASSUME IInv, NEW c \in Calls, NEW p \in Providers, Fail(c, p)
    PROVE  IInv'
<1> DEFINE new == [search[c][p] EXCEPT !.st = "failing", !.seen = circuit[p].failures]
<1>0. /\ search \in [Calls -> [Providers -> Search]] /\ search[c][p] \in Search
      /\ circuit[p] \in Circuit /\ circuit[p].failures \in 0 .. Threshold
      /\ losses \in [Providers -> 0 .. Threshold]
      /\ circuit[p].failures <= losses[p]
  BY DEF IInv, NetTypes, Circuit, CountEarned
<1>1. new \in Search /\ new.seen = circuit[p].failures
  BY <1>0 DEF Search
<1>2. /\ search' = [search EXCEPT ![c][p] = new]
      /\ losses' = [losses EXCEPT ![p] = Counted(losses[p])]
      /\ UNCHANGED <<cache, circuit>>
  BY <1>0 DEF Fail
<1> HIDE DEF new
<1>3. /\ losses[p] \in 0 .. Threshold /\ Counted(losses[p]) \in 0 .. Threshold
      /\ losses[p] <= Counted(losses[p])
      /\ Counted(circuit[p].failures) <= Counted(losses[p])
  BY <1>0, CountedBounds
<1>4. NetTypes'
  BY <1>0, <1>1, <1>2, <1>3 DEF IInv, NetTypes
<1>5. \A q \in Providers : losses'[q] \in 0 .. Threshold /\ losses[q] <= losses'[q]
  BY <1>0, <1>2, <1>3
<1>6. ASSUME NEW q \in Providers PROVE CountEarned(q)'
  <2>1. circuit[q].failures \in 0 .. Threshold /\ losses[q] \in 0 .. Threshold
    BY DEF IInv, NetTypes, Circuit
  <2> QED
    BY <1>2, <1>5, <2>1, ResearchAssumption DEF IInv, CountEarned
<1>7. TripEarned'
  BY <1>0, <1>2, <1>5, ResearchAssumption DEF IInv, TripEarned
<1>8. ASSUME NEW d \in Calls, NEW q \in Providers PROVE SeenEarned(d, q)'
  <2>1. CASE d = c /\ q = p
    <3>1. search'[d][q].seen = circuit[p].failures /\ losses'[q] = Counted(losses[p])
      BY <1>0, <1>1, <1>2, <2>1
    <3> QED
      BY <1>3, <3>1 DEF SeenEarned, Counted
  <2>2. CASE ~(d = c /\ q = p)
    <3>1. search'[d][q] = search[d][q] /\ search[d][q] \in Search
      BY <1>0, <1>2, <2>2
    <3>2. search[d][q].seen # None => Counted(search[d][q].seen) \in 0 .. Threshold
      BY <3>1, CountedBounds DEF Search
    <3> QED
      BY <1>0, <1>5, <3>1, <3>2, ResearchAssumption DEF IInv, SeenEarned, Counted
  <2> QED
    BY <2>1, <2>2
<1> QED
  BY <1>4, <1>6, <1>7, <1>8 DEF IInv

\* The count that is written was earned when it was read, or nobody has it any more.
LEMMA RecordKeeps ==
    ASSUME IInv, NEW c \in Calls, NEW p \in Providers, Record(c, p)
    PROVE  IInv'
<1> DEFINE n == Counted(search[c][p].seen)
           new == Found(search[c][p], <<>>)
<1>0. /\ search \in [Calls -> [Providers -> Search]] /\ search[c][p] \in Search
      /\ circuit \in [Providers -> Circuit] /\ circuit[p] \in Circuit
      /\ losses \in [Providers -> 0 .. Threshold]
      /\ cache \in [Providers -> Answers \cup {None}]
      /\ new \in Search /\ new.seen = None /\ <<>> \in Answers
  BY SearchFields, ResearchAssumption DEF IInv, NetTypes
<1>1. /\ search' = [search EXCEPT ![c][p] = new]
      /\ cache' = [cache EXCEPT ![p] = <<>>] /\ losses' = losses
  BY <1>0 DEF Record, Store
<1> HIDE DEF new
<1>2. CASE search[c][p].seen = None
  <2>1. circuit' = circuit
    BY <1>2 DEF Record
  <2> QED
    BY <1>0, <1>1, <2>1, SearchKept
<1>3. CASE search[c][p].seen # None
  <2>1. n \in 0 .. Threshold /\ n <= losses[p]
    BY <1>0, <1>3, CountedBounds DEF IInv, SeenEarned, Search
  <2> HIDE DEF n
  <2> DEFINE state == [failures |-> n, open |-> circuit[p].open \/ n = Threshold]
  <2>2. circuit' = [circuit EXCEPT ![p] = state]
    BY <1>0, <1>3 DEF Record, n
  <2>3. /\ state \in Circuit /\ state.failures = n
        /\ state.open = (circuit[p].open \/ n = Threshold)
    BY <1>0, <2>1 DEF Circuit
  <2> HIDE DEF state
  <2>4. NetTypes'
    BY <1>0, <1>1, <2>2, <2>3 DEF NetTypes
  <2>5. \A q \in Providers : CountEarned(q)'
    BY <1>0, <1>1, <2>1, <2>2, <2>3 DEF IInv, CountEarned
  <2>6. losses[p] \in 0 .. Threshold /\ (n = Threshold => losses[p] >= Threshold)
    BY <1>0, <2>1, ResearchAssumption
  <2>7. ASSUME NEW q \in Providers, circuit'[q].open PROVE losses'[q] >= Threshold
    <3>1. CASE q = p
      BY <1>0, <1>1, <2>2, <2>3, <2>6, <2>7, <3>1 DEF IInv, TripEarned
    <3>2. CASE q # p
      BY <1>0, <1>1, <2>2, <2>7, <3>2 DEF IInv, TripEarned
    <3> QED
      BY <3>1, <3>2
  <2>8. \A d \in Calls, q \in Providers :
          search'[d][q].seen = None \/ search'[d][q].seen = search[d][q].seen
    BY <1>0, <1>1
  <2>9. \A d \in Calls, q \in Providers : SeenEarned(d, q)'
    BY <1>1, <2>8 DEF IInv, SeenEarned, Counted
  <2> QED
    BY <2>4, <2>5, <2>7, <2>9 DEF IInv, TripEarned
<1> QED
  BY <1>2, <1>3

LEMMA OtherFailsKeeps ==
    ASSUME IInv, NEW p \in Providers, OtherFails(p)
    PROVE  IInv'
<1> DEFINE n == Counted(circuit[p].failures)
           state == [failures |-> n, open |-> circuit[p].open \/ n = Threshold]
<1>0. /\ circuit \in [Providers -> Circuit] /\ circuit[p] \in Circuit
      /\ circuit[p].failures \in 0 .. Threshold
      /\ losses \in [Providers -> 0 .. Threshold] /\ losses[p] \in 0 .. Threshold
      /\ circuit[p].failures <= losses[p]
  BY DEF IInv, NetTypes, Circuit, CountEarned
<1>1. /\ n \in 0 .. Threshold /\ Counted(losses[p]) \in 0 .. Threshold
      /\ losses[p] <= Counted(losses[p]) /\ n <= Counted(losses[p])
  BY <1>0, CountedBounds
<1>2. /\ circuit' = [circuit EXCEPT ![p] = state]
      /\ losses' = [losses EXCEPT ![p] = Counted(losses[p])]
      /\ search' = search /\ cache' = cache
  BY <1>0 DEF OtherFails
<1> HIDE DEF n
<1>3. /\ state \in Circuit /\ state.failures = n
      /\ state.open = (circuit[p].open \/ n = Threshold)
  BY <1>0, <1>1 DEF Circuit
<1> HIDE DEF state
<1>4. NetTypes'
  BY <1>0, <1>1, <1>2, <1>3 DEF IInv, NetTypes
<1>5. \A q \in Providers : losses'[q] \in 0 .. Threshold /\ losses[q] <= losses'[q]
  BY <1>0, <1>1, <1>2
<1>6. \A q \in Providers : CountEarned(q)'
  BY <1>0, <1>1, <1>2, <1>3 DEF IInv, CountEarned
<1>7. ASSUME NEW q \in Providers, circuit'[q].open PROVE losses'[q] >= Threshold
  <2>1. CASE q = p
    <3>1. circuit'[p].open = (circuit[p].open \/ n = Threshold)
      BY <1>0, <1>2, <1>3
    <3>2. losses'[p] = Counted(losses[p])
      BY <1>0, <1>2
    <3>3. CASE circuit[p].open
      BY <1>0, <1>1, <2>1, <3>2, <3>3, ResearchAssumption DEF IInv, TripEarned
    <3>4. CASE n = Threshold
      BY <1>0, <1>1, <2>1, <3>2, <3>4, ResearchAssumption
    <3> QED
      BY <1>7, <2>1, <3>1, <3>3, <3>4
  <2>2. CASE q # p
    BY <1>0, <1>2, <1>7, <2>2 DEF IInv, TripEarned
  <2> QED
    BY <2>1, <2>2
<1>8. ASSUME NEW d \in Calls, NEW q \in Providers PROVE SeenEarned(d, q)'
  <2>1. search[d][q] \in Search
    BY DEF IInv, NetTypes
  <2>2. search[d][q].seen # None => Counted(search[d][q].seen) \in 0 .. Threshold
    BY <2>1, CountedBounds DEF Search
  <2> QED
    BY <1>0, <1>2, <1>5, <2>2, ResearchAssumption DEF IInv, SeenEarned, Counted
<1> QED
  BY <1>4, <1>6, <1>7, <1>8 DEF IInv, TripEarned

\* Steps that leave the searches and the circuit alone, or end the searches of a
\* call early.
LEMMA LeaveKeeps ==
    ASSUME IInv, NEW c \in Calls, NEW pc, Leave(c, pc)
    PROVE  IInv'
<1>0. search \in [Calls -> [Providers -> Search]]
  BY DEF IInv, NetTypes
<1>1. ASSUME NEW p \in Providers
      PROVE  Cut(search[c][p]) \in Search /\ Cut(search[c][p]).seen = search[c][p].seen
  <2>1. search[c][p] \in Search
    BY <1>0
  <2> QED
    BY <2>1 DEF Cut, Search
<1>2. /\ search' = [search EXCEPT ![c] = [p \in Providers |-> Cut(search[c][p])]]
      /\ UNCHANGED <<cache, circuit, losses>>
  BY DEF Leave, netVars
<1>3. search' \in [Calls -> [Providers -> Search]]
  BY <1>0, <1>1, <1>2
<1>4. \A d \in Calls, q \in Providers : search'[d][q].seen = search[d][q].seen
  BY <1>0, <1>1, <1>2
<1>5. NetTypes'
  BY <1>2, <1>3 DEF IInv, NetTypes
<1>6. \A d \in Calls, q \in Providers : SeenEarned(d, q)'
  BY <1>2, <1>4 DEF IInv, SeenEarned, Counted
<1> QED
  BY <1>2, <1>5, <1>6 DEF IInv, CountEarned, TripEarned

LEMMA NetKept ==
    ASSUME IInv, search' = search, cache' \in [Providers -> Answers \cup {None}],
           circuit' = circuit, losses' = losses
    PROVE  IInv'
BY DEF IInv, NetTypes, CountEarned, SeenEarned, Counted, TripEarned

\* The workflow of a call around its searches.
LEMMA WorkflowKeeps ==
    ASSUME IInv, NEW c \in Calls,
           \/ Start(c) \/ StageOver(c) \/ Stop(c) \/ Gathered(c) \/ NotSynthesised(c)
           \/ Look(c) \/ Write(c) \/ \E refs \in References : Synthesised(c, refs)
    PROVE  IInv'
<1>0. cache \in [Providers -> Answers \cup {None}]
  BY DEF IInv, NetTypes
<1>1. CASE StageOver(c)
  BY <1>1, LeaveKeeps DEF StageOver
<1>2. CASE Stop(c)
  BY <1>2, LeaveKeeps DEF Stop
<1>3. CASE Start(c) \/ Gathered(c) \/ NotSynthesised(c) \/ Look(c)
  BY <1>0, <1>3, NetKept DEF Start, Gathered, NotSynthesised, Look, netVars
<1>4. CASE Write(c)
  BY <1>0, <1>4, NetKept DEF Write, Stored, netVars
<1>5. CASE \E refs \in References : Synthesised(c, refs)
  BY <1>0, <1>5, NetKept DEF Synthesised, netVars
<1> QED
  BY <1>1, <1>2, <1>3, <1>4, <1>5

LEMMA EnvironmentKeeps ==
    ASSUME IInv,
           \/ \E e \in Executions : Cancel(e)
           \/ \E p \in Providers : Expire(p) \/ Cool(p) \/ OtherFails(p) \/ OtherSucceeds(p)
    PROVE  IInv'
<1>0. cache \in [Providers -> Answers \cup {None}]
  BY DEF IInv, NetTypes
<1>1. CASE \E e \in Executions : Cancel(e)
  BY <1>0, <1>1, NetKept DEF Cancel, netVars
<1>2. ASSUME NEW p \in Providers, Expire(p) PROVE IInv'
  BY <1>0, <1>2, NetKept DEF Expire
<1>3. ASSUME NEW p \in Providers, Cool(p) PROVE IInv'
  <2>1. /\ circuit' = [circuit EXCEPT ![p].open = FALSE]
        /\ search' = search /\ cache' = cache /\ losses' = losses
    BY <1>3 DEF Cool
  <2>2. circuit \in [Providers -> Circuit]
    BY DEF IInv, NetTypes
  <2>3. /\ circuit' \in [Providers -> Circuit]
        /\ \A q \in Providers : /\ circuit'[q].failures = circuit[q].failures
                                /\ circuit'[q].open => circuit[q].open
    BY <2>1, <2>2 DEF Circuit
  <2> QED
    BY <2>1, <2>3 DEF IInv, NetTypes, CountEarned, SeenEarned, Counted, TripEarned
<1>4. ASSUME NEW p \in Providers, OtherFails(p) PROVE IInv'
  BY <1>4, OtherFailsKeeps
<1>5. ASSUME NEW p \in Providers, OtherSucceeds(p) PROVE IInv'
  BY <1>0, <1>5, OrphanedSeen, ClosedKeeps DEF OtherSucceeds
<1> QED
  BY <1>1, <1>2, <1>3, <1>4, <1>5

LEMMA StepInv == IInv /\ [Next]_vars => IInv'
<1> SUFFICES ASSUME IInv, [Next]_vars PROVE IInv'
  OBVIOUS
<1>1. ASSUME NEW c \in Calls, NEW p \in Providers,
             \/ Cached(c, p) \/ Ask(c, p) \/ Refuse(c, p) \/ Record(c, p)
             \/ Retry(c, p) \/ TooLate(c, p) \/ Fail(c, p) \/ Drop(c, p)
             \/ \E items \in Answers : Answered(c, p, items)
      PROVE  IInv'
  BY <1>1, QuietSteps, RecordKeeps, FailKeeps, AnsweredKeeps
<1>2. ASSUME NEW c \in Calls,
             \/ Start(c) \/ StageOver(c) \/ Stop(c) \/ Gathered(c) \/ NotSynthesised(c)
             \/ Look(c) \/ Write(c) \/ \E refs \in References : Synthesised(c, refs)
      PROVE  IInv'
  BY <1>2, WorkflowKeeps
<1>3. CASE \/ \E e \in Executions : Cancel(e)
           \/ \E p \in Providers : Expire(p) \/ Cool(p) \/ OtherFails(p) \/ OtherSucceeds(p)
  BY <1>3, EnvironmentKeeps
<1>4. CASE UNCHANGED vars
  <2>1. cache' \in [Providers -> Answers \cup {None}]
    BY <1>4 DEF vars, IInv, NetTypes
  <2> QED
    BY <1>4, <2>1, NetKept DEF vars
<1> QED
  BY <1>1, <1>2, <1>3, <1>4 DEF Next, Work

THEOREM Invariant == Spec => []IInv
BY InitInv, StepInv, PTL DEF Spec

\* The circuit of a provider opens only after as many failures in a row as it takes.
THEOREM CircuitEarned == Spec => []TripEarned
<1>1. IInv => TripEarned
  BY DEF IInv
<1> QED
  BY <1>1, Invariant, PTL

------------------------------------------------------------------------------
(* What is stored of a topic *)

\* What the proof needs of the types of calls and rows.
Shape ==
    /\ DOMAIN call = Calls
    /\ \A c \in Calls : {"pc", "package", "seen"} \subseteq DOMAIN call[c]
    /\ DOMAIN rows = Executions

\* A package refers to what its model was given, and shows nothing that it must not.
PackageSound(c) ==
    /\ \A s \in call[c].package.sources : s.url \notin Unsafe /\ ~Commanding(s)
    /\ call[c].package.refs \subseteq Given(c)

\* Each column of the row comes from calls that are done, whose packages are final.
Written(e) == {c \in Calls : Execution[c] = e /\ At(c, "done")}
Sound(e) ==
    /\ \E c \in Written(e) : rows[e].sources = call[c].package.sources
    /\ rows[e].refs \subseteq UNION {Given(c) : c \in Written(e)}

\* A call that has seen a row will find it there, and may leave a column as it is.
GInv ==
    /\ Shape
    /\ \A c \in Calls : PackageSound(c)
    /\ \A e \in Executions : rows[e] # None => Sound(e)
    /\ \A c \in Calls : call[c].seen # None => Sound(Execution[c])

LEMMA InitGInv == Init => GInv
<1> SUFFICES ASSUME Init PROVE GInv
  OBVIOUS
<1>1. \A c \in Calls : call[c] = NewCall
  BY DEF Init
<1>2. Shape
  BY <1>1 DEF Init, Shape, NewCall
<1>3. \A c \in Calls : PackageSound(c)
  BY <1>1 DEF PackageSound, NewCall
<1>4. \A c \in Calls : call[c].seen = None
  BY <1>1 DEF NewCall
<1> QED
  BY <1>2, <1>3, <1>4 DEF Init, GInv

\* What the model is given and what is stored, by the way sources are made safe.
LEMMA SafeSourcesAre ==
    ASSUME NEW items, NEW s \in SafeSources(items)
    PROVE  s.url \notin Unsafe /\ ~Commanding(s)
<1>1. PICK x \in Merged(items) : x.url \notin Unsafe /\ s = Safe(x)
  BY DEF SafeSources
<1>2. s.url = x.url
  BY <1>1 DEF Safe
<1>3. ~Commanding(s)
  BY <1>1 DEF Safe, Commanding
<1> QED
  BY <1>1, <1>2, <1>3

LEMMA SourcesAre ==
    ASSUME IInv, NEW c \in Calls, NEW s \in Sources(c)
    PROVE  s.url \notin Unsafe /\ ~Commanding(s)
<1> DEFINE reports == [p \in Providers |-> search[c][p].items]
<1>1. reports \in [Providers -> Answers]
  BY DEF IInv, NetTypes, Search
<1>2. Sources(c) = SafeSources(FlattenSeq([i \in DOMAIN Order |-> reports[Order[i]]]))
  BY <1>1 DEF Sources, SourcesOf
<1> QED
  BY <1>2, SafeSourcesAre

\* A step of a call that writes no row and keeps its package.
LEMMA CallKeeps ==
    ASSUME GInv, NEW c \in Calls, ~At(c, "done"), rows' = rows,
           DOMAIN call' = Calls,
           \A d \in Calls \ {c} : call'[d] = call[d],
           {"pc", "package", "seen"} \subseteq DOMAIN call'[c],
           PackageSound(c)',
           call'[c].seen \in {None, call[c].seen, rows[Execution[c]]}
    PROVE  GInv'
<1>1. Shape'
  BY DEF GInv, Shape
<1>2. ASSUME NEW d \in Calls PROVE PackageSound(d)'
  <2>1. CASE d = c
    BY <2>1
  <2>2. CASE d # c
    BY <2>2 DEF GInv, PackageSound, Given
  <2> QED
    BY <2>1, <2>2
<1>3. ASSUME NEW e \in Executions, Sound(e) PROVE Sound(e)'
  <2>1. \A d \in Written(e) : d \in Written(e)' /\ call'[d] = call[d] /\ Given(d)' = Given(d)
    BY DEF Written, At, Given
  <2>2. PICK k \in Written(e) : rows[e].sources = call[k].package.sources
    BY <1>3 DEF Sound
  <2>3. UNION {Given(d) : d \in Written(e)} \subseteq UNION {Given(d)' : d \in Written(e)'}
    BY <2>1
  <2> QED
    BY <1>3, <2>1, <2>2, <2>3 DEF Sound
<1>4. \A d \in Calls : Execution[d] \in Executions
  BY DEF Executions
<1>5. ASSUME NEW d \in Calls, call'[d].seen # None PROVE Sound(Execution[d])'
  <2>1. CASE d = c
    BY <1>3, <1>4, <1>5, <2>1 DEF GInv
  <2>2. CASE d # c
    BY <1>3, <1>4, <1>5, <2>2 DEF GInv
  <2> QED
    BY <2>1, <2>2
<1> QED
  BY <1>1, <1>2, <1>3, <1>5 DEF GInv

\* Steps that keep the package of the call.
LEMMA PlainSteps ==
    ASSUME GInv, NEW c \in Calls,
           \/ Start(c) \/ StageOver(c) \/ Stop(c) \/ Gathered(c) \/ NotSynthesised(c) \/ Look(c)
    PROVE  GInv'
<1>0. /\ DOMAIN call = Calls /\ {"pc", "package", "seen"} \subseteq DOMAIN call[c]
      /\ PackageSound(c)
  BY DEF GInv, Shape
<1>1. /\ ~At(c, "done") /\ rows' = rows
      /\ DOMAIN call' = Calls /\ \A d \in Calls \ {c} : call'[d] = call[d]
      /\ {"pc", "package", "seen"} \subseteq DOMAIN call'[c]
      /\ call'[c].package = call[c].package
      /\ call'[c].seen \in {None, call[c].seen, rows[Execution[c]]}
  <2>1. CASE Start(c)
    BY <1>0, <2>1 DEF Start, Becomes, At
  <2>2. CASE StageOver(c)
    BY <1>0, <2>2 DEF StageOver, Leave, Becomes, At
  <2>3. CASE Stop(c)
    BY <1>0, <2>3 DEF Stop, Leave, Becomes, At
  <2>4. CASE Gathered(c)
    BY <1>0, <2>4 DEF Gathered, Becomes, At
  <2>5. CASE NotSynthesised(c)
    BY <1>0, <2>5 DEF NotSynthesised, Becomes, At
  <2>6. CASE Look(c)
    BY <1>0, <2>6 DEF Look, Becomes, At
  <2> QED
    BY <2>1, <2>2, <2>3, <2>4, <2>5, <2>6
<1>2. PackageSound(c)'
  BY <1>0, <1>1 DEF PackageSound, Given
<1> QED
  BY <1>1, <1>2, CallKeeps

\* The references of a new package are those of usable sources of the call.
LEMMA SynthesisedKeeps ==
    ASSUME IInv, GInv, NEW c \in Calls, NEW refs \in References, Synthesised(c, refs)
    PROVE  GInv'
<1> DEFINE package == [sources |-> Sources(c), refs |-> Cleaned(Sources(c), refs)]
           new == [call[c] EXCEPT !.pc = "persist", !.package = package]
<1>0. DOMAIN call = Calls /\ {"pc", "package", "seen"} \subseteq DOMAIN call[c]
  BY DEF GInv, Shape
<1>1. call' = [call EXCEPT ![c] = new] /\ rows' = rows /\ ~At(c, "done")
  BY DEF Synthesised, Becomes, At
<1>2. /\ {"pc", "package", "seen"} \subseteq DOMAIN new
      /\ new.package = package /\ new.seen = call[c].seen
  BY <1>0
<1>3. package.sources = Sources(c) /\ package.refs = Cleaned(Sources(c), refs)
  OBVIOUS
<1> HIDE DEF package, new
<1>4. call'[c].package = package
  BY <1>0, <1>1, <1>2
<1>5. ASSUME NEW r \in package.refs PROVE r \in Given(c)'
  <2>1. PICK s \in Usable(Sources(c)) : r = s.id
    BY <1>3 DEF Cleaned
  <2>2. s \in package.sources /\ ~s.isolated /\ {s.snippet, s.summary} # {"none"} /\ ~Commanding(s)
    BY <1>3, <2>1, SourcesAre DEF Usable
  <2> QED
    BY <1>4, <2>1, <2>2 DEF Given
<1>6. PackageSound(c)'
  BY <1>3, <1>4, <1>5, SourcesAre DEF PackageSound
<1> QED
  BY <1>0, <1>1, <1>2, <1>6, CallKeeps

\* The row after a write: each column is that of the call, or stays.
LEMMA WriteKeeps ==
    ASSUME GInv, NEW c \in Calls, Write(c)
    PROVE  GInv'
<1> DEFINE e == Execution[c]
           new == [call[c] EXCEPT !.pc = "done", !.seen = None]
<1>0. /\ DOMAIN call = Calls /\ {"pc", "package", "seen"} \subseteq DOMAIN call[c]
      /\ DOMAIN rows = Executions /\ e \in Executions
      /\ \A d \in Calls : Execution[d] \in Executions
  BY DEF GInv, Shape, Executions
<1>1. PICK row : /\ rows' = [rows EXCEPT ![e] = row]
                 /\ call' = [call EXCEPT ![c] = new]
                 /\ row = IF call[c].seen # None THEN Replaced(c, rows[e])
                          ELSE IF rows[e] = None THEN call[c].package ELSE rows[e]
  BY DEF Write, Stored, Becomes
<1>2. /\ {"pc", "package", "seen"} \subseteq DOMAIN new
      /\ new.pc = "done" /\ new.package = call[c].package /\ new.seen = None
  BY <1>0
<1> HIDE DEF new
<1>3. /\ DOMAIN call' = Calls /\ \A d \in Calls \ {c} : call'[d] = call[d]
      /\ call'[c].pc = "done" /\ call'[c].package = call[c].package /\ call'[c].seen = None
      /\ {"pc", "package", "seen"} \subseteq DOMAIN call'[c]
      /\ rows'[e] = row /\ \A f \in Executions \ {e} : rows'[f] = rows[f]
      /\ DOMAIN rows' = Executions
  BY <1>0, <1>1, <1>2
<1>4. \A d \in Calls : Given(d)' = Given(d) /\ call'[d].package = call[d].package
  BY <1>3 DEF Given
<1>5. \A f \in Executions : Written(f) \subseteq Written(f)'
  BY <1>3 DEF Written, At
<1>6. c \in Written(e)'
  BY <1>3 DEF Written, At
<1>7. call[c].package.refs \subseteq Given(c)
  BY DEF GInv, PackageSound
<1>8. Sound(e)'
  <2>1. \/ row.sources = call[c].package.sources
        \/ Sound(e) /\ row.sources = rows[e].sources
    BY <1>0, <1>1 DEF Replaced, GInv
  <2>2. \/ row.refs = call[c].package.refs
        \/ Sound(e) /\ row.refs = rows[e].refs
    BY <1>0, <1>1 DEF Replaced, GInv
  <2>3. \E d \in Written(e)' : rows'[e].sources = call'[d].package.sources
    <3>1. CASE row.sources = call[c].package.sources
      BY <1>3, <1>4, <1>6, <3>1
    <3>2. CASE Sound(e) /\ row.sources = rows[e].sources
      <4>1. PICK d \in Written(e) : rows[e].sources = call[d].package.sources
        BY <3>2 DEF Sound
      <4>2. d \in Calls /\ d \in Written(e)'
        BY <1>0, <1>5, <4>1 DEF Written
      <4> QED
        BY <1>3, <1>4, <3>2, <4>1, <4>2
    <3> QED
      BY <2>1, <3>1, <3>2
  <2>4. rows'[e].refs \subseteq UNION {Given(d)' : d \in Written(e)'}
    <3>1. CASE row.refs = call[c].package.refs
      BY <1>3, <1>4, <1>6, <1>7, <3>1
    <3>2. CASE Sound(e) /\ row.refs = rows[e].refs
      BY <1>0, <1>3, <1>4, <1>5, <3>2 DEF Sound, Written
    <3> QED
      BY <2>2, <3>1, <3>2
  <2> QED
    BY <2>3, <2>4 DEF Sound
<1> HIDE DEF e
<1>9. ASSUME NEW f \in Executions, f # e, Sound(f) PROVE Sound(f)'
  <2>1. rows'[f] = rows[f]
    BY <1>3, <1>9
  <2>2. \E d \in Written(f)' : rows'[f].sources = call'[d].package.sources
    BY <1>4, <1>5, <1>9, <2>1 DEF Sound, Written
  <2>3. rows'[f].refs \subseteq UNION {Given(d)' : d \in Written(f)'}
    BY <1>4, <1>5, <1>9, <2>1 DEF Sound, Written
  <2> QED
    BY <2>2, <2>3 DEF Sound
<1>10. \A d \in Calls : PackageSound(d)'
  BY <1>4 DEF GInv, PackageSound
<1>11. \A f \in Executions : rows'[f] # None => Sound(f)'
  BY <1>3, <1>8, <1>9 DEF GInv
<1>12. \A d \in Calls : call'[d].seen # None => Sound(Execution[d])'
  BY <1>0, <1>3, <1>8, <1>9 DEF GInv
<1> QED
  BY <1>3, <1>10, <1>11, <1>12 DEF GInv, Shape

\* Everything else leaves calls and rows alone.
LEMMA GKept ==
    ASSUME GInv, call' = call, rows' = rows
    PROVE  GInv'
<1>1. \A c \in Calls : Given(c)' = Given(c) /\ (PackageSound(c) => PackageSound(c)')
  BY DEF Given, PackageSound
<1>2. \A e : Written(e)' = Written(e)
  BY DEF Written, At
<1>3. \A e : Sound(e) => Sound(e)'
  <2> SUFFICES ASSUME NEW e, Sound(e) PROVE Sound(e)'
    OBVIOUS
  <2>1. UNION {Given(c) : c \in Written(e)} \subseteq UNION {Given(c)' : c \in Written(e)'}
    BY <1>1, <1>2 DEF Written
  <2> QED
    BY <1>2, <2>1 DEF Sound
<1>4. Shape'
  BY DEF GInv, Shape
<1> QED
  BY <1>1, <1>3, <1>4 DEF GInv

LEMMA StepGInv == IInv /\ GInv /\ [Next]_vars => GInv'
<1> SUFFICES ASSUME IInv, GInv, [Next]_vars PROVE GInv'
  OBVIOUS
<1>1. ASSUME NEW c \in Calls, NEW p \in Providers,
             \/ Cached(c, p) \/ Ask(c, p) \/ Refuse(c, p) \/ Record(c, p)
             \/ Retry(c, p) \/ TooLate(c, p) \/ Fail(c, p) \/ Drop(c, p)
             \/ \E items \in Answers : Answered(c, p, items)
      PROVE  GInv'
  <2>1. call' = call /\ rows' = rows
    BY <1>1 DEF Cached, Ask, Refuse, Record, Retry, TooLate, Fail, Drop, Answered
  <2> QED
    BY <2>1, GKept
<1>2. ASSUME NEW c \in Calls, NEW refs \in References, Synthesised(c, refs) PROVE GInv'
  BY <1>2, SynthesisedKeeps
<1>3. ASSUME NEW c \in Calls, Write(c) PROVE GInv'
  BY <1>3, WriteKeeps
<1>4. ASSUME NEW c \in Calls,
             Start(c) \/ StageOver(c) \/ Stop(c) \/ Gathered(c) \/ NotSynthesised(c) \/ Look(c)
      PROVE  GInv'
  BY <1>4, PlainSteps
<1>5. CASE \/ \E e \in Executions : Cancel(e)
           \/ \E p \in Providers : Expire(p) \/ Cool(p) \/ OtherFails(p) \/ OtherSucceeds(p)
  <2>1. call' = call /\ rows' = rows
    BY <1>5 DEF Cancel, Expire, Cool, OtherFails, OtherSucceeds
  <2> QED
    BY <2>1, GKept
<1>6. CASE UNCHANGED vars
  BY <1>6, GKept DEF vars
<1> QED
  BY <1>1, <1>2, <1>3, <1>4, <1>5, <1>6 DEF Next, Work

\* What is stored of a topic refers only to what a model of the execution was given,
\* and shows nothing unsafe or isolated, however calls overtake each other.
THEOREM RowsGrounded == Spec => []Grounded
<1>1. GInv => Grounded
  <2> SUFFICES ASSUME GInv, NEW e \in Executions, rows[e] # None
               PROVE  /\ \E c \in Calls : /\ Execution[c] = e
                                          /\ rows[e].sources = call[c].package.sources
                      /\ rows[e].refs \subseteq
                            UNION {Given(c) : c \in {d \in Calls : Execution[d] = e}}
                      /\ \A s \in rows[e].sources : s.url \notin Unsafe /\ ~Commanding(s)
    BY DEF Grounded
  <2>1. Sound(e)
    BY DEF GInv
  <2>2. PICK c \in Written(e) : rows[e].sources = call[c].package.sources
    BY <2>1 DEF Sound
  <2>3. rows[e].refs \subseteq UNION {Given(d) : d \in Written(e)}
    BY <2>1 DEF Sound
  <2>4. \A s \in rows[e].sources : s.url \notin Unsafe /\ ~Commanding(s)
    BY <2>2 DEF GInv, PackageSound, Written
  <2> QED
    BY <2>2, <2>3, <2>4 DEF Written
<1>2. Spec => []GInv
  BY InitGInv, StepGInv, Invariant, PTL DEF Spec
<1> QED
  BY <1>1, <1>2, PTL

------------------------------------------------------------------------------
(* Types: sources are made of what providers report, by way of a recursion *)

\* The order of numbers as a set of pairs.
Before == {ss \in Nat \X Nat : ss[1] < ss[2]}

\* No infinite descent in the numbers, in the form of the lemmas on minimal elements.
LEMMA BeforeWellFounded == IsWellFoundedOn(Before, Nat)
BY NatLessThanWellFounded DEF OpToRel, Before

\* A set of numbers has a least one.
LEMMA LeastNatural ==
    ASSUME NEW S \in SUBSET Nat, S # {}
    PROVE  \E m \in S : \A k \in S : m <= k
<1>1. PICK m \in S : \A k \in S : ~ (<<k, m>> \in Before)
  <2>1. IsWellFoundedOn(Before, Nat)
    BY BeforeWellFounded
  <2> QED
    BY <2>1, WFMin
<1>2. \A i, j \in Nat : i < j => <<i, j>> \in Before
  BY DEF Before
<1>3. m \in Nat /\ \A k \in S : k \in Nat
  OBVIOUS
<1>4. \A k \in S : ~ (k < m)
  BY <1>1, <1>2, <1>3
<1> QED
  BY <1>3, <1>4

\* Induction, with a set of numbers in place of a predicate.
LEMMA SetInduction ==
    ASSUME NEW S, NEW n \in Nat, 0 \in S, \A i \in 0 .. n - 1 : i \in S => i + 1 \in S
    PROVE  \A i \in 0 .. n : i \in S
<1> DEFINE B == {i \in 0 .. n : i \notin S}
<1>1. SUFFICES ASSUME B # {} PROVE FALSE
  OBVIOUS
<1>2. PICK m \in B : \A k \in B : m <= k
  BY <1>1, LeastNatural, B \in SUBSET Nat
<1>3. m \in 0 .. n /\ m \notin S /\ m # 0
  OBVIOUS
<1>4. m - 1 \in 0 .. n - 1 /\ m - 1 \in S
  BY <1>2, <1>3
<1> QED
  BY <1>3, <1>4


\* The concatenation of sequences over a set is one.
LEMMA FlattenType ==
    ASSUME NEW S, NEW n \in Nat, NEW seqs \in [1 .. n -> Seq(S)]
    PROVE  FlattenSeq(seqs) \in Seq(S)
<1>0. Len(seqs) = n /\ seqs \in Seq(Seq(S))
  OBVIOUS
<1>1. CASE n = 0
  BY <1>0, <1>1 DEF FlattenSeq
<1>2. CASE n # 0
  <2> DEFINE Good(m, f) == /\ f \in [1 .. m + 1 -> Seq(S)]
                           /\ \A i \in 1 .. m + 1 : f[i] = IF i = 1 THEN seqs[i] ELSE f[i - 1] \o seqs[i]
  <2> DEFINE G == {m \in Nat : \E f : Good(m, f)}
  <2>0. \A i \in 1 .. n : seqs[i] \in Seq(S)
    OBVIOUS
  <2>1. 0 \in G
    <3>1. Good(0, [i \in 1 .. 1 |-> seqs[1]])
      BY <1>2, <2>0
    <3> HIDE DEF Good
    <3> QED
      BY <3>1
  <2>2. ASSUME NEW m \in 0 .. (n - 1) - 1, m \in G
        PROVE  m + 1 \in G
    <3>1. PICK f : Good(m, f)
      BY <2>2
    <3> DEFINE g == [i \in 1 .. m + 2 |-> IF i <= m + 1 THEN f[i] ELSE f[m + 1] \o seqs[m + 2]]
    <3>2. m \in Nat /\ m + 1 \in 1 .. m + 1 /\ m + 2 \in 1 .. n /\ (m + 1) + 1 = m + 2 /\ (m + 2) - 1 = m + 1
      OBVIOUS
    <3>3. f[m + 1] \in Seq(S) /\ seqs[m + 2] \in Seq(S)
      BY <2>0, <3>1, <3>2
    <3>4. f[m + 1] \o seqs[m + 2] \in Seq(S)
      BY <3>3
    <3>5. /\ \A i \in 1 .. m + 1 : i \in 1 .. m + 2 /\ g[i] = f[i]
          /\ g[m + 2] = f[m + 1] \o seqs[m + 2]
      <4>1. m + 2 \in 1 .. m + 2 /\ ~ (m + 2 <= m + 1)
        BY <3>2
      <4>2. \A i \in 1 .. m + 1 : i \in 1 .. m + 2 /\ i <= m + 1
        BY <3>2
      <4> QED
        BY <4>1, <4>2
    <3>6. g \in [1 .. m + 2 -> Seq(S)]
      BY <3>1, <3>4
    <3> HIDE DEF g
    <3>7. ASSUME NEW i \in 1 .. m + 2
          PROVE  g[i] = IF i = 1 THEN seqs[i] ELSE g[i - 1] \o seqs[i]
      <4>1. CASE i <= m + 1
        <5>1. i \in 1 .. m + 1 /\ (i # 1 => i - 1 \in 1 .. m + 1)
          BY <4>1
        <5> QED
          BY <3>1, <3>5, <5>1
      <4>2. CASE i = m + 2
        <5>1. i # 1 /\ i - 1 = m + 1 /\ g[m + 1] = f[m + 1]
          BY <3>2, <3>5, <4>2
        <5> QED
          BY <3>5, <4>2, <5>1
      <4> QED
        BY <4>1, <4>2
    <3>8. Good(m + 1, g)
      BY <3>2, <3>6, <3>7
    <3> HIDE DEF Good
    <3> QED
      BY <3>2, <3>8
  <2>3. n - 1 \in G
    <3>1. n - 1 \in Nat /\ n - 1 \in 0 .. n - 1
      BY <1>2
    <3> HIDE DEF G
    <3>2. \A i \in 0 .. n - 1 : i \in G
      BY <2>1, <2>2, <3>1, SetInduction
    <3> QED
      BY <3>1, <3>2
  <2>4. PICK f : Good(n - 1, f)
    BY <2>3
  <2>5. f = [i \in 1 .. Len(seqs) |-> IF i = 1 THEN seqs[i] ELSE f[i - 1] \o seqs[i]]
    <3>1. (n - 1) + 1 = n
      OBVIOUS
    <3> QED
      BY <1>0, <2>4, <3>1
  <2> DEFINE h == CHOOSE g : g = [i \in 1 .. Len(seqs) |-> IF i = 1 THEN seqs[i] ELSE g[i - 1] \o seqs[i]]
  <2>6. h = [i \in 1 .. Len(seqs) |-> IF i = 1 THEN seqs[i] ELSE h[i - 1] \o seqs[i]]
    BY <2>5
  <2>7. FlattenSeq(seqs) = h[Len(seqs)]
    BY <1>0, <1>2 DEF FlattenSeq
  <2> HIDE DEF h, Good, G
  <2> DEFINE H == {i \in Nat : i + 1 \in 1 .. n => h[i + 1] \in Seq(S)}
  <2>8. 0 \in H
    BY <1>0, <1>2, <2>0, <2>6
  <2>9. ASSUME NEW i \in 0 .. (n - 1) - 1, i \in H
        PROVE  i + 1 \in H
    <3>1. i \in Nat /\ i + 1 \in 1 .. n /\ i + 2 \in 1 .. n /\ i + 2 # 1 /\ (i + 2) - 1 = i + 1 /\ (i + 1) + 1 = i + 2
      OBVIOUS
    <3>2. h[i + 1] \in Seq(S) /\ seqs[i + 2] \in Seq(S)
      BY <2>0, <2>9, <3>1
    <3>3. h[i + 2] = h[i + 1] \o seqs[i + 2]
      BY <1>0, <2>6, <3>1
    <3>4. h[i + 2] \in Seq(S)
      BY <3>2, <3>3
    <3> QED
      BY <3>1, <3>4
  <2>10. n - 1 \in H
    <3>1. n - 1 \in Nat /\ n - 1 \in 0 .. n - 1
      BY <1>2
    <3> HIDE DEF H
    <3>2. \A i \in 0 .. n - 1 : i \in H
      BY <2>8, <2>9, <3>1, SetInduction
    <3> QED
      BY <3>1, <3>2
  <2>11. (n - 1) + 1 = n /\ n \in 1 .. n
    BY <1>2
  <2> QED
    BY <1>0, <2>7, <2>10, <2>11
<1> QED
  BY <1>1, <1>2

\* A field of a source is one of an item, or empty.
LEMMA FirstSaidType ==
    ASSUME NEW items \in Seq(Item), NEW i
    PROVE  FirstSaid(items, i, "snippet") \in Text /\ FirstSaid(items, i, "summary") \in Text
<1>1. \A j \in DOMAIN items : items[j]["snippet"] \in Text /\ items[j]["summary"] \in Text
  <2>1. \A j \in DOMAIN items : items[j] \in Item
    OBVIOUS
  <2>2. \A x \in Item : x["snippet"] \in Text /\ x["summary"] \in Text
    BY DEF Item
  <2> QED
    BY <2>1, <2>2
<1>2. "none" \in Text
  BY DEF Text
<1>3. ASSUME NEW f, Saying(items, i, f) # {}
      PROVE  Min(Saying(items, i, f)) \in DOMAIN items
  <2>1. Saying(items, i, f) \in SUBSET (DOMAIN items) /\ Saying(items, i, f) \in SUBSET Nat
    BY DEF Saying
  <2>2. \E m \in Saying(items, i, f) : \A k \in Saying(items, i, f) : m <= k
    BY <1>3, <2>1, LeastNatural
  <2>3. Min(Saying(items, i, f)) \in Saying(items, i, f)
    BY <2>2 DEF Min
  <2> QED
    BY <2>1, <2>3
<1> QED
  BY <1>1, <1>2, <1>3 DEF FirstSaid

\* Of items, safe sources are made.
LEMMA SafeSourcesType ==
    ASSUME NEW items \in Seq(Item)
    PROVE  SafeSources(items) \in SUBSET Source
<1>1. ASSUME NEW x \in Merged(items)
      PROVE  x.id \in Ids /\ x.url \in Links /\ x.snippet \in Text /\ x.summary \in Text
  <2>1. PICK i \in Firsts(items) :
            x = [id |-> Canonical[items[i].url], url |-> items[i].url,
                 snippet |-> FirstSaid(items, i, "snippet"), summary |-> FirstSaid(items, i, "summary")]
    BY DEF Merged
  <2>2. i \in DOMAIN items /\ items[i] \in Item
    BY DEF Firsts
  <2>3. items[i].url \in Links /\ Canonical[items[i].url] \in Ids
    BY <2>2 DEF Item, Ids
  <2> QED
    BY <2>1, <2>3, FirstSaidType
<1>2. "none" \in Text
  BY DEF Text
<1>3. ASSUME NEW x \in Merged(items)
      PROVE  Safe(x) \in Source
  <2>1. Commanding(x) \in BOOLEAN
    BY DEF Commanding
  <2> HIDE DEF Commanding
  <2> QED
    BY <1>1, <1>2, <2>1 DEF Safe, Source
<1> QED
  BY <1>3 DEF SafeSources

\* So are they of what the searches of a call have reported.
LEMMA SourcesType ==
    ASSUME IInv, NEW c \in Calls
    PROVE  Sources(c) \in SUBSET Source
<1> DEFINE reports == [p \in Providers |-> search[c][p].items]
<1> DEFINE seqs == [i \in DOMAIN Order |-> reports[Order[i]]]
<1>1. reports \in [Providers -> Answers]
  BY DEF IInv, NetTypes, Search
<1>2. Sources(c) = SafeSources(FlattenSeq(seqs))
  BY <1>1 DEF Sources, SourcesOf
<1>3. Len(Order) \in Nat /\ DOMAIN Order = 1 .. Len(Order) /\ Answers \subseteq Seq(Item)
  BY ResearchAssumption
<1>4. \A i \in DOMAIN Order : Order[i] \in Providers
  BY DEF Providers
<1>5. seqs \in [1 .. Len(Order) -> Seq(Item)]
  BY <1>1, <1>3, <1>4
<1> HIDE DEF seqs
<1>6. FlattenSeq(seqs) \in Seq(Item)
  BY <1>3, <1>5, FlattenType
<1> QED
  BY <1>2, <1>6, SafeSourcesType

\* The types of calls and rows; a row that a call has seen is still there.
TInv ==
    /\ call \in [Calls -> Call]
    /\ rows \in [Executions -> Package \cup {None}]
    /\ cancelled \subseteq Executions
    /\ \A c \in Calls : call[c].seen # None => rows[Execution[c]] \in Package

\* It holds before the first call.
LEMMA InitTInv == Init => TInv
<1> SUFFICES ASSUME Init PROVE TInv
  OBVIOUS
<1>1. NewCall \in Call /\ NewCall.seen = None
  <2>1. [sources |-> {}, refs |-> {}] \in Package
    BY DEF Package
  <2> QED
    BY <2>1 DEF NewCall, Call
<1>2. call = [c \in Calls |-> NewCall] /\ rows = [e \in Executions |-> None] /\ cancelled = {}
  BY DEF Init
<1> QED
  BY <1>1, <1>2 DEF TInv

\* A step of a call that writes no row.
LEMMA TypeKept ==
    ASSUME TInv, NEW c \in Calls, NEW new \in Call, Becomes(c, new),
           UNCHANGED rows, UNCHANGED cancelled,
           new.seen \in {None, call[c].seen, rows[Execution[c]]}
    PROVE  TInv'
<1>1. call' = [call EXCEPT ![c] = new] /\ call \in [Calls -> Call]
  BY DEF Becomes, TInv
<1>2. \A d \in Calls : rows[Execution[d]] \in Package \cup {None}
  BY DEF TInv, Executions
<1>3. \A d \in Calls : call'[d].seen # None => rows'[Execution[d]] \in Package
  BY <1>1, <1>2 DEF TInv
<1> QED
  BY <1>1, <1>3 DEF TInv

\* The steps of a call around its searches, but for the write.
LEMMA WorkflowTypes ==
    ASSUME IInv, TInv, NEW c \in Calls,
           \/ Start(c) \/ StageOver(c) \/ Stop(c) \/ Gathered(c) \/ NotSynthesised(c)
           \/ Look(c) \/ \E refs \in References : Synthesised(c, refs)
    PROVE  TInv'
<1> DEFINE row == call[c]
<1>0. row \in Call
  BY DEF TInv
<1>1. ASSUME NEW pc \in {"search", "timedOut", "stopped", "noResults", "synth", "failed"},
             Becomes(c, [row EXCEPT !.pc = pc]), UNCHANGED rows, UNCHANGED cancelled
      PROVE  TInv'
  <2> DEFINE new == [row EXCEPT !.pc = pc]
  <2> HIDE DEF row
  <2>1. new \in Call /\ new.seen = row.seen
    BY <1>0, <1>1 DEF Call, Ended
  <2> HIDE DEF new
  <2> QED
    BY <1>1, <2>1, TypeKept DEF row, new
<1>2. CASE Start(c)
  BY <1>1, <1>2 DEF Start
<1>3. CASE StageOver(c)
  BY <1>1, <1>3 DEF StageOver, Leave
<1>4. CASE Stop(c)
  BY <1>1, <1>4 DEF Stop, Leave
<1>5. CASE Gathered(c)
  BY <1>1, <1>5 DEF Gathered
<1>6. CASE NotSynthesised(c)
  BY <1>1, <1>6 DEF NotSynthesised
<1>7. CASE Look(c)
  <2> DEFINE seen == rows[Execution[c]]
  <2> DEFINE new == [row EXCEPT !.pc = "write", !.seen = seen]
  <2>1. seen \in Package \cup {None}
    BY DEF TInv, Executions
  <2>2. Becomes(c, new) /\ UNCHANGED rows /\ UNCHANGED cancelled
    BY <1>7 DEF Look
  <2> HIDE DEF row, seen
  <2>3. new \in Call /\ new.seen = seen
    BY <1>0, <2>1 DEF Call
  <2> HIDE DEF new
  <2> QED
    BY <2>2, <2>3, TypeKept DEF seen
<1>8. ASSUME NEW refs \in References, Synthesised(c, refs) PROVE TInv'
  <2> DEFINE package == [sources |-> Sources(c), refs |-> Cleaned(Sources(c), refs)]
  <2> DEFINE new == [row EXCEPT !.pc = "persist", !.package = package]
  <2>1. package \in Package
    <3>1. refs \in SUBSET Ids
      BY ResearchAssumption
    <3>2. Cleaned(Sources(c), refs) \in SUBSET Ids
      BY <3>1 DEF Cleaned
    <3> QED
      BY <3>2, SourcesType DEF Package
  <2>2. Becomes(c, new) /\ UNCHANGED rows /\ UNCHANGED cancelled
    BY <1>8 DEF Synthesised
  <2> HIDE DEF row, package
  <2>3. new \in Call /\ new.seen = row.seen
    BY <1>0, <2>1 DEF Call
  <2> HIDE DEF new
  <2> QED
    BY <2>2, <2>3, TypeKept DEF row
<1> QED
  BY <1>2, <1>3, <1>4, <1>5, <1>6, <1>7, <1>8

\* A row after a write is a package.
LEMMA WriteTypes ==
    ASSUME TInv, NEW c \in Calls, Write(c)
    PROVE  TInv'
<1> DEFINE e == Execution[c]
           old == call[c]
           new == [old EXCEPT !.pc = "done", !.seen = None]
<1>0. /\ old \in Call /\ old.package \in Package /\ e \in Executions
      /\ rows \in [Executions -> Package \cup {None}] /\ call \in [Calls -> Call]
      /\ old.seen # None => rows[e] \in Package
      /\ \A d \in Calls : Execution[d] \in Executions
  BY DEF TInv, Call, Executions
<1>1. PICK row : /\ rows' = [rows EXCEPT ![e] = row] /\ cancelled' = cancelled
                 /\ call' = [call EXCEPT ![c] = new]
                 /\ row = IF old.seen # None THEN Replaced(c, rows[e])
                          ELSE IF rows[e] = None THEN old.package ELSE rows[e]
  BY DEF Write, Stored, Becomes
<1>2. old.seen # None => Replaced(c, rows[e]) \in Package
  BY <1>0 DEF Replaced, Package
<1>3. row \in Package
  BY <1>0, <1>1, <1>2
<1>4. new \in Call /\ new.seen = None
  <2> HIDE DEF old
  <2> QED
    BY <1>0 DEF Call, Ended
<1> HIDE DEF new, old
<1>5. rows' \in [Executions -> Package \cup {None}] /\ call' \in [Calls -> Call]
  BY <1>0, <1>1, <1>3, <1>4
<1> QED
  BY <1>0, <1>1, <1>3, <1>4, <1>5 DEF TInv

\* Every step keeps the types.
LEMMA StepTInv == IInv /\ TInv /\ [Next]_vars => TInv'
<1> SUFFICES ASSUME IInv, TInv, [Next]_vars PROVE TInv'
  OBVIOUS
<1>1. ASSUME NEW c \in Calls, NEW p \in Providers,
             \/ Cached(c, p) \/ Ask(c, p) \/ Refuse(c, p) \/ Record(c, p)
             \/ Retry(c, p) \/ TooLate(c, p) \/ Fail(c, p) \/ Drop(c, p)
             \/ \E items \in Answers : Answered(c, p, items)
      PROVE  TInv'
  <2>1. call' = call /\ rows' = rows /\ cancelled' = cancelled
    BY <1>1 DEF Cached, Ask, Refuse, Record, Retry, TooLate, Fail, Drop, Answered
  <2> QED
    BY <2>1 DEF TInv
<1>2. ASSUME NEW c \in Calls,
             \/ Start(c) \/ StageOver(c) \/ Stop(c) \/ Gathered(c) \/ NotSynthesised(c)
             \/ Look(c) \/ \E refs \in References : Synthesised(c, refs)
      PROVE  TInv'
  BY <1>2, WorkflowTypes
<1>3. ASSUME NEW c \in Calls, Write(c) PROVE TInv'
  BY <1>3, WriteTypes
<1>4. ASSUME NEW e \in Executions, Cancel(e) PROVE TInv'
  BY <1>4 DEF Cancel, TInv
<1>5. ASSUME NEW p \in Providers, Expire(p) \/ Cool(p) \/ OtherFails(p) \/ OtherSucceeds(p)
      PROVE  TInv'
  <2>1. call' = call /\ rows' = rows /\ cancelled' = cancelled
    BY <1>5 DEF Expire, Cool, OtherFails, OtherSucceeds
  <2> QED
    BY <2>1 DEF TInv
<1>6. CASE UNCHANGED vars
  BY <1>6 DEF vars, TInv
<1> QED
  BY <1>1, <1>2, <1>3, <1>4, <1>5, <1>6 DEF Next, Work

\* Calls, searches, caches, circuits and rows have their types: tries stay within
\* HTTP_RETRY_ATTEMPTS + 1, counts within the threshold, and a package is made of
\* safe sources and of references to links.
THEOREM TypeCorrect == Spec => []TypeOK
<1>1. IInv /\ TInv => TypeOK
  BY DEF IInv, NetTypes, TInv, TypeOK
<1>2. Spec => []TInv
  BY InitTInv, StepTInv, Invariant, PTL DEF Spec
<1> QED
  BY <1>1, <1>2, Invariant, PTL
==============================================================================
