SPECIFICATION Spec
CONSTANTS
    Agents = {a1, a2}
    Names = {n1, n2}
    Chats = {s1}
    Facts = {k1}
    Requests = {r1, r2, r3}
    MaxVersions = 3
    MaxTalk = 2
    None = None
SYMMETRY Symmetry
INVARIANTS TypeOK Rooted SummaryTrue
\* identifiers run out
CHECK_DEADLOCK FALSE
