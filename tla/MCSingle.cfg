SPECIFICATION Spec
CONSTANTS
    Calls = {c1}
    c1 = c1
    c2 = c2
    turn = turn
    metaso = metaso
    anspire = anspire
    page = page
    pageQuery = pageQuery
    other = other
    intranet = intranet
    None = None
    Execution <- MCExecution
    Order <- MCOrder
    Keyed <- MCBothKeyed
    Links = {page, pageQuery, other, intranet}
    Canonical <- MCCanonical
    Unsafe = {intranet}
    Answers <- MCAnswers
    References <- MCReferences
    Tries = 2
    Threshold = 2
    MaxSources = 2
INVARIANT SingleSuffices
\* calls end
CHECK_DEADLOCK FALSE
