SPECIFICATION Spec
CONSTANTS
    Calls = {c1, c2}
    c1 = c1
    c2 = c2
    feed = feed
    weibo = weibo
    douyin = douyin
    aihot = aihot
    a = a
    b = b
    c = c
    d = d
    None = None
    Platforms <- MCPlatforms
    Group <- MCGroup
    Endpoints <- MCEndpoints
    Topics <- MCTopics
    Url <- MCUrl
    SearchPage <- MCSearchPage
    Answers <- MCAnswers
    Selections <- MCSelections
    Asks <- MCAsks
    Allowed <- MCAllowed
    Keyed <- MCKeyed
    PerSource = 2
    MaxItems = 3
    Pool = 2
INVARIANTS TypeOK CutNeverCached OnlyWanted FairMerge
\* calls end
CHECK_DEADLOCK FALSE
