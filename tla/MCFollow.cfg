SPECIFICATION LiveSpec
CONSTANTS
    MaxTries = 1
    MaxLength = 2
    MaxSeq = 3
    Mishaps = {"query", "done", "cancel"}
INVARIANTS TypeOK FollowsUnlessLost ShowsTruth CursorKnown
PROPERTIES LearnsOver
