SPECIFICATION LiveSpec
CONSTANTS
    Rows = {r1, r2}
    Dispatchers = {d1, d2}
    None = None
    BatchSize = 2
    MaxMsgs = 1
INVARIANTS TypeOK LocksMatchStatus
PROPERTIES ImplementsAtLeastOnce OwedIsSent
