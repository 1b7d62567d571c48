SPECIFICATION LiveSpec
CONSTANTS
    Execs = {e1}
    Workers = {w1, w2, w3}
    None = None
    MaxAttempts = 3
    MaxMsgs = 2
INVARIANTS TypeOK DoneIsCompleted
PROPERTIES ImplementsBoundedRetry Concludes
