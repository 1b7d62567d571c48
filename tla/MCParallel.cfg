SPECIFICATION Spec
CONSTANTS
    Execs = {e1, e2}
    Workers = {w1, w2}
    None = None
    MaxAttempts = 2
    MaxInterrupts = 1
    MaxMsgs = 1
    Ops = {"cancel"}
    Stalls = FALSE
SYMMETRY Symmetry
INVARIANTS OneBusyExecution
\* every execution may be over, and no user asks for more
CHECK_DEADLOCK FALSE
