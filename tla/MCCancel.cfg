SPECIFICATION LiveSpec
CONSTANTS
    Execs = {e1}
    Workers = {w1, w2}
    None = None
    MaxAttempts = 2
    MaxInterrupts = 1
    MaxMsgs = 1
    Ops = {"cancel", "disable"}
    Stalls = FALSE
PROPERTIES Settles CancelHonoured DisabledComesToRest
\* every execution may be over, and no user asks for more
CHECK_DEADLOCK FALSE
