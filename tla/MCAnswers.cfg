SPECIFICATION Spec
CONSTANTS
    Execs = {e1}
    Workers = {w1, w2}
    None = None
    MaxAttempts = 3
    MaxInterrupts = 2
    MaxMsgs = 2
    Ops = {"resume"}
    Stalls = FALSE
SYMMETRY Symmetry
INVARIANTS TypeOK SingleRunner OutcomeByOwner WaitShowsCheckpoint OneActiveAnswer ConsumedAfterApplied
PROPERTIES StaysOver AnswerFinal
\* every execution may be over, and no user asks for more
CHECK_DEADLOCK FALSE
