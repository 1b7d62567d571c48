SPECIFICATION LiveSpec
CONSTANTS
    Calls = {c1, c2, c3}
    Protected = {c1, c2}
    SideEffecting = {c1, c2}
    MaxIterations = 2
INVARIANTS TypeOK NothingUnconfirmed RepeatedOnlyAfterFailure OneThread
PROPERTIES LegEnds
\* an execution that is over stays so
CHECK_DEADLOCK FALSE
