CONSTANTS
    Ids <- MCIds
    Times <- MCTimes
    Spans <- MCSpans
    MaxMsgs = 4
    BatchSize = 2
    BufSize = 1
SPECIFICATION Spec
INVARIANT CompletedInTimeOrder
CHECK_DEADLOCK FALSE
