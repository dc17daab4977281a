CONSTANTS
    Times <- MCTimes
    FuncIds <- MCFuncIds
    Contents <- MCContents
    Empty = Empty
    MaxBytes = 3
SPECIFICATION MCSpec
INVARIANT FlushNotConcurrent
CHECK_DEADLOCK FALSE
