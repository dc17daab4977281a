CONSTANTS
    Times <- MCTimes
    FuncIds <- MCFuncIds
    Contents <- MCContents
    Empty = Empty
    MaxBytes = 3
SPECIFICATION MCSpec
INVARIANT TypeOK
INVARIANT BytesStable
INVARIANT ProfiledIsWindow
INVARIANT DurationOfWindow
INVARIANT EveryMessageOnce
INVARIANT PairsAsReference
INVARIANT ExitStatusReported
INVARIANT GuestRecordsWritten
INVARIANT SuggestsCommonPrefix
INVARIANT NoNilWriter
INVARIANT ReportedIfSucceeded
PROPERTY RunReturns
PROPERTY SendersFinish
CHECK_DEADLOCK FALSE
