CONSTANTS
    Tasks <- MCTasks
    Keys <- MCKeys
    Pids <- MCPids
    MaxAttempts <- MCMaxAttempts
    NoPid = NoPid
    CanHang = FALSE
    Closers <- OneCloser
SPECIFICATION MCSpec
INVARIANT TypeOK
INVARIANT OneLiveProcessPerKey
INVARIANT InheritsParentEnv
PROPERTY TerminalIsFinal
PROPERTY TaskCompletesUnlessClosed
PROPERTY CloseReturns
CHECK_DEADLOCK FALSE
