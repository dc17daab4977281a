CONSTANTS
    Tasks <- MCTasks
    Keys <- MCKeys
    Pids <- MCPids
    MaxAttempts <- MCMaxAttempts
    NoPid = NoPid
    CanHang = TRUE
    Closers <- OneCloser
    MCScenarios <- SchedulerOnly
SPECIFICATION MCSpec
PROPERTY CloseReturns
CHECK_DEADLOCK FALSE
