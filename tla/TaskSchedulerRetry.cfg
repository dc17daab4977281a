CONSTANTS
    Tasks <- MCTasks
    Keys <- MCKeys
    Pids <- MCPids
    MaxAttempts <- MCMaxAttempts
    NoPid = NoPid
    CanHang = FALSE
    Closers <- NoClosers
    MCScenarios <- SchedulerOnly
SPECIFICATION MCSpec
INVARIANT RefusedAfterMaxAttempts
CHECK_DEADLOCK FALSE
