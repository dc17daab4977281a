CONSTANTS
    Tasks <- MCTasks
    Keys <- MCKeys
    Pids <- MCPids
    MaxAttempts <- MCMaxAttempts
    NoPid = NoPid
    CanHang = FALSE
    Closers <- OneCloser
    MCScenarios <- SchedulerOnly
SPECIFICATION MCSpec
PROPERTY TaskCompletes
CHECK_DEADLOCK FALSE
