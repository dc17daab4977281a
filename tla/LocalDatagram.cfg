CONSTANTS
    MaxFds <- MCMaxFds
    MaxExternal <- MCMaxExternal
    FdLimits <- MCFdLimits
    Detached = Detached
    Nil = Nil
SPECIFICATION MCSpec
INVARIANT ConnectedSendDelivered
CHECK_DEADLOCK FALSE
