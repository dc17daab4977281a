CONSTANTS
    MaxFds <- MCMaxFds
    MaxExternal <- MCMaxExternal
    FdLimits <- MCFdLimits
    Detached = Detached
    Nil = Nil
SPECIFICATION MCSpec
INVARIANT TypeOK
INVARIANT NoDoubleClose
INVARIANT NoUseAfterClose
INVARIANT AddressedSendDelivered
INVARIANT ReceivedFromSender
INVARIANT HeldPeerFdOpen
PROPERTY CloseReturns
PROPERTY NoLeak
CHECK_DEADLOCK FALSE
