CONSTANTS
    Goroutines <- MCGoroutines
    L = L
    Nil = Nil
    LookupFaults <- MCAllFaults
SPECIFICATION MCSpec
INVARIANT TypeOK
INVARIANT RefCountMatchesHolders
INVARIANT NoUseAfterClose
INVARIANT CloseOnce
INVARIANT NoUseOfFreedLayers
INVARIANT LookupMatchesOverlay
INVARIANT OpenClosesUnreturned
INVARIANT FreedIffUnreachable
PROPERTY EventuallyClosed
PROPERTY ImplementsSharedFD
