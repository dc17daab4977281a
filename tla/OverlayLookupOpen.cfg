CONSTANTS
    Goroutines <- MCGoroutines
    L = L
    Nil = Nil
    LookupFaults <- MCNoFaults
SPECIFICATION MCSpec
INVARIANT OpenMatchesOverlay
