CONSTANTS
    Goroutines <- MCGoroutines
    L = L
    Nil = Nil
    LookupFaults <- MCAllFaults
SPECIFICATION MCSpec
INVARIANT DoGetsReferencedLayers
