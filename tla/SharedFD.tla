------------------------------ MODULE SharedFD ------------------------------
(***************************************************************************)
(* What socketFD promises its callers (the comment above socketFD in       *)
(* internal/sandbox/socket.go): goroutines share ownership of a descriptor *)
(* while it is attached; close detaches it so that no goroutine acquires   *)
(* it again; the kernel descriptor is closed once, when it is detached and *)
(* no goroutine holds it any more, and that eventually happens.            *)
(***************************************************************************)
CONSTANTS Threads

VARIABLES
    holders,    \* goroutines that acquired the descriptor and hold it
    detached,   \* close has been called
    fdOpen      \* the kernel descriptor is open

avars == <<holders, detached, fdOpen>>

AInit ==
    /\ holders = {}
    /\ detached = FALSE
    /\ fdOpen = TRUE

AAcquire(t) ==
    /\ ~detached
    /\ t \notin holders
    /\ holders' = holders \cup {t}
    /\ UNCHANGED <<detached, fdOpen>>

ARelease(t) ==
    /\ t \in holders
    /\ holders' = holders \ {t}
    /\ UNCHANGED <<detached, fdOpen>>

AClose ==
    /\ ~detached
    /\ detached' = TRUE
    /\ UNCHANGED <<holders, fdOpen>>

ACloseFD ==
    /\ detached
    /\ holders = {}
    /\ fdOpen
    /\ fdOpen' = FALSE
    /\ UNCHANGED <<holders, detached>>

ANext ==
    \/ \E t \in Threads : AAcquire(t) \/ ARelease(t)
    \/ AClose
    \/ ACloseFD

ASpec == AInit /\ [][ANext]_avars /\ WF_avars(ACloseFD)
=============================================================================
