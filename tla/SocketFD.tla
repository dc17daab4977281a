------------------------------ MODULE SocketFD ------------------------------
(***************************************************************************)
(* The socketFD of internal/sandbox/socket.go: a file descriptor shared by *)
(* goroutines through one atomic 64-bit word, the reference count in the   *)
(* upper 32 bits and the descriptor in the lower 32 bits.  acquire,        *)
(* releaseFunc and closeFunc are compare-and-swap loops; each loop is a    *)
(* load step followed by a CAS step that either succeeds or reloads.       *)
(*                                                                         *)
(* A goroutine runs acquire ... release around every use of the socket     *)
(* (Bind, Listen, Accept, RecvFrom, SendTo of local_unix.go), calls close  *)
(* on its own (localSocket.Close) or calls close while it holds a          *)
(* reference (localSocket.connect, which hands the descriptor to the peer  *)
(* and lets the deferred release close it).                                *)
(***************************************************************************)
EXTENDS Integers, FiniteSets

CONSTANTS
    Threads,    \* goroutines sharing the socket
    FD,         \* the descriptor number stored by init (a natural)
    None        \* a thread that holds no descriptor

ASSUME FD \in Nat /\ None \notin Nat

\* The lower 32 bits after close: state | 0xFFFFFFFF reads as int32 -1.
Closed == -1

VARIABLES
    state,      \* the atomic word: [ref |-> refCount, fd |-> lower 32 bits]
    pc,         \* program counter of each goroutine
    old,        \* oldState loaded by the goroutine's current CAS loop
    held,       \* the fd returned by acquire and not yet released, or None
    osOpen,     \* the kernel descriptor is open
    closes      \* number of closeFD calls made on the descriptor

vars == <<state, pc, old, held, osOpen, closes>>

PCs == {"idle", "acquire", "release", "close", "closefd", "closed"}

\* Where close returns: a goroutine that holds a reference (connect) goes on
\* to its deferred release, any other goroutine is done.
AfterClose(t) == IF held[t] = None THEN "idle" ELSE "closed"

Init ==
    /\ state = [ref |-> 0, fd |-> FD]          \* init(fd)
    /\ pc = [t \in Threads |-> "idle"]
    /\ old = [t \in Threads |-> state]
    /\ held = [t \in Threads |-> None]
    /\ osOpen = TRUE
    /\ closes = 0

(***************************************************************************)
(* acquire: load the word; the CAS step returns -1 when the loaded fd is   *)
(* negative, installs refCount+1 when the word is unchanged, and reloads   *)
(* otherwise.                                                              *)
(***************************************************************************)
Acquire(t) ==
    /\ pc[t] = "idle"
    /\ held[t] = None
    /\ old' = [old EXCEPT ![t] = state]
    /\ pc' = [pc EXCEPT ![t] = "acquire"]
    /\ UNCHANGED <<state, held, osOpen, closes>>

\* Mutant: the CAS step installs refCount+1 without testing fd < 0 and
\* returns int(fd) whatever it is.
AcquireCASNoFdCheck(t) ==
    /\ pc[t] = "acquire"
    /\ \/ /\ state = old[t]
          /\ state' = [old[t] EXCEPT !.ref = @ + 1]
          /\ held' = [held EXCEPT ![t] = old[t].fd]
          /\ pc' = [pc EXCEPT ![t] = "idle"]
          /\ UNCHANGED old
       \/ /\ state # old[t]
          /\ old' = [old EXCEPT ![t] = state]
          /\ UNCHANGED <<state, pc, held>>
    /\ UNCHANGED <<osOpen, closes>>

AcquireCAS(t) ==
    /\ pc[t] = "acquire"
    /\ \/ /\ old[t].fd < 0                      \* return -1 (EBADF)
          /\ pc' = [pc EXCEPT ![t] = "idle"]
          /\ UNCHANGED <<state, old, held>>
       \/ /\ old[t].fd >= 0
          /\ state = old[t]
          /\ state' = [old[t] EXCEPT !.ref = @ + 1]
          /\ held' = [held EXCEPT ![t] = old[t].fd]
          /\ pc' = [pc EXCEPT ![t] = "idle"]
          /\ UNCHANGED old
       \/ /\ old[t].fd >= 0
          /\ state # old[t]
          /\ old' = [old EXCEPT ![t] = state]
          /\ UNCHANGED <<state, pc, held>>
    /\ UNCHANGED <<osOpen, closes>>

(***************************************************************************)
(* releaseFunc(fd, closeFD)   : decrement the count; the    *)
(* goroutine whose decrement brings the count of a closed word to zero     *)
(* closes the descriptor it acquired.                                      *)
(***************************************************************************)
Release(t) ==
    /\ pc[t] \in {"idle", "closed"}
    /\ held[t] # None
    /\ old' = [old EXCEPT ![t] = state]
    /\ pc' = [pc EXCEPT ![t] = "release"]
    /\ UNCHANGED <<state, held, osOpen, closes>>

\* Mutant: newState keeps (oldState >> 32) without the - 1.
ReleaseCASNoDecrement(t) ==
    /\ pc[t] = "release"
    /\ \/ /\ state = old[t]
          /\ state' = old[t]
          /\ pc' = [pc EXCEPT ![t] =
                      IF old[t].fd < 0 /\ old[t].ref = 0 THEN "closefd" ELSE "idle"]
          /\ held' = [held EXCEPT ![t] = None]
          /\ UNCHANGED old
       \/ /\ state # old[t]
          /\ old' = [old EXCEPT ![t] = state]
          /\ UNCHANGED <<state, pc, held>>
    /\ UNCHANGED <<osOpen, closes>>

\* Mutant: the release that drops the count to zero closes without testing
\* int32(oldState) < 0.
ReleaseCASIgnoresDetach(t) ==
    /\ pc[t] = "release"
    /\ \/ /\ state = old[t]
          /\ state' = [old[t] EXCEPT !.ref = @ - 1]
          /\ pc' = [pc EXCEPT ![t] =
                      IF old[t].ref - 1 = 0 THEN "closefd" ELSE "idle"]
          /\ held' = [held EXCEPT ![t] = None]
          /\ UNCHANGED old
       \/ /\ state # old[t]
          /\ old' = [old EXCEPT ![t] = state]
          /\ UNCHANGED <<state, pc, held>>
    /\ UNCHANGED <<osOpen, closes>>

\* Mutant: the zero test reads the count of oldState instead of refCount.
ReleaseCASStaleCount(t) ==
    /\ pc[t] = "release"
    /\ \/ /\ state = old[t]
          /\ state' = [old[t] EXCEPT !.ref = @ - 1]
          /\ pc' = [pc EXCEPT ![t] =
                      IF old[t].fd < 0 /\ old[t].ref = 0 THEN "closefd" ELSE "idle"]
          /\ held' = [held EXCEPT ![t] = None]
          /\ UNCHANGED old
       \/ /\ state # old[t]
          /\ old' = [old EXCEPT ![t] = state]
          /\ UNCHANGED <<state, pc, held>>
    /\ UNCHANGED <<osOpen, closes>>

ReleaseCAS(t) ==
    /\ pc[t] = "release"
    /\ \/ /\ state = old[t]
          /\ state' = [old[t] EXCEPT !.ref = @ - 1]
          /\ pc' = [pc EXCEPT ![t] =
                      IF old[t].fd < 0 /\ old[t].ref - 1 = 0
                      THEN "closefd" ELSE "idle"]
          /\ held' = [held EXCEPT ![t] = None]
          /\ UNCHANGED old
       \/ /\ state # old[t]
          /\ old' = [old EXCEPT ![t] = state]
          /\ UNCHANGED <<state, pc, held>>
    /\ UNCHANGED <<osOpen, closes>>

(***************************************************************************)
(* closeFunc(closeFD)          : set the lower 32 bits to all ones; the  *)
(* goroutine that does so while the count is zero closes the descriptor.   *)
(* A second close finds the fd negative and returns.                       *)
(***************************************************************************)
Close(t) ==
    /\ pc[t] = "idle"
    /\ old' = [old EXCEPT ![t] = state]
    /\ pc' = [pc EXCEPT ![t] = "close"]
    /\ UNCHANGED <<state, held, osOpen, closes>>

\* Mutant: close closes the descriptor while one reference is still held.
CloseCASOffByOne(t) ==
    /\ pc[t] = "close"
    /\ \/ /\ old[t].fd < 0
          /\ pc' = [pc EXCEPT ![t] = AfterClose(t)]
          /\ UNCHANGED <<state, old>>
       \/ /\ old[t].fd >= 0
          /\ state = old[t]
          /\ state' = [old[t] EXCEPT !.fd = Closed]
          /\ pc' = [pc EXCEPT ![t] = IF old[t].ref <= 1 THEN "closefd"
                                                             ELSE AfterClose(t)]
          /\ UNCHANGED old
       \/ /\ old[t].fd >= 0
          /\ state # old[t]
          /\ old' = [old EXCEPT ![t] = state]
          /\ UNCHANGED <<state, pc>>
    /\ UNCHANGED <<held, osOpen, closes>>

CloseCAS(t) ==
    /\ pc[t] = "close"
    /\ \/ /\ old[t].fd < 0                      \* already closed: break
          /\ pc' = [pc EXCEPT ![t] = AfterClose(t)]
          /\ UNCHANGED <<state, old>>
       \/ /\ old[t].fd >= 0
          /\ state = old[t]
          /\ state' = [old[t] EXCEPT !.fd = Closed]
          /\ pc' = [pc EXCEPT ![t] = IF old[t].ref = 0 THEN "closefd"
                                                            ELSE AfterClose(t)]
          /\ UNCHANGED old
       \/ /\ old[t].fd >= 0
          /\ state # old[t]
          /\ old' = [old EXCEPT ![t] = state]
          /\ UNCHANGED <<state, pc>>
    /\ UNCHANGED <<held, osOpen, closes>>

\* closeFD(fd): the kernel close of the descriptor the goroutine loaded.
CloseFD(t) ==
    /\ pc[t] = "closefd"
    /\ osOpen' = FALSE
    /\ closes' = closes + 1
    /\ pc' = [pc EXCEPT ![t] = AfterClose(t)]
    /\ UNCHANGED <<state, old, held>>

\* The steps a goroutine takes once it has entered acquire, release or close.
Busy(t) == AcquireCAS(t) \/ ReleaseCAS(t) \/ CloseCAS(t) \/ CloseFD(t)

Next ==
    \E t \in Threads :
        \/ Acquire(t) \/ Release(t) \/ Close(t)
        \/ Busy(t)

\* A goroutine inside one of the loops is scheduled again; a deferred
\* release always runs.  Nothing forces a goroutine to start an operation.
Fairness ==
    \A t \in Threads :
        /\ WF_vars(Busy(t))
        /\ WF_vars(Release(t))

Spec == Init /\ [][Next]_vars /\ Fairness

-----------------------------------------------------------------------------
TypeOK ==
    /\ state \in [ref : Nat, fd : {FD, Closed}]
    /\ pc \in [Threads -> PCs]
    /\ old \in [Threads -> [ref : Nat, fd : {FD, Closed}]]
    /\ held \in [Threads -> {FD, None}]
    /\ osOpen \in BOOLEAN
    /\ closes \in Nat

Holders == {t \in Threads : held[t] # None}

\* The count in the word is the number of goroutines between a successful
\* acquire and their release: no increment or decrement is lost to a
\* concurrent CAS.
RefCountMatchesHolders == state.ref = Cardinality(Holders)

\* A goroutine that acquired the descriptor and has not released it never
\* sees the kernel descriptor closed under it (the socketFD comment: close
\* "only closes it if the reference count is zero").
NoUseAfterClose == Holders # {} => osOpen

\* The kernel descriptor is closed at most once, whether by close or by the
\* last release: a second close could hit a descriptor number reused by
\* another file.
CloseOnce == closes <= 1

\* Once close has detached the descriptor, it is eventually closed in the
\* kernel ("guaranteeing that it will eventually be closed").
EventuallyClosed == (state.fd = Closed) ~> (closes = 1)

\* socketFD implements SharedFD: the holders are the goroutines with an
\* acquired fd, the descriptor is detached once the lower bits are all ones,
\* and the kernel descriptor is the one closeFD closes.
Abstract == INSTANCE SharedFD WITH
    holders <- Holders, detached <- (state.fd = Closed), fdOpen <- osOpen

\* Every step of the CAS loops is a step of the shared-ownership protocol or
\* changes nothing it can see, and the protocol's liveness holds.
ImplementsSharedFD == Abstract!ASpec
=============================================================================
