---------------------------- MODULE LocalSocket ----------------------------
(***************************************************************************)
(* The virtual network sockets of internal/network/local_unix.go, for one  *)
(* stream connection setup.  Every localSocket is a socketpair: fd0 is the *)
(* guest's end, fd1 the end a peer talks to.  A client Connect sends its   *)
(* fd1 over the server's fd1 with SCM_RIGHTS; the server's Accept receives *)
(* it on fd0 as a new descriptor.  With a listen function in the           *)
(* namespace, Listen starts a bridge goroutine that accepts external       *)
(* connections and serves each one through a fresh socket whose fd0 is     *)
(* handed to a tunnel (serve); with a dial function, a Connect to an       *)
(* address outside the namespace hands fd1 to a dial goroutine (dial).     *)
(*                                                                         *)
(* Descriptors are numbers of the process; each socketFD of local_unix.go  *)
(* (fd0, fd1 of every socket) is the atomic contract that SocketFD shows   *)
(* the CAS loops implement: acquire, release and close are single steps    *)
(* here.  Each guest is single threaded (a WASI module); the goroutines    *)
(* are the client guest, the server guest, the bridge, the dial goroutine  *)
(* and the tunnels.  Payloads, addresses and buffer sizes are left out.    *)
(***************************************************************************)
EXTENDS Integers, Sequences, SequencesExt

CONSTANTS
    MaxFds,       \* descriptor numbers 1..MaxFds
    FdLimits,     \* RLIMIT_NOFILE values: socket() fails past the limit
    MaxExternal,  \* external connections the bridge accepts
    Detached      \* the fd word of a socketFD after close (-1)

Fds == 1..MaxFds
Ext == 1..MaxExternal
LocalConn == 0                        \* the client C's connection
Conns == {LocalConn} \cup Ext          \* connections sent to the server
NoConn == -1
\* socketFDs: fd0/fd1 of the server S, of the client C, of the socket X
\* that serve creates, and fd0 of the sockets Accept returns.
Accepted == {"A1", "A2"}
Slots == {"S0", "S1", "C0", "C1", "X0", "X1"} \cup Accepted

VARIABLES
    nsFuncs,    \* the functions the namespace has: "listen", "dial"
    fdState,    \* each descriptor number: "free", "open" or "closed"
    closes,     \* how many times each descriptor was closed
    usedClosed, \* descriptors a system call was made on after their close
    sfd,        \* each socketFD: [ref |-> refCount, fd |-> fd or Detached]
    bits,       \* localSocketState of S and C
    registered, \* sockets bound in the namespace
    queue,      \* connections in flight in S's socketpair, oldest first
    connSt,     \* each connection: "none", "queued", "accepted", "gone"
    acc,        \* the connection each accepted socket holds
    gs, gc,     \* the server and the client guest
    gcFd,       \* server.fd1 as Connect acquired it
    lstnOpen,   \* S.lstn is open
    errs,       \* S.errs and C.errs: [made, n buffered, closed]
    br, brFd,   \* bridge goroutine and the serverFd serve acquired
    ext,        \* external connections accepted so far
    tunFd,      \* downstream descriptor of the tunnel serving each one
    dl, dlFd,   \* dial goroutine and its downstream descriptor
    cancelled   \* C.cancel was called

vars == <<nsFuncs, fdState, closes, usedClosed, sfd, bits, registered, queue, connSt,
          acc, gs, gc, gcFd, lstnOpen, errs, br, brFd, ext, tunFd, dl, dlFd,
          cancelled>>

\* ns.listen != nil and ns.dial != nil; fixed when the namespace is made.
HasListen == "listen" \in nsFuncs
HasDial == "dial" \in nsFuncs

\* socket(): each socketpair gets the lowest free numbers, as the kernel does.
SA0 == 1
SA1 == 2
SC0 == 3
SC1 == 4

Init ==
    /\ nsFuncs \in SUBSET {"listen", "dial"}
    /\ \E limit \in FdLimits :
         fdState = [d \in Fds |-> IF d <= 4 THEN "open"
                                 ELSE IF d <= limit THEN "free" ELSE "beyond"]
    /\ closes = [d \in Fds |-> 0]
    /\ usedClosed = {}
    /\ sfd = [k \in Slots |->
                [ref |-> 0,
                 fd |-> CASE k = "S0" -> SA0 [] k = "S1" -> SA1
                          [] k = "C0" -> SC0 [] k = "C1" -> SC1
                          [] OTHER -> Detached]]
    /\ bits = [s \in {"S", "C"} |-> {}]
    /\ registered = {}
    /\ queue = <<>>
    /\ connSt = [c \in Conns |-> "none"]
    /\ acc = [a \in Accepted |-> NoConn]
    /\ gs = "idle" /\ gc = "idle" /\ gcFd = 0
    /\ lstnOpen = FALSE
    /\ errs = [s \in {"S", "C"} |-> [made |-> FALSE, n |-> 0, closed |-> FALSE]]
    /\ br = "none" /\ brFd = 0 /\ ext = 0
    /\ tunFd = [i \in Ext |-> 0]
    /\ dl = "none" /\ dlFd = 0 /\ cancelled = FALSE

-----------------------------------------------------------------------------
(* socketFD operations on the map of all socketFDs (sandbox/socket.go      *)
(* 305-353): the map after the call, and the descriptors it closes.        *)

\* s.fdX.acquire(): one more reference, unless the fd was detached.
Acq(m, k) == IF m[k].fd = Detached THEN m ELSE [m EXCEPT ![k].ref = @ + 1]

\* s.fdX.release(fd): one reference less; closes fd if it was the last one
\* after a close.
Rel(m, k) == [m EXCEPT ![k].ref = @ - 1]
RelCloses(m, k, fd) == IF m[k].fd = Detached /\ m[k].ref = 1 THEN <<fd>> ELSE <<>>

\* s.fdX.close(): detach; closes the fd now if nobody holds it.
Cls(m, k) == [m EXCEPT ![k].fd = Detached]
ClsCloses(m, k) == IF m[k].fd # Detached /\ m[k].ref = 0 THEN <<m[k].fd>> ELSE <<>>

\* s.fdX.init(fd)
InitFd(m, k, fd) == [m EXCEPT ![k] = [ref |-> 0, fd |-> fd]]

Free == {d \in Fds : fdState[d] = "free"}

\* The descriptors a step opens, closes (one entry per close(2), in order)
\* and makes system calls on.
FdStep(opened, cl, used) ==
    /\ fdState' = [d \in Fds |-> IF d \in ToSet(cl) THEN "closed"
                                 ELSE IF d \in opened THEN "open"
                                 ELSE fdState[d]]
    /\ closes' = [d \in Fds |-> closes[d] + Cardinality({i \in DOMAIN cl : cl[i] = d})]
    /\ usedClosed' = usedClosed \cup {d \in used : fdState[d] # "open"}

\* The bridge's "select { case errs <- ECONNABORTED: default: }".
TryAbort == errs' = [errs EXCEPT !["S"].n = 1]

\* getError and Close's "for range s.errs": take the buffered error, or
\* finish once the goroutine closed the channel.
Drain(s) ==
    \/ /\ errs[s].n > 0
       /\ errs' = [errs EXCEPT ![s].n = 0]
    \/ /\ errs[s].n = 0
       /\ errs[s].closed
       /\ UNCHANGED errs

-----------------------------------------------------------------------------
(* The server guest: Listen, Accept, Close of S and of accepted sockets.   *)

\* Listen: bindAny, then bridge() when the namespace has a listen function,
\* then the listening bit.  ns.listen may fail after the bind.
Listen ==
    /\ gs = "idle"
    /\ "listening" \notin bits["S"]
    /\ registered' = registered \cup {"S"}
    /\ \/ /\ HasListen
          /\ lstnOpen' = TRUE
          /\ errs' = [errs EXCEPT !["S"].made = TRUE]
          /\ br' = "accept"
          /\ bits' = [bits EXCEPT !["S"] = @ \cup {"bound", "listening"}]
       \/ /\ HasListen
          /\ bits' = [bits EXCEPT !["S"] = @ \cup {"bound"}]
          /\ UNCHANGED <<nsFuncs, lstnOpen, errs, br>>
       \/ /\ ~HasListen
          /\ bits' = [bits EXCEPT !["S"] = @ \cup {"bound", "listening"}]
          /\ UNCHANGED <<nsFuncs, lstnOpen, errs, br>>
    /\ UNCHANGED <<nsFuncs, fdState, closes, usedClosed, sfd, queue, connSt, acc, gs,
                   gc, gcFd, brFd, ext, tunFd, dl, dlFd, cancelled>>

\* Accept when getError returns the error the bridge left in s.errs.
AcceptError ==
    /\ gs = "idle"
    /\ "listening" \in bits["S"]
    /\ errs["S"].n > 0
    /\ errs' = [errs EXCEPT !["S"].n = 0]
    /\ UNCHANGED <<nsFuncs, fdState, closes, usedClosed, sfd, bits, registered, queue,
                   connSt, acc, gs, gc, gcFd, lstnOpen, br, brFd, ext, tunFd,
                   dl, dlFd, cancelled>>

\* Accept: Recvmsg on fd0 takes the oldest connection and its descriptor,
\* which becomes fd0 of a new socket (fd1 is init(-1)).  Only while a
\* number is free: at the limit the kernel drops the descriptor and
\* &msgs[0] panics, which is not modelled.
Accept ==
    /\ gs = "idle"
    /\ "listening" \in bits["S"]
    /\ errs["S"].n = 0
    /\ queue # <<>>
    /\ Free # {}
    /\ \E a \in Accepted :
          /\ acc[a] = NoConn
          /\ LET n == Min(Free)
             IN /\ sfd' = InitFd(sfd, a, n)
                /\ FdStep({n}, <<>>, {sfd["S0"].fd})
          /\ acc' = [acc EXCEPT ![a] = Head(queue)]
    /\ connSt' = [connSt EXCEPT ![Head(queue)] = "accepted"]
    /\ queue' = Tail(queue)
    /\ UNCHANGED <<nsFuncs, bits, registered, gs, gc, gcFd, lstnOpen, errs, br, brFd,
                   ext, tunFd, dl, dlFd, cancelled>>

\* Close of an accepted socket: fd0.close() closes its descriptor, and the
\* peer of the connection sees it gone.
CloseAccepted(a) ==
    /\ acc[a] # NoConn
    /\ sfd[a].fd # Detached
    /\ sfd' = Cls(sfd, a)
    /\ FdStep({}, ClsCloses(sfd, a), {})
    /\ connSt' = [connSt EXCEPT ![acc[a]] = "gone"]
    /\ UNCHANGED <<nsFuncs, bits, registered, queue, acc, gs, gc, gcFd, lstnOpen, errs,
                   br, brFd, ext, tunFd, dl, dlFd, cancelled>>

\* Mutant: Close forgets s.fd1.close().
CloseSKeepsFd1 ==
    /\ gs = "idle"
    /\ sfd' = Cls(sfd, "S0")
    /\ FdStep({}, ClsCloses(sfd, "S0"), {})
    /\ registered' = registered \ {"S"}
    /\ connSt' = [c \in Conns |-> IF c \in ToSet(queue) THEN "gone" ELSE connSt[c]]
    /\ queue' = <<>>
    /\ lstnOpen' = FALSE
    /\ gs' = IF errs["S"].made THEN "draining" ELSE "closed"
    /\ UNCHANGED <<nsFuncs, bits, acc, gc, gcFd, errs, br, brFd, ext, tunFd, dl,
                   dlFd, cancelled>>

\* Close of S: unlink, fd0.close(), fd1.close(), lstn.Close(), then drain
\* s.errs.  Closing fd0 drops the connections in flight to it.
CloseS ==
    /\ gs = "idle"
    /\ LET m1 == Cls(sfd, "S0")
       IN /\ sfd' = Cls(m1, "S1")
          /\ FdStep({}, ClsCloses(sfd, "S0") \o ClsCloses(m1, "S1"), {})
    /\ registered' = registered \ {"S"}
    /\ connSt' = [c \in Conns |-> IF c \in ToSet(queue) THEN "gone" ELSE connSt[c]]
    /\ queue' = <<>>
    /\ lstnOpen' = FALSE
    /\ gs' = IF errs["S"].made THEN "draining" ELSE "closed"
    /\ UNCHANGED <<nsFuncs, bits, acc, gc, gcFd, errs, br, brFd, ext, tunFd, dl, dlFd,
                   cancelled>>

DrainS ==
    /\ gs = "draining"
    /\ Drain("S")
    /\ gs' = IF errs["S"].n = 0 THEN "closed" ELSE gs
    /\ UNCHANGED <<nsFuncs, fdState, closes, usedClosed, sfd, bits, registered, queue,
                   connSt, acc, gc, gcFd, lstnOpen, br, brFd, ext, tunFd, dl,
                   dlFd, cancelled>>

-----------------------------------------------------------------------------
(* The client guest: Connect to S or to an outside address, and Close.     *)

\* Mutant: Connect uses server.fd1.load() instead of acquire().
ConnectLocalNoAcquire ==
    /\ gc = "idle"
    /\ "connected" \notin bits["C"]
    /\ bits' = [bits EXCEPT !["C"] = @ \cup {"bound"}]
    /\ registered' = registered \cup {"C"}
    /\ IF "S" \in registered /\ sfd["S1"].fd # Detached
          THEN /\ gcFd' = sfd["S1"].fd
               /\ gc' = "connecting"
          ELSE UNCHANGED <<gcFd, gc>>
    /\ UNCHANGED <<nsFuncs, sfd, fdState, closes, usedClosed, queue, connSt, acc,
                   gs, lstnOpen, errs, br, brFd, ext, tunFd, dl, dlFd, cancelled>>

\* Connect to S, first part: bindAny, ns lookup of S, server.fd1.acquire().
ConnectLocal ==
    /\ gc = "idle"
    /\ "connected" \notin bits["C"]
    /\ bits' = [bits EXCEPT !["C"] = @ \cup {"bound"}]
    /\ registered' = registered \cup {"C"}
    /\ IF "S" \in registered /\ sfd["S1"].fd # Detached
          THEN /\ sfd' = Acq(sfd, "S1")
               /\ gcFd' = sfd["S1"].fd
               /\ gc' = "connecting"
          ELSE UNCHANGED <<nsFuncs, sfd, gcFd, gc>>          \* ECONNREFUSED
    /\ UNCHANGED <<nsFuncs, fdState, closes, usedClosed, queue, connSt, acc, gs,
                   lstnOpen, errs, br, brFd, ext, tunFd, dl, dlFd, cancelled>>

\* Mutant: server.fd1 is released only when Sendmsg succeeded.
ConnectSendNoReleaseOnError ==
    /\ gc = "connecting"
    /\ LET fd1 == sfd["C1"].fd
           m2 == Cls(Acq(sfd, "C1"), "C1")
           sent == fd1 # Detached /\ fdState[SA0] = "open"
       IN IF sent
             THEN /\ sfd' = Rel(Rel(m2, "C1"), "S1")
                  /\ FdStep({}, RelCloses(m2, "C1", fd1)
                                  \o RelCloses(Rel(m2, "C1"), "S1", gcFd),
                            {gcFd, fd1})
                  /\ queue' = Append(queue, LocalConn)
                  /\ connSt' = [connSt EXCEPT ![LocalConn] = "queued"]
                  /\ bits' = [bits EXCEPT !["C"] = @ \cup {"connected"}]
                  /\ gc' = "connected"
             ELSE /\ FdStep({}, <<>>, {gcFd})
                  /\ UNCHANGED <<sfd, queue, connSt, bits>>
                  /\ gc' = "idle"
    /\ gcFd' = 0
    /\ UNCHANGED <<nsFuncs, registered, acc, gs, lstnOpen, errs, br, brFd, ext,
                   tunFd, dl, dlFd, cancelled>>

\* Connect to S, second part: s.connect(serverFd) acquires fd1, sends it
\* with Sendmsg, detaches it and its deferred release closes it; then the
\* deferred server.fd1.release(serverFd).  Sendmsg fails once S's fd0 is
\* closed (ECONNREFUSED), and fd1 stays attached.
ConnectSend ==
    /\ gc = "connecting"
    /\ LET fd1 == sfd["C1"].fd
           m1 == Acq(sfd, "C1")
           m2 == Cls(m1, "C1")
           m3 == Rel(m2, "C1")
           sent == fd1 # Detached /\ fdState[SA0] = "open"
           m == IF sent THEN m3 ELSE sfd
       IN /\ sfd' = Rel(m, "S1")
          /\ FdStep({}, (IF sent THEN RelCloses(m2, "C1", fd1) ELSE <<>>)
                          \o RelCloses(m, "S1", gcFd),
                    {gcFd} \cup (IF fd1 # Detached THEN {fd1} ELSE {}))
          /\ IF sent
                THEN /\ queue' = Append(queue, LocalConn)
                     /\ connSt' = [connSt EXCEPT ![LocalConn] = "queued"]
                     /\ bits' = [bits EXCEPT !["C"] = @ \cup {"connected"}]
                     /\ gc' = "connected"
                ELSE /\ UNCHANGED <<nsFuncs, queue, connSt, bits>>
                     /\ gc' = "idle"
    /\ gcFd' = 0
    /\ UNCHANGED <<nsFuncs, registered, acc, gs, lstnOpen, errs, br, brFd, ext, tunFd,
                   dl, dlFd, cancelled>>

\* Mutant: dial detaches fd1 without the extra s.fd1.acquire().
ConnectDialNoExtraAcquire ==
    /\ gc = "idle"
    /\ "connected" \notin bits["C"]
    /\ registered' = registered \cup {"C"}
    /\ LET fd1 == sfd["C1"].fd
           m3 == Cls(Acq(sfd, "C1"), "C1")
           dd == Min(Free)
       IN \/ /\ ~HasDial \/ fd1 = Detached
             /\ bits' = [bits EXCEPT !["C"] = @ \cup {"bound"}]
             /\ UNCHANGED <<fdState, closes, usedClosed, sfd, gc, errs, dl, dlFd>>
          \/ /\ HasDial /\ fd1 # Detached
             /\ sfd' = Rel(m3, "C1")
             /\ FdStep({dd}, <<fd1>> \o RelCloses(m3, "C1", fd1), {fd1})
             /\ errs' = [errs EXCEPT !["C"].made = TRUE]
             /\ dl' = "dialing"
             /\ dlFd' = dd
             /\ bits' = [bits EXCEPT !["C"] = @ \cup {"bound", "connected"}]
             /\ gc' = "connected"
    /\ UNCHANGED <<nsFuncs, queue, connSt, acc, gs, gcFd, lstnOpen, br, brFd,
                   ext, tunFd, cancelled>>

\* Connect to an outside address: the lookup fails with ENETUNREACH and
\* dial runs.  dial acquires fd1, wraps it in f, acquires it once more and
\* detaches it ("f owns the fd now"), dups it with FileConn, starts the
\* goroutine and returns; its deferred f.Close() then release(fd1) run.
ConnectDial ==
    /\ gc = "idle"
    /\ "connected" \notin bits["C"]
    /\ registered' = registered \cup {"C"}
    /\ LET fd1 == sfd["C1"].fd
           m3 == Cls(Acq(Acq(sfd, "C1"), "C1"), "C1")
           dd == Min(Free)
       IN \/ /\ ~HasDial \/ fd1 = Detached                \* ENETUNREACH, EBADF
             /\ bits' = [bits EXCEPT !["C"] = @ \cup {"bound"}]
             /\ UNCHANGED <<nsFuncs, fdState, closes, usedClosed, sfd, gc, errs, dl, dlFd>>
          \/ /\ HasDial /\ fd1 # Detached /\ Free = {}    \* FileConn fails
             /\ sfd' = Rel(m3, "C1")
             /\ FdStep({}, <<fd1>> \o RelCloses(m3, "C1", fd1), {fd1})
             /\ bits' = [bits EXCEPT !["C"] = @ \cup {"bound"}]
             /\ UNCHANGED <<nsFuncs, gc, errs, dl, dlFd>>
          \/ /\ HasDial /\ fd1 # Detached /\ Free # {}
             /\ sfd' = Rel(m3, "C1")
             /\ FdStep({dd}, <<fd1>> \o RelCloses(m3, "C1", fd1), {fd1})
             /\ errs' = [errs EXCEPT !["C"].made = TRUE]
             /\ dl' = "dialing"
             /\ dlFd' = dd
             /\ bits' = [bits EXCEPT !["C"] = @ \cup {"bound", "connected"}]
             /\ gc' = "connected"
    /\ UNCHANGED <<nsFuncs, queue, connSt, acc, gs, gcFd, lstnOpen, br, brFd, ext, tunFd,
                   cancelled>>

\* Close of C: unlink, fd0.close(), fd1.close(), cancel(), then drain.
CloseC ==
    /\ gc \in {"idle", "connected"}
    /\ LET m1 == Cls(sfd, "C0")
       IN /\ sfd' = Cls(m1, "C1")
          /\ FdStep({}, ClsCloses(sfd, "C0") \o ClsCloses(m1, "C1"), {})
    /\ registered' = registered \ {"C"}
    /\ cancelled' = (cancelled \/ errs["C"].made)
    /\ gc' = IF errs["C"].made THEN "draining" ELSE "closed"
    /\ UNCHANGED <<nsFuncs, bits, queue, connSt, acc, gs, gcFd, lstnOpen, errs, br, brFd,
                   ext, tunFd, dl, dlFd>>

DrainC ==
    /\ gc = "draining"
    /\ Drain("C")
    /\ gc' = IF errs["C"].n = 0 THEN "closed" ELSE gc
    /\ UNCHANGED <<nsFuncs, fdState, closes, usedClosed, sfd, bits, registered, queue,
                   connSt, acc, gs, gcFd, lstnOpen, br, brFd, ext, tunFd, dl,
                   dlFd, cancelled>>

\* The dial goroutine: dial(ctx) fails (always once cancelled) and sends
\* the error, or connects and tunnels.  Either way it closes downstream
\* and then errs.
DialUp ==
    /\ dl = "dialing"
    /\ \/ /\ errs' = [errs EXCEPT !["C"].n = 1, !["C"].closed = TRUE]
          /\ FdStep({}, <<dlFd>>, {})
          /\ dl' = "done"
       \/ /\ ~cancelled
          /\ dl' = "tunnel"
          /\ UNCHANGED <<nsFuncs, errs, fdState, closes, usedClosed>>
    /\ UNCHANGED <<nsFuncs, sfd, bits, registered, queue, connSt, acc, gs, gc, gcFd,
                   lstnOpen, br, brFd, ext, tunFd, dlFd, cancelled>>

\* tunnel returns, with or without an error sent on errs.
DialTunnelEnd ==
    /\ dl = "tunnel"
    /\ \E e \in {0, 1} : errs' = [errs EXCEPT !["C"].n = e, !["C"].closed = TRUE]
    /\ FdStep({}, <<dlFd>>, {dlFd})
    /\ dl' = "done"
    /\ UNCHANGED <<nsFuncs, sfd, bits, registered, queue, connSt, acc, gs, gc, gcFd,
                   lstnOpen, br, brFd, ext, tunFd, dlFd, cancelled>>

-----------------------------------------------------------------------------
(* The bridge goroutine of S and the serve calls it makes.                 *)

\* l.Accept() returns an external connection.
BridgeConn ==
    /\ br = "accept"
    /\ lstnOpen
    /\ ext < MaxExternal
    /\ ext' = ext + 1
    /\ br' = "serve1"
    /\ UNCHANGED <<nsFuncs, fdState, closes, usedClosed, sfd, bits, registered, queue,
                   connSt, acc, gs, gc, gcFd, lstnOpen, errs, brFd, tunFd, dl,
                   dlFd, cancelled>>

\* Mutant: the bridge returns without the deferred close(errs).
BridgeStopNoClose ==
    /\ br = "accept"
    /\ ~lstnOpen
    /\ errs["S"].n = 0
    /\ errs' = [errs EXCEPT !["S"].n = 1]
    /\ br' = "done"
    /\ UNCHANGED <<nsFuncs, fdState, closes, usedClosed, sfd, bits, registered,
                   queue, connSt, acc, gs, gc, gcFd, lstnOpen, brFd, ext, tunFd,
                   dl, dlFd, cancelled>>

\* Mutant: "errs <- err" does not wait for room in the buffer.
BridgeStopNoWait ==
    /\ br = "accept"
    /\ ~lstnOpen
    /\ errs' = [errs EXCEPT !["S"].n = @ + 1, !["S"].closed = TRUE]
    /\ br' = "done"
    /\ UNCHANGED <<nsFuncs, fdState, closes, usedClosed, sfd, bits, registered,
                   queue, connSt, acc, gs, gc, gcFd, lstnOpen, brFd, ext, tunFd,
                   dl, dlFd, cancelled>>

\* l.Accept() fails once Close closed the listener: "errs <- err" (blocking
\* while the buffer holds an error) and the deferred close(errs).
BridgeStop ==
    /\ br = "accept"
    /\ ~lstnOpen
    /\ errs["S"].n = 0
    /\ errs' = [errs EXCEPT !["S"].n = 1, !["S"].closed = TRUE]
    /\ br' = "done"
    /\ UNCHANGED <<nsFuncs, fdState, closes, usedClosed, sfd, bits, registered, queue,
                   connSt, acc, gs, gc, gcFd, lstnOpen, brFd, ext, tunFd, dl,
                   dlFd, cancelled>>

\* serve: s.fd1.acquire(); on EBADF the bridge closes the connection and
\* reports ECONNABORTED if the buffer has room.
ServeAcquire ==
    /\ br = "serve1"
    /\ IF sfd["S1"].fd = Detached
          THEN /\ TryAbort
               /\ br' = "accept"
               /\ UNCHANGED <<nsFuncs, sfd, brFd>>
          ELSE /\ sfd' = Acq(sfd, "S1")
               /\ brFd' = sfd["S1"].fd
               /\ br' = "serve2"
               /\ UNCHANGED errs
    /\ UNCHANGED <<nsFuncs, fdState, closes, usedClosed, bits, registered, queue, connSt,
                   acc, gs, gc, gcFd, lstnOpen, ext, tunFd, dl, dlFd, cancelled>>

\* The rest of serve, up to its deferred calls: getsockopt on serverFd,
\* ns.socket() for a fresh socket X, X.connect(serverFd) (Sendmsg of X's fd1
\* to S, detach and close it), f from X.fd0.acquire() and X.fd0.close(),
\* FileConn(f) and the tunnel goroutine; then f.Close(), X.Close() and
\* s.fd1.release(serverFd).  ns.socket and FileConn fail without free
\* descriptors; Sendmsg fails once S's fd0 is closed.  On an error the
\* bridge closes the connection and reports ECONNABORTED.
ServeConnect ==
    /\ br = "serve2"
    /\ LET i == ext
           x0 == Min(Free)
           x1 == Min(Free \ {x0})
           dd == Min(Free \ {x0, x1})
           mx == InitFd(InitFd(sfd, "X0", x0), "X1", x1)
           \* X.connect(serverFd): fd1 sent, detached, released
           m1 == Cls(Acq(mx, "X1"), "X1")
           m2 == Rel(m1, "X1")
           \* f := os.NewFile(X.fd0.acquire()); X.fd0.close()
           m3 == Cls(Acq(m2, "X0"), "X0")
           \* X.Close() after connect failed: both ends still attached
           mc == Cls(Cls(mx, "X0"), "X1")
           closeX == ClsCloses(mx, "X0") \o ClsCloses(Cls(mx, "X0"), "X1")
       IN \/ /\ Cardinality(Free) < 2                   \* ns.socket fails
             /\ sfd' = Rel(sfd, "S1")
             /\ FdStep({}, RelCloses(sfd, "S1", brFd), {brFd})
             /\ UNCHANGED <<nsFuncs, queue, connSt, tunFd>>
          \/ /\ Cardinality(Free) >= 2
             /\ fdState[SA0] # "open"                    \* Sendmsg fails
             /\ sfd' = Rel(mc, "S1")
             /\ FdStep({x0, x1}, closeX \o RelCloses(mc, "S1", brFd), {brFd})
             /\ UNCHANGED <<nsFuncs, queue, connSt, tunFd>>
          \/ /\ Cardinality(Free) >= 2
             /\ fdState[SA0] = "open"
             /\ queue' = Append(queue, i)
             /\ connSt' = [connSt EXCEPT ![i] = "queued"]
             /\ sfd' = Rel(m3, "S1")
             /\ IF Cardinality(Free) >= 3
                   THEN /\ FdStep({x0, x1, dd},
                                  RelCloses(m1, "X1", x1) \o <<x0>>
                                    \o RelCloses(m3, "S1", brFd),
                                  {brFd})
                        /\ tunFd' = [tunFd EXCEPT ![i] = dd]
                   ELSE /\ FdStep({x0, x1},                \* FileConn fails
                                  RelCloses(m1, "X1", x1) \o <<x0>>
                                    \o RelCloses(m3, "S1", brFd),
                                  {brFd})
                        /\ UNCHANGED tunFd
    /\ IF /\ Cardinality(Free) >= 3
          /\ fdState[SA0] = "open"
          THEN UNCHANGED errs
          ELSE TryAbort
    /\ br' = "accept"
    /\ brFd' = 0
    /\ UNCHANGED <<nsFuncs, bits, registered, acc, gs, gc, gcFd, lstnOpen, ext, dl, dlFd,
                   cancelled>>

\* The tunnel of an external connection returns: downstream is closed.
ServedTunnelEnd(i) ==
    /\ tunFd[i] # 0
    /\ FdStep({}, <<tunFd[i]>>, {tunFd[i]})
    /\ tunFd' = [tunFd EXCEPT ![i] = 0]
    /\ UNCHANGED <<nsFuncs, sfd, bits, registered, queue, connSt, acc, gs, gc, gcFd,
                   lstnOpen, errs, br, brFd, ext, dl, dlFd, cancelled>>

-----------------------------------------------------------------------------
Server == Listen \/ AcceptError \/ Accept \/ CloseS \/ DrainS
          \/ \E a \in Accepted : CloseAccepted(a)
Client == ConnectLocal \/ ConnectSend \/ ConnectDial \/ CloseC \/ DrainC
Goroutines == DialUp \/ DialTunnelEnd \/ BridgeConn \/ BridgeStop
              \/ ServeAcquire \/ ServeConnect \/ \E i \in Ext : ServedTunnelEnd(i)

Next == Server \/ Client \/ Goroutines

\* A goroutine inside a call keeps running: the second half of Connect,
\* the drain loops of Close, the bridge once its listener is closed, serve,
\* and dial.  A tunnel returns once the socket at the other end of its
\* downstream is closed (EOF).  Guests are never forced to make a call,
\* and external clients are never forced to connect.
Fairness ==
    /\ WF_vars(ConnectSend) /\ WF_vars(DrainS) /\ WF_vars(DrainC)
    /\ WF_vars(BridgeStop) /\ WF_vars(ServeAcquire) /\ WF_vars(ServeConnect)
    /\ WF_vars(DialUp)
    /\ WF_vars(DialTunnelEnd /\ fdState[SC0] = "closed")
    /\ \A i \in Ext : WF_vars(ServedTunnelEnd(i) /\ connSt[i] = "gone")

Spec == Init /\ [][Next]_vars /\ Fairness

-----------------------------------------------------------------------------
FdStates == {"free", "open", "closed", "beyond"}
SockBits == {"bound", "listening", "connected"}

TypeOK ==
    /\ nsFuncs \subseteq {"listen", "dial"}
    /\ fdState \in [Fds -> FdStates]
    /\ closes \in [Fds -> Nat]
    /\ usedClosed \subseteq Fds
    /\ sfd \in [Slots -> [ref : Nat, fd : Fds \cup {Detached}]]
    /\ bits \in [{"S", "C"} -> SUBSET SockBits]
    /\ registered \subseteq {"S", "C"}
    /\ queue \in Seq(Conns)
    /\ connSt \in [Conns -> {"none", "queued", "accepted", "gone"}]
    /\ acc \in [Accepted -> Conns \cup {NoConn}]
    /\ gs \in {"idle", "draining", "closed"}
    /\ gc \in {"idle", "connecting", "connected", "draining", "closed"}
    /\ lstnOpen \in BOOLEAN
    /\ errs \in [{"S", "C"} -> [made : BOOLEAN, n : 0..1, closed : BOOLEAN]]
    /\ br \in {"none", "accept", "serve1", "serve2", "done"}
    /\ dl \in {"none", "dialing", "tunnel", "done"}
    /\ {gcFd, brFd, dlFd} \subseteq Fds \cup {0}
    /\ tunFd \in [Ext -> Fds \cup {0}]

\* No descriptor is closed twice: the detach in connect, dial and serve,
\* the extra acquire of dial and serve, the deferred releases and Close of
\* the sockets involved never close the same number twice (a second close
\* would close whatever file reused the number).
NoDoubleClose == \A d \in Fds : closes[d] <= 1

\* Every system call (Sendmsg and getsockopt on the server's fd1 by a
\* connecting client or by serve, Recvmsg by Accept, the tunnels' I/O) is
\* made on a descriptor that is still open.
NoUseAfterClose == usedClosed = {}

\* Close returns: its "for range s.errs" ends because the bridge or dial
\* goroutine eventually closes the channel.
CloseReturns ==
    /\ (gs = "draining") ~> (gs = "closed")
    /\ (gc = "draining") ~> (gc = "closed")

\* Once both guests closed their sockets and the sockets Accept returned,
\* every descriptor the virtual network opened is eventually closed.
GuestsClosed ==
    /\ gs = "closed" /\ gc = "closed"
    /\ \A a \in Accepted : sfd[a].fd = Detached
NoLeak == GuestsClosed ~> (\A d \in Fds : fdState[d] # "open")
====
