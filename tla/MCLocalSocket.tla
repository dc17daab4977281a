--------------------------- MODULE MCLocalSocket ---------------------------
(***************************************************************************)
(* The guests' sockets are made by ns.socket(family, socktype, protocol):  *)
(* either stream sockets, whose connection setup LocalSocket models, or    *)
(* datagram sockets, whose Bind, Connect, SendTo, RecvFrom and Close       *)
(* LocalDatagram models.  socktype is chosen in the initial state and the  *)
(* behaviour is that of the chosen module; the other one stays initial.    *)
(***************************************************************************)
EXTENDS LocalSocket

CONSTANT Nil

\* Two socketpairs, three descriptors for one served connection, two
\* accepted sockets and the dial goroutine's dup fit in 10 numbers.
MCMaxFds == 10
MCMaxExternal == 1

\* A limit of 10, or of 6: after the two socketpairs only two numbers
\* remain, so ns.socket and FileConn run out of descriptors on some paths
\* (EMFILE).  Accept is taken only while a number is free: at the limit
\* Recvmsg loses the passed descriptor, which is not modelled.
MCFdLimits == {6, 10}

\* Two datagram guests: each can send to the other and to itself, connect,
\* and close while the other holds its fd1.  An empty payload and one
\* shorter than the 20-byte header; two SendTo calls per guest.
MCSocks == {"A", "B"}
MCLens == {0, 5}
MCMaxSends == 2

VARIABLES socktype, dbits, dpeer, dregistered, dsfd, dsys, drq, dg, ddest,
          dplen, dsends, dsent, drecvd

dvars == <<dbits, dpeer, dregistered, dsfd, dsys, drq, dg, ddest, dplen,
           dsends, dsent, drecvd>>

DG == INSTANCE LocalDatagram
        WITH Socks <- MCSocks, Lens <- MCLens, MaxSends <- MCMaxSends,
             bits <- dbits, peer <- dpeer, registered <- dregistered,
             sfd <- dsfd, sys <- dsys, rq <- drq, g <- dg, dest <- ddest,
             plen <- dplen, sends <- dsends, sent <- dsent, recvd <- drecvd

\* The namespace functions and the descriptor limit concern stream sockets;
\* datagram sockets are modelled under one of them.
MCInit ==
    /\ socktype \in {"STREAM", "DGRAM"}
    /\ Init
    /\ socktype = "DGRAM" => nsFuncs = {} /\ fdState[MCMaxFds] = "free"
    /\ DG!Init

MCNext ==
    \/ socktype = "STREAM" /\ Next /\ UNCHANGED <<socktype, dvars>>
    \/ socktype = "DGRAM" /\ DG!Next /\ UNCHANGED <<socktype, vars>>

\* The fairness of LocalSocket concerns goroutines of stream sockets only;
\* a datagram call is never forced.
MCSpec == MCInit /\ [][MCNext]_<<socktype, vars, dvars>> /\ Fairness

\* A SendTo to an address that reports success returned the payload length
\* and queued the datagram at the addressee's fd0 (until RecvFrom or Close).
AddressedSendDelivered == DG!AddressedSendDelivered

\* RecvFrom reports the sender's address and the sender's payload length.
ReceivedFromSender == DG!ReceivedFromSender

\* The addressee's fd1 a SendTo holds is not closed before its Sendmsg.
HeldPeerFdOpen == DG!HeldPeerFdOpen

\* A connected socket's SendTo(iovs, nil) reaches the peer Connect stored.
ConnectedSendDelivered == DG!ConnectedSendDelivered
====
