--------------------------- MODULE LocalDatagram ---------------------------
(***************************************************************************)
(* Datagram sockets of the virtual network, internal/network/local_unix.go.*)
(* A localSocket is a socketpair: the guest reads and writes fd0, and a    *)
(* peer sends to the socket by writing fd1, so that the datagram arrives   *)
(* on fd0.  SendTo to an address looks the addressee up in the namespace,  *)
(* acquires its fd1 and sends a 20-byte address header (the sender's name) *)
(* before the payload; RecvFrom reads the header back into s.addrBuf and   *)
(* reports it as the source address.                                       *)
(*                                                                         *)
(* Each socket belongs to one single-threaded guest; a guest's call on its *)
(* own fd0 is one step, and the SendTo that holds a peer's fd1 is two (the *)
(* acquire, then the Sendmsg and release), so the peer's Close can run in  *)
(* between.  Every socket's address is its own name: the namespace's bind, *)
(* lookup and unlink (not in this file) are a set of registered sockets.   *)
(* A payload is its length and an identifier.                              *)
(***************************************************************************)
EXTENDS Integers, Sequences, SequencesExt, FiniteSets

CONSTANTS
    Socks,      \* the guests' datagram sockets, each bound to its own address
    Lens,       \* payload lengths the guests send
    MaxSends,   \* SendTo calls per guest
    Nil         \* no address: SendTo(iovs, nil, flags), s.peer not stored

AddrBufSize == 20                  \* addrBufSize
Ends == {0, 1}                     \* fd0 and fd1 of a socketpair
Dgram == [hdr : Socks \cup {Nil}, len : Nat, id : Socks \X Nat]

VARIABLES
    bits,       \* localSocketState: "bound", "connected"
    peer,       \* s.peer
    registered, \* sockets bound in the namespace
    sfd,        \* socketFD fd0/fd1: [ref |-> refCount, attached |-> fd not detached]
    sys,        \* the kernel descriptors of each socketpair end are open
    rq,         \* datagrams queued for reading at each socketpair end
    g,          \* the guest: "idle", "sending" (holds the addressee's fd1), "closed"
    dest,       \* the addressee whose fd1 the guest holds
    plen,       \* the payload length of that SendTo
    sends,      \* SendTo calls made by each guest
    sent,       \* SendTo calls that returned: [id, via, to, len, ok, n]
    recvd       \* RecvFrom results: [by, id, from, n]

vars == <<bits, peer, registered, sfd, sys, rq, g, dest, plen, sends, sent, recvd>>

Init ==
    /\ bits = [s \in Socks |-> {}]
    /\ peer = [s \in Socks |-> Nil]
    /\ registered = {}
    /\ sfd = [s \in Socks |-> [e \in Ends |-> [ref |-> 0, attached |-> TRUE]]]
    /\ sys = [s \in Socks |-> [e \in Ends |-> TRUE]]
    /\ rq = [s \in Socks |-> [e \in Ends |-> <<>>]]
    /\ g = [s \in Socks |-> "idle"]
    /\ dest = [s \in Socks |-> Nil]
    /\ plen = [s \in Socks |-> 0]
    /\ sends = [s \in Socks |-> 0]
    /\ sent = {}
    /\ recvd = {}

\* The socket at the other end of the kernel pipe: writing end e of s
\* queues the datagram at end 1 - e.
Other(e) == 1 - e

\* bindAny / ns.bindInet4: an unbound socket is bound on its first call.
BindAny(s) ==
    /\ bits' = [bits EXCEPT ![s] = @ \cup {"bound"}]
    /\ registered' = registered \cup {s}

\* A Sendmsg on end e of t's socketpair succeeds while the other end is open.
Accepts(t, e) == sys[t][Other(e)]

\* unix.Sendmsg on end e of t's socketpair: the datagram is queued at the
\* other end, or ECONNREFUSED once that end is closed.  Returns n.
Deliver(t, e, d) ==
    IF Accepts(t, e)
    THEN /\ rq' = [rq EXCEPT ![t][Other(e)] = Append(@, d)]
    ELSE UNCHANGED rq

\* What SendTo returns for a Sendmsg of cnt bytes on end e of t: the count
\* less the header when n > 0 (SendmsgBuffers gives n = 0 with its error).
Sent(id, via, to, len, t, e, cnt) ==
    LET n == IF Accepts(t, e) THEN cnt ELSE 0 IN
    [id |-> id, via |-> via, to |-> to, len |-> len, ok |-> Accepts(t, e),
     n |-> IF n > 0 THEN n - AddrBufSize ELSE n]

-----------------------------------------------------------------------------
(* Guest calls.  Each starts with fd := s.fd0.acquire(), EBADF when it is  *)
(* detached; the guest's own fd0 is released when the call returns.        *)

Usable(s) == g[s] = "idle" /\ sfd[s][0].attached

\* Bind(addr): EINVAL when already bound, else ns.bindInet4.
Bind(s) ==
    /\ Usable(s)
    /\ "bound" \notin bits[s]
    /\ BindAny(s)
    /\ UNCHANGED <<peer, sfd, sys, rq, g, dest, plen, sends, sent, recvd>>

\* Connect(addr) of a datagram socket: EISCONN when connected, bindAny,
\* then ns.lookupInet4; a datagram server only stores the peer address.
Connect(s, t) ==
    /\ Usable(s)
    /\ "connected" \notin bits[s]
    /\ bits' = [bits EXCEPT ![s] = @ \cup {"bound"} \cup
                    (IF t \in registered \cup {s} THEN {"connected"} ELSE {})]
    /\ registered' = registered \cup {s}
    /\ peer' = [peer EXCEPT ![s] = IF t \in registered \cup {s} THEN t ELSE @]
    /\ UNCHANGED <<sfd, sys, rq, g, dest, plen, sends, sent, recvd>>

\* SendTo(iovs, addr): EISCONN / ENOTCONN on a mismatch of addr and the
\* connected state; bindAny; then with an address, ns.lookupInet4 (its
\* error is returned).  The count is bounded by MaxSends.
SendToAddr(s, t, len) ==
    /\ Usable(s)
    /\ "connected" \notin bits[s]
    /\ sends[s] < MaxSends
    /\ sends' = [sends EXCEPT ![s] = @ + 1]
    /\ BindAny(s)
    /\ IF t \in registered'
       THEN /\ g' = [g EXCEPT ![s] = "lookedup"]
            /\ dest' = [dest EXCEPT ![s] = t]
            /\ plen' = [plen EXCEPT ![s] = len]
       ELSE UNCHANGED <<g, dest, plen>>
    /\ UNCHANGED <<peer, sfd, sys, rq, sent, recvd>>

\* peerFd := peer.fd1.acquire() on the socket the lookup returned, which
\* may have been closed since: EHOSTUNREACH.
SendToAcquire(s) ==
    LET t == dest[s] IN
    /\ g[s] = "lookedup"
    /\ IF sfd[t][1].attached
       THEN /\ sfd' = [sfd EXCEPT ![t][1].ref = @ + 1]
            /\ g' = [g EXCEPT ![s] = "sending"]
            /\ UNCHANGED dest
       ELSE /\ g' = [g EXCEPT ![s] = "idle"]
            /\ dest' = [dest EXCEPT ![s] = Nil]
            /\ UNCHANGED sfd
    /\ UNCHANGED <<bits, peer, registered, sys, rq, plen, sends, sent, recvd>>

\* Mutant: sendSocketFd is left at the guest's own fd0.
SendToSendOwnFd(s) ==
    LET t == dest[s]
        k == <<s, sends[s] - 1>>
    IN
    /\ g[s] = "sending"
    /\ Deliver(s, 0, [hdr |-> s, len |-> AddrBufSize + plen[s], id |-> k])
    /\ sent' = sent \cup {Sent(k, "addr", t, plen[s], s, 0, AddrBufSize + plen[s])}
    /\ sfd' = [sfd EXCEPT ![t][1].ref = @ - 1]
    /\ sys' = [sys EXCEPT ![t][1] = @ /\ ~(~sfd[t][1].attached /\ sfd[t][1].ref = 1)]
    /\ g' = [g EXCEPT ![s] = "idle"]
    /\ dest' = [dest EXCEPT ![s] = Nil]
    /\ UNCHANGED <<bits, peer, registered, plen, sends, recvd>>

\* s.addrBuf = encodeSockaddrAny(s.name.Load()); Sendmsg of the header and
\* the payload on peerFd; n -= addrBufSize; then peer.fd1.release, which
\* closes fd1 if the addressee closed the socket in between.
SendToSend(s) ==
    LET t == dest[s]
        k == <<s, sends[s] - 1>>
    IN
    /\ g[s] = "sending"
    /\ Deliver(t, 1, [hdr |-> s, len |-> AddrBufSize + plen[s], id |-> k])
    /\ sent' = sent \cup {Sent(k, "addr", t, plen[s], t, 1, AddrBufSize + plen[s])}
    /\ sfd' = [sfd EXCEPT ![t][1].ref = @ - 1]
    /\ sys' = [sys EXCEPT ![t][1] = @ /\ ~(~sfd[t][1].attached /\ sfd[t][1].ref = 1)]
    /\ g' = [g EXCEPT ![s] = "idle"]
    /\ dest' = [dest EXCEPT ![s] = Nil]
    /\ UNCHANGED <<bits, peer, registered, plen, sends, recvd>>

\* SendTo(iovs, nil) of a connected socket: sendSocketFd stays fd, the
\* guest's own fd0; no header is added, and n -= addrBufSize.
SendToConnected(s, len) ==
    /\ Usable(s)
    /\ "connected" \in bits[s]
    /\ sends[s] < MaxSends
    /\ sends' = [sends EXCEPT ![s] = @ + 1]
    /\ Deliver(s, 0, [hdr |-> Nil, len |-> len, id |-> <<s, sends[s]>>])
    /\ sent' = sent \cup {Sent(<<s, sends[s]>>, "peer", peer[s], len, s, 0, len)}
    /\ UNCHANGED <<bits, peer, registered, sfd, sys, g, dest, plen, recvd>>

\* Mutant: the header length is not subtracted from the count.
RecvFromKeepsHeader(s) ==
    /\ Usable(s)
    /\ rq[s][0] # <<>>
    /\ LET d == Head(rq[s][0]) IN
         /\ rq' = [rq EXCEPT ![s][0] = Tail(@)]
         /\ recvd' = recvd \cup {[by |-> s, id |-> d.id, from |-> d.hdr, n |-> d.len]}
    /\ BindAny(s)
    /\ UNCHANGED <<peer, sfd, sys, g, dest, plen, sends, sent>>

\* RecvFrom: bindAny; RecvmsgBuffers on fd0 into [s.addrBuf, iovs...]
\* (blocking until a datagram is queued); the source address is
\* decodeSockaddr(s.addrBuf) and n -= addrBufSize.
RecvFrom(s) ==
    /\ Usable(s)
    /\ rq[s][0] # <<>>
    /\ LET d == Head(rq[s][0]) IN
         /\ rq' = [rq EXCEPT ![s][0] = Tail(@)]
         /\ recvd' = recvd \cup {[by |-> s, id |-> d.id, from |-> d.hdr,
                                  n |-> d.len - AddrBufSize]}
    /\ BindAny(s)
    /\ UNCHANGED <<peer, sfd, sys, g, dest, plen, sends, sent>>

\* Mutant: both ends are closed at once, whoever holds them.
CloseNow(s) ==
    /\ g[s] = "idle"
    /\ registered' = registered \ {s}
    /\ sfd' = [sfd EXCEPT ![s] = [e \in Ends |-> [@[e] EXCEPT !.attached = FALSE]]]
    /\ sys' = [sys EXCEPT ![s] = [e \in Ends |-> FALSE]]
    /\ g' = [g EXCEPT ![s] = "closed"]
    /\ UNCHANGED <<bits, peer, rq, dest, plen, sends, sent, recvd>>

\* Close: unlink the bound address, then s.fd0.close() and s.fd1.close();
\* an end is closed now unless a sender holds it.
Close(s) ==
    /\ g[s] = "idle"
    /\ registered' = registered \ {s}
    /\ sfd' = [sfd EXCEPT ![s] = [e \in Ends |-> [@[e] EXCEPT !.attached = FALSE]]]
    /\ sys' = [sys EXCEPT ![s] = [e \in Ends |-> @[e] /\ sfd[s][e].ref > 0]]
    /\ g' = [g EXCEPT ![s] = "closed"]
    /\ UNCHANGED <<bits, peer, rq, dest, plen, sends, sent, recvd>>

Next ==
    \E s \in Socks :
        \/ Bind(s)
        \/ \E t \in Socks : Connect(s, t)
        \/ \E t \in Socks, len \in Lens : SendToAddr(s, t, len)
        \/ SendToAcquire(s)
        \/ SendToSend(s)
        \/ \E len \in Lens : SendToConnected(s, len)
        \/ RecvFrom(s)
        \/ Close(s)

Spec == Init /\ [][Next]_vars

-----------------------------------------------------------------------------
TypeOK ==
    /\ bits \in [Socks -> SUBSET {"bound", "connected"}]
    /\ peer \in [Socks -> Socks \cup {Nil}]
    /\ registered \subseteq Socks
    /\ sfd \in [Socks -> [Ends -> [ref : Nat, attached : BOOLEAN]]]
    /\ sys \in [Socks -> [Ends -> BOOLEAN]]
    /\ rq \in [Socks -> [Ends -> Seq(Dgram)]]
    /\ g \in [Socks -> {"idle", "lookedup", "sending", "closed"}]
    /\ dest \in [Socks -> Socks \cup {Nil}]
    /\ plen \in [Socks -> Lens \cup {0}]
    /\ sends \in [Socks -> 0..MaxSends]

\* The datagram of a SendTo is queued at, or was read from, the fd0 of the
\* addressee.
Delivered(x) ==
    \/ x.id \in { d.id : d \in Range(rq[x.to][0]) }
    \/ \E r \in recvd : r.id = x.id /\ r.by = x.to

\* A SendTo to an address that reports success returned the payload
\* length and delivered the datagram to the addressee's fd0, where it
\* stays until RecvFrom reads it or the addressee closes the socket.  The
\* header that SendTo prepends and RecvFrom strips must not show in either
\* count, and the addressee may close between the lookup, the acquire of
\* its fd1 and the Sendmsg.
AddressedSendDelivered ==
    \A x \in sent :
        x.via = "addr" /\ x.ok =>
            /\ x.n = x.len
            /\ Delivered(x) \/ ~sys[x.to][0]

\* RecvFrom reports the datagram with the address of the socket that sent
\* it (the header encodeSockaddrAny(s.name) wrote) and with the length
\* of the payload that socket's SendTo passed.
ReceivedFromSender ==
    \A r \in recvd :
        /\ r.from = r.id[1]
        /\ \E x \in sent : x.id = r.id /\ x.len = r.n

\* The end of a socketpair a SendTo holds stays open until its Sendmsg:
\* Close of the addressee detaches its fd1 but leaves the close(2) to the
\* sender's release.
HeldPeerFdOpen ==
    \A s \in Socks : g[s] = "sending" => sys[dest[s]][1]

\* A datagram a connected socket sends with SendTo(iovs, nil), as send(2)
\* and the Write of a connected UDP conn do, reaches the peer Connect
\* stored, and SendTo returns the payload length.
ConnectedSendDelivered ==
    \A x \in sent :
        x.via = "peer" /\ x.ok =>
            /\ x.n = x.len
            /\ Delivered(x) \/ ~sys[x.to][0]
====
