--------------------------- MODULE ExchangeReader ---------------------------
(***************************************************************************)
(* ExchangeReader of internal/debug/tracing/exchange.go: it reads network  *)
(* messages from a stream in batches (r.messages, 1000 in the code,        *)
(* BatchSize here), pairs the first and the second message of an id into   *)
(* an exchange (a request and its response), sorts the batch's exchanges   *)
(* by end time and hands them to the caller's buffer of BufSize entries.   *)
(* When the stream ends, requests still in flight become exchanges whose   *)
(* response carries io.ErrUnexpectedEOF.                                   *)
(*                                                                         *)
(* The stream is the environment: a sequence of messages with              *)
(* non-decreasing times chosen in Init.  A message is identified by its    *)
(* index in the stream; an exchange by the indices of its request and      *)
(* response (0 for an interrupted one) and the key sortExchanges uses.    *)
(* One Read call is one action; its loop is the recursive ReadLoop.        *)
(***************************************************************************)
EXTENDS Integers, Sequences, SequencesExt, FiniteSets

CONSTANTS
    Ids,        \* message ids (m.id)
    Times,      \* message timestamps, an interval of naturals
    Spans,      \* message spans
    MaxMsgs,    \* longest stream
    BatchSize,  \* len(r.messages)
    BufSize     \* len(exchanges) of the caller

ASSUME BatchSize >= 1 /\ BufSize >= 1

NoMsg == 0      \* not a stream index: an empty r.inflight entry / no response

Msg == [id : Ids, time : Times, span : Spans]

\* Streams recorded in time order.
Streams ==
    { s \in UNION { [1..n -> Msg] : n \in 0..MaxMsgs } :
        \A i \in 1..Len(s) - 1 : s[i].time <= s[i + 1].time }

Exchange == [req : Nat, res : Nat, key : Int]

VARIABLES
    input,      \* the messages of r.Messages
    pos,        \* messages ReadFull has consumed
    inflight,   \* r.inflight: id -> index of the pending request, or NoMsg
    exch,       \* r.exchanges
    offset,     \* r.offset
    out,        \* every exchange Read has returned, in order
    eof         \* Read has returned io.EOF

vars == <<input, pos, inflight, exch, offset, out, eof>>

\* The state ExchangeReader.Read works on.
Reader == [pos : Nat, inflight : [Ids -> Nat], exch : Seq(Exchange), offset : Nat]

Init ==
    /\ input \in Streams
    /\ pos = 0
    /\ inflight = [i \in Ids |-> NoMsg]
    /\ exch = <<>>
    /\ offset = 0
    /\ out = <<>>
    /\ eof = FALSE

\* stream.ReadFull(r.Messages, r.messages): up to BatchSize more messages.
ReadFull(st) == (st.pos + 1) .. Min({st.pos + BatchSize, Len(input)})

\* sortExchanges: slices.SortFunc by Req.Time + Res.Time + Res.Span.  The
\* sort is not stable, so exchanges of equal key may come in either order.
SortExchanges(s) ==
    { t \in { [i \in 1..Len(s) |-> s[f[i]]] :
                f \in { g \in [1..Len(s) -> 1..Len(s)] : IsInjective(g) } } :
        IsSorted(t, LAMBDA a, b : a.key <= b.key) }

\* Mutant: the completed request is not deleted from r.inflight.
PairMessageNoDelete(st, i) ==
    LET m == input[i]
        req == st.inflight[m.id]
    IN IF req = NoMsg
       THEN [st EXCEPT !.inflight[m.id] = i]
       ELSE [st EXCEPT !.exch = Append(@, [req |-> req, res |-> i, key |-> m.time + m.span])]

\* One message of the batch: a new id is put in flight; a second message of
\* the same id deletes the entry and completes the exchange.  Res.Time is
\* m.Time - req.Time, so the key is m.Time + m.Span.
PairMessage(st, i) ==
    LET m == input[i]
        req == st.inflight[m.id]
    IN IF req = NoMsg
       THEN [st EXCEPT !.inflight[m.id] = i]
       ELSE [st EXCEPT !.inflight[m.id] = NoMsg,
                       !.exch = Append(@, [req |-> req, res |-> i, key |-> m.time + m.span])]

\* The requests left in r.inflight, as exchanges with io.ErrUnexpectedEOF:
\* Res.Time and Res.Span are zero, so the key is req.Time.
Interrupted(st) ==
    SetToSeq({ [req |-> st.inflight[d], res |-> NoMsg, key |-> input[st.inflight[d]].time] :
                 d \in { d \in Ids : st.inflight[d] # NoMsg } })

\* Mutant: r.exchanges is not truncated when the caller has read them all.
CopyOutKeepsExchanges(st) ==
    LET off == st.offset + Min({BufSize, Len(st.exch) - st.offset})
    IN [st |-> IF off = Len(st.exch) THEN [st EXCEPT !.offset = 0]
                                     ELSE [st EXCEPT !.offset = off],
        items |-> SubSeq(st.exch, st.offset + 1, off), err |-> "nil"]

\* n = copy(exchanges, r.exchanges[r.offset:]); r.offset += n, and both are
\* reset once the caller has read every buffered exchange; return n, nil.
CopyOut(st) ==
    LET off == st.offset + Min({BufSize, Len(st.exch) - st.offset})
    IN [st |-> IF off = Len(st.exch) THEN [st EXCEPT !.offset = 0, !.exch = <<>>]
                                     ELSE [st EXCEPT !.offset = off],
        items |-> SubSeq(st.exch, st.offset + 1, off), err |-> "nil"]

\* The loop of Read, as the set of its possible results [st, items, err].
RECURSIVE ReadLoop(_)
ReadLoop(st) ==
    IF st.offset < Len(st.exch) THEN { CopyOut(st) }
    ELSE IF ReadFull(st) = {}
    THEN IF \E d \in Ids : st.inflight[d] # NoMsg
         THEN UNION { ReadLoop([st EXCEPT !.exch = s,
                                          !.inflight = [d \in Ids |-> NoMsg]]) :
                        s \in SortExchanges(st.exch \o Interrupted(st)) }
         ELSE { [st |-> st, items |-> <<>>, err |-> "EOF"] }
    ELSE LET st2 == FoldLeft(PairMessage,
                             [st EXCEPT !.pos = Max(ReadFull(st))],
                             SetToSortSeq(ReadFull(st), <))
         IN UNION { ReadLoop([st2 EXCEPT !.exch = s]) : s \in SortExchanges(st2.exch) }

\* The caller reads into a buffer of BufSize exchanges until io.EOF.
Read ==
    /\ ~eof
    /\ \E r \in ReadLoop([pos |-> pos, inflight |-> inflight, exch |-> exch, offset |-> offset]) :
         /\ pos' = r.st.pos
         /\ inflight' = r.st.inflight
         /\ exch' = r.st.exch
         /\ offset' = r.st.offset
         /\ out' = out \o r.items
         /\ eof' = (r.err = "EOF")
    /\ UNCHANGED input

Next == Read

Spec == Init /\ [][Next]_vars

-----------------------------------------------------------------------------
TypeOK ==
    /\ input \in Seq(Msg) /\ Len(input) <= MaxMsgs
    /\ pos \in 0..Len(input)
    /\ inflight \in [Ids -> 0..Len(input)]
    /\ exch \in Seq(Exchange)
    /\ offset \in 0..Len(exch)
    /\ out \in Seq(Exchange)
    /\ eof \in BOOLEAN

\* Reference pairing: the k-th message of an id, k odd, is a request; its
\* response is the next message of the same id, if there is one.
Occurrence(i) == Cardinality({ j \in 1..i : input[j].id = input[i].id })
NextSame(i) == { j \in (i + 1)..Len(input) : input[j].id = input[i].id }
RefPairs ==
    { <<i, IF NextSame(i) = {} THEN NoMsg ELSE Min(NextSame(i))>> :
        i \in { i \in 1..Len(input) : Occurrence(i) % 2 = 1 } }

\* Where message i went: the exchanges of out that hold it.
Holders(i) == { k \in 1..Len(out) : out[k].req = i \/ out[k].res = i }

\* No message is lost or returned twice, across batches, the caller's
\* partial reads (r.offset) and the interrupted exchanges flushed at the
\* end: every message is in at most one returned exchange, and once Read
\* returned io.EOF every message is in exactly one.
EveryMessageOnce ==
    \A i \in 1..Len(input) :
        /\ Cardinality(Holders(i)) <= 1
        /\ eof => Cardinality(Holders(i)) = 1

\* Each exchange Read returns pairs a request with the next message of its
\* id (or no response if the stream ended first), however the stream was
\* split into batches of r.messages.
PairsAsReference ==
    eof => { <<e.req, e.res>> : e \in Range(out) } = RefPairs

\* The spec (spec.md, trace exchanges): a completed pair is emitted in
\* timestamp order.  Completed exchanges are returned in order of end time.
CompletedInTimeOrder ==
    LET done == SelectSeq(out, LAMBDA e : e.res # NoMsg)
    IN IsSorted(done, LAMBDA a, b : a.key <= b.key)
=============================================================================
