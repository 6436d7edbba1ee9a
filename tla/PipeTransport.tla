---------------------------- MODULE PipeTransport ----------------------------
(***************************************************************************)
(* The receiving side of a stream transport: axprt_pipe of                 *)
(* arpc/axprt_pipe.C with xhinfo of arpc/xhinfo.C as its receiver.         *)
(*                                                                         *)
(* Lengths are in units of four bytes: a packet of length n is a header    *)
(* and n units.  read () returns any number of units.  callgetpkt ()       *)
(* hands the complete packets of pktbuf to the receiver, whose callback    *)
(* may turn receiving off and on, or send, which may fail and close the    *)
(* descriptors; then fail () leaves it to callgetpkt () to report the EOF. *)
(***************************************************************************)
EXTENDS Lists

CONSTANTS
    Streams,    \* what the peer may send: packets, with their lengths (0 is
                \* a break) and what they are to the RPC layer above
    PktSize,    \* pktsize
    BufSize     \* bufsize

ASSUME PipeAssumption ==
    Streams \subseteq Seq([len : Nat, kind : STRING]) /\ PktSize \in Nat /\ BufSize \in Nat \ {0}

Off == "off"
On  == "on"

VARIABLES
    wire,       \* units sent by the peer and not yet read
    buf,        \* the first pktlen units of pktbuf
    cp,         \* units of buf consumed by the callgetpkt () under way
    open,       \* fdread >= 0
    cb,         \* the callback is set
    ingetpkt,   \* ingetpkt
    pc,         \* in the loop, in callgetpkt (), in the callback of a packet,
                \* or the assertion that failed
    delivered,  \* packets given to the receiver
    eofs,       \* EOFs given to the receiver
    stream      \* the stream the peer sends

vars == <<wire, buf, cp, open, cb, ingetpkt, pc, delivered, eofs, stream>>

\* The units of the stream: for each packet p its header <<p, 0>>, then its
\* data <<p, 1>>, <<p, 2>>...  The i-th one has i units up to it.
Units == UNION {{p} \X (0..stream[p].len) : p \in 1..Len(stream)}
UpTo(u) == {v \in Units : v[1] < u[1] \/ (v[1] = u[1] /\ v[2] <= u[2])}
AllUnits == [i \in 1..Cardinality(Units) |-> CHOOSE u \in Units : Cardinality(UpTo(u)) = i]

InCallback == pc \in {"loop", "cb"}
MinLen(n, k) == IF n < k THEN n ELSE k

-----------------------------------------------------------------------------
\* Mutant: seteof () does not take the callback away.
TellEofKeepsCb == /\ cb' = cb /\ eofs' = eofs + 1

\* xhinfo::dispatch () with a length of -1 or less than 8 bytes: seteof (),
\* which takes the callback away.
TellEof == /\ cb' = Off /\ eofs' = eofs + 1

\* axprt_pipe::fail ().
Fail ==
    /\ open' = FALSE
    /\ IF cb = On /\ ~ingetpkt THEN TellEof ELSE UNCHANGED <<cb, eofs>>

\* Mutant: callgetpkt () may be entered again.
CallgetpktReenters ==
    ingetpkt' = TRUE /\ cp' = 0 /\ pc' = "getpkt"

\* axprt_pipe::callgetpkt () up to its loop.
Callgetpkt ==
    IF ingetpkt THEN UNCHANGED <<ingetpkt, cp, pc>>
    ELSE ingetpkt' = TRUE /\ cp' = 0 /\ pc' = "getpkt"

\* axprt_pipe::input (), n units are read.
Input(n) ==
    /\ pc = "loop" /\ open /\ cb = On
    /\ n > 0
    /\ buf' = buf \o SubSeq(wire, 1, n)
    /\ wire' = SubSeq(wire, n + 1, Len(wire))
    /\ Callgetpkt
    /\ UNCHANGED <<open, cb, delivered, eofs, stream>>

\* axprt_pipe::input (), read () returns 0 or an error: the peer has closed,
\* perhaps in the middle of a packet, the connection was reset, or there is no
\* room in the buffer.
InputEof ==
    /\ pc = "loop" /\ open /\ cb = On
    /\ Fail
    /\ UNCHANGED <<wire, buf, cp, ingetpkt, pc, delivered, stream>>

\* The packet whose header is next in the buffer, and its length.
HasHeader == cb = On /\ Len(buf) > cp
ThisPkt == buf[cp + 1][1]
ThisLen == stream[ThisPkt].len

\* axprt_pipe::checklen ().
Oversized == ThisLen > PktSize

HasPkt == HasHeader /\ ~Oversized /\ Len(buf) - cp - 1 >= ThisLen

\* axprt_pipe::getpkt () and xhinfo::dispatch () of a packet of at least 8
\* bytes.
GetpktData ==
    /\ pc = "getpkt"
    /\ HasPkt /\ ThisLen >= 2
    /\ cp' = cp + 1 + ThisLen
    /\ delivered' = Append(delivered, ThisPkt)
    /\ pc' = "cb"
    /\ UNCHANGED <<wire, buf, open, cb, ingetpkt, eofs, stream>>

\* A packet that is too short for an RPC.
GetpktShort ==
    /\ pc = "getpkt"
    /\ HasPkt /\ ThisLen = 1
    /\ cp' = cp + 1 + ThisLen
    /\ TellEof
    /\ UNCHANGED <<wire, buf, open, ingetpkt, pc, delivered, stream>>

\* recvbreak ().
GetpktBreak ==
    /\ pc = "getpkt"
    /\ HasPkt /\ ThisLen = 0
    /\ cp' = cp + 1
    /\ Fail
    /\ UNCHANGED <<wire, buf, ingetpkt, pc, delivered, stream>>

CallbackReturn ==
    /\ pc = "cb"
    /\ pc' = "getpkt"
    /\ UNCHANGED <<wire, buf, cp, open, cb, ingetpkt, delivered, eofs, stream>>

\* memmove () of what is left to the front of pktbuf.
Rest == SubSeq(buf, cp + 1, Len(buf))

\* Mutant: a failure in a callback of callgetpkt () is not reported.
DeferredEofSilent == UNCHANGED <<cb, eofs>>

\* callgetpkt () at EOF: the report that fail () left to it.
DeferredEof == IF cb = On THEN TellEof ELSE UNCHANGED <<cb, eofs>>

\* The end of callgetpkt (): there is no packet any more, or it is too large
\* (checklen () calls fail ()).  The EOF is reported if the transport failed.
GetpktDone ==
    /\ pc = "getpkt"
    /\ ~HasPkt
    /\ open' = (open /\ ~(HasHeader /\ Oversized))
    /\ IF open'
         THEN /\ buf' = Rest
              /\ pc' = IF Len(Rest) < PktSize THEN "loop" ELSE "pktlen_failed"
              /\ UNCHANGED <<cb, eofs>>
         ELSE /\ DeferredEof
              /\ pc' = "loop" /\ UNCHANGED buf
    /\ cp' = 0 /\ ingetpkt' = FALSE
    /\ UNCHANGED <<wire, delivered, stream>>

-----------------------------------------------------------------------------
\* xhinfo::xon (x, false): setrcb (NULL).
XonFalse ==
    /\ InCallback
    /\ cb = On /\ open
    /\ cb' = Off
    /\ UNCHANGED <<wire, buf, cp, open, ingetpkt, pc, delivered, eofs, stream>>

\* Mutant: the packets in the buffer wait for more input.
SetrcbNoCallgetpkt == UNCHANGED <<cp, ingetpkt, pc>>

\* axprt_pipe::setrcb () looks for packets in the buffer.
Setrcb == IF buf # <<>> THEN Callgetpkt ELSE UNCHANGED <<cp, ingetpkt, pc>>

\* xhinfo::xon (x, true) and axprt_pipe::setrcb ().  A receiver that was told
\* of an EOF does not turn receiving on again; turning on what is on changes
\* nothing.
XonTrue ==
    /\ InCallback
    /\ cb = Off /\ open /\ eofs = 0
    /\ cb' = On
    /\ Setrcb
    /\ UNCHANGED <<wire, buf, open, delivered, eofs, stream>>

\* xhinfo::xon () after a failure nobody was told of yet: lookup () returns
\* NULL and the assertion on it fails.
XonEof ==
    /\ InCallback
    /\ ~open /\ eofs = 0
    /\ pc' = "xon_failed"
    /\ UNCHANGED <<wire, buf, cp, open, cb, ingetpkt, delivered, eofs, stream>>

\* A message is sent, or queued output is written, and write () fails.
SendFails ==
    /\ InCallback
    /\ open
    /\ Fail
    /\ UNCHANGED <<wire, buf, cp, ingetpkt, pc, delivered, stream>>

-----------------------------------------------------------------------------
Init ==
    /\ stream \in Streams
    /\ wire = AllUnits /\ buf = <<>> /\ cp = 0
    /\ open = TRUE /\ cb = On /\ ingetpkt = FALSE /\ pc = "loop"
    /\ delivered = <<>> /\ eofs = 0

ReceiveStep ==
    \/ \E n \in 1..MinLen(Len(wire), BufSize - Len(buf)) : Input(n)
    \/ InputEof \/ GetpktData \/ GetpktShort \/ GetpktBreak \/ CallbackReturn
    \/ GetpktDone

XonStep == XonFalse \/ XonTrue \/ XonEof

Next == ReceiveStep \/ XonStep \/ SendFails

Spec == Init /\ [][Next]_vars

\* The event loop runs; the receiver and the writes do as they like.
FairSpec == Spec /\ WF_vars(ReceiveStep)

-----------------------------------------------------------------------------
\* The packets of the stream that are neither breaks nor too short.
Packets == Keep([p \in 1..Len(stream) |-> p], {p \in 1..Len(stream) : stream[p].len >= 2})

\* Packets are delivered in order, each once, none left out, although the
\* callback turns receiving off and on while packets wait in the buffer.
InOrder == IsPrefix(delivered, Packets)

\* The EOF is reported once, and nothing is delivered after it.
EofLast ==
    [][eofs' <= 1 /\ (eofs = 1 => delivered' = delivered)]_vars

\* Outside callgetpkt () no complete packet waits in the buffer of a receiver
\* that is on: it would not be seen before the next input, which may never
\* come.
NothingWaits ==
    pc = "loop" /\ cb = On /\ open => ~HasPkt

=============================================================================
