---------------------------- MODULE ResumableRpc ----------------------------
(***************************************************************************)
(* RPC that survives its connections: aclnt_resumable of arpc/aclnt.C,     *)
(* asrv_resumable of arpc/asrv.C, and the protocol by which rexsession of  *)
(* sfsmisc/rexchan.C resumes a session.  The client keeps every call until *)
(* it is answered and sends the outstanding ones again on a new            *)
(* connection; the server keeps replies until it knows them received.      *)
(*                                                                         *)
(* A connection is two FIFO queues of messages.  When it breaks, what is   *)
(* sent is lost, what arrived may still be read, and each side notices by  *)
(* itself.  Message sizes are one: raw_bytes_sent counts the messages that *)
(* were given to the transport, those still queued in the process, in the  *)
(* kernel and on the way included.                                         *)
(***************************************************************************)
EXTENDS Lists

CONSTANTS
    Calls,      \* calls of the client, one xid each
    SndBuf,     \* sndbufsize (); 0 if it is not known (-1 in the code)
    EarlyCalls, \* the user makes calls between pre_resume and post_resume
    MaxConns,   \* bound: connections
    MaxPings    \* bound: calls that the server makes to the client

ASSUME ResumeAssumption ==
    /\ IsFiniteSet(Calls) /\ Calls \cap {"resume", "resumed", "ping", "pong"} = {}
    /\ SndBuf \in Nat /\ EarlyCalls \in BOOLEAN
    /\ MaxConns \in Nat \ {0} /\ MaxPings \in Nat

VARIABLES
    st,         \* each call: "new", "out" or "done"
    calls,      \* aclnt::calls, the outstanding calls in order
    clink,      \* the client: on a resumed connection ("on"), on a new one
                \* before post_resume ("pre"), on a broken one ("lost"), or
                \* aware that it is broken ("eof")
    c2s, s2c,   \* the connection of the client
    slink,      \* the server: "on", "lost" or "eof"
    oldc2s,     \* what the server may still read of a broken connection
    working,    \* rtab entries without a reply
    rq,         \* cached replies, with their offset
    sent,       \* raw_bytes_sent of the server's transport
    acked,      \* max_acked_offset
    pingoff,    \* offset of the call of the server to the client, or 0
    conns, pings,  \* counters for the bounds
    executed    \* how often each call was executed

clientvars == <<st, calls, clink>>
servervars == <<slink, working, rq, sent, acked, pingoff>>
vars == <<clientvars, c2s, s2c, oldc2s, servervars, conns, pings, executed>>

-----------------------------------------------------------------------------
\* The client.

\* rpccb_msgbuf::xmit (): nothing is sent at EOF; on a broken connection it
\* is sent in vain.
Xmit(s) == c2s' = IF clink \in {"on", "pre"} THEN c2s \o s ELSE c2s

\* aclnt::call () of an aclnt_resumable, which keeps every call.
Call(c) ==
    /\ st[c] = "new"
    /\ clink = "pre" => EarlyCalls
    /\ st' = [st EXCEPT ![c] = "out"]
    /\ calls' = Append(calls, c)
    /\ Xmit(<<c>>)
    /\ UNCHANGED <<clink, s2c, oldc2s, servervars, conns, pings, executed>>

\* aclnt::dispatch (): the reply to an outstanding call ends it, any other
\* is dropped.
RecvReply(c) ==
    /\ s2c # <<>> /\ Head(s2c) = c
    /\ s2c' = Tail(s2c)
    /\ st' = [st EXCEPT ![c] = IF @ = "out" THEN "done" ELSE @]
    /\ calls' = Without(calls, c)
    /\ UNCHANGED <<clink, c2s, oldc2s, servervars, conns, pings, executed>>

\* What aclnt_resumable::post_resume () sends again.
Replay == calls

\* rexsession::resumed (): the server has resumed; post_resume ().
RecvResumed ==
    /\ clink = "pre"
    /\ s2c # <<>> /\ Head(s2c) = "resumed"
    /\ s2c' = Tail(s2c)
    /\ clink' = "on"
    /\ Xmit(Replay)
    /\ UNCHANGED <<st, calls, oldc2s, servervars, conns, pings, executed>>

\* A call from the server is answered.
RecvPing ==
    /\ s2c # <<>> /\ Head(s2c) = "ping"
    /\ s2c' = Tail(s2c)
    /\ Xmit(<<"pong">>)
    /\ UNCHANGED <<clientvars, oldc2s, servervars, conns, pings, executed>>

\* aclnt::seteof () and aclnt_resumable::fail (): suspend (), and failcb
\* keeps the calls.
ClientEof ==
    /\ clink = "lost"
    /\ clink' = "eof"
    /\ s2c' = <<>>
    /\ UNCHANGED <<st, calls, c2s, oldc2s, servervars, conns, pings, executed>>

\* rexsession::resume () with a new transport: pre_resume (), then the call
\* REX_RESUME by a client of its own.
Resume ==
    /\ clink = "eof"
    /\ conns < MaxConns
    /\ conns' = conns + 1
    /\ clink' = "pre"
    /\ c2s' = <<"resume">> /\ s2c' = <<>>
    /\ UNCHANGED <<st, calls, oldc2s, servervars, pings, executed>>

-----------------------------------------------------------------------------
\* The connection breaks.  The server may still read what had arrived.
Break ==
    /\ clink \in {"on", "pre"}
    /\ conns < MaxConns
    /\ clink' = "lost"
    /\ slink' = IF slink = "on" THEN "lost" ELSE slink
    /\ oldc2s' = IF slink = "on" THEN c2s ELSE oldc2s
    /\ c2s' = <<>>
    /\ UNCHANGED <<st, calls, s2c, working, rq, sent, acked, pingoff, conns,
                   pings, executed>>

ServerEof ==
    /\ slink = "lost"
    /\ slink' = "eof"
    /\ oldc2s' = <<>>
    /\ UNCHANGED <<clientvars, c2s, s2c, working, rq, sent, acked, pingoff,
                   conns, pings, executed>>

-----------------------------------------------------------------------------
\* The server.

\* axprt::send () of the server.
Send(m) ==
    /\ sent' = sent + 1
    /\ s2c' = IF slink = "on" THEN Append(s2c, m) ELSE s2c

InRq(c) == \E k \in DOMAIN rq : rq[k].call = c

\* A message from the connection that the server reads.
Receive(m) ==
    \/ /\ slink = "on" /\ c2s # <<>> /\ Head(c2s) = m
       /\ c2s' = Tail(c2s) /\ UNCHANGED oldc2s
    \/ /\ slink = "lost" /\ oldc2s # <<>> /\ Head(oldc2s) = m
       /\ oldc2s' = Tail(oldc2s) /\ UNCHANGED c2s

\* The entries that stay when the leading ones with an offset of old are
\* evicted.
EvictWhile(old, q) ==
    LET stay == {k \in DOMAIN q : q[k].off \notin old}
    IN  IF stay = {} THEN <<>>
        ELSE SubSeq(q, CHOOSE k \in stay : \A j \in stay : k <= j, Len(q))

\* A cached reply that was sent again has the offset of the new message.
Moved(c) ==
    Append(Keep(rq, {e \in ToSet(rq) : e.call # c}), [call |-> c, off |-> sent + 1])

\* asrv_resumable::isreplay (): the call has a cached reply.
RecvReplay(c) ==
    /\ Receive(c)
    /\ InRq(c)
    /\ Send(c)
    /\ rq' = Moved(c)
    /\ UNCHANGED <<clientvars, slink, working, acked, pingoff, conns, pings,
                   executed>>

\* The call is in rtab and waits for its reply: nothing is done.
RecvInProgress(c) ==
    /\ Receive(c)
    /\ c \in working
    /\ UNCHANGED <<clientvars, s2c, servervars, conns, pings, executed>>

\* Mutant: a call in progress is served again.
RecvNewAgain(c) ==
    /\ Receive(c)
    /\ ~InRq(c)
    /\ rq' = EvictWhile({0}, rq)
    /\ working' = working \cup {c}
    /\ executed' = [executed EXCEPT ![c] = @ + 1]
    /\ UNCHANGED <<clientvars, s2c, slink, sent, acked, pingoff, conns, pings>>

\* A call that is no replay: the replies left over from the last connection
\* are evicted, and the call is served.
RecvNew(c) ==
    /\ Receive(c)
    /\ ~InRq(c) /\ c \notin working
    /\ rq' = EvictWhile({0}, rq)
    /\ working' = working \cup {c}
    /\ executed' = [executed EXCEPT ![c] = @ + 1]
    /\ UNCHANGED <<clientvars, s2c, slink, sent, acked, pingoff, conns, pings>>

\* The reply to a call of the server: everything sent before it was received.
RecvPong ==
    /\ Receive("pong")
    /\ acked' = IF pingoff > acked THEN pingoff ELSE acked
    /\ pingoff' = 0
    /\ UNCHANGED <<clientvars, s2c, slink, working, rq, sent, conns, pings,
                   executed>>

\* Mutant: the offset of the last message of the server is taken as acked.
KnownReceivedAll(n) == n

\* asrv_resumable::sendreply (): what is taken as received by the client
\* after n messages were sent.
KnownReceived(n) ==
    LET bysize == IF SndBuf > 0 /\ n > SndBuf THEN n - SndBuf ELSE 0
    IN  IF acked > bysize THEN acked ELSE bysize

\* svccb::reply () and asrv_resumable::sendreply ().
Reply(c) ==
    /\ c \in working
    /\ working' = working \ {c}
    /\ IF slink = "eof" THEN UNCHANGED <<sent, s2c>> ELSE Send(c)
    /\ rq' = EvictWhile(1..(KnownReceived(sent') - 1),
                        Append(rq, [call |-> c, off |-> sent']))
    /\ UNCHANGED <<clientvars, c2s, slink, oldc2s, acked, pingoff, conns,
                   pings, executed>>

\* A call of the server to the client over the same transport.
Ping ==
    /\ slink = "on"
    /\ pingoff = 0
    /\ pings < MaxPings
    /\ pings' = pings + 1
    /\ Send("ping")
    /\ pingoff' = sent'
    /\ UNCHANGED <<clientvars, c2s, slink, oldc2s, working, rq, acked, conns,
                   executed>>

\* The loop over rtab in asrv_resumable::resume ().
RqOnResume == [k \in DOMAIN rq |-> [rq[k] EXCEPT !.off = 0]]

\* Mutant: REX_RESUME is not answered.
ServerResumeSilent ==
    /\ clink = "pre"
    /\ c2s # <<>> /\ Head(c2s) = "resume"
    /\ c2s' = Tail(c2s)
    /\ slink' = "on"
    /\ oldc2s' = <<>>
    /\ rq' = RqOnResume
    /\ sent' = 0 /\ acked' = 0 /\ pingoff' = 0
    /\ UNCHANGED <<clientvars, s2c, working, conns, pings, executed>>

\* REX_RESUME: asrv_resumable::resume () on the new transport, then the
\* answer.
ServerResume ==
    /\ clink = "pre"
    /\ c2s # <<>> /\ Head(c2s) = "resume"
    /\ c2s' = Tail(c2s)
    /\ slink' = "on"
    /\ oldc2s' = <<>>
    /\ rq' = RqOnResume
    /\ sent' = 1 /\ s2c' = Append(s2c, "resumed")
    /\ acked' = 0 /\ pingoff' = 0
    /\ UNCHANGED <<clientvars, working, conns, pings, executed>>

-----------------------------------------------------------------------------
Init ==
    /\ st = [c \in Calls |-> "new"] /\ calls = <<>> /\ clink = "on"
    /\ c2s = <<>> /\ s2c = <<>> /\ oldc2s = <<>>
    /\ slink = "on" /\ working = {} /\ rq = <<>>
    /\ sent = 0 /\ acked = 0 /\ pingoff = 0
    /\ conns = 1 /\ pings = 0
    /\ executed = [c \in Calls |-> 0]

ServerStep ==
    \/ RecvPong \/ ServerResume \/ ServerEof
    \/ \E c \in Calls : RecvReplay(c) \/ RecvInProgress(c) \/ RecvNew(c) \/ Reply(c)

ClientStep ==
    \/ RecvResumed \/ RecvPing \/ ClientEof \/ Resume
    \/ \E c \in Calls : RecvReply(c)

Next ==
    \/ ServerStep \/ ClientStep \/ Ping \/ Break
    \/ \E c \in Calls : Call(c)

Spec == Init /\ [][Next]_vars

\* Both sides go on, replies are given and the user reconnects.
FairSpec == Spec /\ WF_vars(ServerStep) /\ WF_vars(ClientStep)
                 /\ \A c \in Calls : WF_vars(Reply(c))

-----------------------------------------------------------------------------
\* Every variable keeps its type.
TypeOK ==
    /\ st \in [Calls -> {"new", "out", "done"}] /\ calls \in Seq(Calls)
    /\ clink \in {"on", "pre", "lost", "eof"} /\ slink \in {"on", "lost", "eof"}
    /\ c2s \in Seq(Calls \cup {"resume", "pong"}) /\ oldc2s \in Seq(Calls \cup {"pong"})
    /\ s2c \in Seq(Calls \cup {"resumed", "ping"})
    /\ working \subseteq Calls /\ rq \in Seq([call : Calls, off : Nat])
    /\ sent \in Nat /\ acked \in 0..sent /\ pingoff \in 0..sent
    /\ conns \in 1..MaxConns /\ pings \in 0..MaxPings
    /\ executed \in [Calls -> Nat]

\* A reply is evicted only when the client has it: a call that was executed
\* and is outstanding is in rtab, in progress or with its reply.
NoReplyLost ==
    \A c \in Calls :
        st[c] = "out" /\ executed[c] > 0 => c \in working \/ InRq(c)

\* What the user of the session sees of a call; "broken" is no phase of
\* AtMostOnceRpc.
Phase(c) ==
    CASE st[c] = "new" /\ executed[c] = 0 -> "new"
      [] st[c] = "out" /\ executed[c] = 0 -> "out"
      [] st[c] = "out" /\ executed[c] = 1 -> "executed"
      [] st[c] = "done" /\ executed[c] = 1 -> "done"
      [] OTHER -> "broken"

Service == INSTANCE AtMostOnceRpc WITH phase <- [c \in Calls |-> Phase(c)]

\* The session implements at-most-once RPC: whatever happens to connections,
\* buffers and messages, each call goes through the phases of AtMostOnceRpc
\* in order, so it is executed once and answered after that.
ImplementsAtMostOnce == Service!Spec

\* Every call is answered once connections stop breaking.
CallsAnswered == \A c \in Calls : st[c] = "out" ~> st[c] = "done"
=============================================================================
