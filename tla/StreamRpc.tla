----------------------------- MODULE StreamRpc -----------------------------
(***************************************************************************)
(* An RPC client (aclnt, arpc/aclnt.C) and an RPC server with delayed EOF  *)
(* (asrv_delayed_eof, arpc/asrv.C) on one stream transport: PipeTransport  *)
(* with what xhinfo::dispatch () does to the two.  When the transport      *)
(* fails, seteof () walks the outstanding calls and then tells the server; *)
(* the walk is nested in whatever was going on: the input of a packet, the *)
(* write of a call or of a reply, the event loop.  The callbacks it runs   *)
(* make calls, cancel calls and send replies.                              *)
(*                                                                         *)
(* Kinds of packets: "call", "reply" (to the call it names), "unavail" (a  *)
(* call that asrv::dispatch () itself answers with an error) and "garbled" *)
(* (a call whose header cannot be decoded).                                *)
(***************************************************************************)
EXTENDS PipeTransport

CONSTANT Calls      \* calls the client may make; also the kinds of replies

Nil == "nil"

ASSUME CallsAssumption == Calls \subseteq STRING /\ Nil \notin Calls

VARIABLES
    st,         \* each call: "new", "out", "done" or "cancelled"
    calls,      \* aclnt::calls
    walk,       \* seteof () under way: "none", "calls" or "server"
    rb,         \* the call aclnt::fail () takes next, or Nil
    wasopen,    \* the descriptors were open when the EOF was reported
    svc,        \* calls being served; _count is their number
    replying,   \* reply whose write failed and whose svccb is still counted, or 0
    srveof,     \* _eof
    eofcb,      \* _eofcb is set
    told,       \* how often _asrv_cb was called with NULL
    garbled     \* a header that cannot be decoded was received

clntVars == <<st, calls, walk, rb, wasopen>>
srvVars == <<svc, replying, srveof, eofcb, told, garbled>>
allVars == <<vars, clntVars, srvVars>>

\* The transport or a callback of the application has control.  Of the callbacks
\* in a walk these are the ones of a transport that has failed; those of a walk
\* begun for a packet that is too short (pc = "getpkt") only return.
NotNested == walk = "none" /\ replying = 0
InApp == InCallback /\ walk # "server"

\* Assertions that failed, panics, memory used after it was freed.
Stopped == pc \in {"pktlen_failed", "xon_failed", "sendv_panic", "dangling"}

First(s) == IF s = <<>> THEN Nil ELSE Head(s)
NextOf(c) ==
    LET k == CHOOSE k \in DOMAIN calls : calls[k] = c
    IN  IF k = Len(calls) THEN Nil ELSE calls[k + 1]

\* After a transport step that reports an EOF, seteof () begins.
Seteof(list) ==
    IF eofs' # eofs
    THEN walk' = "calls" /\ rb' = First(list) /\ wasopen' = open'
    ELSE UNCHANGED <<walk, rb, wasopen>>

-----------------------------------------------------------------------------
\* The transport reads, turns receiving on and off, or fails to write what
\* is queued (axprt_pipe::output ()).
Transport ==
    /\ NotNested
    /\ \/ \E n \in 1..MinLen(Len(wire), BufSize - Len(buf)) : Input(n)
       \/ InputEof \/ GetpktShort \/ GetpktBreak \/ CallbackReturn \/ GetpktDone
    /\ Seteof(calls)
    /\ UNCHANGED <<st, calls, srvVars>>

Xon ==
    /\ NotNested
    /\ XonStep
    /\ UNCHANGED <<clntVars, srvVars>>

OutputFails ==
    /\ NotNested
    /\ pc = "loop"
    /\ SendFails
    /\ Seteof(calls)
    /\ UNCHANGED <<st, calls, srvVars>>

\* asrv_delayed_eof::dispatch (NULL).
DispatchNull ==
    /\ srveof' = TRUE
    /\ eofcb' = FALSE
    /\ told' = IF svc = {} THEN told + 1 ELSE told

\* xhinfo::dispatch () of a reply: aclnt::dispatch ().
RecvReply ==
    /\ NotNested
    /\ GetpktData
    /\ LET c == stream[ThisPkt].kind
       IN  /\ c \in Calls
           /\ st' = IF st[c] = "out" THEN [st EXCEPT ![c] = "done"] ELSE st
           /\ calls' = IF st[c] = "out" THEN Without(calls, c) ELSE calls
    /\ UNCHANGED <<walk, rb, wasopen, srvVars>>

\* asrv::dispatch () of a call that is served.
RecvCall ==
    /\ NotNested
    /\ GetpktData
    /\ stream[ThisPkt].kind = "call"
    /\ svc' = svc \cup {ThisPkt}
    /\ UNCHANGED <<clntVars, replying, srveof, eofcb, told, garbled>>

\* asrv::dispatch () of a call whose header cannot be decoded: asrv::seteof (),
\* for the servers only; the transport goes on.
RecvGarbled ==
    /\ NotNested
    /\ GetpktData
    /\ stream[ThisPkt].kind = "garbled"
    /\ garbled' = TRUE
    /\ DispatchNull
    /\ UNCHANGED <<clntVars, svc, replying>>

\* asrv_accepterr () answers with sendv (), which panics after a failure
\* that callgetpkt () has not reported yet, and may fail itself.
RecvUnavail ==
    /\ NotNested
    /\ pc = "getpkt" /\ HasPkt /\ ThisLen >= 2
    /\ stream[ThisPkt].kind = "unavail"
    /\ cp' = cp + 1 + ThisLen
    /\ delivered' = Append(delivered, ThisPkt)
    /\ pc' = IF open THEN "cb" ELSE "sendv_panic"
    /\ \/ UNCHANGED <<open, cb, eofs>>
       \/ open /\ Fail
    /\ UNCHANGED <<wire, buf, ingetpkt, stream, clntVars, srvVars>>

-----------------------------------------------------------------------------
\* aclnt::fail (): the next call is taken from the list before the callback
\* of this one runs; if that callback cancels it, its memory is gone.
WalkCall ==
    /\ walk = "calls" /\ rb # Nil
    /\ IF st[rb] = "out"
       THEN /\ st' = [st EXCEPT ![rb] = "done"]
            /\ calls' = Without(calls, rb)
            /\ rb' = NextOf(rb)
            /\ pc' = pc
       ELSE pc' = "dangling" /\ UNCHANGED <<st, calls, rb>>
    /\ UNCHANGED <<walk, wasopen, srvVars, wire, buf, cp, open, cb, ingetpkt,
                   delivered, eofs, stream>>

WalkCallsEnd ==
    /\ walk = "calls" /\ rb = Nil
    /\ walk' = "server"
    /\ UNCHANGED <<st, calls, rb, wasopen, srvVars, vars>>

\* Mutant: the server is not told when nothing is being served.
WalkServerOnlyBusy ==
    /\ walk = "server"
    /\ walk' = "none"
    /\ IF svc = {} THEN UNCHANGED <<srveof, eofcb, told>> ELSE DispatchNull
    /\ UNCHANGED <<st, calls, rb, wasopen, svc, replying, garbled, vars>>

\* xhinfo::seteof () goes on to the servers.
WalkServer ==
    /\ walk = "server"
    /\ walk' = "none"
    /\ DispatchNull
    /\ UNCHANGED <<st, calls, rb, wasopen, svc, replying, garbled, vars>>

-----------------------------------------------------------------------------
\* Mutant: the EOF is reported at the first reply after it.
DecSvccbCountFirst(k) ==
    /\ svc' = svc \ {k}
    /\ told' = IF srveof THEN told + 1 ELSE told

\* asrv_delayed_eof::dec_svccb_count () of the svccb k.
DecSvccbCount(k) ==
    /\ svc' = svc \ {k}
    /\ told' = IF svc' = {} /\ srveof THEN told + 1 ELSE told

\* sendreply () is swallowed after an EOF, or its write succeeds.
Reply(k) ==
    /\ InApp
    /\ k \in svc \ {replying}
    /\ DecSvccbCount(k)
    /\ UNCHANGED <<clntVars, replying, srveof, eofcb, garbled, vars>>

\* The write of the reply fails: the svccb is still counted while seteof ()
\* is at work.
ReplyFails(k) ==
    /\ InApp
    /\ k \in svc \ {replying}
    /\ ~srveof /\ open
    /\ Fail
    /\ Seteof(calls)
    /\ IF eofs' # eofs THEN replying' = k /\ UNCHANGED <<svc, told>>
       ELSE replying' = replying /\ DecSvccbCount(k)
    /\ UNCHANGED <<st, calls, srveof, eofcb, garbled, wire, buf, cp, ingetpkt,
                   pc, delivered, stream>>

\* asrv::sendreply () after the failed write.
ReplyReturn ==
    /\ replying # 0 /\ walk = "none"
    /\ DecSvccbCount(replying)
    /\ replying' = 0
    /\ UNCHANGED <<clntVars, srveof, eofcb, garbled, vars>>

\* aclnt::call () at EOF: RPC_CANTSEND.
CallAtEof(c) ==
    /\ InApp /\ ~open
    /\ st[c] = "new"
    /\ st' = [st EXCEPT ![c] = "done"]
    /\ UNCHANGED <<calls, walk, rb, wasopen, srvVars, vars>>

Call(c) ==
    /\ InApp /\ open
    /\ st[c] = "new"
    /\ st' = [st EXCEPT ![c] = "out"]
    /\ calls' = Append(calls, c)
    /\ UNCHANGED <<walk, rb, wasopen, srvVars, vars>>

\* Mutant: the walk does not see the call whose write failed.
FailListWithoutNew(c) == calls

\* rpccb::init (): the call is in the list when its write fails.
FailList(c) == Append(calls, c)

CallFails(c) ==
    /\ InApp /\ open
    /\ st[c] = "new"
    /\ st' = [st EXCEPT ![c] = "out"]
    /\ calls' = Append(calls, c)
    /\ Fail
    /\ Seteof(FailList(c))
    /\ UNCHANGED <<srvVars, wire, buf, cp, ingetpkt, pc, delivered, stream>>

\* callbase::cancel ().
Cancel(c) ==
    /\ InApp
    /\ st[c] = "out"
    /\ st' = [st EXCEPT ![c] = "cancelled"]
    /\ calls' = Without(calls, c)
    /\ UNCHANGED <<walk, rb, wasopen, srvVars, vars>>

-----------------------------------------------------------------------------
StreamInit ==
    /\ Init
    /\ st = [c \in Calls |-> "new"] /\ calls = <<>>
    /\ walk = "none" /\ rb = Nil /\ wasopen = FALSE
    /\ svc = {} /\ replying = 0 /\ srveof = FALSE /\ eofcb = TRUE
    /\ told = 0 /\ garbled = FALSE

LoopStep ==
    \/ Transport \/ RecvReply \/ RecvCall \/ RecvGarbled \/ RecvUnavail
    \/ WalkCall \/ WalkCallsEnd \/ WalkServer \/ ReplyReturn

AppStep ==
    \/ \E k \in svc : Reply(k) \/ ReplyFails(k)
    \/ \E c \in Calls : CallAtEof(c) \/ Call(c) \/ CallFails(c) \/ Cancel(c)

StreamNext == LoopStep \/ Xon \/ OutputFails \/ AppStep

StreamSpec == StreamInit /\ [][StreamNext]_allVars

\* The event loop runs and callbacks return; what the application does, and
\* which writes fail, is open.
StreamFairSpec == StreamSpec /\ WF_allVars(LoopStep)

-----------------------------------------------------------------------------
\* asrv_delayed_eof calls _asrv_cb with NULL at most once, and never while a
\* call is being served, or before one that is served later, however
\* the EOF comes about: unless a garbled header made asrv::dispatch () report
\* an EOF of a transport that goes on.
ServerToldOnce == garbled \/ (told <= 1 /\ (told = 1 => svc = {}))

\* Once the EOF was reported and every call is replied to, the server is told.
ServerTold == eofs = 1 /\ svc = {} ~> told >= 1 \/ Stopped

\* When the transport has failed and the walk is over no call is left
\* outstanding, the one whose own write failed and those made by the callbacks
\* of the others included.  (After an EOF reported on an open transport, for a
\* packet that is too short, calls may still be sent and are never answered.)
CallsFailed ==
    eofs = 1 /\ walk = "none" /\ ~wasopen /\ ~Stopped => calls = <<>>

\* A receiver that is not turned off for ever, or again and again, is told of
\* the end of the stream, also when sending failed in the callback of a packet.
EofReported == []<>(cb = Off /\ eofs = 0) \/ <>(eofs = 1 \/ Stopped)
=============================================================================
