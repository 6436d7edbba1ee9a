--------------------------- MODULE UnreliableRpc ---------------------------
(***************************************************************************)
(* RPC over datagrams: the calls of a client (rpccb_unreliable and the     *)
(* retransmission queues rpctoq of arpc/aclnt.C, the template tmoq of      *)
(* async/backoff.h), a server with a replay cache (asrv_unreliable of      *)
(* arpc/asrv.C), and a network that loses, repeats and reorders.           *)
(*                                                                         *)
(* A call waits in queue q for MinTo * 2^q seconds and then moves to the   *)
(* next queue, being sent again, until it times out of the last one.  A    *)
(* queue has at most one timer, set for the call that was first when the   *)
(* timer was made.  Times are kept as what is left of them, so the clock   *)
(* needs no bound; it stands still during one run of tmoq::tcb ().         *)
(*                                                                         *)
(* A datagram stays in the network for ever: one that is never delivered   *)
(* is lost, one delivered twice is repeated.                               *)
(***************************************************************************)
EXTENDS Lists

CONSTANTS
    Xids,       \* calls; genxid () gives each outstanding call its own xid
    Timed,      \* the calls made with timedcall ()
    MinTo,      \* minto of tmoq
    MaxSend,    \* maxsend of tmoq
    MaxRSize    \* maxrsize of asrv_unreliable

ASSUME RpcAssumption ==
    /\ IsFiniteSet(Xids) /\ Timed \subseteq Xids
    /\ MinTo \in Nat \ {0} /\ MaxSend \in Nat \ {0} /\ MaxRSize \in Nat

Queues == 0..(MaxSend - 1)

VARIABLES
    st,         \* each call: new, outstanding, or how it ended
    tmo,        \* outstanding calls whose tmo timer is queued
    queue, left,  \* tmoq: the queues, and the time until each call's tm
    pending, timer,  \* tmoq: pending[], and the time until its timer
    pc, qn,     \* the client: in the loop, in runq (qn), in a callback of it
    netcalls, netreplies,  \* datagrams under way
    working,    \* server: the number of svccbs of each call without a reply
    rq,         \* server: calls in rtab with a cached reply, oldest first
    since,      \* history: replies cached after that of each call
    uncached    \* history: calls answered without caching

tmoq   == <<queue, left, pending, timer>>
net    == <<netcalls, netreplies>>
server == <<working, rq, since, uncached>>
vars   == <<st, tmo, tmoq, pc, qn, net, server>>

States == {"new", "out", "answered", "timedout", "cancelled"}
Outstanding == {x \in Xids : st[x] = "out"}
InCallback == pc \in {"loop", "cb"}
Delay(q) == MinTo * 2^q

-----------------------------------------------------------------------------
\* tmoq::schedq (q) on the queue contents qs and the remaining times lf.
Schedq(q, qs, lf, pend, tim) ==
    IF ~pend[q] /\ qs[q] # <<>>
      THEN <<[pend EXCEPT ![q] = TRUE], [tim EXCEPT ![q] = lf[Head(qs[q])]]>>
      ELSE <<pend, tim>>

\* tmoq::insert (x, q): at the tail, scheduled, and sent.
Insert(x, q, qs) ==
    LET nq == [qs EXCEPT ![q] = Append(@, x)]
        nl == [left EXCEPT ![x] = Delay(q)]
        sc == Schedq(q, nq, nl, pending, timer)
    IN  /\ queue' = nq /\ left' = nl
        /\ pending' = sc[1] /\ timer' = sc[2]
        /\ netcalls' = netcalls \cup {x}

\* tmoq::remove (x): the call leaves its queue; the timer stays.
Removed(x, qs) == [q \in Queues |-> Without(qs[q], x)]

\* aclnt::call () and timedcall ().
Call(x) ==
    /\ InCallback
    /\ st[x] = "new"
    /\ st' = [st EXCEPT ![x] = "out"]
    /\ tmo' = IF x \in Timed THEN tmo \cup {x} ELSE tmo
    /\ Insert(x, 0, queue)
    /\ UNCHANGED <<pc, qn, netreplies, server>>

\* Mutant: the destructor forgets the timer of timedcall ().
FinishKeepsTimer(x, how) ==
    /\ st' = [st EXCEPT ![x] = how]
    /\ queue' = Removed(x, queue)
    /\ left' = [left EXCEPT ![x] = 0]
    /\ UNCHANGED <<tmo, pending, timer>>

\* rpccb::finish (): the destructors take the call out of its queue and
\* remove its timer; then the callback runs.
Finish(x, how) ==
    /\ st' = [st EXCEPT ![x] = how]
    /\ tmo' = tmo \ {x}
    /\ queue' = Removed(x, queue)
    /\ left' = [left EXCEPT ![x] = 0]
    /\ UNCHANGED <<pending, timer>>

\* callbase::cancel ().
Cancel(x) ==
    /\ InCallback
    /\ st[x] = "out"
    /\ Finish(x, "cancelled")
    /\ UNCHANGED <<pc, qn, net, server>>

\* callbase::expire (), the timer of timedcall ().
Expire(x) ==
    /\ pc = "loop"
    /\ x \in tmo
    /\ Finish(x, "timedout")
    /\ UNCHANGED <<pc, qn, net, server>>

\* aclnt::dispatch () of a reply; one whose xid is unknown is dropped.
ClientReceive(x) ==
    /\ pc = "loop"
    /\ x \in netreplies
    /\ st[x] = "out"
    /\ Finish(x, "answered")
    /\ UNCHANGED <<pc, qn, net, server>>

\* tmoq::tcb (q), the timer of a queue.
Tcb(q) ==
    /\ pc = "loop"
    /\ pending[q] /\ timer[q] = 0
    /\ pending' = [pending EXCEPT ![q] = FALSE]
    /\ pc' = "runq" /\ qn' = q
    /\ UNCHANGED <<st, tmo, queue, left, timer, net, server>>

Due == queue[qn] # <<>> /\ left[Head(queue[qn])] = 0

\* Mutant: the first call goes back into the same queue.
RunqNextSame ==
    /\ pc = "runq" /\ Due
    /\ qn < MaxSend - 1
    /\ LET x == Head(queue[qn]) IN Insert(x, qn, Removed(x, queue))
    /\ UNCHANGED <<st, tmo, pc, qn, netreplies, server>>

\* tmoq::runq (): the first call moves to the next queue.
RunqNext ==
    /\ pc = "runq" /\ Due
    /\ qn < MaxSend - 1
    /\ LET x == Head(queue[qn]) IN Insert(x, qn + 1, Removed(x, queue))
    /\ UNCHANGED <<st, tmo, pc, qn, netreplies, server>>

\* tmoq::runq (): the first call has been sent maxsend times.
RunqTimeout ==
    /\ pc = "runq" /\ Due
    /\ qn = MaxSend - 1
    /\ Finish(Head(queue[qn]), "timedout")
    /\ pc' = "cb"
    /\ UNCHANGED <<qn, net, server>>

\* The callback of a call that timed out returns to runq ().
RunqReturn ==
    /\ pc = "cb"
    /\ pc' = "runq"
    /\ UNCHANGED <<st, tmo, tmoq, qn, net, server>>

\* tmoq::tcb (): schedq () after runq ().
RunqDone ==
    /\ pc = "runq" /\ ~Due
    /\ LET sc == Schedq(qn, queue, left, pending, timer)
       IN  pending' = sc[1] /\ timer' = sc[2]
    /\ pc' = "loop"
    /\ UNCHANGED <<st, tmo, queue, left, qn, net, server>>

\* A second passes.
Dec(n) == IF n = 0 THEN 0 ELSE n - 1
Tick ==
    /\ pc = "loop"
    /\ left' = [x \in Xids |-> Dec(left[x])]
    /\ timer' = [q \in Queues |-> Dec(timer[q])]
    /\ UNCHANGED <<st, tmo, queue, pending, pc, qn, net, server>>

-----------------------------------------------------------------------------
\* Mutant: a call comes into rtab only with its reply.
IsreplayAnswered(x) == x \in ToSet(rq)

\* asrv_unreliable::isreplay (): the call is in rtab, with a reply or not.
Isreplay(x) == x \in ToSet(rq) \/ working[x] > 0

\* asrv::dispatch (): a cached reply is sent again, a call in progress is
\* ignored, any other is served.
ServerReceive(x) ==
    /\ x \in netcalls
    /\ IF Isreplay(x)
         THEN /\ netreplies' = IF x \in ToSet(rq) THEN netreplies \cup {x} ELSE netreplies
              /\ UNCHANGED working
         ELSE working' = [working EXCEPT ![x] = @ + 1] /\ UNCHANGED netreplies
    /\ UNCHANGED <<st, tmo, tmoq, pc, qn, netcalls, rq, since, uncached>>

\* Mutant: the newest cached reply is evicted.
EvictNewest(s) == IF Len(s) > MaxRSize THEN Front(s) ELSE s

\* The loop at the end of asrv_unreliable::sendreply ().
Evict(s) == IF Len(s) > MaxRSize THEN Tail(s) ELSE s

\* svccb::reply (), cached.
Reply(x) ==
    /\ working[x] > 0
    /\ working' = [working EXCEPT ![x] = @ - 1]
    /\ netreplies' = netreplies \cup {x}
    /\ rq' = Evict(Append(rq, x))
    /\ since' = [y \in Xids |-> IF y = x THEN 0
                                ELSE IF since[y] < MaxRSize THEN since[y] + 1
                                ELSE since[y]]
    /\ uncached' = uncached \ {x}
    /\ UNCHANGED <<st, tmo, tmoq, pc, qn, netcalls>>

\* svccb::reply () with nocache, reject () and, without a message,
\* ignore (): the call leaves rtab.
ReplyNocache(x, send) ==
    /\ working[x] > 0
    /\ working' = [working EXCEPT ![x] = @ - 1]
    /\ netreplies' = IF send THEN netreplies \cup {x} ELSE netreplies
    /\ uncached' = uncached \cup {x}
    /\ UNCHANGED <<st, tmo, tmoq, pc, qn, netcalls, rq, since>>

-----------------------------------------------------------------------------
Init ==
    /\ st = [x \in Xids |-> "new"] /\ tmo = {}
    /\ queue = [q \in Queues |-> <<>>] /\ left = [x \in Xids |-> 0]
    /\ pending = [q \in Queues |-> FALSE] /\ timer = [q \in Queues |-> 0]
    /\ pc = "loop" /\ qn = 0
    /\ netcalls = {} /\ netreplies = {}
    /\ working = [x \in Xids |-> 0] /\ rq = <<>> /\ since = [x \in Xids |-> 0] /\ uncached = {}

ClientTimers == (\E q \in Queues : Tcb(q)) \/ RunqNext \/ RunqTimeout \/ RunqReturn \/ RunqDone

Next ==
    \/ \E x \in Xids : Call(x) \/ Cancel(x) \/ Expire(x) \/ ClientReceive(x)
    \/ ClientTimers \/ Tick
    \/ \E x \in Xids : ServerReceive(x) \/ Reply(x)
    \/ \E x \in Xids : \E send \in BOOLEAN : ReplyNocache(x, send)

Spec == Init /\ [][Next]_vars

\* Time passes and the event loop runs its timers; nothing is assumed of
\* the network or of the server.
FairSpec == Spec /\ WF_vars(ClientTimers) /\ SF_vars(Tick)

-----------------------------------------------------------------------------
\* Every variable keeps its type.
TypeOK ==
    /\ st \in [Xids -> States] /\ tmo \subseteq Timed
    /\ queue \in [Queues -> Seq(Xids)] /\ left \in [Xids -> Nat]
    /\ pending \in [Queues -> BOOLEAN] /\ timer \in [Queues -> Nat]
    /\ pc \in {"loop", "runq", "cb"} /\ qn \in Queues
    /\ netcalls \subseteq Xids /\ netreplies \subseteq Xids
    /\ working \in [Xids -> Nat] /\ rq \in Seq(Xids)
    /\ since \in [Xids -> 0..MaxRSize] /\ uncached \subseteq Xids

\* The retransmission queues hold the outstanding calls, each once, and a
\* timer of timedcall () never outlives its call: no timer can reach a call
\* that was answered, cancelled or timed out by another timer.  And no call in
\* a queue is left without a timer that comes in time: the queue is in order
\* of expiry and, except while it is being run, its timer is pending and not
\* later than its first call.
QueuesExact ==
    /\ \A x \in Xids : x \in Outstanding <=> \E q \in Queues : x \in ToSet(queue[q])
    /\ \A q, r \in Queues : \A i \in DOMAIN queue[q], j \in DOMAIN queue[r] :
          queue[q][i] = queue[r][j] => q = r /\ i = j
    /\ tmo \subseteq Outstanding
    /\ \A q \in Queues :
          /\ \A i, j \in DOMAIN queue[q] : i < j => left[queue[q][i]] <= left[queue[q][j]]
          /\ queue[q] # <<>> /\ (pc = "loop" \/ q # qn) =>
                pending[q] /\ timer[q] <= left[Head(queue[q])]

\* However the datagrams of a call are delayed and repeated, the server begins
\* to execute it only when it is not executing it already, and after its reply
\* was sent only if that reply was not to be cached or at least maxrsize other
\* replies were cached after it.
NoEarlyReexecution ==
    [][\A x \in Xids : working'[x] > working[x] =>
          /\ working[x] = 0
          /\ x \in netreplies => x \in uncached \/ since[x] >= MaxRSize]_vars

\* Every call ends: its callback runs whatever the network and the server do.
CallsEnd == \A x \in Xids : st[x] = "out" ~> st[x] # "out"
=============================================================================
