------------------------------ MODULE AsyncIo -------------------------------
(***************************************************************************)
(* Asynchronous file I/O: the client side, classes aiod, aiobuf and aiofh  *)
(* of async/aio.C and aiod.h, and the daemons of async/aiod.C.  Requests   *)
(* are written to shared memory; their positions go to all daemons over a  *)
(* common pipe, or to one over its socket, and come back over that socket. *)
(*                                                                         *)
(* A handler of the client is a function from a client state to the next,  *)
(* so that the calls it makes can be composed; the daemons are processes.  *)
(* Every open () opens a file of its own, named after the call.            *)
(***************************************************************************)
EXTENDS Buddy, Sequences, SequencesExt

CONSTANTS
    NDaemons,   \* ndaemons, more than the one that runs msg_loop_simple ()
    PathLevel,  \* the level of the buffer of a pathop
    ShmMax,     \* shmmax, in units
    NCalls,     \* calls the application makes
    MaxDeaths,  \* daemons that may die
    Careful     \* the application keeps an aiofh until close () has called
                \* back; libtame's aiofh_t::close () lets go of it at once

ASSUME AsyncIoAssumption ==
    /\ NDaemons \in Nat \ {0, 1} /\ NCalls \in Nat /\ MaxDeaths \in Nat
    /\ ShmMax \in Nat /\ ShmMax % MaxBuf = 0
    /\ PathLevel \in Levels /\ Careful \in BOOLEAN

Daemons == 1..NDaemons
Calls == 1..NCalls
Handles == 1..NCalls
Pos == 0..(ShmMax - 1)
None == 0

VARIABLES
    cl,         \* the client
    tab,        \* each daemon: fht, the file open under each handle
    cur,        \* each daemon: the request it has read from the pipe, or -1
    reply,      \* each daemon: what it has written and the client not read
    alive,      \* the daemons that run
    stale       \* lookup () found another file than the request's

vars == <<cl, tab, cur, reply, alive, stale>>

-----------------------------------------------------------------------------
\* Shared memory: a request, a file (struct aiod_file), or zeros, a NOP.
Content(op, fh, h, f) == [op |-> op, fh |-> fh, h |-> h, f |-> f, err |-> FALSE]
Zero == Content("nop", 0, None, None)

\* The constructor of aiod.
InitClient ==
    [closed |-> FALSE, grow |-> FALSE, req |-> FALSE,
     bb |-> NewBuddy, bufs |-> {}, got |-> -1,
     mem |-> [p \in Pos |-> Zero],
     wait |-> <<>>,                             \* bbwaitq
     rqtab |-> [p \in Pos |-> <<>>],            \* the cbvec of each request
     cq |-> <<>>, rw |-> [d \in Daemons |-> <<>>],
     avail |-> <<>>, ctr |-> 1,                 \* fhno_avail, fhno_ctr
     fh |-> [c \in Calls |-> [st |-> "none", no |-> None, pos |-> 0,
                              closed |-> FALSE, left |-> 0]],
     ans |-> [c \in Calls |-> "none"],
     fault |-> {}]

\* A callback (or a waiter) of kind k for call c on the aiofh of call f.
Cb(kind, c, f, l) == [kind |-> kind, call |-> c, f |-> f, l |-> l]

Answer(k, c, a) == IF c = None THEN k ELSE [k EXCEPT !.ans[c] = a]

\* aiod::sendmsg () to the common pipe.  Whoever calls it has just seen that
\* the aiod is not closed.  For a write that fails see Written.
Send(k, p, cb) == [k EXCEPT !.rqtab[p] = Append(@, cb), !.cq = Append(@, p)]

\* aiod::bufalloc (): k.got is the position, or -1; memory that is short is
\* made to grow, by a NOP on the page after its end.
Bufalloc(k, l) ==
    IF CanAlloc(k.bb, l)
    THEN LET p == AllocOff(k.bb, l)
         IN  [k EXCEPT !.bb = Alloc(@, l), !.got = p, !.bufs = @ \cup {<<p, l>>}]
    ELSE IF ~k.grow /\ k.bb.tot + MaxBuf <= ShmMax
    THEN Send([k EXCEPT !.got = -1, !.grow = TRUE], k.bb.tot,
              Cb("grow1", None, None, 0))
    ELSE [k EXCEPT !.got = -1]

\* ~aiobuf () of the buffer at p, if it is not the empty one of a NOP.  The
\* waiters run when the handler is over: see Settle.
Free(k, p) ==
    LET b == {x \in k.bufs : x[1] = p}
    IN  IF b = {} THEN k
        ELSE [k EXCEPT !.bb = Dealloc(@, p, (CHOOSE x \in b : TRUE)[2]),
                       !.bufs = @ \ b, !.req = @ \/ k.wait # <<>>]

\* A request is written to the buffer at k.got, of level l.
Write(k, l, c) ==
    [k EXCEPT !.mem = [p \in Pos |-> IF p \in Units(k.got, l) THEN c ELSE @[p]]]

Bufwait(k, w) == [k EXCEPT !.wait = Append(@, w)]

FhnoAlloc(k) == IF k.avail = <<>> THEN k.ctr ELSE Last(k.avail)

-----------------------------------------------------------------------------
\* aiod::pathop ().
Pathop(k, w) ==
    IF k.closed THEN Answer(k, w.call, "err")
    ELSE LET b == Bufalloc(k, w.l)
         IN  IF b.got = -1 THEN Bufwait(b, w)
             ELSE Send(Write(b, w.l, Content("path", 0, None, None)), b.got, w)

\* aiod::open (): one buffer for the request and one for the file.
Open(k, w) ==
    LET b1 == Bufalloc(k, 0)
        b2 == Bufalloc(b1, w.l)
        no == FhnoAlloc(k)
        file == [b2 EXCEPT
                   !.avail = IF @ = <<>> THEN @ ELSE Front(@),
                   !.ctr = IF k.avail = <<>> THEN @ + 1 ELSE @,
                   !.fh[w.f] = [st |-> "opening", no |-> no, pos |-> b2.got,
                                closed |-> FALSE, left |-> 0]]
    IN  CASE k.closed      -> Answer(k, w.call, "nothing")
          [] ~k.closed /\ b1.got = -1 -> Bufwait(b1, w)
          [] ~k.closed /\ b1.got # -1 /\ b2.got = -1 ->
                Free(Bufwait(b2, w), b1.got)
          [] OTHER ->
                Send(Write([Write(file, w.l, Content("file", 0, no, w.f))
                              EXCEPT !.got = b1.got],
                           0, Content("open", b2.got, None, None)), b1.got, w)

\* aiofh::rw () and simpleop ().
Rw(k, w) ==
    IF k.closed \/ k.fh[w.f].closed THEN Answer(k, w.call, "err")
    ELSE LET b == Bufalloc(k, 0)
         IN  IF b.got = -1 THEN Bufwait(b, w)
             ELSE Send(Write(b, 0, Content("rw", k.fh[w.f].pos, None, None)), b.got, w)

\* Mutant: the request goes to one daemon, over the common pipe.
BroadcastOne(k, p, cb) ==
    [k EXCEPT !.rqtab[p] = @ \o [d \in 1..1 |-> cb], !.fh[cb.f].left = 1,
              !.cq = Append(@, p)]

\* The loop of sendclose (): one message to each daemon.
Broadcast(k, p, cb) ==
    [k EXCEPT !.rqtab[p] = @ \o [d \in Daemons |-> cb],
              !.fh[cb.f].left = NDaemons,
              !.rw = [d \in Daemons |-> Append(@[d], p)]]

\* ~aiofh () after sendclose (): the number and the buffer are free again.
Release(k, f) ==
    Free([k EXCEPT !.avail = Append(@, k.fh[f].no), !.fh[f].st = "gone"], k.fh[f].pos)

\* The part of sendclose () that has the buffer b.got.
SendClose(b, w) ==
    Broadcast(Write(b, 0, Content("close", b.fh[w.f].pos, None, None)), b.got, w)

\* aiofh::sendclose (), from close ().
Close(k, w) ==
    IF k.closed THEN Release(Answer(k, w.call, "err"), w.f)
    ELSE LET b == Bufalloc([k EXCEPT !.fh[w.f].closed = TRUE], 0)
         IN  CASE b.got = -1           -> Bufwait(b, w)
               [] b.got # -1 /\ Careful -> SendClose(b, w)
               [] OTHER                -> Release(SendClose(b, w), w.f)

\* ~aiofh () of a file that was never closed, after a failed open ().  Without
\* a buffer, sendclose () leaves a reference to the dying object behind.
Destroy(k, f) ==
    IF k.closed THEN Release(k, f)
    ELSE LET b == Bufalloc([k EXCEPT !.fh[f].closed = TRUE], 0)
         IN  IF b.got = -1 THEN [b EXCEPT !.fault = @ \cup {"dangling"}]
             ELSE Release(SendClose(b, Cb("close", None, f, 0)), f)

RunOp(k, w) ==
    CASE w.kind = "path"  -> Pathop(k, w)
      [] w.kind = "open"  -> Open(k, w)
      [] w.kind = "rw"    -> Rw(k, w)
      [] w.kind = "close" -> Close(k, w)

\* Op is applied to a state and each element of s in turn (a FoldLeft, as the
\* recursive function that proofs can unfold).
Steps(Op(_, _), k, s) ==
    LET f[i \in 0..Len(s)] == IF i = 0 THEN k ELSE Op(f[i - 1], s[i])
    IN  f[Len(s)]

\* One round of bufwake () runs all that wait.
Round(k, i) ==
    IF k.req THEN Steps(RunOp, [k EXCEPT !.wait = <<>>, !.req = FALSE], k.wait) ELSE k

\* Mutant: a buffer is freed and nobody is woken.
SettleNever(k) == [k EXCEPT !.req = FALSE]

\* aiod::bufwake (): the waiters run, in rounds as long as one frees a buffer.
\* A round that serves no waiter and asks for another one repeats forever.
Settle(k) ==
    LET end == Steps(Round, k, [i \in 1..(Len(k.wait) + 1) |-> i])
    IN  [end EXCEPT !.got = -1, !.fault = IF end.req THEN @ \cup {"spin"} ELSE @]

-----------------------------------------------------------------------------
\* open_cb (): the aiofh of a failed open dies with the callback.
OpenCb(k, cb, err) ==
    IF err THEN Destroy(Answer(k, cb.call, "err"), cb.f)
    ELSE [Answer(k, cb.call, "ok") EXCEPT !.fh[cb.f].st = "open"]

\* close_cb (): the last of the replies counts.  The application lets go of
\* the aiofh in its callback.
CloseCb(k, cb, err) ==
    LET s == [k EXCEPT !.fh[cb.f].left = @ - 1]
        a == Answer(s, cb.call, IF err THEN "err" ELSE "ok")
    IN  IF s.fh[cb.f].left > 0 THEN s
        ELSE IF cb.call # None /\ Careful THEN Release(a, cb.f) ELSE a

\* inc of bufalloc ().
GrowInc(tot) == Min({ShmMax - tot, Max({MaxBuf, tot \div 4})})

\* bufalloc_cb1 () and bufalloc_cb2 ().
GrowCb(k, cb, p, err) ==
    IF err \/ k.closed
    THEN [k EXCEPT !.grow = FALSE, !.fault = IF k.closed THEN @ ELSE @ \cup {"nospace"}]
    ELSE IF cb.kind = "grow1" THEN Send(k, p, Cb("grow2", None, None, 0))
    ELSE [k EXCEPT !.grow = FALSE, !.bb = Settotsize(@, @.tot + GrowInc(@.tot)), !.req = TRUE]

Callback(k, cb, p, err) ==
    CASE cb.kind = "open"              -> OpenCb(k, cb, err)
      [] cb.kind = "close"             -> CloseCb(k, cb, err)
      [] cb.kind \in {"grow1", "grow2"} -> GrowCb(k, cb, p, err)
      [] OTHER -> Answer(k, cb.call, IF err THEN "err" ELSE "ok")

\* Mutant: fail () leaves bbwaitq alone.
FailWaitersNone(k) == k

\* The second loop of fail (): every waiter runs and finds the aiod closed.
FailWaiters(k) == Steps(RunOp, [k EXCEPT !.wait = <<>>], k.wait)

\* delreq (): the callbacks of the request at p are called without a buffer.
FailCb(k, cb) == Callback(k, cb, 0, TRUE)
FailReq(k, p) ==
    IF k.rqtab[p] = <<>> THEN k
    ELSE Free([Steps(FailCb, k, k.rqtab[p]) EXCEPT !.rqtab[p] = <<>>], p)

\* aiod::fail ().
Fail(k) ==
    LET s0 == [k EXCEPT !.closed = TRUE, !.cq = <<>>, !.rw = [d \in Daemons |-> <<>>]]
        s1 == Steps(FailReq, s0, [i \in 1..ShmMax |-> i - 1])
    IN  [FailWaiters(s1) EXCEPT !.req = FALSE]

\* Mutant: the request goes with the first response.
DelReqAlways(k, p) == Free([k EXCEPT !.rqtab[p] = <<>>], p)

\* The request at p is over with its last callback.
DelReq(k, p) == IF k.rqtab[p] = <<>> THEN Free(k, p) ELSE k

\* One response in aiod::input ().
Response(k, p) ==
    IF k.closed THEN k
    ELSE IF k.rqtab[p] = <<>> THEN Fail(k)
    ELSE DelReq(Callback([k EXCEPT !.rqtab[p] = Tail(@)], Head(k.rqtab[p]), p, k.mem[p].err), p)

-----------------------------------------------------------------------------
Init ==
    /\ cl = InitClient
    /\ tab = [d \in Daemons |-> [h \in Handles |-> None]]
    /\ cur = [d \in Daemons |-> -1]
    /\ reply = [d \in Daemons |-> <<>>]
    /\ alive = Daemons
    /\ stale = FALSE

\* The client process can go on: it is not in an endless loop, nor has it
\* used an object that is gone or called fatal ().
Sane == cl.fault \cap {"spin", "dangling", "fatal"} = {}

\* The client calls fatal ().
Fatal(k) == [k EXCEPT !.fault = @ \cup {"fatal"}]

\* Between k and x the client has written to a daemon that has died, its end of
\* file still unread, or to the pipe when there is none to read it.
WriteFails(k, x) ==
    \/ \E d \in Daemons \ alive : Len(x.rw[d]) > Len(k.rw[d])
    \/ alive = {} /\ Len(x.cq) > Len(k.cq)

\* writeq::sendmsg (), seen from the handler that started at k and ended at x: a
\* write that fails is the end of the client.  What the handler did after it
\* nobody sees.
Written(k, x) == IF WriteFails(k, x) THEN Fatal(x) ELSE x

\* writeq::output (): the same goes for what did not fit when it was sent.
Output ==
    /\ Sane /\ ~cl.closed /\ WriteFails(InitClient, cl)
    /\ cl' = Fatal(cl)
    /\ UNCHANGED <<tab, cur, reply, alive, stale>>

\* No call on the aiofh of f is outstanding.
IdleFh(f) ==
    /\ cl.fh[f].st = "open" /\ ~cl.fh[f].closed
    /\ \A p \in Pos : \A i \in 1..Len(cl.rqtab[p]) : cl.rqtab[p][i].f # f
    /\ \A i \in 1..Len(cl.wait) : cl.wait[i].f # f

\* The application has the aiofh of f.
Usable(f) == cl.fh[f].st = "open" /\ (Careful \/ ~cl.fh[f].closed)

\* The application makes call c, from the event loop and not from the callback
\* of another call.  It does not close a file with requests outstanding, and
\* has no buffers of its own (iobufs).
Call(c) ==
    /\ Sane
    /\ cl.ans[c] = "none" /\ \A b \in 1..(c - 1) : cl.ans[b] # "none"
    /\ \E w \in   {Cb("path", c, None, PathLevel)}
            \cup {Cb("open", c, c, 0)}
            \cup {Cb("rw", c, f, 0) : f \in {g \in Calls : Usable(g)}}
            \cup {Cb("close", c, f, 0) : f \in {g \in Calls : IdleFh(g)}} :
          cl' = Written(cl, Settle(RunOp([cl EXCEPT !.ans[c] = "pending"], w)))
    /\ UNCHANGED <<tab, cur, reply, alive, stale>>

\* The socket of daemon d can be read.
Readable(d) == Sane /\ ~cl.closed /\ (reply[d] # <<>> \/ d \notin alive)

\* aiod::input () on the socket of daemon d: n responses, or, of a daemon that
\* has died, the end, an error or a message that is not whole.
Input(d) ==
    /\ Readable(d)
    /\ \/ \E n \in 1..Len(reply[d]) :
             /\ cl' = Written(cl, Settle(Steps(Response, cl, SubSeq(reply[d], 1, n))))
             /\ reply' = [reply EXCEPT ![d] = SubSeq(@, n + 1, Len(@))]
       \/ /\ d \notin alive
          /\ cl' = Fail(cl)
          /\ UNCHANGED reply
    /\ UNCHANGED <<tab, cur, alive, stale>>

-----------------------------------------------------------------------------
\* The handles that getptr<aiod_file> (p)->handle may give: the number of the
\* opcode where a request has taken the place of the file; only the opcodes of
\* pathops are as small as handles.
HandleAt(p) ==
    CASE cl.mem[p].op = "file" -> {cl.mem[p].h}
      [] cl.mem[p].op = "path" -> Handles \cup {None}
      [] OTHER                 -> {None}

\* fhtab::alloc (): the file is open under the handle, or nothing is.
FhtabAlloc(d, h, f, err) ==
    tab' = [tab EXCEPT ![d][h] = IF err THEN None ELSE f]

\* fhtab::create ().
FhtabCreate(d, m, err) ==
    /\ m.op = "open"
    /\ FhtabAlloc(d, cl.mem[m.fh].h, cl.mem[m.fh].f, err)
    /\ UNCHANGED stale

\* fhtab::lookup (), for a read, a write and the like: a daemon that has not
\* opened the file yet, or has another one under its handle, opens it.
FhtabLookup(d, m, err) ==
    LET h == cl.mem[m.fh].h
        f == cl.mem[m.fh].f
    IN  /\ m.op = "rw"
        /\ IF tab[d][h] = f
           THEN ~err /\ UNCHANGED <<tab, stale>>
           ELSE /\ FhtabAlloc(d, h, f, err)
                /\ stale' = (stale \/ tab[d][h] # None)

\* fhtab::close ().
FhtabClose(d, m, err) ==
    /\ m.op = "close" /\ ~err
    /\ \E g \in HandleAt(m.fh) :
          tab' = IF g = None THEN tab ELSE [tab EXCEPT ![d][g] = None]
    /\ UNCHANGED stale

\* aiosrv::nop () may fail to make the file grow.
AiosrvNop(m) == m.op = "nop" /\ UNCHANGED <<tab, stale>>

\* aiosrv::pathop () may fail, too, which changes nothing but the answer and is
\* left out.
AiosrvPathop(m, err) == m.op = "path" /\ ~err /\ UNCHANGED <<tab, stale>>

\* aiosrv::getmsg (p) at daemon d; the client is in state k without the
\* message.  The error is left in the request.
Getmsg(k, d, p) ==
    LET m == cl.mem[p]
    IN  \E err \in BOOLEAN :
          /\ cl' = [k EXCEPT !.mem[p].err = err]
          /\ reply' = [reply EXCEPT ![d] = Append(@, p)]
          /\ \/ AiosrvNop(m)
             \/ AiosrvPathop(m, err)
             \/ FhtabCreate(d, m, err)
             \/ FhtabLookup(d, m, err)
             \/ FhtabClose(d, m, err)

\* msg_loop (): a daemon takes a request from the common pipe, even when there
\* are messages on its own socket: SIGIO may interrupt the loop after read ().
Take(d) ==
    /\ d \in alive /\ ~cl.closed
    /\ cur[d] = -1 /\ cl.cq # <<>>
    /\ cur' = [cur EXCEPT ![d] = Head(cl.cq)]
    /\ cl' = [cl EXCEPT !.cq = Tail(@)]
    /\ UNCHANGED <<tab, reply, alive, stale>>

\* msg_loop (): the request is carried out, with SIGIO blocked.
Serve(d) ==
    /\ d \in alive /\ ~cl.closed /\ cur[d] # -1
    /\ Getmsg(cl, d, cur[d])
    /\ cur' = [cur EXCEPT ![d] = -1]
    /\ UNCHANGED alive

\* sigio_handler (): a request on the daemon's own socket, also between the
\* read from the pipe and the blocking of the signal.
SigioHandler(d) ==
    /\ d \in alive /\ ~cl.closed /\ cl.rw[d] # <<>>
    /\ Getmsg([cl EXCEPT !.rw[d] = Tail(@)], d, Head(cl.rw[d]))
    /\ UNCHANGED <<cur, alive>>

\* External: a daemon dies, with what it was doing.
Die(d) ==
    /\ d \in alive /\ NDaemons - Cardinality(alive) < MaxDeaths
    /\ alive' = alive \ {d}
    /\ cur' = [cur EXCEPT ![d] = -1]
    /\ UNCHANGED <<cl, tab, reply, stale>>

Next ==
    \/ \E c \in Calls : Call(c)
    \/ Output
    \/ \E d \in Daemons : Input(d) \/ Take(d) \/ Serve(d) \/ SigioHandler(d) \/ Die(d)

\* The event loop of the client serves sockets that can be read, and daemons
\* that run go on (WF_vars (Input (d)) is written out, with Readable for what
\* enables it: TLC is slow at that); nothing makes the application call, or a daemon die.
Fairness ==
    \A d \in Daemons : /\ []<>~Readable(d) \/ []<><<Input(d)>>_vars
                       /\ WF_vars(Take(d)) /\ WF_vars(Serve(d))
                       /\ WF_vars(SigioHandler(d))

Spec == Init /\ [][Next]_vars /\ Fairness

-----------------------------------------------------------------------------
\* The daemons never meet "stale handle on already open file": the comment in
\* fhtab::lookup () has it that only closing a file with requests outstanding
\* could lead there.  Handle numbers are used again, and a daemon that missed
\* a close, or read it from memory that is in use for something else, would.
NoStaleHandle == ~stale

\* Where messages are under way: in the common pipe, in the sockets to the
\* daemons and from them, and at a daemon.
Queues(cq, rw, cu, rp) ==
    [x \in {<<"pipe", 0>>} \cup ({"to", "from", "at"} \X Daemons) |->
       CASE x[1] = "pipe" -> cq
         [] x[1] = "to"   -> rw[x[2]]
         [] x[1] = "from" -> rp[x[2]]
         [] x[1] = "at"   -> IF cu[x[2]] = -1 THEN <<>> ELSE <<cu[x[2]]>>]

\* The places of the messages with position p.
Slots(Q, p) == UNION {{x} \X {i \in 1..Len(Q[x]) : Q[x][i] = p} : x \in DOMAIN Q}

\* How often position p is on its way to a daemon, at one, or coming back.
Copies(p) == Cardinality(Slots(Queues(cl.cq, cl.rw, cur, reply), p))

\* Each message in flight has one callback waiting for it in rqtab and none is
\* forgotten while the daemons live; its buffer is still allocated, and the
\* struct aiod_file of an open, a read or a write is intact.
RequestsHeld ==
    ~cl.closed /\ Sane =>
      \A p \in Pos :
        LET m == cl.mem[p]
            n == Copies(p)
        IN  /\ n <= Len(cl.rqtab[p])
            /\ alive = Daemons => n = Len(cl.rqtab[p])
            /\ n > 0 =>
                 /\ p = cl.bb.tot \/ \E b \in cl.bufs : b[1] = p
                 /\ m.op \in {"open", "rw"} =>
                      LET file == cl.mem[m.fh]
                      IN  /\ file.op = "file" /\ cl.fh[file.f].st \in {"opening", "open"}
                          /\ cl.fh[file.f].no = file.h /\ cl.fh[file.f].pos = m.fh

\* Allocation and release of all buffers, and the growth of the memory, leave
\* the bitmaps of the buddy system exact.
BuddyExact == Sane => Exact(cl.bb, cl.bufs)

\* Whether the buffers that a waiter needs are free.
Fits(w) ==
    CASE w.kind = "path" -> CanAlloc(cl.bb, w.l)
      [] w.kind = "open" -> CanAlloc(cl.bb, 0) /\ CanAlloc(Alloc(cl.bb, 0), w.l)
      [] OTHER           -> CanAlloc(cl.bb, 0)

\* No wakeup is lost: what waits for a buffer in bbwaitq does so because there
\* is none, and because the memory is growing, cannot grow, or failed to.
WaitersLack ==
    ~cl.closed /\ Sane =>
      \A i \in 1..Len(cl.wait) :
        /\ ~Fits(cl.wait[i])
        /\ cl.grow \/ cl.bb.tot = ShmMax \/ "nospace" \in cl.fault

\* The application keeps files open, and call c waits for memory.
Starved(c) ==
    /\ cl.bb.tot = ShmMax /\ \E f \in Calls : cl.fh[f].st = "open"
    /\ \E i \in 1..Len(cl.wait) : cl.wait[i].call = c

\* Every call is answered, also when a daemon dies and the client reads that
\* before it writes to it, unless memory is held by open files, could not grow,
\* or the client is stuck in bufwake () or has called fatal (): again and again
\* no other call is pending.
AioAnswered ==
    []<>(\A c \in Calls : cl.ans[c] # "pending" \/ cl.fault # {} \/ Starved(c))
=============================================================================
