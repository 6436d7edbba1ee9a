# Verification of sfslite

sfslite is the asynchronous programming library of the SFS file system: an
event loop with callbacks (`async`), ONC RPC over it (`arpc`), the run time of
the tame language (`libtame`), cryptography (`crypt`), and the parts of SFS
that clients and servers share (`sfsmisc`, `libsfs`).  This directory holds
TLA+ models of the parts in which order, reentrancy and failure matter, the
TLC runs that check them on small instances, and TLAPS proofs.

Everything runs in one thread.  A component keeps its state in objects and
static variables, is entered by a call or by a callback from the event loop,
and gives control away by calling a callback of its user, which may enter the
component again.  Only signal handlers interrupt the program, and only the file I/O daemons run
beside it.  So the hard
cases are seldom data races but reentrancy (a scan whose callbacks change what
is scanned), stale values (a wait, a clock, a cursor computed before a callback
and used after it), completions that are lost or repeated, timeouts that race
with answers, and connections that break and resume.

## Inventory

| component | state | operations | interacts through | what makes it correct |
|---|---|---|---|---|
| event loop (`async/core.C`, `itree`) | tree of timers, list of lazy callbacks, two lists of yield callbacks, `selwait` | `timecb`, `delaycb`, `timecb_remove`, `lazycb`, `yieldcb` and their removals, `acheck`, `amain` | callbacks, `select` | no scan follows a deleted object; a pass runs every expired timer, in order; the loop does not sleep through a timer |
| clock cache (`async/litetime.C`) | `_tsnow`, `_need_refresh`, `_left_sel_loop` | `sfs_get_tsnow`, `sfs_set_global_timestamp`, `sfs_leave_sel_loop` | read by the loop | a time read after a barrier is not older than the barrier |
| signals (`async/core.C`) | `sigdocheck`, `sigcaught[]`, the pipe, `selwait` | `sigcatch`, `sigcb`, `sigcb_check` | shared variables, the pipe | no caught signal is forgotten or slept on |
| children (`async/core.C`, `spawn.C`) | tables `chldcbs`, `zombies` | `chldcb`, `chldcb_check`, `afork`, `spawn` | SIGCHLD | each exit status goes to one callback, and to that of its own child unless the number was used again too early |
| selectors (`async/select_*.C`) | callbacks by descriptor and direction | `fdcb`, `fdcb_check` | the kernel | only registered callbacks run |
| retransmission (`async/backoff.h`) | one queue for each number of transmissions, one timer for each queue | `start`, `remove`, `tcb`, `runq` | timers | every queued call is sent again or times out |
| RPC client (`arpc/aclnt.C`) | outstanding calls, by xid | `call`, `timedcall`, `cancel`, `dispatch`, `seteof`, resume | transport, callbacks | one completion for each call, never after cancel |
| RPC server (`arpc/asrv.C`) | calls in progress, cached replies | `dispatch`, `reply`, `reject`, `ignore`, `seteof`, `resume` | transport, callbacks | a repeated call is not executed again; a reply is kept until it arrived |
| stream transport (`arpc/axprt_pipe.C`, `xhinfo.C`) | input buffer, output queue, descriptors, receive callback | `setrcb`, `sendv`, `input`, `output`, `fail`, `xon` | descriptors, the receive callback | packets in order, one EOF, after them |
| resumable sessions (`sfsmisc/rexchan.C`) | which transport, whether resumed | `resume`, `resumed` | RPC client and server | at-most-once calls across connections |
| named locks (`libtame/lock.T`, `tame_nlock.Th`) | mode, number of readers, queue, table of locks | `acquire`, `timed_acquire`, `cancel`, `release` | events, timers | exclusion; nobody is forgotten; no lock outlives or is outlived by its handles |
| rendezvous, events (`libtame/tame_rendezvous.h`, `tame_event.h`) | pending values, events out, the waiting closure | `mkevent`, `trigger`, `join`, `cancel` | closures | each trigger joins once, none after cancel; `tame_error` complains of misuse only |
| pipelines (`libtame/pipeline*.T`) | operations out, the window | `launch`, `run`, `wait_n` | rendezvous | the window is kept, nobody waits for ever |
| file I/O (`async/aio.C`, `aiod.C`, `bbuddy.C`) | shared memory and its buddy system, requests by position, waiters for memory, file handles; in each daemon the files open under handles | `pathop`, `open`, `rw`, `close`, `bufalloc`, `bufwait`, `bufwake`, `input`, `fail`; `getmsg`, `sigio_handler` | messages and shared memory between processes | one answer for each call, also when the client reads that a daemon has died; buffers in use are allocated; a handle means one file in every daemon |
| other transports (`axprt_dgram`, `axprt_unix`, `clone`, `axprt_crypt`) | descriptors, descriptors to pass, keys | `sendv`, `setrcb` | kernel | as the stream transport |

The compilers (`rpcc`, `arpcgen`, `tame`), cryptography, containers, the SFS
key and account management, NFS translation, the blocking C library, tools,
tutorial and tests are listed in `PROJECT.json` with the reason why they are
not modelled: they are batch programs, sequential data structures, arithmetic
beyond a model checker, or protocols apart from the run time.  `PROJECT.json`
also lists the hazards, each at its line, with the properties that cover it.

## Plan

The modules were written in this order; all exist.

1. `TimerQueue`, `EventLoop`: the loop everything else depends on.
2. `SignalLoop`, and on it `Children`: the only preemptive part.
3. `TameLock`: a client of the timers whose correctness depends on the order of
   one timer pass; it composes the lock with the tree of timers.
4. `UnreliableRpc`: client, retransmission queues, network and server together.
5. `AtMostOnceRpc`: what a session promises, as an abstract specification;
   `ResumableRpc`: client, server, two directions of a transport and the resume
   handshake together, shown to implement it.
6. `PipeTransport`: packet framing, failure and flow control; `StreamRpc`: a
   client and a server with delayed EOF on top of it.
7. `Rendezvous`, and on it `TamePipeline`: events, connectors and the window.
8. `Buddy`, and on it `AsyncIo`: shared memory, client and daemons.

What could follow: `acheck ()` from a callback in `EventLoop`; descriptors
passed by `axprt_unix`; `pipeline3` and `tame_redundant`; the attribute cache.

The proofs followed the same order: a module of proofs for each of these models
(`CoreProofs` has those of the event loop, the signals and the children,
`AsyncIoProofs` those of the buddy system too), with `Lists` and `ListsProofs` for
what several of them share.

## Modules

A definition has the name of the function it models, or one derived from it;
`PROJECT.json` gives the lines.  Operators whose comment begins with "Mutant"
are plausible errors in the operator that follows them.  They are not used by
any specification: put in its place, each is found by a property.

**TimerQueue, EventLoop.**  `TimerQueue` is the tree of timers as a set with
the order of `itree_insert` (by expiry, equal ones in order of insertion).
`EventLoop` has one action for each call of a user (`Delaycb`, `TimecbRemove`,
`Lazycb`, ...), possible in `main ()` and in every callback, and one for each
stage of a scan: the test of the loop and the call of a callback (`TimeRun`),
its return (`TimeReturn`), the end of the pass (`TimeDone`), and the same for
lazy callbacks, descriptors and yields.  Callback objects are addresses that
the allocator may use again.  The cached clock is part of the module, because
which reads really go to the system clock decides what the loop waits for.
Descriptors are reduced to the number of callbacks after a `select`.

**Lists.**  The linked lists of `async/list.h` as sequences: removing one
element (`Without`) or keeping those of a set (`Keep`), in the order of the
list.  The definitions name positions instead of recurring, so that `ListsProofs`
can prove what they preserve.

**SignalLoop.**  One step for each access of the main program to what it shares
with `sigcatch`; `Sigcatch` may come between any two.  `select` copies its
timeout in a step of its own and a signal need not interrupt it, as the comment
in `sigcatch` allows for.  Two calls of `sigcb_check` in an iteration
(`second`), `EINTR` and the pipe that is full are modelled.

**Children.**  Extends `SignalLoop`: signal 1 is SIGCHLD, its callback
`chldcb_check`, one step for each `waitpid`.  Children exit at any moment, even
before their `chldcb`; exits merge into one flag.  Programs register a child in
the callback that forks it (`Spawn`, as `tinetd` does), later, with
`g_zombie_collect` (`SpawnLate`), or never (`SpawnUnregistered`).  The system uses
a process number again as soon as `waitpid` has reaped it, whatever `chldcbs` and
`zombies` still hold under it; the numbers for which that happened are in `mixed`.

**TameLock.**  A client is in one of five states, from no handle to a released
one.  `Acquire` is the table's `acquire` and `timed_acquire`, `ReleaseTo` all of
`lock_t::release` with the grants it makes.  Readers are resumed by `dtrigger`,
a timer of zero delay; these timers and the timeouts are run by the pass of
`timecb_check`, restarts included, since the order of the two kinds within one
pass decides who wins.  `cancel` on a waiter that was deleted is counted in
`stale` and otherwise changes nothing, the mildest outcome.

**UnreliableRpc.**  Calls with `tmoq` on one side, `asrv_unreliable` on the
other.  Times are kept as what is left of them, so the clock has no bound.  The
network is two sets of datagrams that never shrink: losing is never
delivering, repeating is delivering again, and all orders are possible.

**AtMostOnceRpc, ResumableRpc.**  The client (`aclnt_resumable`), the server
(`asrv_resumable`), the messages under way in both directions, those of a
broken connection that the server still reads (`oldc2s`), and
`rexsession::resume`.  An offset counts messages instead of bytes.  `Ping` is
a call of the server to the client; its answer carries the acknowledgement
from which `sendreply` knows what arrived.  `AtMostOnceRpc` sees one thing of a
call, its phase: new, called, executed, answered.  The refinement mapping
(`Service == INSTANCE AtMostOnceRpc WITH phase <- ...`) computes it from the
state of the client and the number of executions; a second execution is no
phase, so that it breaks the refinement.

**PipeTransport.**  Lengths are in units of four bytes; a packet is a header
and its units, `AllUnits` is what the peer's `sendv` writes for a stream of
packets, and `read` returns any number of them, 0 or an error.
`callgetpkt` is its loop: a packet, the callback of that packet (during which
receiving is turned off and on and sends fail), the end of the loop.  The EOF
is told by `fail` or, inside `callgetpkt`, at its end.

**StreamRpc.**  Extends `PipeTransport` with what `xhinfo::dispatch` does to one
client and one server.  `seteof` is a walk (`walk`, `rb`) of one step for each
call that is finished, nested in the step that made the transport fail: a
packet's callback, the write of a call or of a reply, output.  The callbacks of
the walk call, cancel and reply (those of a walk that a too short packet started
only return).  `asrv_delayed_eof` counts the calls it serves
and keeps the EOF back until the last is replied to.

**Rendezvous, TamePipeline.**  `Rendezvous` has the operations of `rendezvous_t`
on a record, with `_n_events` as an unsigned integer.  `TamePipeline` has `run`,
`launch` and `wait_n` of `pipeliner_t`, and for every operation a timeout
connector, itself a closure with a rendezvous for its timer, its result and the
notice that the operation cancelled its event.  (`do_pipeline` itself adds no
connector: that its operations have one is an assumption on the application.)  The
event an operation holds is alive, cancelled or cleared, and `can_trigger`'s
complaints, in strict mode and not, are in `errors`: an operation may trigger after
its timer, or twice.  Triggers resume the closure
that waits in the same step, as the code does.

**Buddy, AsyncIo.**  `Buddy` is `bbuddy` on a record, a bitmap being the set of
its bits.  `AsyncIo` has the client as one record, and each handler of the
client as a function from record to record, because handlers call each other:
`bufwake` runs waiters that allocate, free and wait again.  Since every `Free`
is the last thing its handler does, or happens with `bufwakelock` held, the
waiters run at the end of the handler (`Settle`).  The daemons are processes:
`Take` a message from the common pipe, `Serve` it, or run `SigioHandler` for one
on the own socket, before or after a message from the pipe.  What they read of requests and files they read from
shared memory when they serve, and memory that was freed keeps its content until
it is used again; a request read as a file gives its opcode for a handle.
Sizes are in units of the smallest block, 2^l of them for level l.  The rounds of
`bufwake`, the waiters of a round and the responses of a read are taken one after
another by `Steps`, a recursive function that proofs can unfold; `fail` takes the
requests in the order of their positions.  `fault` records four conditions in
which the client does not go on: `spin`, `dangling`, `nospace`, `fatal` (below).
A message to a daemon that has died makes `writeq::sendmsg`, or `output` if it had to
wait, call `fatal` (`Written`, `Output`).  Not modelled are calls that the application
makes inside a callback, and buffers that it allocates itself (`iobuf`).

## Runs

`expect: pass`:

| run | bounds | shows |
|---|---|---|
| `eventloop_timers` | 3 timers, 4 insertions, delays 0 to 2, clock to 3 | `CursorLive`, `PassComplete`, `FifoAmongEquals`; with timers only also `BarrierHonoured` |
| `eventloop_mixed` | 1 timer inserted 3 times, 2 lazy and 1 yield callback, clock to 2 | `LazyCursorLive`, `LazyPassBounded`, `YieldPassBounded`, and `TimersServed`: no scan starves the timers |
| `signal` | 2 signals, one of them SIGCHLD, 1 delivery from outside, a pipe of 1 byte, 2 process numbers, one used twice | `NoLostSignal`, `NoSleepOnSignal`, `SignalServed`; `StatusExact` and `ChildrenReaped` |
| `tamelock` | 3 clients that ask again and again, writers with timeouts and cancellations | `Exclusion`, `CountExact`, `AssertionsHold`, `ReadersServed` |
| `unreliable_rpc` | 2 calls (one with `timedcall`), 3 transmissions, a cache of 1 reply | `QueuesExact`, `NoEarlyReexecution`, `CallsEnd` |
| `resumable_rpc` | 3 calls, 2 connections, 2 calls from the server | `NoReplyLost`, `ImplementsAtMostOnce`, `CallsAnswered` |
| `stream` | 4 streams of 4 or 5 packets, 3 calls, a buffer of 6 units | `InOrder`, `NothingWaits`, `EofLast`, `EofReported` of the transport; `CallsFailed` of the client; `ServerToldOnce`, `ServerTold` of the server |
| `pipeline` | 4 operations, a window of 2, strict mode and not | `WindowKept`, `DoneExact`, `OneAfterCancel`, `TameErrorsJustified`, `PipelineEnds` |
| `aio` | 2 daemons, 4 calls, 4 units of memory that grow from 0 in two steps, 1 death | `NoStaleHandle`, `RequestsHeld`, `BuddyExact`, `WaitersLack`, `AioAnswered` |

Why the bounds are enough.  Three timers are the one that runs, its saved
successor and one queued or removed behind the loop's back; four insertions
let an address be used again.  Two lazy callbacks let one remove the other.
Two signals, of
which one is caught while the other is scanned or served, and a pipe that is
full with one byte reach each branch of the handler; one process number used
twice lets a status that was kept meet a new child.  Three
clients are a holder, a waiter and one that arrives in between.  A cache of one
reply is full at once, and three transmissions pass through an inner queue
and the last one.  A call can be executed on one connection and replayed on
the next while a new call overtakes it.  The buffer of the pipe holds two of
the short packets, so packets end before, at and after the end of a read; the
three calls are the one that fails, its saved successor and one its callback
makes or cancels.  Four operations fill a window of two and leave two that
wait for it, and one to start after a cancellation.  Four calls are enough to
open a file, close it, open another under the same handle and read it, and to
hold all memory while others wait for it; two daemons let a close reach one
before the other.  The buddy system of `aio` has two sizes of blocks; splitting and
joining over several levels, and the pipe that no daemon reads any more, are only in
the proofs.

`expect: violation`, the disagreements found while modelling:

- `tamelock_timeout`: a reader is granted the lock by a delayed trigger; its
  timeout, due in the same pass, comes first and cancels a deleted waiter.  The
  reader stays counted and the last handle destroys a lock that is not open,
  against the assertion of `decref`.
- `resumable_rpc_sndbuf`: `known_received` subtracts the kernel's send buffer
  from the bytes given to `sendv`, which counts what is still queued in the
  process: replies that never left are evicted.  `resumable_rpc` therefore has
  no known send buffer (`SndBuf = 0`).
- `aio_libtame`: libtame's `aiofh_t::close` lets go of the `aiofh` as soon as it
  has called `close`.  The buffer that the close requests refer to is freed and
  becomes the next `open`'s request before a daemon reads it; that daemon closes
  nothing, the handle number is used again, and it finds the first file still open
  under it: the stale handle that the comment in `fhtab::lookup` excludes (the daemon
  warns and opens the file anew).  `aio` has applications that keep the
  `aiofh` until `close` has called back (`Careful`).

The models reach more that has no run of its own, because no text of the
repository says otherwise, or to keep the number of runs small:

- A timer queued by a yield or lazy callback is not covered by the `selwait`
  that `timecb_check` computed before: `select` may sleep past it.  No property
  speaks of it; `TimersServed` needs only that `select` returns.
- With `g_zombie_collect` a status that nobody asked for stays in `zombies`; when the
  system uses the number again, `chldcb` for the new child calls back at once with the
  old one's status (`core.C:233`).  `StatusExact` confines that to such numbers.
- With a lazy callback registered, `lazycb_check` reads the clock before
  `select` and clears `_left_sel_loop`; after a `select` that times out
  `timecb_check` works with the old time, against the comment on
  `sfs_set_global_timestamp` (`litetime.C:312`), and `BarrierHonoured` is
  violated.
- A call made between `pre_resume` and `post_resume` reaches the server before
  the replays and makes it evict their replies: with `EarlyCalls = TRUE`
  `ImplementsAtMostOnce` is violated.
- `Callgetpkt` ends in `pktlen_failed`: a packet of the largest length that
  `checklen` and `sendv` allow, read in pieces, fails
  `assert (pktlen < pktsize)`.  The streams of `stream` have none.
- `XonEof` ends in `xon_failed`: `xhinfo::xon` asserts what `lookup` does not
  give for a transport at EOF.
- `RecvUnavail` ends in `sendv_panic`: a call that `asrv::dispatch` refuses, from
  the buffer of a transport whose write has just failed.
- The walk of `aclnt::fail` ends in `dangling` when a callback cancels the call
  whose address was saved.
- After `RecvGarbled`, a header that cannot be decoded, the server has been told
  of an EOF but is given further calls, and is told again.  `ServerToldOnce`
  excepts it.
- After an EOF for a packet that is too short, the descriptors stay open and
  calls made later are never answered.  `CallsFailed` excepts it.
- `spin` in `AsyncIo`: `open` gets one of two buffers, waits, and gives it back;
  that wakes `open` itself, and `bufwake` goes round forever, without the event
  loop that would read the answers of the daemons.
- `dangling` in `AsyncIo`: `~aiofh` after a failed `open` finds no buffer for the
  close request and queues a reference to the object that is being destroyed.
- `fatal` in `AsyncIo`: a daemon has died, and before the client reads the end of
  file it closes a file (or, when all are dead, makes any call): the write fails and
  ends the client (`aio.C:83`; "should make aiod fail", says `aio.C:65`).
- `nospace` in `AsyncIo`: growing the memory fails, `growlock` is cleared, and
  those that wait are neither woken nor is the growth tried again.
- `open` on an aiod that has failed calls back with no file and error 0
  (`"nothing"` in `Open`), and so does `mkdir` report success.

## Fairness

`EventLoop`: weak fairness of the loop's own steps (a callback returns, the
loop goes on) and strong fairness of the clock, which advances in the callbacks
and waits between which the loop moves.  `SignalLoop`: weak fairness of the
main program only; neither signals nor other events that would end a `select`
are assumed.  `TameLock`: the loop runs its timers; holders release in the end
(strong fairness, a promise of the clients, without which no lock serves
anyone).  `UnreliableRpc`: timers run and time passes; nothing is assumed of
network or server.  `ResumableRpc`: both sides go on, replies are given and a
lost session is resumed; breaks are bounded by the number of connections.
`PipeTransport` and `StreamRpc`: input, `callgetpkt`, the walk and output go on;
nothing is assumed of the receiver, so `EofReported` excepts one that stays off
or is turned off again and again.  `Children`: as `SignalLoop`.
`TamePipeline`: closures run on, and timers fire; nothing is assumed of the
operations.  `AsyncIo`: the event loop reads sockets that are readable, a daemon
that lives serves what it can; the application need not call anything, so
`AioAnswered` excepts calls that wait for memory while files are open, and a client
that does not go on (`fault`).

Deadlock is checked except in `resumable_rpc`, `stream`, `pipeline` and `aio`,
where the calls of the model come to an end.

## Proofs

Every safety property of the passing runs is a theorem, for all values of the
constants; so are the types of `EventLoop` and `SignalLoop`.  Few of the properties are inductive as they stand.  The invariants
that are:

| module | theorems | inductive invariant |
|---|---|---|
| `CoreProofs` | `CursorLive`, `PassComplete`, `FifoAmongEquals` | `TimerInv` |
| | `LazyCursorLive`, `YieldPassBounded` | types |
| | `LazyPassBounded` | `SpentInv` |
| | `BarrierHonoured` | `BarrierInv` |
| | `NoLostSignal`, `NoSleepOnSignal`, for `SigSpec` and for `ChildSpec` | `WakeInv` |
| | `StatusExact` | `GoneInv`, `TableInv` |
| `TameLockProofs` | `Exclusion` | `ModeInv` |
| | `CountExact`, `AssertionsHold` | `LockInv` |
| `UnreliableRpcProofs` | `QueuesExact`, `NoEarlyReexecution` | `QueueInv`, `ReplayInv` |
| `ResumableRpcProofs` | `NoReplyLost`, `ImplementsAtMostOnce` | `SessionInv` |
| `StreamRpcProofs` | `InOrder`, `NothingWaits`, `EofLast` | `PipeInv` |
| | `ServerToldOnce`, `CallsFailed` | `RpcInv` |
| `TamePipelineProofs` | `WindowKept`, `DoneExact`, `OneAfterCancel`, `TameErrorsJustified` | `IInv` |
| `AsyncIoProofs` | `BuddyExact`, `WaitersLack` | `ClientInv` |
| | `RequestsHeld`, `NoStaleHandle` | `RequestsInv`, with `ClientInv` |

**Event loop.**  `CursorLive` says nothing of the timers the pass has still to
run.  `TimerInv` adds that the cursor (`tp` at the test of the loop, `ntp` in a
callback that removed nothing) is in the tree, that no timer this pass owes a
run lies before it, that it is the oldest of its expiry, and that order of
insertion is a total order.  Lemmas say what the first and the next element of
the tree are (`LeftmostExists`, `FirstInProp`, `NextInType`).  `BarrierInv`
follows the flag `_left_sel_loop` round the loop: from the top of `_acheck` to
`select` it is set, and after `select` it is set or the clock has been read.
`BarrierHonoured` is proved for `Lazies = {}`: with a lazy callback it does not hold
(above).  A pass of `lazycb_check` starts again at the head of the list when its
callback removes one; `SpentInv` says that what it has called, and what its callbacks
have registered, is due after the time that the whole pass works with.

**Signals and children.**  A flag raised after `timecb_check` tested it has its
byte in the pipe until `sigcb_check` looks again (`WakeInv`).  A step of
`Children` is for the signal loop a step of its own, a stutter or the SIGCHLD of
an exit (`ChildStepIsSignalStep`), so the invariant carries over.  `GoneInv`: a
status that has reached a callback is neither in `zombies` nor that of a child the
system knows.  `TableInv`: unless a number was used again too early, `zombies` has
the status of its latest child only, and a `chldcb` that is still to come is the only
one; without `g_zombie_collect` neither occurs.

**Locks.**  `Exclusion` needs only that `_mode` says who may have the lock and
that `_sharers` counts no reader too few (`ModeInv`), and holds whatever is
cancelled.  `CountExact` and `AssertionsHold` are proved for
`"SHARED" \notin CancelModes`, since a cancelled reader breaks them (run
`tamelock_timeout`).  `LockInv` relates the queue, the timers of zero delay, the
timeouts and the cursor of the pass to the state of each client: a reader has a
timer of zero delay exactly if it was granted the lock and not yet resumed, no
reader queues behind readers, and a timeout is one of a writer that is queued.

**RPC over datagrams.**  In `QueueInv` a timer that was made for a call that has
left is still early enough for the calls that came later, because a call waits
no longer than its queue's delay.  `ReplayInv` bounds the replies behind a
cached one by the number cached since it was sent.

**Resumed sessions.**  `NoReplyLost` looks at the server's table only; why
nothing in it is evicted too early depends on the order of messages in both
directions.  The client's list has the calls that the server has seen before the
others (`CallsInv`), and the stream repeats them in that order, before any new
call and any acknowledgement (`StreamInv`); a reply of an earlier connection that
the client lacks is asked for again before a new call arrives (`EvictInv`); a
reply sent before a ping is ahead of it or received (`PingInv`).  From this
`ImplementsAtMostOnce` follows: executing (`RecvNew`) a call that was executed
before is impossible, and each step changes one phase or none.  Hypotheses are
`SndBuf = 0` and `~EarlyCalls`; without the first, run `resumable_rpc_sndbuf`
loses a reply, without the second `ImplementsAtMostOnce` is violated (above).

**Stream transport, client and server.**  `InOrder` needs to know that what is
in the buffer and on the wire begins with a packet, and that exactly the packets
before it were delivered (`AlignInv`); lemmas compute where the units of a packet
are in the stream (`UnitAt`, `StartFacts`) and that a packet taken from the
buffer leaves the rest aligned (`ConsumeAligned`).  The steps of the client and
the server are reduced to a few kinds of steps of the transport
(`StepsOfTransport`), also where they make it fail inside a callback.
`RpcInv` says that the walk of `fail` over the calls of a closed transport always
stands on the first call of the list, unless a callback cancelled it, and that
the server has been told exactly if it knows of the EOF and serves nothing.

**Pipelines.**  The rendezvous has an event for each operation that goes on,
counts them exactly, since only rendezvous of connectors are cancelled, and
together with the values not yet consumed they stay within the window (`RvInv`);
what can still trigger belongs to
an operation that has not answered (`OpInv`).  `FlagInv` relates the event that an
operation holds to how it ended: alive means not yet, cancelled by the timer, cleared
in time; so `can_trigger` finds a cancelled event only where the timer won.

**File I/O.**  A handler of the client is a function, so the proof follows its
calls: there is a lemma for each function (`BufallocGood`, `OpenGood`, ...), which
says that it maps the set `Good` of client states into itself, and a step of the
system is a composition of them.  Where a function is folded over waiters,
callbacks or responses (`Steps`), the states on the way are a function on
`0..Len (s)` (`StepsExist`), and a property that each step keeps holds of all of
them (`StepsStay`, `Throughout`): an induction over a number, done with the least
number at which the property fails.

In `Good`, the blocks of the buddy system, free ones and allocated ones, tile the
memory, and none is free next to its free buddy (`BuddyInv`).  `alloc` takes a
block and frees the second halves of a chain of halves, `dealloc` frees a block
and takes the buddies along such a chain; a chain and its first block cover the
same units (`ChainUnits`, `ChainDisjoint`), so both exchange blocks of a tiling
for others with the same units (`Retile`).  Also in `Good`, whoever waits lacks
memory, unless `bufwake` is still to come (`NobodyPassedOver`): what lacked memory
still does after an allocation, and each `Free` with waiters asks for a round.

`RequestsHeld` and `NoStaleHandle` are proved for applications that are `Careful`;
without that they do not hold (run `aio_libtame`).  The invariant `Held` has seven
parts: the `struct aiod_file` of each live `aiofh` is allocated and intact
(`FilesOK`); each handle number is a live file's or is available, once
(`NumbersOK`); a request of each kind has its buffer, its file in the right state
and as many callbacks as answers are to come (`RequestsOK`); a close in `bbwaitq`
has its file for itself (`WaitersOK`); memory never handed out is a NOP
(`MemoryOK`); messages and callbacks correspond (`CountOK`, which counts places in
queues); and a file that is open in a daemon is live and under its number there, a
close of it has yet to reach that daemon, and an open of it has been answered
without an error (`TabOK`).  The last part carries `NoStaleHandle`:
a number is available again only after the last of the closes was answered, so
after no daemon has a file under it.  The parts are stated with the waiters that
a round of `bufwake` has still to run and the responses that `input` has still to
read as parameters, because both are in local variables of the handlers.

**Lists.**  `ListsProofs` proves of `Keep`, `Without`, appending, concatenating
and inserting which elements the result has, that none is repeated, and that the
order stays; the proofs about locks, calls, cached replies and packets use it.

The assumptions are those named in the modules: `Nil` is no callback object or
call, times and bounds are natural numbers, the clock may advance, there is a
signal and the pipe holds a byte, a call is sent at least once, sets of calls and
clients are finite, messages of the session protocol are no calls, a read can
take something, a pipeline's operations do not overflow an unsigned integer, the
shared memory is a whole number of the largest blocks, and there are at least two
file I/O daemons.

Only model-checked are the liveness properties `TimersServed`, `SignalServed`,
`ChildrenReaped`, `ReadersServed`, `CallsEnd`, `CallsAnswered`, `EofReported`,
`ServerTold`, `PipelineEnds` and `AioAnswered`: the prover has no fairness and no
`ENABLED`.

## Not modelled

The epoll and kqueue selectors, the reuse of descriptor numbers within a scan,
nested `acheck ()`, the mmap clock daemon; marshalling; channels of rex; cloned
and encrypted transports and passed descriptors; implicit rendezvous and
collected closures; `pipeline3`, `tame_redundant`, producer-consumer queues;
directory handles of aiod (they mirror file handles, comparing paths), a single
daemon (`msg_loop_simple`) and `aios.C`; and the components that `PROJECT.json`
lists as `not_modelled`, with the reason there.

## Running

    tlc -config MCEventLoopTimers.cfg MCEventLoop
    tlapm CoreProofs.tla

and likewise for the other runs of `PROJECT.json` and the other modules whose
name ends in `Proofs`.
