----------------------------- MODULE SignalLoop -----------------------------
(***************************************************************************)
(* Signals in the event loop of async/core.C, one step per access to the   *)
(* variables that the handler sigcatch () shares with the main program:    *)
(* sigdocheck, sigcaught[], selwait and the pipe sigpipes.  sigcatch may   *)
(* interrupt the main program between any two steps; handlers nest but     *)
(* each runs to its end before the main program goes on.                   *)
(*                                                                         *)
(* select may be a library function that reads its timeout argument some   *)
(* time before it sleeps (the comment in sigcatch): the argument is copied *)
(* in a step of its own, and a signal need not interrupt the sleep.        *)
(***************************************************************************)
EXTENDS Naturals

CONSTANTS
    NSig,       \* signals are 1..NSig; the scan of sigcb_check is in order
    PipeCap,    \* capacity of the pipe
    MaxCatch    \* bound: deliveries of a signal

ASSUME SigAssumption ==
    NSig \in Nat \ {0} /\ PipeCap \in Nat \ {0} /\ MaxCatch \in Nat

Sigs == 1..NSig

VARIABLES
    sigdocheck, \* the flag sigdocheck
    sigcaught,  \* the signals with sigcaught[i] set
    handler,    \* the signals with a callback in sighandler[]
    pipe,       \* bytes in the pipe
    selzero,    \* selwait is zero
    sigpc, sig, \* the main program, and the index i of the scan
    second,     \* in sigcb_check called from _acheck, not from fdcb_check
    arg,        \* the timeout select works with is zero
    ready,      \* select found the pipe readable
    ncatch      \* deliveries so far

sigVars == <<sigdocheck, sigcaught, handler, pipe, selzero, sigpc, sig, second,
             arg, ready, ncatch>>

SigPcs == {"enter", "select", "check", "drain", "clear", "scan", "ack", "run", "fd",
        "zero", "test", "set"}

-----------------------------------------------------------------------------
\* Mutant: the handler does not write to the pipe.
PipeWriteNone == pipe

\* The byte sigcatch () writes; a full pipe refuses it.
PipeWrite == IF pipe < PipeCap THEN pipe + 1 ELSE pipe

\* sigcatch (sig), while sigaction has it installed.
Deliver(s) ==
    /\ s \in handler
    /\ sigdocheck' = TRUE
    /\ sigcaught' = sigcaught \cup {s}
    /\ selzero' = TRUE
    /\ pipe' = PipeWrite
    /\ UNCHANGED <<handler, sigpc, sig, second, arg, ready>>

Sigcatch(s) ==
    /\ ncatch < MaxCatch
    /\ ncatch' = ncatch + 1
    /\ Deliver(s)

\* sigcb (sig, cb) and sigcb (sig, NULL), from a callback.
Sigcb(s) ==
    /\ sigpc \in {"run", "fd"}
    /\ handler' \in {handler \cup {s}, handler \ {s}}
    /\ UNCHANGED <<sigdocheck, sigcaught, pipe, selzero, sigpc, sig, second, arg,
                   ready, ncatch>>

\* fdcb_check () calls select, which reads its timeout.
SelectEnter ==
    /\ sigpc = "enter"
    /\ arg' = selzero
    /\ sigpc' = "select"
    /\ UNCHANGED <<sigdocheck, sigcaught, handler, pipe, selzero, sig, second,
                   ready, ncatch>>

\* select returns at once: the timeout is zero or the pipe is readable.
SelectReady ==
    /\ sigpc = "select"
    /\ arg \/ pipe > 0
    /\ ready' = (pipe > 0)
    /\ second' = FALSE
    /\ sigpc' = "check"
    /\ UNCHANGED <<sigdocheck, sigcaught, handler, pipe, selzero, sig, arg,
                   ncatch>>

\* Another descriptor is ready, or the timeout is over.
SelectOther ==
    /\ sigpc = "select"
    /\ ready' = (pipe > 0)
    /\ second' = FALSE
    /\ sigpc' = "check"
    /\ UNCHANGED <<sigdocheck, sigcaught, handler, pipe, selzero, sig, arg,
                   ncatch>>

\* A signal interrupts select: EINTR, and fdcb_check () looks at no
\* descriptor.  Its handler has run, so sigdocheck is set.
SelectEintr ==
    /\ sigpc = "select"
    /\ sigdocheck
    /\ ready' = FALSE
    /\ second' = FALSE
    /\ sigpc' = "check"
    /\ UNCHANGED <<sigdocheck, sigcaught, handler, pipe, selzero, sig, arg,
                   ncatch>>

\* Where sigcb_check () returns to: fdcb_check () or _acheck ().
AfterCheck == IF second THEN "zero" ELSE "fd"

\* sigcb_check (): the test of sigdocheck.
CheckTest ==
    /\ sigpc = "check"
    /\ sigpc' = IF sigdocheck THEN "drain" ELSE AfterCheck
    /\ UNCHANGED <<sigdocheck, sigcaught, handler, pipe, selzero, sig, second,
                   arg, ready, ncatch>>

\* One read () of the pipe, up to 64 bytes; the loop ends at an empty pipe.
Drain ==
    /\ sigpc = "drain"
    /\ pipe' = IF pipe > 64 THEN pipe - 64 ELSE 0
    /\ sigpc' = IF pipe > 0 THEN "drain" ELSE "clear"
    /\ UNCHANGED <<sigdocheck, sigcaught, handler, selzero, sig, second, arg,
                   ready, ncatch>>

\* Mutant: the scan starts at the second signal.
FirstSigOffByOne == 2

\* for (int i = 1; i < nsig; i++)
FirstSig == 1

\* sigdocheck = 0 comes after the last read and before the scan.
Clear ==
    /\ sigpc = "clear"
    /\ sigdocheck' = FALSE
    /\ sig' = FirstSig
    /\ sigpc' = "scan"
    /\ UNCHANGED <<sigcaught, handler, pipe, selzero, second, arg, ready,
                   ncatch>>

\* The loop test and the test of sigcaught[i].
ScanTest ==
    /\ sigpc = "scan"
    /\ IF sig > NSig THEN sigpc' = AfterCheck /\ sig' = sig
       ELSE IF sig \in sigcaught THEN sigpc' = "ack" /\ sig' = sig
       ELSE sigpc' = "scan" /\ sig' = sig + 1
    /\ UNCHANGED <<sigdocheck, sigcaught, handler, pipe, selzero, second, arg,
                   ready, ncatch>>

\* Mutant: the flags of all signals are cleared with the first.
AckedAll == {}

\* sigcaught[i] = 0
Acked == sigcaught \ {sig}

\* sigcaught[i] = 0, then the callback, if there still is one.
Ack ==
    /\ sigpc = "ack"
    /\ sigcaught' = Acked
    /\ IF sig \in handler THEN sigpc' = "run" /\ sig' = sig
       ELSE sigpc' = "scan" /\ sig' = sig + 1
    /\ UNCHANGED <<sigdocheck, handler, pipe, selzero, second, arg, ready,
                   ncatch>>

RunReturn ==
    /\ sigpc = "run"
    /\ sigpc' = "scan"
    /\ sig' = sig + 1
    /\ UNCHANGED <<sigdocheck, sigcaught, handler, pipe, selzero, second, arg,
                   ready, ncatch>>

\* sigcb_set_checkbit (), if the pipe was readable.
Checkbit == IF ready THEN TRUE ELSE sigdocheck

\* fdcb_check () runs the callback of the pipe, sigcb_set_checkbit (), and
\* _acheck () calls sigcb_check () a second time.
FdCallbacks ==
    /\ sigpc = "fd"
    /\ sigdocheck' = Checkbit
    /\ second' = TRUE
    /\ sigpc' = "check"
    /\ UNCHANGED <<sigcaught, handler, pipe, selzero, sig, arg, ready, ncatch>>

\* timecb_check () computes the next wait: zero it, test the flag, set it.
SelwaitZero ==
    /\ sigpc = "zero"
    /\ selzero' = TRUE
    /\ sigpc' = "test"
    /\ UNCHANGED <<sigdocheck, sigcaught, handler, pipe, sig, second, arg, ready,
                   ncatch>>

SelwaitTest ==
    /\ sigpc = "test"
    /\ sigpc' = IF sigdocheck THEN "enter" ELSE "set"
    /\ UNCHANGED <<sigdocheck, sigcaught, handler, pipe, selzero, sig, second,
                   arg, ready, ncatch>>

SelwaitSet ==
    /\ sigpc = "set"
    /\ selzero' = FALSE
    /\ sigpc' = "enter"
    /\ UNCHANGED <<sigdocheck, sigcaught, handler, pipe, sig, second, arg, ready,
                   ncatch>>

-----------------------------------------------------------------------------
\* ainit () has made the pipe and installed the SIGCHLD handler (signal 1),
\* and called sigcatch (SIGCHLD) for children that died before.
SigInit ==
    /\ sigdocheck = TRUE /\ sigcaught = {1} /\ handler = {1}
    /\ pipe = 1 /\ selzero = TRUE
    /\ sigpc = "zero" /\ sig = 1 /\ second = TRUE /\ arg = TRUE /\ ready = FALSE
    /\ ncatch = 0

\* The main program without the callbacks' calls of sigcb ().
MainStep ==
    \/ SelectEnter \/ SelectReady \/ CheckTest \/ Drain \/ Clear \/ ScanTest
    \/ Ack \/ RunReturn \/ FdCallbacks \/ SelwaitZero \/ SelwaitTest \/ SelwaitSet

SigNext ==
    \/ MainStep \/ SelectOther \/ SelectEintr
    \/ \E s \in Sigs : Sigcatch(s) \/ Sigcb(s)

SigSpec == SigInit /\ [][SigNext]_sigVars

\* The main program runs; nothing but a signal need ever wake select.
SigFairSpec == SigSpec /\ WF_sigVars(MainStep)

-----------------------------------------------------------------------------
\* Every variable keeps its type.
SigTypeOK ==
    /\ sigdocheck \in BOOLEAN /\ sigcaught \subseteq Sigs
    /\ handler \subseteq Sigs
    /\ pipe \in 0..PipeCap /\ selzero \in BOOLEAN /\ sigpc \in SigPcs
    /\ sig \in 1..(NSig + 1) /\ second \in BOOLEAN /\ arg \in BOOLEAN
    /\ ready \in BOOLEAN /\ ncatch \in 0..MaxCatch

\* A caught signal is never forgotten: until its callback is about to run,
\* sigdocheck is set or the scan under way has not yet passed it.
NoLostSignal ==
    \A s \in sigcaught :
        \/ sigdocheck
        \/ sigpc \in {"scan", "ack"} /\ sig <= s
        \/ sigpc = "run" /\ sig < s

\* The program never sleeps on a caught signal: when select works with a
\* nonzero timeout although a signal was caught (the handler zeroed selwait
\* too early or too late), the pipe is readable and ends the sleep.
NoSleepOnSignal ==
    sigpc = "select" /\ sigcaught # {} => arg \/ pipe > 0

\* Why: a flag raised after timecb_check () tested it has its byte in the
\* pipe until sigcb_check () looks at the flag again.
WakeInv ==
    /\ sigpc = "test" => selzero
    /\ sigdocheck => /\ sigpc = "set" => pipe > 0
                     /\ sigpc = "enter" => selzero \/ pipe > 0
                     /\ sigpc = "select" => arg \/ pipe > 0

\* The callback of every caught signal eventually runs, unless the program
\* takes the callback back; no other event is needed to wake the loop.
SignalServed ==
    \A s \in Sigs :
        s \in sigcaught ~> (sigpc = "run" /\ sig = s) \/ s \notin handler

=============================================================================
