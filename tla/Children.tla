------------------------------ MODULE Children ------------------------------
(***************************************************************************)
(* Child processes (chldcb and chldcb_check of async/core.C, afork and     *)
(* spawn of async/spawn.C) on top of the signals of SignalLoop: signal 1   *)
(* is SIGCHLD and its callback is chldcb_check, which calls waitpid until  *)
(* it finds no more children.  Exits merge into one sigcaught flag, come   *)
(* between any two steps of the loop, and process numbers are used again.  *)
(*                                                                         *)
(* A child is a number and the generation of its use; the generation also  *)
(* stands for the exit status, so that a status given to the wrong         *)
(* callback can be told apart.  The system uses a number again as soon as  *)
(* waitpid has returned it, whatever the program's tables hold.  One       *)
(* assumption on the program: without g_zombie_collect it gives chldcb its *)
(* callback in the callback that forked.                                   *)
(***************************************************************************)
EXTENDS SignalLoop

CONSTANTS
    Pids,       \* process numbers
    MaxGen      \* bound: how often each number is used

ASSUME ChildAssumption == MaxGen \in [Pids -> Nat]

VARIABLES
    collect,    \* g_zombie_collect
    kernel,     \* each number: "free", "running" or "exited" (a Unix zombie)
    gen,        \* the generation of its latest use
    late,       \* generations of its children whose chldcb is still to come
    chldcbs,    \* generation whose callback is in chldcbs, or 0
    zombies,    \* generation whose status is in zombies, or 0
    got,        \* history: <<number, generation of the callback, status it got>>
    mixed       \* history: numbers used again before the program was done with
                \* an earlier child: its status was in zombies, or its chldcb
                \* was still to come

childVars == <<collect, kernel, gen, late, chldcbs, zombies, got, mixed>>
allVars == <<sigVars, childVars>>

SIGCHLD == 1

\* A callback of the program is running.
InCallback == sigpc = "fd" \/ sigpc = "run"

-----------------------------------------------------------------------------
\* The status leaves zombies.
TakeZombie(p) == [zombies EXCEPT ![p] = 0]

\* chldcb (pid, cb), meant for child g.  The number is all it has to go by.
Chldcb(p, g) ==
    /\ zombies' = TakeZombie(p)
    /\ IF zombies[p] # 0
       THEN got' = got \cup {<<p, g, zombies[p]>>} /\ chldcbs' = [chldcbs EXCEPT ![p] = 0]
       ELSE got' = got /\ chldcbs' = [chldcbs EXCEPT ![p] = g]

\* chldcb (pid, NULL): the program takes a callback back or throws a status
\* away, and has no more interest in the number.
ChldcbNull(p) ==
    /\ InCallback
    /\ chldcbs[p] # 0 \/ zombies[p] # 0
    /\ chldcbs' = [chldcbs EXCEPT ![p] = 0]
    /\ zombies' = TakeZombie(p)
    /\ late' = [late EXCEPT ![p] = {}]
    /\ UNCHANGED <<sigVars, collect, kernel, gen, got, mixed>>

\* afork () in the parent: fork gives a number the system is not using.
Afork(p) ==
    /\ InCallback
    /\ kernel[p] = "free" /\ gen[p] < MaxGen[p]
    /\ gen' = [gen EXCEPT ![p] = @ + 1]
    /\ kernel' = [kernel EXCEPT ![p] = "running"]
    /\ mixed' = IF zombies[p] # 0 \/ late[p] # {} THEN mixed \cup {p} ELSE mixed
    /\ UNCHANGED <<sigVars, collect>>

\* The program forks and calls chldcb in the same callback.
Spawn(p) ==
    /\ Afork(p)
    /\ Chldcb(p, gen[p] + 1)
    /\ UNCHANGED late

\* The program forks and keeps the number, for a chldcb in a later callback.
SpawnLate(p) ==
    /\ collect
    /\ Afork(p)
    /\ late' = [late EXCEPT ![p] = @ \cup {gen[p] + 1}]
    /\ UNCHANGED <<chldcbs, zombies, got>>

Register(p) ==
    /\ InCallback
    /\ \E g \in late[p] :
        /\ Chldcb(p, g)
        /\ late' = [late EXCEPT ![p] = @ \ {g}]
    /\ UNCHANGED <<sigVars, collect, kernel, gen, mixed>>

\* No chldcb ever comes: the program has no interest in the child (findfs.C,
\* suidgetfd.C), or the exec of spawn () failed and its caller got -1 for a
\* number.  With g_zombie_collect the status then stays in zombies.
SpawnUnregistered(p) ==
    /\ Afork(p)
    /\ UNCHANGED <<late, chldcbs, zombies, got>>

\* A child exits and the system sends SIGCHLD.
Exit(p) ==
    /\ kernel[p] = "running"
    /\ kernel' = [kernel EXCEPT ![p] = "exited"]
    /\ Deliver(SIGCHLD)
    /\ UNCHANGED <<ncatch, collect, gen, late, chldcbs, zombies, got, mixed>>

\* Mutant: a status nobody waits for is thrown away.
CollectNot(p) == zombies

\* The status of a child without a callback is kept, with g_zombie_collect.
Collect(p) == IF collect THEN [zombies EXCEPT ![p] = gen[p]] ELSE zombies

\* chldcb_check (): one turn of the loop in which waitpid finds a child.
Waitpid(p) ==
    /\ sigpc = "run" /\ sig = SIGCHLD
    /\ kernel[p] = "exited"
    /\ kernel' = [kernel EXCEPT ![p] = "free"]
    /\ IF chldcbs[p] # 0
       THEN /\ got' = got \cup {<<p, chldcbs[p], gen[p]>>}
            /\ chldcbs' = [chldcbs EXCEPT ![p] = 0]
            /\ zombies' = zombies
       ELSE zombies' = Collect(p) /\ UNCHANGED <<got, chldcbs>>
    /\ UNCHANGED <<sigVars, collect, gen, late, mixed>>

\* Mutant: chldcb_check () does not insist on a last, empty waitpid.
WaitpidMoreNot == FALSE

\* The loop of chldcb_check () goes on while there are exited children.
WaitpidMore == sigpc = "run" /\ sig = SIGCHLD /\ \E p \in Pids : kernel[p] = "exited"

-----------------------------------------------------------------------------
ChildInit ==
    /\ SigInit
    /\ collect \in BOOLEAN
    /\ kernel = [p \in Pids |-> "free"]
    /\ gen = [p \in Pids |-> 0] /\ late = [p \in Pids |-> {}]
    /\ chldcbs = [p \in Pids |-> 0] /\ zombies = [p \in Pids |-> 0]
    /\ got = {} /\ mixed = {}

ChildLoopStep == MainStep /\ ~WaitpidMore /\ UNCHANGED childVars

ReapStep == \E p \in Pids : Waitpid(p)

\* What callbacks do; none of it need ever happen.
ProgramStep ==
    \/ \E p \in Pids : Spawn(p) \/ SpawnLate(p) \/ SpawnUnregistered(p)
                       \/ Register(p) \/ ChldcbNull(p)
    \/ \E s \in Sigs \ {SIGCHLD} : Sigcb(s) /\ UNCHANGED childVars

\* What comes from outside.
SystemStep ==
    \/ \E p \in Pids : Exit(p)
    \/ \E s \in Sigs : Sigcatch(s) /\ UNCHANGED childVars
    \/ (SelectOther \/ SelectEintr) /\ UNCHANGED childVars

ChildNext == ChildLoopStep \/ ReapStep \/ ProgramStep \/ SystemStep

ChildSpec == ChildInit /\ [][ChildNext]_allVars

\* The main program runs; nothing but a signal need ever wake select.
ChildFairSpec == ChildSpec /\ WF_allVars(ChildLoopStep \/ ReapStep)

-----------------------------------------------------------------------------
\* Whose status a callback given to chldcb gets, although numbers are used
\* again, exits merge into one SIGCHLD and chldcb may be called after the
\* child is gone.  Whatever the program does, no status goes to two
\* callbacks.  A callback gets another child's status only if the system used
\* the number again while the program was not done with an earlier child of
\* that number, and never without g_zombie_collect.  Otherwise no status is
\* lost either: a child whose callback has not run is alive, is waiting for
\* waitpid, or has its status in zombies until chldcb comes.
StatusExact ==
    /\ \A t, u \in got : t[1] = u[1] /\ t[3] = u[3] => t = u
    /\ \A t \in got : t[2] # t[3] => t[1] \in mixed
    /\ mixed # {} => collect
    /\ \A p \in Pids \ mixed :
        /\ chldcbs[p] # 0 => kernel[p] # "free" /\ gen[p] = chldcbs[p]
        /\ \A g \in late[p] :
            (kernel[p] # "free" /\ gen[p] = g) \/ zombies[p] = g

\* Every child that exits is waited for, although no other event wakes the
\* loop; with StatusExact that is when its callback gets its status.
ChildrenReaped == \A p \in Pids : kernel[p] = "exited" ~> kernel[p] # "exited"
=============================================================================
