-------------------------------- MODULE Proc --------------------------------
(***************************************************************************)
(* The life cycle of processes in kernel/proc.c: kfork(), kexit() with     *)
(* reparent(), kwait() and the wake-up part of kkill(), on top of the      *)
(* scheduler.  wait_lock is held across many steps; a p->lock mostly for   *)
(* one.  The loops over the process table are modelled slot by slot.       *)
(*                                                                         *)
(* Slot 0 is initproc, which never exits.  Left out: pids, memory, files.  *)
(* A failed allocation in allocproc() or kfork() is a choice.  p->killed   *)
(* is only ever set by p's own trap code, which exits before it can make   *)
(* another system call (trap.c:55,100), so kwait()'s test of it fails.     *)
(***************************************************************************)
EXTENDS Sched

CONSTANT wait_lock

ASSUME ProcAssumption ==
    /\ CondLock = {wait_lock}
    /\ Chan = Proc              \* a process sleeps on its own address

VARIABLES
    parent,     \* p->parent
    pc,         \* where each process is in its system call
    i,          \* index of its outer loop over the table
    w,          \* index of its loop in wakeup()
    np,         \* kfork()'s np
    havekids    \* kwait()'s havekids

locals == <<pc, i, w, np, havekids>>
vars == <<schedvars, parent, locals>>

initproc == 0

PC == {"user", "alloc", "setparent", "start",
       "exit", "reparent", "wakeinit", "wakeparent", "lockself", "zombie",
       "wait", "table", "sleep", "waitdone"}

ProcInit ==
    /\ SchedInit
    /\ state = [p \in Proc |-> IF p = initproc THEN "RUNNABLE" ELSE "UNUSED"]
    /\ parent = [p \in Proc |-> NoProc]
    /\ pc = [p \in Proc |-> "user"]
    /\ i = [p \in Proc |-> 0]
    /\ w = [p \in Proc |-> 0]
    /\ np = [p \in Proc |-> NoProc]
    /\ havekids = [p \in Proc |-> FALSE]

\* Types; the loops over the process table stay inside it.
ProcTypeOK ==
    /\ SchedTypeOK
    /\ parent \in [Proc -> Proc \cup {NoProc}]
    /\ pc \in [Proc -> PC]
    /\ i \in [Proc -> 0 .. NPROC]
    /\ w \in [Proc -> 0 .. NPROC]
    /\ np \in [Proc -> Proc \cup {NoProc}]
    /\ havekids \in [Proc -> BOOLEAN]

Goto(p, from, to) ==
    /\ pc[p] = from
    /\ pc' = [pc EXCEPT ![p] = to]

Set(f, p, v) == f' = [f EXCEPT ![p] = v]

\* The system calls of this module; init neither exits nor is killed.
Call(c, p) ==
    /\ Runs(c, p)
    /\ \/ Goto(p, "user", "alloc")
       \/ Goto(p, "user", "wait")
       \/ p # initproc /\ Goto(p, "user", "exit")
    /\ UNCHANGED <<schedvars, parent, i, w, np, havekids>>

-----------------------------------------------------------------------------
(* kfork() *)

\* Mutant: the search runs past the end of the table.
allocproc_overrun(c, p) ==
    /\ Runs(c, p)
    /\ \/ /\ pc[p] = "alloc"
          /\ i[p] = NPROC \/ (i[p] \in Proc /\ state[i[p]] # "UNUSED")
          /\ Set(i, p, i[p] + 1)
          /\ UNCHANGED <<schedvars, pc, np>>
       \/ /\ Goto(p, "alloc", "setparent")
          /\ i[p] \in Proc
          /\ AllocSlot(i[p])
          /\ Set(np, p, i[p]) /\ Set(i, p, 0)
    /\ UNCHANGED <<parent, w, havekids>>

allocproc(c, p) ==
    /\ Runs(c, p)
    /\ \/ /\ pc[p] = "alloc" /\ i[p] \in Proc /\ Free(i[p])
          /\ state[i[p]] # "UNUSED"
          /\ Set(i, p, i[p] + 1)
          /\ UNCHANGED <<schedvars, pc, np>>
       \/ /\ Goto(p, "alloc", "setparent")
          /\ i[p] \in Proc
          /\ AllocSlot(i[p])
          /\ Set(np, p, i[p]) /\ Set(i, p, 0)
       \/ \* no memory: freeproc() before np->lock is released
          /\ Goto(p, "alloc", "user")
          /\ i[p] \in Proc /\ Free(i[p]) /\ state[i[p]] = "UNUSED"
          /\ Set(i, p, 0)
          /\ UNCHANGED <<schedvars, np>>
       \/ \* no free slot
          /\ Goto(p, "alloc", "user")
          /\ i[p] = NPROC
          /\ Set(i, p, 0)
          /\ UNCHANGED <<schedvars, np>>
    /\ UNCHANGED <<parent, w, havekids>>

kfork_parent(c, p) ==
    /\ Runs(c, p)
    /\ Goto(p, "setparent", "start")
    /\ Free(wait_lock)
    /\ Set(parent, np[p], p)
    /\ UNCHANGED <<schedvars, i, w, np, havekids>>

kfork_start(c, p) ==
    /\ Runs(c, p)
    /\ Goto(p, "start", "user")
    /\ StartSlot(np[p])
    /\ Set(np, p, NoProc)
    /\ UNCHANGED <<parent, i, w, havekids>>

-----------------------------------------------------------------------------
(* kexit() *)

kexit_lock(c, p) ==
    /\ Runs(c, p)
    /\ Goto(p, "exit", "reparent")
    /\ Acquire(c, wait_lock)
    /\ UNCHANGED <<parent, i, w, np, havekids>>

\* Mutant: the last slot of the table is left out.
reparent_short(c, p) ==
    /\ Runs(c, p)
    /\ \/ /\ pc[p] = "reparent" /\ i[p] < NPROC - 1
          /\ parent[i[p]] # p
          /\ Set(i, p, i[p] + 1)
          /\ UNCHANGED <<parent, pc>>
       \/ /\ Goto(p, "reparent", "wakeinit")
          /\ i[p] < NPROC - 1
          /\ parent[i[p]] = p
          /\ Set(parent, i[p], initproc)
          /\ UNCHANGED i
       \/ /\ Goto(p, "reparent", "wakeparent")
          /\ i[p] = NPROC - 1
          /\ Set(i, p, 0)
          /\ UNCHANGED parent
    /\ UNCHANGED <<schedvars, w, np, havekids>>

reparent(c, p) ==
    /\ Runs(c, p)
    /\ \/ /\ pc[p] = "reparent" /\ i[p] \in Proc
          /\ parent[i[p]] # p
          /\ Set(i, p, i[p] + 1)
          /\ UNCHANGED <<parent, pc>>
       \/ /\ Goto(p, "reparent", "wakeinit")
          /\ i[p] \in Proc
          /\ parent[i[p]] = p
          /\ Set(parent, i[p], initproc)
          /\ UNCHANGED i
       \/ /\ Goto(p, "reparent", "wakeparent")
          /\ i[p] = NPROC
          /\ Set(i, p, 0)
          /\ UNCHANGED parent
    /\ UNCHANGED <<schedvars, w, np, havekids>>

\* One iteration of wakeup(ch), executed by p.
wakeup(p, ch) ==
    /\ w[p] \in Proc
    /\ IF w[p] = p THEN UNCHANGED schedvars ELSE WakeSlot(w[p], ch)
    /\ Set(w, p, w[p] + 1)

wakeup_done(p) ==
    /\ w[p] = NPROC
    /\ Set(w, p, 0)
    /\ UNCHANGED schedvars

\* wakeup(initproc), called for every child that is handed over.
reparent_wakeup(c, p) ==
    /\ Runs(c, p)
    /\ \/ /\ pc[p] = "wakeinit"
          /\ wakeup(p, initproc)
          /\ UNCHANGED <<pc, i>>
       \/ /\ Goto(p, "wakeinit", "reparent")
          /\ wakeup_done(p)
          /\ Set(i, p, i[p] + 1)
    /\ UNCHANGED <<parent, np, havekids>>

\* Mutant: kexit() does not wake the parent.
kexit_silent(c, p) ==
    /\ Runs(c, p)
    /\ Goto(p, "wakeparent", "lockself")
    /\ UNCHANGED <<schedvars, parent, i, w, np, havekids>>

kexit_wakeup(c, p) ==
    /\ Runs(c, p)
    /\ \/ /\ pc[p] = "wakeparent"
          /\ wakeup(p, parent[p])
          /\ UNCHANGED pc
       \/ /\ Goto(p, "wakeparent", "lockself")
          /\ wakeup_done(p)
    /\ UNCHANGED <<parent, i, np, havekids>>

kexit_lockself(c, p) ==
    /\ Runs(c, p)
    /\ Goto(p, "lockself", "zombie")
    /\ Acquire(c, p)
    /\ UNCHANGED <<parent, i, w, np, havekids>>

\* Mutant: kexit() calls sched() with wait_lock held.
kexit_sched_locked(c, p) ==
    /\ Goto(p, "zombie", "user")
    /\ Runs(c, p) /\ holding(c, p)
    /\ EnterSched(p, "ZOMBIE", chan[p])
    /\ UNCHANGED <<lock, cpuvars, parent, i, w, np, havekids>>

\* The slot's next process starts in forkret(), on its way to user space.
kexit_sched(c, p) ==
    /\ Goto(p, "zombie", "user")
    /\ ExitSched(c, p, wait_lock)
    /\ UNCHANGED <<parent, i, w, np, havekids>>

-----------------------------------------------------------------------------
(* kwait() *)

kwait_lock(c, p) ==
    /\ Runs(c, p)
    /\ Goto(p, "wait", "table")
    /\ Acquire(c, wait_lock)
    /\ Set(havekids, p, FALSE)
    /\ UNCHANGED <<parent, i, w, np>>

\* Mutant: havekids tells only about the last slot looked at.
kwait_next_last(c, p) ==
    /\ Runs(c, p)
    /\ pc[p] = "table" /\ i[p] \in Proc
    /\ Free(i[p]) /\ (parent[i[p]] = p => state[i[p]] # "ZOMBIE")
    /\ Set(havekids, p, parent[i[p]] = p)
    /\ Set(i, p, i[p] + 1)
    /\ UNCHANGED <<schedvars, parent, pc, w, np>>

\* An iteration over the table that finds no zombie child of p.
kwait_next(c, p) ==
    /\ Runs(c, p)
    /\ pc[p] = "table" /\ i[p] \in Proc
    /\ \/ /\ parent[i[p]] # p
          /\ UNCHANGED havekids
       \/ /\ parent[i[p]] = p
          /\ Free(i[p]) /\ state[i[p]] # "ZOMBIE"
          /\ Set(havekids, p, TRUE)
    /\ Set(i, p, i[p] + 1)
    /\ UNCHANGED <<schedvars, parent, pc, w, np>>

\* Mutant: without the test of pp->parent.
kwait_reap_any(c, p) ==
    /\ Runs(c, p)
    /\ Goto(p, "table", "waitdone")
    /\ i[p] \in Proc
    /\ FreeSlot(i[p]) /\ Set(parent, i[p], NoProc)
    /\ Set(i, p, 0) /\ Set(havekids, p, FALSE)
    /\ UNCHANGED <<w, np>>

\* Mutant: kwait() does not wait for pp->lock.
kwait_reap_unlocked(c, p) ==
    /\ Runs(c, p)
    /\ Goto(p, "table", "waitdone")
    /\ i[p] \in Proc /\ parent[i[p]] = p /\ state[i[p]] = "ZOMBIE"
    /\ state' = [state EXCEPT ![i[p]] = "UNUSED"]
    /\ Set(parent, i[p], NoProc) /\ Set(i, p, 0) /\ Set(havekids, p, FALSE)
    /\ UNCHANGED <<chan, ctx, lock, cpuvars, w, np>>

\* freeproc() a zombie child, or fail to copy its status out (init passes
\* no address).
kwait_reap(c, p) ==
    /\ Runs(c, p)
    /\ Goto(p, "table", "waitdone")
    /\ i[p] \in Proc /\ parent[i[p]] = p
    /\ Free(i[p]) /\ state[i[p]] = "ZOMBIE"
    /\ \/ FreeSlot(i[p]) /\ Set(parent, i[p], NoProc)
       \/ p # initproc /\ UNCHANGED <<schedvars, parent>>
    /\ Set(i, p, 0) /\ Set(havekids, p, FALSE)
    /\ UNCHANGED <<w, np>>

kwait_nokids(c, p) ==
    /\ Runs(c, p)
    /\ Goto(p, "table", "waitdone")
    /\ i[p] = NPROC /\ ~havekids[p]
    /\ Set(i, p, 0)
    /\ UNCHANGED <<schedvars, parent, w, np, havekids>>

kwait_block(c, p) ==
    /\ Runs(c, p)
    /\ Goto(p, "table", "sleep")
    /\ i[p] = NPROC /\ havekids[p]
    /\ Acquire(c, p)
    /\ Set(i, p, 0) /\ Set(havekids, p, FALSE)
    /\ UNCHANGED <<parent, w, np>>

kwait_sleep(c, p) ==
    /\ Goto(p, "sleep", "wait")
    /\ sleep(c, p, p, wait_lock)
    /\ UNCHANGED <<parent, i, w, np, havekids>>

kwait_return(c, p) ==
    /\ Runs(c, p)
    /\ Goto(p, "waitdone", "user")
    /\ Release(c, wait_lock)
    /\ UNCHANGED <<parent, i, w, np, havekids>>

-----------------------------------------------------------------------------
\* kkill() wakes its victim without any wait_lock.
kkill(c, p, q) ==
    /\ Runs(c, p)
    /\ pc[p] = "user"
    /\ p # q
    /\ state[q] = "SLEEPING"
    /\ KillSlot(q)
    /\ UNCHANGED <<parent, locals>>

Timer(c, p) ==
    /\ pc[p] = "user" \/ noff[c] = 0
    /\ yield(c, p)
    /\ UNCHANGED <<parent, locals>>

KernelStep(c, p) ==
    \/ allocproc(c, p) \/ kfork_parent(c, p) \/ kfork_start(c, p)
    \/ kexit_lock(c, p) \/ reparent(c, p) \/ reparent_wakeup(c, p)
    \/ kexit_wakeup(c, p) \/ kexit_lockself(c, p) \/ kexit_sched(c, p)
    \/ kwait_lock(c, p) \/ kwait_next(c, p) \/ kwait_reap(c, p)
    \/ kwait_nokids(c, p) \/ kwait_block(c, p) \/ kwait_sleep(c, p)
    \/ kwait_return(c, p)

Machine(c) == (SchedulerStep(c) \/ SwitchStep(c)) /\ UNCHANGED <<parent, locals>>

ProcNext ==
    \/ \E c \in CPU : Machine(c)
    \/ \E c \in CPU, p \in Proc :
          \/ Call(c, p)
          \/ KernelStep(c, p)
          \/ Timer(c, p)
          \/ \E q \in Proc : kkill(c, p, q)

ProcSpec == ProcInit /\ [][ProcNext]_vars

(***************************************************************************)
(* As in Sem; in addition init, which loops on wait() (user/init.c), calls *)
(* it again and again.  Fairness of the steps that acquire wait_lock is an *)
(* assumption on the hardware: acquire() spins on an atomic swap and a CPU *)
(* that spins is assumed to win some day.                                  *)
(***************************************************************************)
ProcFairness ==
    /\ \A c \in CPU : WF_vars(Machine(c)) /\ SF_vars(\E p \in Proc : Timer(c, p))
    /\ \A p \in Proc : SF_vars(\E c \in CPU : KernelStep(c, p))
    /\ SF_vars(\E c \in CPU : Call(c, initproc) /\ pc'[initproc] = "wait")

FairProcSpec == ProcSpec /\ ProcFairness

-----------------------------------------------------------------------------
(* Properties. *)

Alive == {p \in Proc : state[p] \in {"SLEEPING", "RUNNABLE", "RUNNING"}}

(***************************************************************************)
(* No missed exit: when wait_lock is free, no parent sleeps in kwait()     *)
(* while it has a zombie child.  kexit() wakes the parent before the state *)
(* becomes ZOMBIE, and reparent() gives away children that may already be  *)
(* zombies; both are right only because wait_lock covers them.             *)
(***************************************************************************)
NoMissedExit ==
    Free(wait_lock) =>
        \A q \in Proc : state[q] = "ZOMBIE" =>
            parent[q] \in Alive /\ state[parent[q]] # "SLEEPING"

(***************************************************************************)
(* Every process except init has a living parent, at every moment of the   *)
(* exit of its parent: p->parent never points to a freed slot or a zombie, *)
(* so kexit()'s wakeup(p->parent) and kwait() use a process that exists.   *)
(***************************************************************************)
ParentAlive ==
    \A q \in Proc :
        /\ parent[q] # NoProc => parent[q] \in Alive /\ parent[q] # q
        /\ q # initproc /\ (q \in Alive \/ state[q] = "ZOMBIE") => parent[q] # NoProc

(***************************************************************************)
(* When kwait() gives up because it saw no child, the caller has none; when *)
(* it goes to sleep, it has one and none of them is a zombie.  The table is *)
(* read slot by slot while other processes fork, exit and hand children    *)
(* over.                                                                   *)
(***************************************************************************)
ScanIsExact ==
    \A p \in Proc : pc[p] = "table" /\ i[p] = NPROC =>
        LET kids == {q \in Proc : parent[q] = p} IN
        /\ havekids[p] <=> kids # {}
        /\ \A q \in kids : state[q] # "ZOMBIE"

(***************************************************************************)
(* A zombie is freed only by its parent, which runs on some CPU and holds  *)
(* wait_lock there: no child is reaped twice or by a stranger.             *)
(***************************************************************************)
OnlyParentReaps ==
    [][\A q \in Proc :
          state[q] = "ZOMBIE" /\ state'[q] # "ZOMBIE" =>
              /\ state'[q] = "UNUSED"
              /\ \E c \in CPU : Runs(c, parent[q]) /\ holding(c, wait_lock)]_vars

(***************************************************************************)
(* Once no more processes are created, no process stays a zombie whose     *)
(* parent is init, be it an orphan or a child of init.  The condition is   *)
(* needed: kwait() returns the first zombie of the table, so one in a high *)
(* slot can wait behind an endless stream of zombies in a lower one.       *)
(***************************************************************************)
OrphansReaped ==
    <>[][\A q \in Proc : ~ (state[q] = "UNUSED" /\ state'[q] = "USED")]_vars
      => \A q \in Proc : []<> ~ (state[q] = "ZOMBIE" /\ parent[q] = initproc)

(***************************************************************************)
(* The process table is a sound family: parents are alive, a scan of it by *)
(* kwait() is exact while it changes, and no parent sleeps through an      *)
(* exit.                                                                   *)
(***************************************************************************)
ProcInv ==
    /\ ProcTypeOK
    /\ NoMissedExit
    /\ ParentAlive
    /\ ScanIsExact
=============================================================================
