------------------------------- MODULE Sched -------------------------------
(***************************************************************************)
(* The process scheduler of kernel/proc.c with the spin locks of           *)
(* kernel/spinlock.c: scheduler(), sched(), yield(), sleep(), wakeup(),    *)
(* the part of kfork/kexit/kwait/kkill that changes p->state, and the      *)
(* hand-over of p->lock through swtch().                                   *)
(*                                                                         *)
(* A CPU executes either its scheduler or the kernel thread of one         *)
(* process; `stack' says on whose kernel stack it is.  A spin lock is      *)
(* recorded by the CPU that holds it, so a lock taken by a process is      *)
(* released by the scheduler of the same CPU after swtch().                *)
(*                                                                         *)
(* A critical section "acquire; body; release" whose lock is not held      *)
(* across another visible step is one action guarded by the lock being     *)
(* free.  The actions are the steps of the source; SchedNext adds the      *)
(* discipline that callers have to follow (which locks may be held when a  *)
(* step is taken).  Modules that extend this one use the bare actions and  *)
(* are checked to implement SchedSpec.                                     *)
(***************************************************************************)
EXTENDS Integers, FiniteSets

CONSTANTS
    CPU,        \* the harts
    NPROC,      \* slots of the process table
    CondLock,   \* spin locks other than the p->lock's
    Chan,       \* sleep channels
    NoCPU, NoProc, NoChan

Proc == 0 .. NPROC - 1

Lock == Proc \cup CondLock      \* the lock of slot p is named p

ASSUME SchedAssumption ==
    /\ NPROC \in Nat \ {0}
    /\ IsFiniteSet(CondLock)
    /\ CondLock \cap Proc = {}
    /\ NoCPU \notin CPU
    /\ NoProc \notin Proc
    /\ NoChan \notin Chan

VARIABLES
    state,  \* p->state
    chan,   \* p->chan
    ctx,    \* how far p's kernel thread is with swtch()
    lock,   \* lk->locked and lk->cpu
    noff,   \* c->noff
    cproc,  \* c->proc
    stack,  \* whose kernel stack c executes on; NoProc is the scheduler's
    scan    \* the `p' of c's loop in scheduler()

procvars == <<state, chan, ctx>>
cpuvars == <<noff, cproc, stack, scan>>
schedvars == <<procvars, lock, cpuvars>>

State == {"UNUSED", "USED", "SLEEPING", "RUNNABLE", "RUNNING", "ZOMBIE"}

(***************************************************************************)
(* "on": executing; "sched": in sched(), p->lock held, about to swtch;     *)
(* "out": registers saved in p->context; "back": swtch() has returned (or  *)
(* forkret() was entered) with p->lock still held.                         *)
(***************************************************************************)
Ctx == {"on", "sched", "out", "back"}

SchedTypeOK ==
    /\ state \in [Proc -> State]
    /\ chan \in [Proc -> Chan \cup {NoChan}]
    /\ ctx \in [Proc -> Ctx]
    /\ lock \in [Lock -> CPU \cup {NoCPU}]
    /\ noff \in [CPU -> Int]
    /\ cproc \in [CPU -> Proc \cup {NoProc}]
    /\ stack \in [CPU -> Proc \cup {NoProc}]
    /\ scan \in [CPU -> Proc]

-----------------------------------------------------------------------------
(* Spin locks. *)

Free(l) == lock[l] = NoCPU

holding(c, l) == lock[l] = c

push_off(c) == noff' = [noff EXCEPT ![c] = @ + 1]

pop_off(c) == noff' = [noff EXCEPT ![c] = @ - 1]

acquire(c, l) ==
    /\ Free(l)
    /\ lock' = [lock EXCEPT ![l] = c]
    /\ push_off(c)

\* Mutant: without pop_off().
ReleaseNoPop(c, l) ==
    /\ holding(c, l)
    /\ lock' = [lock EXCEPT ![l] = NoCPU]
    /\ UNCHANGED noff

release(c, l) ==
    /\ holding(c, l)
    /\ lock' = [lock EXCEPT ![l] = NoCPU]
    /\ pop_off(c)

-----------------------------------------------------------------------------
(* Steps of the kernel thread that executes on CPU c. *)

Runs(c, p) == stack[c] = p /\ ctx[p] = "on"

\* A process's code takes or drops a lock it keeps across other steps.
Acquire(c, l) ==
    /\ \E p \in Proc : Runs(c, p)
    /\ acquire(c, l)
    /\ UNCHANGED <<procvars, cproc, stack, scan>>

Release(c, l) ==
    /\ \E p \in Proc : Runs(c, p)
    /\ release(c, l)
    /\ UNCHANGED <<procvars, cproc, stack, scan>>

\* p->state = s; sched(), after the caller has taken p->lock.
EnterSched(p, s, ch) ==
    /\ state' = [state EXCEPT ![p] = s]
    /\ chan' = [chan EXCEPT ![p] = ch]
    /\ ctx' = [ctx EXCEPT ![p] = "sched"]

\* Mutant: without acquire(&p->lock).
YieldUnlocked(c, p) ==
    /\ Runs(c, p)
    /\ EnterSched(p, "RUNNABLE", chan[p])
    /\ UNCHANGED <<lock, noff, cproc, stack, scan>>

yield(c, p) ==
    /\ Runs(c, p)
    /\ acquire(c, p)
    /\ EnterSched(p, "RUNNABLE", chan[p])
    /\ UNCHANGED <<cproc, stack, scan>>

\* sleep() after acquire(&p->lock): release(lk) and go to sleep.
sleep(c, p, ch, lk) ==
    /\ Runs(c, p)
    /\ holding(c, p)
    /\ release(c, lk)
    /\ EnterSched(p, "SLEEPING", ch)
    /\ UNCHANGED <<cproc, stack, scan>>

\* The end of kexit() after acquire(&p->lock): release(&wait_lock), sched().
ExitSched(c, p, lk) ==
    /\ Runs(c, p)
    /\ holding(c, p)
    /\ release(c, lk)
    /\ EnterSched(p, "ZOMBIE", chan[p])
    /\ UNCHANGED <<cproc, stack, scan>>

\* Mutant: without the panic("sched locks").
CanSwitchAnyLocks(c, p) == holding(c, p) /\ state[p] # "RUNNING"

\* The conditions that sched() panics without.
CanSwitch(c, p) ==
    /\ holding(c, p)
    /\ noff[c] = 1
    /\ state[p] # "RUNNING"

\* sched(): the checks, then swtch(&p->context, &mycpu()->context).  A CPU
\* that panics stays where it is.
SwtchToScheduler(c, p) ==
    /\ stack[c] = p
    /\ ctx[p] = "sched"
    /\ CanSwitch(c, p)
    /\ ctx' = [ctx EXCEPT ![p] = "out"]
    /\ stack' = [stack EXCEPT ![c] = NoProc]
    /\ UNCHANGED <<state, chan, lock, noff, cproc, scan>>

\* What follows swtch() in sched()'s callers, or the start of forkret().
Resume(c, p) ==
    /\ stack[c] = p
    /\ ctx[p] = "back"
    /\ release(c, p)
    /\ ctx' = [ctx EXCEPT ![p] = "on"]
    /\ chan' = [chan EXCEPT ![p] = NoChan]
    /\ UNCHANGED <<state, cproc, stack, scan>>

-----------------------------------------------------------------------------
(* Steps of the scheduler of CPU c. *)

NextSlot(c) == scan' = [scan EXCEPT ![c] = (@ + 1) % NPROC]

\* Mutant: the scheduler does not wait for p->lock.
DispatchUnlocked(c, p) ==
    /\ stack[c] = NoProc /\ cproc[c] = NoProc
    /\ scan[c] = p
    /\ state[p] = "RUNNABLE"
    /\ lock' = [lock EXCEPT ![p] = c]
    /\ push_off(c)
    /\ state' = [state EXCEPT ![p] = "RUNNING"]
    /\ cproc' = [cproc EXCEPT ![c] = p]
    /\ stack' = [stack EXCEPT ![c] = p]
    /\ ctx' = [ctx EXCEPT ![p] = "back"]
    /\ UNCHANGED <<chan, scan>>

\* One iteration of the loop over the table, up to swtch().
Dispatch(c, p) ==
    /\ stack[c] = NoProc /\ cproc[c] = NoProc
    /\ scan[c] = p
    /\ state[p] = "RUNNABLE"
    /\ acquire(c, p)
    /\ state' = [state EXCEPT ![p] = "RUNNING"]
    /\ cproc' = [cproc EXCEPT ![c] = p]
    /\ stack' = [stack EXCEPT ![c] = p]
    /\ ctx' = [ctx EXCEPT ![p] = "back"]
    /\ UNCHANGED <<chan, scan>>

Skip(c, p) ==
    /\ stack[c] = NoProc /\ cproc[c] = NoProc
    /\ scan[c] = p
    /\ Free(p)
    /\ state[p] # "RUNNABLE"
    /\ NextSlot(c)
    /\ UNCHANGED <<procvars, lock, noff, cproc, stack>>

\* The rest of the iteration once swtch() has come back.
SwtchReturn(c, p) ==
    /\ stack[c] = NoProc
    /\ cproc[c] = p
    /\ cproc' = [cproc EXCEPT ![c] = NoProc]
    /\ release(c, p)
    /\ NextSlot(c)
    /\ UNCHANGED <<procvars, stack>>

SchedulerStep(c) ==
    \E p \in Proc : Dispatch(c, p) \/ Skip(c, p) \/ SwtchReturn(c, p)

SwitchStep(c) == \E p \in Proc : SwtchToScheduler(c, p) \/ Resume(c, p)

-----------------------------------------------------------------------------
(* Critical sections on the lock of slot q, run by a kernel thread or an   *)
(* interrupt handler on some CPU.                                          *)

SetState(q, from, to) ==
    /\ Free(q)
    /\ state[q] = from
    /\ state' = [state EXCEPT ![q] = to]
    /\ UNCHANGED <<chan, ctx, lock, cpuvars>>

\* The iteration of wakeup(ch) for slot q.
WakeSlot(q, ch) ==
    IF state[q] = "SLEEPING" /\ chan[q] = ch
    THEN SetState(q, "SLEEPING", "RUNNABLE")
    ELSE Free(q) /\ UNCHANGED schedvars

\* kkill() on the slot that holds the pid: wake it whatever it sleeps on.
KillSlot(q) ==
    IF state[q] = "SLEEPING"
    THEN SetState(q, "SLEEPING", "RUNNABLE")
    ELSE Free(q) /\ UNCHANGED schedvars

\* allocproc() finds q unused; its context is set to forkret.
AllocSlot(q) == SetState(q, "UNUSED", "USED")

\* The end of kfork().
StartSlot(q) == SetState(q, "USED", "RUNNABLE")

\* freeproc() on a zombie in kwait(), which also clears p->chan.
FreeSlot(q) ==
    /\ Free(q)
    /\ state[q] = "ZOMBIE"
    /\ state' = [state EXCEPT ![q] = "UNUSED"]
    /\ chan' = [chan EXCEPT ![q] = NoChan]
    /\ UNCHANGED <<ctx, lock, cpuvars>>

-----------------------------------------------------------------------------
(* The scheduler with callers that follow the locking discipline: yield()  *)
(* without locks, sleep() and kexit() with exactly one condition lock.     *)

SchedInit ==
    /\ state \in [Proc -> {"UNUSED", "RUNNABLE"}]
    /\ chan = [p \in Proc |-> NoChan]
    /\ ctx = [p \in Proc |-> "out"]
    /\ lock = [l \in Lock |-> NoCPU]
    /\ noff = [c \in CPU |-> 0]
    /\ cproc = [c \in CPU |-> NoProc]
    /\ stack = [c \in CPU |-> NoProc]
    /\ scan = [c \in CPU |-> 0]

\* The locks c holds are lk and the p->lock of the process it runs.
HoldsOnly(c, p, lk) == \A l \in Lock : holding(c, l) <=> l \in {p, lk}

ThreadStep(c, p) ==
    \/ \E l \in CondLock : Acquire(c, l) \/ Release(c, l)
    \/ noff[c] = 0 /\ yield(c, p)
    \/ noff[c] = 1 /\ Runs(c, p) /\ Acquire(c, p)
    \/ \E lk \in CondLock :
          /\ HoldsOnly(c, p, lk)
          /\ \/ \E ch \in Chan : sleep(c, p, ch, lk)
             \/ ExitSched(c, p, lk)

SlotStep(q) ==
    \/ KillSlot(q)
    \/ AllocSlot(q)
    \/ StartSlot(q)
    \/ FreeSlot(q)

SchedNext ==
    \/ \E c \in CPU : SchedulerStep(c) \/ SwitchStep(c)
    \/ \E c \in CPU, p \in Proc : ThreadStep(c, p)
    \/ \E q \in Proc : SlotStep(q)

\* What callers of the scheduler keep to: its actions with the locks they need.
SchedSpec == SchedInit /\ [][SchedNext]_schedvars

-----------------------------------------------------------------------------
(* What the scheduler promises. *)

(***************************************************************************)
(* No two CPUs ever execute on the kernel stack of the same process.  This *)
(* is what holding p->lock from before p->state = RUNNABLE in yield() and  *)
(* sleep() until after swtch() in scheduler() is for: without it another   *)
(* CPU could pick the process up while its registers are being saved.      *)
(***************************************************************************)
OneCpuPerStack ==
    \A c, d \in CPU : stack[c] \in Proc /\ stack[c] = stack[d] => c = d

(***************************************************************************)
(* The panics of sched() cannot happen: whenever a thread is in sched(),   *)
(* its CPU holds p->lock, holds nothing else (noff = 1), and p->state has  *)
(* been changed.                                                           *)
(***************************************************************************)
SchedChecks ==
    \A c \in CPU, p \in Proc :
        stack[c] = p /\ ctx[p] = "sched" => CanSwitch(c, p)

(***************************************************************************)
(* A slot that freeproc() has given back, or allocproc() has just taken,   *)
(* is not in use by any CPU: kwait() takes pp->lock to be sure that the    *)
(* child "isn't still in exit() or swtch()".                               *)
(***************************************************************************)
FreedSlotIdle ==
    \A p \in Proc : state[p] \in {"UNUSED", "USED"} =>
        /\ ctx[p] = "out"
        /\ \A c \in CPU : stack[c] # p /\ cproc[c] # p

(***************************************************************************)
(* Interrupts-off nesting: c->noff counts exactly the locks that the CPU   *)
(* holds, over every hand-over of a p->lock through swtch().               *)
(***************************************************************************)
NoffCountsLocks ==
    \A c \in CPU : noff[c] = Cardinality({l \in Lock : holding(c, l)})

(***************************************************************************)
(* What the scheduler promises to every caller that keeps its discipline:  *)
(* stacks are used by one CPU, sched() does not panic, free slots are not  *)
(* executed, and noff is exact.                                            *)
(***************************************************************************)
SchedInv ==
    /\ OneCpuPerStack
    /\ SchedChecks
    /\ FreedSlotIdle
    /\ NoffCountsLocks
=============================================================================
