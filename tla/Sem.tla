-------------------------------- MODULE Sem --------------------------------
(***************************************************************************)
(* The global semaphore of kernel/sysproc.c (sem_init, sem_wait, sem_post) *)
(* on top of the scheduler: processes that wait and post are preempted by  *)
(* the timer, put to sleep, woken by sem_post and by signals, and migrate  *)
(* between CPUs.  wakeup() is the loop of the source, one slot at a time.  *)
(*                                                                         *)
(* A process uses the semaphore as user/semtest.c does: wait, critical     *)
(* section, post.  With Undisciplined, processes may also post and call    *)
(* sem_init at any time; `hist' remembers whether they have.               *)
(***************************************************************************)
EXTENDS Sched

CONSTANTS
    global_sem,     \* names global_sem.lock, and the channel &global_sem
    InitValue,      \* global_sem.value set by procinit() or sem_init()
    MaxValue,       \* bound on posts and on the argument of sem_init
    Undisciplined

ASSUME SemAssumption ==
    /\ CondLock = {global_sem}
    /\ Chan = {global_sem}
    /\ InitValue \in Nat /\ MaxValue \in Nat /\ InitValue <= MaxValue
    /\ Undisciplined \in BOOLEAN

VARIABLES
    value,      \* global_sem.value
    pc,         \* where each process is
    wi,         \* the `p' of its loop in wakeup()
    hist        \* history: "disciplined", or what came last since some
                \* process was not: "init" or "post"

semvars == <<value, pc, wi, hist>>
vars == <<schedvars, semvars>>

UserMode == {"user", "crit"}
PC == UserMode \cup {"wait", "test", "sleep", "post", "wakeup", "unlock"}

SemInit ==
    /\ SchedInit
    /\ state = [p \in Proc |-> "RUNNABLE"]
    /\ value = InitValue
    /\ pc = [p \in Proc |-> "user"]
    /\ wi = [p \in Proc |-> 0]
    /\ hist = "disciplined"

\* Types; sem_wait() never takes the value below zero.
SemTypeOK ==
    /\ SchedTypeOK
    /\ value \in 0 .. MaxValue
    /\ pc \in [Proc -> PC]
    /\ wi \in [Proc -> 0 .. NPROC]
    /\ hist \in {"disciplined", "init", "post"}

Goto(p, from, to) ==
    /\ pc[p] = from
    /\ pc' = [pc EXCEPT ![p] = to]

-----------------------------------------------------------------------------
(* System calls; in each action p executes on c. *)

\* A system call is entered: no lock, no shared state.
Call(c, p) ==
    /\ Runs(c, p)
    /\ \/ Goto(p, "user", "wait")
       \/ Goto(p, "crit", "post")
    /\ UNCHANGED <<schedvars, value, wi, hist>>

\* sem_post() without a sem_wait() before it.
StrayPost(c, p) ==
    /\ Undisciplined
    /\ Runs(c, p)
    /\ value < MaxValue
    /\ Goto(p, "user", "post")
    /\ hist' = IF hist = "disciplined" THEN "post" ELSE hist
    /\ UNCHANGED <<schedvars, value, wi>>

sem_wait_acquire(c, p) ==
    /\ Runs(c, p)
    /\ Goto(p, "wait", "test")
    /\ Acquire(c, global_sem)
    /\ UNCHANGED <<value, wi, hist>>

\* while(value <= 0): enter sleep() and take p->lock ...
sem_wait_block(c, p) ==
    /\ Runs(c, p)
    /\ Goto(p, "test", "sleep")
    /\ value <= 0
    /\ Acquire(c, p)
    /\ UNCHANGED <<value, wi, hist>>

\* ... then drop the semaphore's lock and sleep, to re-acquire it later.
sem_wait_sleep(c, p) ==
    /\ Goto(p, "sleep", "wait")
    /\ sleep(c, p, global_sem, global_sem)
    /\ UNCHANGED <<value, wi, hist>>

\* Mutant: the value is not tested again after sleep().
sem_wait_take_untested(c, p) ==
    /\ Runs(c, p)
    /\ Goto(p, "test", "crit")
    /\ value' = value - 1
    /\ Release(c, global_sem)
    /\ UNCHANGED <<wi, hist>>

\* Mutant: the value is not decremented.
sem_wait_take_free(c, p) ==
    /\ Runs(c, p)
    /\ Goto(p, "test", "crit")
    /\ value > 0
    /\ Release(c, global_sem)
    /\ UNCHANGED <<value, wi, hist>>

sem_wait_take(c, p) ==
    /\ Runs(c, p)
    /\ Goto(p, "test", "crit")
    /\ value > 0
    /\ value' = value - 1
    /\ Release(c, global_sem)
    /\ UNCHANGED <<wi, hist>>

\* Mutant: sem_post() without wakeup().
sem_post_silent(c, p) ==
    /\ Runs(c, p)
    /\ Goto(p, "post", "unlock")
    /\ value < MaxValue
    /\ Acquire(c, global_sem)
    /\ value' = value + 1
    /\ hist' = IF hist = "init" THEN "post" ELSE hist
    /\ UNCHANGED wi

sem_post_add(c, p) ==
    /\ Runs(c, p)
    /\ Goto(p, "post", "wakeup")
    /\ value < MaxValue
    /\ Acquire(c, global_sem)
    /\ value' = value + 1
    /\ wi' = [wi EXCEPT ![p] = 0]
    /\ hist' = IF hist = "init" THEN "post" ELSE hist

\* Mutant: the loop of wakeup() stops one slot early.
wakeup_short(c, p) ==
    /\ Runs(c, p)
    /\ pc[p] = "wakeup"
    /\ \/ /\ wi[p] < NPROC - 1
          /\ IF wi[p] = p
             THEN UNCHANGED schedvars
             ELSE WakeSlot(wi[p], global_sem)
          /\ wi' = [wi EXCEPT ![p] = @ + 1]
          /\ UNCHANGED pc
       \/ /\ wi[p] = NPROC - 1
          /\ Goto(p, "wakeup", "unlock")
          /\ UNCHANGED <<schedvars, wi>>
    /\ UNCHANGED <<value, hist>>

\* One iteration of the loop in wakeup(&global_sem).
wakeup(c, p) ==
    /\ Runs(c, p)
    /\ pc[p] = "wakeup"
    /\ \/ /\ wi[p] \in Proc
          /\ IF wi[p] = p
             THEN UNCHANGED schedvars
             ELSE WakeSlot(wi[p], global_sem)
          /\ wi' = [wi EXCEPT ![p] = @ + 1]
          /\ UNCHANGED pc
       \/ /\ wi[p] = NPROC
          /\ Goto(p, "wakeup", "unlock")
          /\ UNCHANGED <<schedvars, wi>>
    /\ UNCHANGED <<value, hist>>

sem_post_release(c, p) ==
    /\ Runs(c, p)
    /\ Goto(p, "unlock", "user")
    /\ Release(c, global_sem)
    /\ UNCHANGED <<value, wi, hist>>

\* sem_init(v): a critical section that wakes nobody.
sem_init(c, p, v) ==
    /\ Undisciplined
    /\ Runs(c, p)
    /\ pc[p] = "user"
    /\ Free(global_sem)
    /\ value' = v
    /\ hist' = "init"
    /\ UNCHANGED <<schedvars, pc, wi>>

\* kill(): the victim is made runnable wherever it sleeps.
kkill(c, p, q) ==
    /\ Runs(c, p)
    /\ pc[p] = "user"
    /\ p # q
    /\ state[q] = "SLEEPING"
    /\ KillSlot(q)
    /\ UNCHANGED semvars

\* Mutant: acquire() leaves interrupts on.
TimerAnywhere(c, p) == yield(c, p) /\ UNCHANGED semvars

\* A timer interrupt: always possible in user mode, in the kernel only
\* while interrupts are on, that is when no lock is held.
Timer(c, p) ==
    /\ pc[p] \in UserMode \/ noff[c] = 0
    /\ yield(c, p)
    /\ UNCHANGED semvars

KernelStep(c, p) ==
    \/ sem_wait_acquire(c, p)
    \/ sem_wait_block(c, p)
    \/ sem_wait_sleep(c, p)
    \/ sem_wait_take(c, p)
    \/ sem_post_add(c, p)
    \/ wakeup(c, p)
    \/ sem_post_release(c, p)

Machine(c) == (SchedulerStep(c) \/ SwitchStep(c)) /\ UNCHANGED semvars

SemNext ==
    \/ \E c \in CPU : Machine(c)
    \/ \E c \in CPU, p \in Proc :
          \/ Call(c, p)
          \/ StrayPost(c, p)
          \/ KernelStep(c, p)
          \/ Timer(c, p)
          \/ \E v \in 0 .. MaxValue : sem_init(c, p, v)
          \/ \E q \in Proc : kkill(c, p, q)

(***************************************************************************)
(* A CPU never stops executing its scheduler; a time slice is long enough  *)
(* for a process to advance, so the timer does not preempt it before every *)
(* step; a timer interrupt stays pending until it is taken; a process in   *)
(* the critical section posts eventually.  For the steps that acquire the  *)
(* semaphore's lock this also excludes being overtaken forever; acquire()  *)
(* does not promise that, but in a behaviour where it happens and signals  *)
(* have stopped, others pass through the semaphore infinitely often, which *)
(* is what SemProgress asks for.                                           *)
(***************************************************************************)
SemFairness ==
    /\ \A c \in CPU : WF_vars(Machine(c)) /\ SF_vars(\E p \in Proc : Timer(c, p))
    /\ \A p \in Proc :
          /\ SF_vars(\E c \in CPU : KernelStep(c, p))
          /\ SF_vars(pc[p] = "crit" /\ \E c \in CPU : Call(c, p))

SemSpec == SemInit /\ [][SemNext]_vars

FairSemSpec == SemSpec /\ SemFairness

-----------------------------------------------------------------------------
(* Properties. *)

Sleepers == {p \in Proc : state[p] = "SLEEPING"}

(***************************************************************************)
(* While every process waits before it posts and nobody calls sem_init(),  *)
(* at most InitValue processes are between the return of sem_wait() and    *)
(* the increment of sem_post(), whatever the preemptions and wake-ups.     *)
(***************************************************************************)
SemExclusion ==
    hist = "disciplined" =>
        Cardinality({p \in Proc : pc[p] \in {"crit", "post"}}) <= InitValue

(***************************************************************************)
(* No lost wake-up: when the semaphore's lock is free and the value is     *)
(* positive, no process is asleep on it.  A wake-up can be lost if it      *)
(* falls between the test of sem_wait() and p->state = SLEEPING in         *)
(* sleep(); sleep() prevents it by taking p->lock before releasing lk.     *)
(* The one exception is sem_init() on a semaphore in use, which raises the *)
(* value and wakes nobody, and that lasts until the next sem_post().       *)
(***************************************************************************)
NoLostWakeup ==
    Free(global_sem) /\ value > 0 /\ Sleepers # {} => hist = "init"

(***************************************************************************)
(* Once no more signals are sent, processes do not wait for ever with      *)
(* nobody let in: sem_post() wakes the sleepers, a woken process is found  *)
(* by some scheduler and finds the value positive.                         *)
(***************************************************************************)
SemProgress ==
    <>[][~ \E c \in CPU, p, q \in Proc : kkill(c, p, q)]_vars
      => []<>(\/ \A p \in Proc : pc[p] \notin {"wait", "test", "sleep"}
              \/ \E p \in Proc : pc[p] = "crit")

(***************************************************************************)
(* The semaphore is correct: it excludes, its value is never negative, and *)
(* sem_post() leaves nobody asleep beside a positive value.                *)
(***************************************************************************)
SemInv ==
    /\ SemTypeOK
    /\ SemExclusion
    /\ NoLostWakeup
=============================================================================
