------------------------------ MODULE UserLock ------------------------------
(***************************************************************************)
(* The lock system calls of kernel/sysproc.c: lock_create, lock_acquire    *)
(* and lock_release hand kernel spin locks to user programs, which return  *)
(* to user mode, with interrupts on, while the CPU holds them.             *)
(*                                                                         *)
(* User lock i is the lock NPROC + i of module Sched.  lock_create() has   *)
(* no lock of its own, so its test, initlock() and the store to lock_used  *)
(* are separate steps.  A panic stops the CPU where it is.                 *)
(***************************************************************************)
EXTENDS Sched

CONSTANT MAX_LOCKS

Id == 0 .. MAX_LOCKS - 1

userlocks(id) == NPROC + id

ConstantsOK ==
    /\ MAX_LOCKS \in Nat \ {0}
    /\ CondLock = {userlocks(id) : id \in Id}

VARIABLES
    lock_used,
    pc, arg,        \* where each process is; argument or loop variable
    held,           \* history: the locks its program has acquired
    created         \* history: how often each lock was initialised, up to 2

ulockvars == <<lock_used, pc, arg, held, created>>
vars == <<schedvars, ulockvars>>

PC == {"user", "create", "init", "mark", "acquire", "spin", "release", "panic"}

ULockInit ==
    /\ SchedInit
    /\ state = [p \in Proc |-> "RUNNABLE"]
    /\ lock_used = [id \in Id |-> FALSE]
    /\ pc = [p \in Proc |-> "user"]
    /\ arg = [p \in Proc |-> 0]
    /\ held = [p \in Proc |-> {}]
    /\ created = [id \in Id |-> 0]

\* Types; lock_create() returns -1 when every entry of lock_used[] is taken.
ULockTypeOK ==
    /\ SchedTypeOK
    /\ lock_used \in [Id -> BOOLEAN]
    /\ pc \in [Proc -> PC]
    /\ arg \in [Proc -> 0 .. MAX_LOCKS]
    /\ held \in [Proc -> SUBSET Id]
    /\ created \in [Id -> 0 .. 2]

Goto(p, from, to) ==
    /\ pc[p] = from
    /\ pc' = [pc EXCEPT ![p] = to]

SetArg(p, a) == arg' = [arg EXCEPT ![p] = a]

-----------------------------------------------------------------------------
\* A program creates a lock, or acquires or releases one by any id that fits
\* the table; ids outside it are refused like unused ones.
Call(c, p) ==
    /\ Runs(c, p)
    /\ \/ Goto(p, "user", "create") /\ SetArg(p, 0)
       \/ \E id \in Id : Goto(p, "user", "acquire") /\ SetArg(p, id)
       \/ \E id \in Id : Goto(p, "user", "release") /\ SetArg(p, id)
    /\ UNCHANGED <<schedvars, lock_used, held, created>>

\* Mutant: the loop runs past the end of lock_used[].
lock_create_overrun(c, p) ==
    /\ Runs(c, p) /\ pc[p] = "create"
    /\ \/ /\ arg[p] = MAX_LOCKS \/ (arg[p] \in Id /\ lock_used[arg[p]])
          /\ SetArg(p, arg[p] + 1)
          /\ UNCHANGED pc
       \/ /\ arg[p] \in Id /\ ~lock_used[arg[p]]
          /\ Goto(p, "create", "init")
          /\ UNCHANGED arg
    /\ UNCHANGED <<schedvars, lock_used, held, created>>

\* An iteration of the loop in sys_lock_create().
lock_create_test(c, p) ==
    /\ Runs(c, p) /\ pc[p] = "create"
    /\ \/ /\ arg[p] \in Id /\ lock_used[arg[p]]
          /\ SetArg(p, arg[p] + 1)
          /\ UNCHANGED pc
       \/ /\ arg[p] \in Id /\ ~lock_used[arg[p]]
          /\ Goto(p, "create", "init")
          /\ UNCHANGED arg
       \/ /\ arg[p] = MAX_LOCKS
          /\ Goto(p, "create", "user")
          /\ SetArg(p, 0)
    /\ UNCHANGED <<schedvars, lock_used, held, created>>

\* initlock(): the lock becomes free, whoever holds it.
initlock(c, p) ==
    /\ Runs(c, p)
    /\ Goto(p, "init", "mark")
    /\ lock' = [lock EXCEPT ![userlocks(arg[p])] = NoCPU]
    /\ created' = [created EXCEPT ![arg[p]] = IF @ = 0 THEN 1 ELSE 2]
    /\ UNCHANGED <<procvars, cpuvars, lock_used, arg, held>>

lock_create_mark(c, p) ==
    /\ Runs(c, p)
    /\ Goto(p, "mark", "user")
    /\ lock_used' = [lock_used EXCEPT ![arg[p]] = TRUE]
    /\ SetArg(p, 0)
    /\ UNCHANGED <<schedvars, held, created>>

\* sys_lock_acquire() up to the spinning of acquire(): push_off() has turned
\* interrupts off.
lock_acquire(c, p) ==
    /\ Runs(c, p) /\ pc[p] = "acquire"
    /\ \/ /\ ~lock_used[arg[p]]
          /\ Goto(p, "acquire", "user")
          /\ SetArg(p, 0)
          /\ UNCHANGED noff
       \/ /\ lock_used[arg[p]]
          /\ Goto(p, "acquire",
                  IF holding(c, userlocks(arg[p])) THEN "panic" ELSE "spin")
          /\ push_off(c)
          /\ UNCHANGED arg
    /\ UNCHANGED <<procvars, lock, cproc, stack, scan, lock_used, held, created>>

\* Mutant: the lock is taken without testing it.
lock_acquire_nospin(c, p) ==
    /\ Runs(c, p)
    /\ Goto(p, "spin", "user")
    /\ lock' = [lock EXCEPT ![userlocks(arg[p])] = c]
    /\ held' = [held EXCEPT ![p] = @ \cup {arg[p]}]
    /\ SetArg(p, 0)
    /\ UNCHANGED <<procvars, cpuvars, lock_used, created>>

lock_acquire_spin(c, p) ==
    /\ Runs(c, p)
    /\ Goto(p, "spin", "user")
    /\ Free(userlocks(arg[p]))
    /\ lock' = [lock EXCEPT ![userlocks(arg[p])] = c]
    /\ held' = [held EXCEPT ![p] = @ \cup {arg[p]}]
    /\ SetArg(p, 0)
    /\ UNCHANGED <<procvars, cpuvars, lock_used, created>>

\* sys_lock_release(); release() panics unless this CPU is the holder.
lock_release(c, p) ==
    /\ Runs(c, p) /\ pc[p] = "release"
    /\ \/ /\ ~lock_used[arg[p]]
          /\ Goto(p, "release", "user")
          /\ UNCHANGED <<schedvars, held>>
       \/ /\ lock_used[arg[p]]
          /\ Goto(p, "release", "user")
          /\ Release(c, userlocks(arg[p]))
          /\ held' = [held EXCEPT ![p] = @ \ {arg[p]}]
       \/ /\ lock_used[arg[p]] /\ ~holding(c, userlocks(arg[p]))
          /\ Goto(p, "release", "panic")
          /\ UNCHANGED <<schedvars, held>>
    /\ SetArg(p, 0)
    /\ UNCHANGED <<lock_used, created>>

\* A timer interrupt in user mode, where interrupts are on whatever noff is,
\* or in the kernel while no lock is held.
Timer(c, p) ==
    /\ pc[p] = "user" \/ noff[c] = 0
    /\ yield(c, p)
    /\ UNCHANGED ulockvars

Machine(c) == (SchedulerStep(c) \/ SwitchStep(c)) /\ UNCHANGED ulockvars

ULockNext ==
    \/ \E c \in CPU : Machine(c)
    \/ \E c \in CPU, p \in Proc :
          \/ Call(c, p)
          \/ lock_create_test(c, p)
          \/ initlock(c, p)
          \/ lock_create_mark(c, p)
          \/ lock_acquire(c, p)
          \/ lock_acquire_spin(c, p)
          \/ lock_release(c, p)
          \/ Timer(c, p)

ULockSpec == ULockInit /\ [][ULockNext]_vars

-----------------------------------------------------------------------------
(* Properties. *)

(***************************************************************************)
(* Two programs hold the same lock only if lock_create() has initialised   *)
(* it twice: the race of two creators over lock_used[] is the only way to  *)
(* lose mutual exclusion.                                                  *)
(***************************************************************************)
SharedOnlyByRace ==
    \A p, q \in Proc : \A id \in held[p] \cap held[q] : p # q => created[id] = 2

(***************************************************************************)
(* A program that holds a lock never leaves the CPU that is recorded as    *)
(* the holder, so release() finds lk->cpu to be its own CPU.  (It cannot   *)
(* leave: sched() panics with a lock held.)                                *)
(***************************************************************************)
HolderStaysOnCpu ==
    \A p \in Proc : \A id \in held[p] :
        created[id] < 2 => \E c \in CPU : stack[c] = p /\ holding(c, userlocks(id))

(***************************************************************************)
(* User locks are as good as their creation: while no two lock_create()    *)
(* calls raced for a lock it excludes, and its holder stays on its CPU.    *)
(***************************************************************************)
ULockInv ==
    /\ ULockTypeOK
    /\ SharedOnlyByRace
    /\ HolderStaysOnCpu
=============================================================================
