------------------------------- MODULE MCSem -------------------------------
(***************************************************************************)
(* Two ways for programs to exclude each other, each on processes and CPUs *)
(* of its own, for model checking: the semaphore and the user locks.  A    *)
(* behaviour is about one of them; lock number NPROC is the semaphore's or *)
(* the one user lock.                                                      *)
(***************************************************************************)
EXTENDS Sem, TLC

VARIABLES part,
    ustate, uchan, uctx, ulock, unoff, ucproc, ustack, uscan,
    lock_used, upc, arg, held, created

UL == INSTANCE UserLock
        WITH MAX_LOCKS <- 1, state <- ustate, chan <- uchan, ctx <- uctx,
             lock <- ulock, noff <- unoff, cproc <- ucproc, stack <- ustack, scan <- uscan,
             pc <- upc

ASSUME UL!ConstantsOK

Sym == Permutations(CPU)

uvars == <<ustate, uchan, uctx, ulock, unoff, ucproc, ustack, uscan,
           lock_used, upc, arg, held, created>>

MCInit == part \in {"sem", "lock"} /\ SemInit /\ UL!ULockInit

MCNext ==
    \/ part = "sem" /\ SemNext /\ UNCHANGED <<part, uvars>>
    \/ part = "lock" /\ UL!ULockNext /\ UNCHANGED <<part, vars>>

MCSpec == MCInit /\ [][MCNext]_<<part, vars, uvars>>

\* While lock_create() calls did not race for a lock, lock_acquire() excludes
\* and its holder stays on its CPU.
ULockInv == part = "lock" => UL!ULockInv
=============================================================================
