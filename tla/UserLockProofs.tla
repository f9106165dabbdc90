--------------------------- MODULE UserLockProofs ---------------------------
(***************************************************************************)
(* Proofs about the lock system calls of module UserLock, for any number   *)
(* of CPUs, processes and locks: a user lock excludes, and its holder      *)
(* stays on the CPU that holds it, as long as lock_create() has not        *)
(* initialised the lock twice.                                             *)
(*                                                                         *)
(* These calls break the scheduler's discipline (a process is preempted    *)
(* with a lock held, and initlock() frees a lock that another CPU holds),  *)
(* so the invariant does not come from SchedSpec: c->noff is no longer     *)
(* exact, but still an upper bound of the locks that c holds, which is     *)
(* what makes sched() stop a holder.                                       *)
(***************************************************************************)
EXTENDS UserLock, SchedProofs

\* Which CPU executes a process, whatever other locks it holds.
StackInv ==
    /\ \A c, d \in CPU : cproc[c] \in Proc /\ cproc[c] = cproc[d] => c = d
    /\ \A c \in CPU, p \in Proc : stack[c] = p =>
          /\ cproc[c] = p
          /\ \/ ctx[p] = "on" /\ state[p] = "RUNNING"
             \/ ctx[p] = "back" /\ state[p] = "RUNNING" /\ lock[p] = c
             \/ ctx[p] = "sched" /\ state[p] = "RUNNABLE" /\ lock[p] = c
    /\ \A c \in CPU, p \in Proc : cproc[c] = p /\ stack[c] = NoProc =>
          ctx[p] = "out" /\ state[p] = "RUNNABLE" /\ lock[p] = c
    /\ \A p \in Proc : ctx[p] # "out" => \E c \in CPU : stack[c] = p

HeldBy(c) == {l \in Lock : holding(c, l)}

\* A process that waits for a user lock has already called push_off().
Spins(c) == IF \E p \in Proc : stack[c] = p /\ pc[p] = "spin" THEN 1 ELSE 0

NoffInv == \A c \in CPU : Cardinality(HeldBy(c)) + Spins(c) <= noff[c]

\* The calls use ids of the table, and nobody gets at a lock before
\* initlock() has run.
IdInv ==
    /\ \A p \in Proc :
          /\ pc[p] \in {"init", "mark", "acquire", "spin", "release"} => arg[p] \in Id
          /\ pc[p] \in {"mark", "spin"} => created[arg[p]] # 0
          /\ pc[p] = "spin" => ctx[p] = "on"
          /\ \A id \in held[p] : created[id] # 0
    /\ \A id \in Id : lock_used[id] => created[id] # 0

ULockIInv == ULockTypeOK /\ StackInv /\ NoffInv /\ IdInv /\ HolderStaysOnCpu

-----------------------------------------------------------------------------
(* The locks of a CPU. *)

\* userlocks[id] is a lock of its own, and not the lock of a process.
LEMMA UserLockFacts ==
    ASSUME ConstantsOK
    PROVE  /\ \A id \in Id : userlocks(id) \in Lock /\ userlocks(id) \notin Proc
           /\ \A id, jd \in Id : userlocks(id) = userlocks(jd) => id = jd
<1>1. \A id \in Id : userlocks(id) \in CondLock
  BY Zenon DEF ConstantsOK
<1>2. \A id, jd \in Id : userlocks(id) = userlocks(jd) => id = jd
  BY SchedAssumption DEF ConstantsOK, Id, userlocks
<1> QED
  BY <1>1, <1>2, SchedAssumption, Zenon DEF Lock

\* The locks of a CPU can be counted.
LEMMA HeldByFinite ==
    ASSUME NEW c
    PROVE  IsFiniteSet(HeldBy(c)) /\ Cardinality(HeldBy(c)) \in Nat
<1>1. IsFiniteSet(HeldBy(c))
  BY HeldFinite, Zenon DEF HeldBy
<1> QED
  BY <1>1, FS_CardinalityType, Zenon

\* A CPU that takes a free lock holds one more, and no other CPU is concerned.
LEMMA TakeCounts ==
    ASSUME SchedTypeOK, NEW c \in CPU, NEW l \in Lock, Free(l),
           lock' = [lock EXCEPT ![l] = c], NEW d \in CPU
    PROVE  /\ d = c => Cardinality(HeldBy(d)') = Cardinality(HeldBy(d)) + 1
           /\ d # c => HeldBy(d)' = HeldBy(d)
<1>1. CASE d = c
  <2>1. HeldBy(d)' = HeldBy(d) \cup {l} /\ l \notin HeldBy(d)
    BY <1>1, SchedAssumption DEF HeldBy, holding, Free, SchedTypeOK
  <2> QED
    BY <1>1, <2>1, HeldByFinite, CardinalityAdd, Zenon
<1>2. CASE d # c
  BY <1>2, SchedAssumption, Zenon DEF HeldBy, holding, Free, SchedTypeOK
<1> QED
  BY <1>1, <1>2, Zenon

\* Freeing a lock takes it from the CPU that holds it, if there is one.
LEMMA DropCounts ==
    ASSUME SchedTypeOK, NEW l \in Lock,
           lock' = [lock EXCEPT ![l] = NoCPU], NEW d \in CPU
    PROVE  /\ holding(d, l) => Cardinality(HeldBy(d)') = Cardinality(HeldBy(d)) - 1
           /\ ~holding(d, l) => HeldBy(d)' = HeldBy(d)
<1>1. CASE holding(d, l)
  <2>1. HeldBy(d)' = HeldBy(d) \ {l} /\ l \in HeldBy(d)
    BY <1>1, SchedAssumption, Zenon DEF HeldBy, holding, SchedTypeOK
  <2> QED
    BY <1>1, <2>1, HeldByFinite, CardinalityRemove, Zenon
<1>2. CASE ~holding(d, l)
  BY <1>2, SchedAssumption, Zenon DEF HeldBy, holding, SchedTypeOK
<1> QED
  BY <1>1, <1>2, Zenon

\* A CPU that holds two locks has noff >= 2.
LEMMA TwoLocks ==
    ASSUME ULockIInv, NEW c \in CPU, NEW l \in HeldBy(c), NEW m \in HeldBy(c), l # m
    PROVE  noff[c] # 1
<1>1. Cardinality({l, m}) = 2
  <2>1. IsFiniteSet({l}) /\ Cardinality({l}) = 1
    BY FS_Singleton, Zenon
  <2>2. Cardinality({l} \cup {m}) = Cardinality({l}) + 1
    BY <2>1, CardinalityAdd, Zenon
  <2>3. {l} \cup {m} = {l, m}
    BY Zenon
  <2> QED
    BY <2>1, <2>2, <2>3
<1>2. Cardinality({l, m}) <= Cardinality(HeldBy(c))
  BY HeldByFinite, FS_Subset, Zenon
<1>3. Cardinality(HeldBy(c)) + Spins(c) <= noff[c] /\ Spins(c) \in {0, 1}
  BY Zenon DEF ULockIInv, NoffInv, Spins
<1>4. noff[c] \in Int /\ Cardinality(HeldBy(c)) \in Nat
  BY HeldByFinite, Zenon DEF ULockIInv, ULockTypeOK, SchedTypeOK
<1> QED
  BY <1>1, <1>2, <1>3, <1>4

\* A process is on the stack of one CPU, and without a CPU it is parked.
LEMMA OneStack ==
    ASSUME ULockIInv, NEW p \in Proc
    PROVE  /\ \A c, d \in CPU : stack[c] = p /\ stack[d] = p => c = d
           /\ (\A c \in CPU : stack[c] # p) =>
                 /\ ctx[p] = "out"
                 /\ pc[p] # "spin"
                 /\ \A id \in held[p] : ~(created[id] < 2)
<1>1. \A c, d \in CPU : stack[c] = p /\ stack[d] = p => c = d
  BY DEF ULockIInv, StackInv
<1>2. ASSUME \A c \in CPU : stack[c] # p
      PROVE  ctx[p] = "out"
  BY <1>2, Zenon DEF ULockIInv, StackInv
<1> QED
  BY <1>1, <1>2, Zenon DEF ULockIInv, IdInv, HolderStaysOnCpu

-----------------------------------------------------------------------------
(* The scheduler and the timer interrupt. *)

\* After boot no process runs and no lock exists.
LEMMA ULockInitInv ==
    ASSUME ConstantsOK, ULockInit
    PROVE  ULockIInv
<1>1. ULockTypeOK
  <2>1. SchedTypeOK
    BY SchedAssumption DEF ULockInit, SchedInit, SchedTypeOK, State, Ctx, Proc
  <2> QED
    BY <2>1 DEF ULockInit, ULockTypeOK, PC, ConstantsOK, Id
<1>2. StackInv
  BY SchedAssumption, Zenon DEF ULockInit, SchedInit, StackInv
<1>3. NoffInv
  <2>1. \A c \in CPU : HeldBy(c) = {} /\ Spins(c) = 0 /\ noff[c] = 0
    BY SchedAssumption, Zenon DEF ULockInit, SchedInit, HeldBy, holding, Spins
  <2> QED
    BY <2>1, FS_EmptySet DEF NoffInv
<1>4. IdInv /\ HolderStaysOnCpu
  BY Zenon DEF ULockInit, IdInv, HolderStaysOnCpu
<1> QED
  BY <1>1, <1>2, <1>3, <1>4, Zenon DEF ULockIInv

\* scheduler() picks up a process that no CPU executes.
LEMMA DispatchKeeps ==
    ASSUME ConstantsOK, ULockIInv, NEW c \in CPU, NEW p \in Proc,
           Dispatch(c, p), UNCHANGED ulockvars
    PROVE  ULockIInv'
<1>1. /\ p \in Lock /\ Free(p) /\ lock' = [lock EXCEPT ![p] = c]
      /\ noff' = [noff EXCEPT ![c] = @ + 1]
      /\ stack[c] = NoProc /\ cproc[c] = NoProc /\ state[p] = "RUNNABLE"
      /\ UNCHANGED <<lock_used, pc, arg, held, created>>
  BY Zenon DEF Dispatch, acquire, push_off, ulockvars, Lock
<1>2. \A d \in CPU : cproc[d] # p /\ stack[d] # p
  BY <1>1, SchedAssumption DEF Free, ULockIInv, ULockTypeOK, SchedTypeOK, StackInv
<1>3. ULockTypeOK'
  BY <1>1 DEF Dispatch, ULockIInv, ULockTypeOK, SchedTypeOK, State, Ctx
<1>4. StackInv'
  BY <1>1, <1>2 DEF Dispatch, Free, ULockIInv, ULockTypeOK, SchedTypeOK, StackInv
<1>5. stack' = [stack EXCEPT ![c] = p] /\ ctx' = [ctx EXCEPT ![p] = "back"]
  BY Zenon DEF Dispatch
<1>6. pc[p] # "spin" /\ \A id \in held[p] : ~(created[id] < 2)
  BY <1>2, OneStack, Zenon
<1>7. NoffInv'
  <2> SUFFICES ASSUME NEW d \in CPU
               PROVE  Cardinality(HeldBy(d)') + Spins(d)' <= noff'[d]
    BY Zenon DEF NoffInv
  <2>1. Spins(d)' = Spins(d) /\ Spins(d) \in {0, 1}
    BY <1>1, <1>5, <1>6, SchedAssumption, Zenon DEF Spins, ULockIInv, ULockTypeOK, SchedTypeOK
  <2>2. Cardinality(HeldBy(d)) + Spins(d) <= noff[d]
    BY Zenon DEF ULockIInv, NoffInv
  <2>3. noff[d] \in Int /\ noff'[d] = IF d = c THEN noff[d] + 1 ELSE noff[d]
    BY <1>1, Zenon DEF ULockIInv, ULockTypeOK, SchedTypeOK
  <2>4. /\ d = c => Cardinality(HeldBy(d)') = Cardinality(HeldBy(d)) + 1
        /\ d # c => HeldBy(d)' = HeldBy(d)
    BY <1>1, TakeCounts, Zenon DEF ULockIInv, ULockTypeOK
  <2> QED
    BY <2>1, <2>2, <2>3, <2>4, HeldByFinite
<1>8. IdInv'
  BY <1>1, <1>5, <1>6, Zenon DEF ULockIInv, IdInv, ULockTypeOK, SchedTypeOK
<1>9. HolderStaysOnCpu'
  <2> SUFFICES ASSUME NEW q \in Proc, NEW id \in held[q], created[id] < 2
               PROVE  \E d \in CPU : stack'[d] = q /\ lock'[userlocks(id)] = d
    BY <1>1, Zenon DEF HolderStaysOnCpu, holding
  <2>1. PICK d \in CPU : stack[d] = q /\ lock[userlocks(id)] = d
    BY Zenon DEF ULockIInv, HolderStaysOnCpu, holding
  <2>2. id \in Id /\ userlocks(id) \in Lock /\ userlocks(id) # p
    BY UserLockFacts, Zenon DEF ULockIInv, ULockTypeOK
  <2>3. d # c
    BY <1>1, <2>1, SchedAssumption, Zenon
  <2> QED
    BY <1>1, <1>5, <2>1, <2>2, <2>3, Zenon DEF ULockIInv, ULockTypeOK, SchedTypeOK
<1> QED
  BY <1>3, <1>4, <1>7, <1>8, <1>9, Zenon DEF ULockIInv

\* scheduler() passes over a process that is not runnable.
LEMMA SkipKeeps ==
    ASSUME ULockIInv, NEW c \in CPU, NEW p \in Proc,
           Skip(c, p), UNCHANGED ulockvars
    PROVE  ULockIInv'
<1>1. /\ UNCHANGED <<state, chan, ctx, lock, noff, cproc, stack>>
      /\ UNCHANGED <<lock_used, pc, arg, held, created>>
  BY Zenon DEF Skip, procvars, ulockvars
<1>2. scan' \in [CPU -> Proc]
  BY NextSlotInTable, Zenon DEF Skip, ULockIInv, ULockTypeOK, SchedTypeOK
<1>3. ULockTypeOK'
  BY <1>1, <1>2, Zenon DEF ULockIInv, ULockTypeOK, SchedTypeOK
<1>4. StackInv' /\ NoffInv'
  BY <1>1 DEF ULockIInv, StackInv, NoffInv, HeldBy, Spins, holding
<1>5. IdInv' /\ HolderStaysOnCpu'
  BY <1>1 DEF ULockIInv, IdInv, HolderStaysOnCpu, holding
<1> QED
  BY <1>3, <1>4, <1>5, Zenon DEF ULockIInv

\* scheduler() drops the lock of the process that has left its CPU.
LEMMA SwtchReturnKeeps ==
    ASSUME ConstantsOK, ULockIInv, NEW c \in CPU, NEW p \in Proc,
           SwtchReturn(c, p), UNCHANGED ulockvars
    PROVE  ULockIInv'
<1>1. /\ p \in Lock /\ lock[p] = c /\ lock' = [lock EXCEPT ![p] = NoCPU]
      /\ noff' = [noff EXCEPT ![c] = @ - 1]
      /\ cproc' = [cproc EXCEPT ![c] = NoProc] /\ stack[c] = NoProc /\ cproc[c] = p
      /\ UNCHANGED <<state, chan, ctx, stack, lock_used, pc, arg, held, created>>
  BY Zenon DEF SwtchReturn, release, holding, pop_off, procvars, ulockvars, Lock
<1>2. scan' \in [CPU -> Proc]
  BY NextSlotInTable, Zenon DEF SwtchReturn, ULockIInv, ULockTypeOK, SchedTypeOK
<1>3. ULockTypeOK'
  <2>1. SchedTypeOK /\ p \in Lock
    BY <1>1, Zenon DEF ULockIInv, ULockTypeOK
  <2>2. lock' \in [Lock -> CPU \cup {NoCPU}]
    BY <1>1, <2>1, Zenon DEF SchedTypeOK
  <2>3. noff' \in [CPU -> Int] /\ cproc' \in [CPU -> Proc \cup {NoProc}]
    BY <1>1, <2>1 DEF SchedTypeOK
  <2>4. SchedTypeOK'
    BY <1>1, <1>2, <2>1, <2>2, <2>3, Zenon DEF SchedTypeOK
  <2> QED
    BY <1>1, <2>4, Zenon DEF ULockIInv, ULockTypeOK
<1>4. StackInv'
  BY <1>1 DEF ULockIInv, ULockTypeOK, SchedTypeOK, StackInv
<1>5. NoffInv'
  <2> SUFFICES ASSUME NEW d \in CPU
               PROVE  Cardinality(HeldBy(d)') + Spins(d)' <= noff'[d]
    BY Zenon DEF NoffInv
  <2>1. Spins(d)' = Spins(d) /\ Spins(d) \in {0, 1}
    BY <1>1, Zenon DEF Spins
  <2>2. Cardinality(HeldBy(d)) + Spins(d) <= noff[d]
    BY Zenon DEF ULockIInv, NoffInv
  <2>3. noff[d] \in Int /\ noff'[d] = IF d = c THEN noff[d] - 1 ELSE noff[d]
    BY <1>1, Zenon DEF ULockIInv, ULockTypeOK, SchedTypeOK
  <2>4. /\ d = c => Cardinality(HeldBy(d)') = Cardinality(HeldBy(d)) - 1
        /\ d # c => HeldBy(d)' = HeldBy(d)
    BY <1>1, DropCounts, Zenon DEF ULockIInv, ULockTypeOK, holding
  <2> QED
    BY <2>1, <2>2, <2>3, <2>4, HeldByFinite
<1>6. IdInv'
  BY <1>1, Zenon DEF ULockIInv, IdInv
<1>7. HolderStaysOnCpu'
  <2>1. \A id \in Id : lock'[userlocks(id)] = lock[userlocks(id)]
    BY <1>1, UserLockFacts, Zenon DEF ULockIInv, ULockTypeOK, SchedTypeOK
  <2>2. \A q \in Proc : held[q] \subseteq Id
    BY Zenon DEF ULockIInv, ULockTypeOK
  <2> QED
    BY <1>1, <2>1, <2>2 DEF ULockIInv, HolderStaysOnCpu, holding
<1> QED
  BY <1>3, <1>4, <1>5, <1>6, <1>7, Zenon DEF ULockIInv

\* sched() lets a process leave its CPU only with noff = 1, which is its own
\* p->lock: a holder of a user lock stays.
LEMMA SwtchKeeps ==
    ASSUME ConstantsOK, ULockIInv, NEW c \in CPU, NEW p \in Proc,
           SwtchToScheduler(c, p), UNCHANGED ulockvars
    PROVE  ULockIInv'
<1>1. /\ stack[c] = p /\ ctx[p] = "sched" /\ lock[p] = c /\ noff[c] = 1
      /\ ctx' = [ctx EXCEPT ![p] = "out"] /\ stack' = [stack EXCEPT ![c] = NoProc]
      /\ UNCHANGED <<state, chan, lock, noff, cproc, scan>>
      /\ UNCHANGED <<lock_used, pc, arg, held, created>>
  BY Zenon DEF SwtchToScheduler, CanSwitch, holding, ulockvars
<1>2. \A id \in held[p] : ~(created[id] < 2)
  <2> SUFFICES ASSUME NEW id \in held[p], created[id] < 2
               PROVE  FALSE
    BY Zenon
  <2>1. PICK d \in CPU : stack[d] = p /\ holding(d, userlocks(id))
    BY Zenon DEF ULockIInv, HolderStaysOnCpu
  <2>2. d = c
    BY <1>1, <2>1, OneStack, Zenon
  <2>3. userlocks(id) \in Lock /\ userlocks(id) # p
    BY UserLockFacts, Zenon DEF ULockIInv, ULockTypeOK
  <2>4. userlocks(id) \in HeldBy(c) /\ p \in HeldBy(c)
    BY <1>1, <2>1, <2>2, <2>3, Zenon DEF HeldBy, holding, Lock
  <2> QED
    BY <1>1, <2>3, <2>4, TwoLocks, Zenon
<1>3. pc[p] # "spin"
  BY <1>1, Zenon DEF ULockIInv, IdInv
<1>4. ULockTypeOK'
  BY <1>1, Zenon DEF ULockIInv, ULockTypeOK, SchedTypeOK, Ctx
<1>5. StackInv'
  BY <1>1, SchedAssumption DEF ULockIInv, ULockTypeOK, SchedTypeOK, StackInv
<1>6. NoffInv'
  <2> SUFFICES ASSUME NEW d \in CPU
               PROVE  Cardinality(HeldBy(d)') + Spins(d)' <= noff'[d]
    BY Zenon DEF NoffInv
  <2>1. Spins(d)' = Spins(d)
    BY <1>1, <1>3, SchedAssumption, Zenon DEF Spins, ULockIInv, ULockTypeOK, SchedTypeOK
  <2>2. HeldBy(d)' = HeldBy(d)
    BY <1>1, Zenon DEF HeldBy, holding
  <2> QED
    BY <1>1, <2>1, <2>2, Zenon DEF ULockIInv, NoffInv
<1>7. IdInv'
  BY <1>1, <1>3, Zenon DEF ULockIInv, IdInv, ULockTypeOK, SchedTypeOK
<1>8. HolderStaysOnCpu'
  BY <1>1, <1>2 DEF ULockIInv, ULockTypeOK, SchedTypeOK, HolderStaysOnCpu, holding
<1> QED
  BY <1>4, <1>5, <1>6, <1>7, <1>8, Zenon DEF ULockIInv

\* A process that the scheduler has switched to drops its p->lock.
LEMMA ResumeKeeps ==
    ASSUME ConstantsOK, ULockIInv, NEW c \in CPU, NEW p \in Proc,
           Resume(c, p), UNCHANGED ulockvars
    PROVE  ULockIInv'
<1>1. /\ p \in Lock /\ lock[p] = c /\ lock' = [lock EXCEPT ![p] = NoCPU]
      /\ noff' = [noff EXCEPT ![c] = @ - 1] /\ stack[c] = p /\ ctx[p] = "back"
      /\ ctx' = [ctx EXCEPT ![p] = "on"] /\ chan' = [chan EXCEPT ![p] = NoChan]
      /\ UNCHANGED <<state, cproc, stack, scan, lock_used, pc, arg, held, created>>
  BY Zenon DEF Resume, release, holding, pop_off, ulockvars, Lock
<1>2. ULockTypeOK'
  <2>1. SchedTypeOK
    BY Zenon DEF ULockIInv, ULockTypeOK
  <2>2. lock' \in [Lock -> CPU \cup {NoCPU}] /\ noff' \in [CPU -> Int]
    BY <1>1, <2>1 DEF SchedTypeOK
  <2>3. ctx' \in [Proc -> Ctx] /\ chan' \in [Proc -> Chan \cup {NoChan}]
    BY <1>1, <2>1, Zenon DEF SchedTypeOK, Ctx
  <2>4. SchedTypeOK'
    BY <1>1, <2>1, <2>2, <2>3, Zenon DEF SchedTypeOK
  <2> QED
    BY <1>1, <2>4, Zenon DEF ULockIInv, ULockTypeOK
<1>3. StackInv'
  BY <1>1 DEF ULockIInv, ULockTypeOK, SchedTypeOK, StackInv
<1>4. NoffInv'
  <2> SUFFICES ASSUME NEW d \in CPU
               PROVE  Cardinality(HeldBy(d)') + Spins(d)' <= noff'[d]
    BY Zenon DEF NoffInv
  <2>1. Spins(d)' = Spins(d) /\ Spins(d) \in {0, 1}
    BY <1>1, Zenon DEF Spins
  <2>2. Cardinality(HeldBy(d)) + Spins(d) <= noff[d]
    BY Zenon DEF ULockIInv, NoffInv
  <2>3. noff[d] \in Int /\ noff'[d] = IF d = c THEN noff[d] - 1 ELSE noff[d]
    BY <1>1, Zenon DEF ULockIInv, ULockTypeOK, SchedTypeOK
  <2>4. /\ d = c => Cardinality(HeldBy(d)') = Cardinality(HeldBy(d)) - 1
        /\ d # c => HeldBy(d)' = HeldBy(d)
    BY <1>1, DropCounts, Zenon DEF ULockIInv, ULockTypeOK, holding
  <2> QED
    BY <2>1, <2>2, <2>3, <2>4, HeldByFinite
<1>5. IdInv'
  BY <1>1, Zenon DEF ULockIInv, IdInv, ULockTypeOK, SchedTypeOK
<1>6. HolderStaysOnCpu'
  <2>1. \A id \in Id : lock'[userlocks(id)] = lock[userlocks(id)]
    BY <1>1, UserLockFacts, Zenon DEF ULockIInv, ULockTypeOK, SchedTypeOK
  <2>2. \A q \in Proc : held[q] \subseteq Id
    BY Zenon DEF ULockIInv, ULockTypeOK
  <2> QED
    BY <1>1, <2>1, <2>2 DEF ULockIInv, HolderStaysOnCpu, holding
<1> QED
  BY <1>2, <1>3, <1>4, <1>5, <1>6, Zenon DEF ULockIInv

\* A timer interrupt sends a process into sched(), locks held or not; it does
\* not reach a process that spins, because push_off() has made noff positive.
LEMMA TimerKeeps ==
    ASSUME ConstantsOK, ULockIInv, NEW c \in CPU, NEW p \in Proc, Timer(c, p)
    PROVE  ULockIInv'
<1>1. /\ p \in Lock /\ Free(p) /\ lock' = [lock EXCEPT ![p] = c]
      /\ noff' = [noff EXCEPT ![c] = @ + 1] /\ stack[c] = p /\ ctx[p] = "on"
      /\ state' = [state EXCEPT ![p] = "RUNNABLE"]
      /\ chan' = [chan EXCEPT ![p] = chan[p]] /\ ctx' = [ctx EXCEPT ![p] = "sched"]
      /\ UNCHANGED <<cproc, stack, scan, lock_used, pc, arg, held, created>>
  BY Zenon DEF Timer, yield, EnterSched, Runs, acquire, push_off, ulockvars, Lock
<1>2. pc[p] # "spin"
  <2> SUFFICES ASSUME pc[p] = "spin"
               PROVE  FALSE
    BY Zenon
  <2>1. noff[c] = 0 /\ Spins(c) = 1
    BY <1>1, Zenon DEF Timer, Spins
  <2>2. Cardinality(HeldBy(c)) + Spins(c) <= noff[c]
    BY Zenon DEF ULockIInv, NoffInv
  <2> QED
    BY <2>1, <2>2, HeldByFinite
<1>3. ULockTypeOK'
  <2>1. SchedTypeOK
    BY Zenon DEF ULockIInv, ULockTypeOK
  <2>2. lock' \in [Lock -> CPU \cup {NoCPU}] /\ noff' \in [CPU -> Int]
    BY <1>1, <2>1 DEF SchedTypeOK
  <2>3. /\ state' \in [Proc -> State] /\ ctx' \in [Proc -> Ctx]
        /\ chan' \in [Proc -> Chan \cup {NoChan}]
    BY <1>1, <2>1, Zenon DEF SchedTypeOK, State, Ctx
  <2>4. SchedTypeOK'
    BY <1>1, <2>1, <2>2, <2>3, Zenon DEF SchedTypeOK
  <2> QED
    BY <1>1, <2>4, Zenon DEF ULockIInv, ULockTypeOK
<1>4. StackInv'
  <2>1. \A d \in CPU : d # c => cproc[d] # p /\ stack[d] # p
    BY <1>1 DEF ULockIInv, ULockTypeOK, SchedTypeOK, StackInv
  <2> QED
    BY <1>1, <2>1 DEF ULockIInv, ULockTypeOK, SchedTypeOK, StackInv
<1>5. NoffInv'
  <2> SUFFICES ASSUME NEW d \in CPU
               PROVE  Cardinality(HeldBy(d)') + Spins(d)' <= noff'[d]
    BY Zenon DEF NoffInv
  <2>1. Spins(d)' = Spins(d) /\ Spins(d) \in {0, 1}
    BY <1>1, Zenon DEF Spins
  <2>2. Cardinality(HeldBy(d)) + Spins(d) <= noff[d]
    BY Zenon DEF ULockIInv, NoffInv
  <2>3. noff[d] \in Int /\ noff'[d] = IF d = c THEN noff[d] + 1 ELSE noff[d]
    BY <1>1, Zenon DEF ULockIInv, ULockTypeOK, SchedTypeOK
  <2>4. /\ d = c => Cardinality(HeldBy(d)') = Cardinality(HeldBy(d)) + 1
        /\ d # c => HeldBy(d)' = HeldBy(d)
    BY <1>1, TakeCounts, Zenon DEF ULockIInv, ULockTypeOK
  <2> QED
    BY <2>1, <2>2, <2>3, <2>4, HeldByFinite
<1>6. IdInv'
  BY <1>1, <1>2, Zenon DEF ULockIInv, IdInv, ULockTypeOK, SchedTypeOK
<1>7. HolderStaysOnCpu'
  <2>1. \A id \in Id : lock'[userlocks(id)] = lock[userlocks(id)]
    BY <1>1, UserLockFacts, Zenon DEF ULockIInv, ULockTypeOK, SchedTypeOK
  <2>2. \A q \in Proc : held[q] \subseteq Id
    BY Zenon DEF ULockIInv, ULockTypeOK
  <2> QED
    BY <1>1, <2>1, <2>2 DEF ULockIInv, HolderStaysOnCpu, holding
<1> QED
  BY <1>3, <1>4, <1>5, <1>6, <1>7, Zenon DEF ULockIInv

-----------------------------------------------------------------------------
(* The lock system calls. *)

\* A step that touches no lock and starts or ends no waiting.
LEMMA QuietKeeps ==
    ASSUME ULockIInv, UNCHANGED <<schedvars, held, created>>,
           \A q \in Proc : pc'[q] = "spin" <=> pc[q] = "spin",
           ULockTypeOK', IdInv'
    PROVE  ULockIInv'
<1>1. UNCHANGED <<state, chan, ctx, lock, noff, cproc, stack, scan>>
  BY Zenon DEF schedvars, procvars, cpuvars
<1>2. StackInv'
  BY <1>1 DEF ULockIInv, StackInv
<1>3. NoffInv'
  <2>1. \A c \in CPU : Spins(c)' = Spins(c) /\ HeldBy(c)' = HeldBy(c)
    BY <1>1, Zenon DEF Spins, HeldBy, holding
  <2> QED
    BY <1>1, <2>1, Zenon DEF ULockIInv, NoffInv
<1>4. HolderStaysOnCpu'
  BY <1>1 DEF ULockIInv, HolderStaysOnCpu, holding
<1> QED
  BY <1>2, <1>3, <1>4, Zenon DEF ULockIInv

\* A program enters one of the calls.
LEMMA CallKeeps ==
    ASSUME ConstantsOK, ULockIInv, NEW c \in CPU, NEW p \in Proc, Call(c, p)
    PROVE  ULockIInv'
<1>1. PICK to \in {"create", "acquire", "release"}, a \in Id :
         /\ pc[p] = "user" /\ pc' = [pc EXCEPT ![p] = to]
         /\ arg' = [arg EXCEPT ![p] = a]
  BY DEF Call, Goto, SetArg, Id, ConstantsOK
<1>2. UNCHANGED <<schedvars, lock_used, held, created>>
  BY Zenon DEF Call
<1>3. a \in 0 .. MAX_LOCKS
  BY DEF Id, ConstantsOK
<1>4. ULockTypeOK'
  <2>1. SchedTypeOK'
    BY <1>2, Zenon DEF ULockIInv, ULockTypeOK, SchedTypeOK, schedvars, procvars, cpuvars
  <2> QED
    BY <1>1, <1>2, <1>3, <2>1, Zenon DEF ULockIInv, ULockTypeOK, PC
<1>5. ctx' = ctx
  BY <1>2, Zenon DEF schedvars, procvars
<1>6. IdInv'
  BY <1>1, <1>2, <1>5, Zenon DEF ULockIInv, ULockTypeOK, IdInv
<1>7. \A q \in Proc : pc'[q] = "spin" <=> pc[q] = "spin"
  BY <1>1, Zenon DEF ULockIInv, ULockTypeOK
<1> QED
  BY <1>2, <1>4, <1>6, <1>7, QuietKeeps, Zenon

\* lock_create() looks for an unused lock.
LEMMA CreateTestKeeps ==
    ASSUME ConstantsOK, ULockIInv, NEW c \in CPU, NEW p \in Proc,
           lock_create_test(c, p)
    PROVE  ULockIInv'
<1>1. /\ pc[p] = "create" /\ UNCHANGED <<schedvars, lock_used, held, created>>
      /\ \/ arg[p] \in Id /\ arg' = [arg EXCEPT ![p] = arg[p] + 1] /\ pc' = pc
         \/ arg[p] \in Id /\ arg' = arg /\ pc' = [pc EXCEPT ![p] = "init"]
         \/ arg' = [arg EXCEPT ![p] = 0] /\ pc' = [pc EXCEPT ![p] = "user"]
  BY Zenon DEF lock_create_test, Goto, SetArg
<1>2. ctx' = ctx
  BY <1>1, Zenon DEF schedvars, procvars
<1>3. arg' \in [Proc -> 0 .. MAX_LOCKS] /\ pc' \in [Proc -> PC]
  <2>1. arg[p] \in Id => arg[p] + 1 \in 0 .. MAX_LOCKS
    BY DEF Id, ConstantsOK
  <2>2. arg' \in [Proc -> 0 .. MAX_LOCKS]
    BY <1>1, <2>1 DEF ULockIInv, ULockTypeOK, ConstantsOK
  <2> QED
    BY <1>1, <2>2, Zenon DEF ULockIInv, ULockTypeOK, PC
<1>4. ULockTypeOK'
  <2>1. SchedTypeOK'
    BY <1>1, Zenon DEF ULockIInv, ULockTypeOK, SchedTypeOK, schedvars, procvars, cpuvars
  <2> QED
    BY <1>1, <1>3, <2>1, Zenon DEF ULockIInv, ULockTypeOK
<1>5. IdInv'
  BY <1>1, <1>2, Zenon DEF ULockIInv, ULockTypeOK, IdInv
<1>6. \A q \in Proc : pc'[q] = "spin" <=> pc[q] = "spin"
  BY <1>1, Zenon DEF ULockIInv, ULockTypeOK
<1> QED
  BY <1>1, <1>4, <1>5, <1>6, QuietKeeps, Zenon

\* lock_create() marks the lock it has initialised as used.
LEMMA CreateMarkKeeps ==
    ASSUME ConstantsOK, ULockIInv, NEW c \in CPU, NEW p \in Proc,
           lock_create_mark(c, p)
    PROVE  ULockIInv'
<1>1. /\ pc[p] = "mark" /\ pc' = [pc EXCEPT ![p] = "user"]
      /\ lock_used' = [lock_used EXCEPT ![arg[p]] = TRUE]
      /\ arg' = [arg EXCEPT ![p] = 0] /\ UNCHANGED <<schedvars, held, created>>
  BY Zenon DEF lock_create_mark, Goto, SetArg
<1>2. arg[p] \in Id /\ created[arg[p]] # 0
  BY <1>1, Zenon DEF ULockIInv, IdInv
<1>3. ctx' = ctx
  BY <1>1, Zenon DEF schedvars, procvars
<1>4. ULockTypeOK'
  <2>1. SchedTypeOK'
    BY <1>1, Zenon DEF ULockIInv, ULockTypeOK, SchedTypeOK, schedvars, procvars, cpuvars
  <2>2. arg' \in [Proc -> 0 .. MAX_LOCKS] /\ pc' \in [Proc -> PC]
    BY <1>1 DEF ULockIInv, ULockTypeOK, PC, ConstantsOK
  <2>3. lock_used' \in [Id -> BOOLEAN]
    BY <1>1, Zenon DEF ULockIInv, ULockTypeOK
  <2> QED
    BY <1>1, <2>1, <2>2, <2>3, Zenon DEF ULockIInv, ULockTypeOK
<1>5. IdInv'
  <2>1. \A id \in Id : lock_used'[id] => lock_used[id] \/ id = arg[p]
    BY <1>1, Zenon DEF ULockIInv, ULockTypeOK
  <2>2. \A id \in Id : lock_used'[id] => created'[id] # 0
    BY <1>1, <1>2, <2>1, Zenon DEF ULockIInv, IdInv
  <2> QED
    BY <1>1, <1>3, <2>2, Zenon DEF ULockIInv, ULockTypeOK, IdInv
<1>6. \A q \in Proc : pc'[q] = "spin" <=> pc[q] = "spin"
  BY <1>1, Zenon DEF ULockIInv, ULockTypeOK
<1> QED
  BY <1>1, <1>4, <1>5, <1>6, QuietKeeps, Zenon

\* initlock() frees the lock, whoever holds it; if somebody may, this is the
\* second time it is initialised.
LEMMA InitlockKeeps ==
    ASSUME ConstantsOK, ULockIInv, NEW c \in CPU, NEW p \in Proc, initlock(c, p)
    PROVE  ULockIInv'
<1> DEFINE a == arg[p]
           l == userlocks(a)
<1>1. /\ pc[p] = "init" /\ pc' = [pc EXCEPT ![p] = "mark"]
      /\ lock' = [lock EXCEPT ![l] = NoCPU]
      /\ created' = [created EXCEPT ![a] = IF @ = 0 THEN 1 ELSE 2]
      /\ UNCHANGED <<state, chan, ctx, noff, cproc, stack, scan>>
      /\ UNCHANGED <<lock_used, arg, held>>
  BY Zenon DEF initlock, Goto, procvars, cpuvars
<1>2. a \in Id /\ l \in Lock /\ l \notin Proc
  BY <1>1, UserLockFacts, Zenon DEF ULockIInv, IdInv
<1> HIDE DEF a, l
<1>3. /\ \A q \in Proc : lock'[q] = lock[q]
      /\ \A id \in Id : id # a => created'[id] = created[id]
      /\ created'[a] = IF created[a] = 0 THEN 1 ELSE 2
  BY <1>1, <1>2, Zenon DEF ULockIInv, ULockTypeOK, SchedTypeOK, Lock
<1>4. ULockTypeOK'
  <2>1. SchedTypeOK'
    BY <1>1, <1>2, Zenon DEF ULockIInv, ULockTypeOK, SchedTypeOK
  <2> QED
    BY <1>1, <1>2, <2>1 DEF ULockIInv, ULockTypeOK, PC
<1>5. StackInv'
  BY <1>1, <1>3 DEF ULockIInv, StackInv
<1>6. \A q \in Proc : pc'[q] = "spin" <=> pc[q] = "spin"
  BY <1>1, Zenon DEF ULockIInv, ULockTypeOK
<1>7. NoffInv'
  <2> SUFFICES ASSUME NEW d \in CPU
               PROVE  Cardinality(HeldBy(d)') + Spins(d)' <= noff'[d]
    BY Zenon DEF NoffInv
  <2>1. Spins(d)' = Spins(d) /\ Spins(d) \in {0, 1}
    BY <1>1, <1>6, Zenon DEF Spins
  <2>2. Cardinality(HeldBy(d)) + Spins(d) <= noff[d] /\ noff[d] \in Int /\ noff' = noff
    BY <1>1, Zenon DEF ULockIInv, NoffInv, ULockTypeOK, SchedTypeOK
  <2>3. \/ Cardinality(HeldBy(d)') = Cardinality(HeldBy(d)) - 1
        \/ HeldBy(d)' = HeldBy(d)
    BY <1>1, <1>2, DropCounts, Zenon DEF ULockIInv, ULockTypeOK
  <2> QED
    BY <2>1, <2>2, <2>3, HeldByFinite
<1>8. IdInv'
  <2>1. \A id \in Id : created[id] # 0 => created'[id] # 0
    BY <1>3
  <2>2. arg[p] \in Id /\ created'[arg[p]] # 0
    BY <1>2, <1>3 DEF a
  <2>3. \A q \in Proc : held[q] \subseteq Id
    BY Zenon DEF ULockIInv, ULockTypeOK
  <2> QED
    BY <1>1, <2>1, <2>2, <2>3, Zenon DEF ULockIInv, ULockTypeOK, IdInv
<1>9. HolderStaysOnCpu'
  <2> SUFFICES ASSUME NEW q \in Proc, NEW id \in held[q], created'[id] < 2
               PROVE  \E d \in CPU : stack[d] = q /\ lock'[userlocks(id)] = d
    BY <1>1 DEF HolderStaysOnCpu, holding
  <2>1. id \in Id /\ created[id] # 0
    BY Zenon DEF ULockIInv, ULockTypeOK, IdInv
  <2>2. id # a
    BY <1>3, <2>1
  <2>3. lock'[userlocks(id)] = lock[userlocks(id)]
    <3>1. userlocks(id) \in Lock /\ userlocks(id) # l
      BY <1>2, <2>1, <2>2, UserLockFacts, Zenon DEF l
    <3> QED
      BY <1>1, <1>2, <3>1, Zenon DEF ULockIInv, ULockTypeOK, SchedTypeOK
  <2> QED
    BY <1>3, <2>1, <2>2, <2>3 DEF ULockIInv, HolderStaysOnCpu, holding
<1> QED
  BY <1>4, <1>5, <1>7, <1>8, <1>9, Zenon DEF ULockIInv

\* lock_acquire() up to the spinning: a process that will wait has called
\* push_off(), so no timer interrupt reaches it.
LEMMA AcquireKeeps ==
    ASSUME ConstantsOK, ULockIInv, NEW c \in CPU, NEW p \in Proc,
           lock_acquire(c, p)
    PROVE  ULockIInv'
<1>1. /\ pc[p] = "acquire" /\ stack[c] = p /\ ctx[p] = "on"
      /\ UNCHANGED <<state, chan, ctx, lock, cproc, stack, scan>>
      /\ UNCHANGED <<lock_used, held, created>>
  BY Zenon DEF lock_acquire, Runs, procvars
<1>2. arg[p] \in Id
  BY <1>1, Zenon DEF ULockIInv, IdInv
<1>3. PICK to \in {"user", "panic", "spin"} :
         /\ pc' = [pc EXCEPT ![p] = to]
         /\ arg' = [arg EXCEPT ![p] = 0] \/ arg' = arg
         /\ noff' = IF to = "user" THEN noff ELSE [noff EXCEPT ![c] = @ + 1]
         /\ to # "user" => lock_used[arg[p]] /\ arg' = arg
  BY Zenon DEF lock_acquire, Goto, SetArg, push_off
<1>4. ULockTypeOK'
  <2>1. SchedTypeOK'
    BY <1>1, <1>3 DEF ULockIInv, ULockTypeOK, SchedTypeOK
  <2>2. arg' \in [Proc -> 0 .. MAX_LOCKS] /\ pc' \in [Proc -> PC]
    BY <1>3 DEF ULockIInv, ULockTypeOK, PC, ConstantsOK
  <2> QED
    BY <1>1, <2>1, <2>2, Zenon DEF ULockIInv, ULockTypeOK
<1>5. StackInv'
  BY <1>1 DEF ULockIInv, StackInv
<1>6. \A q \in Proc : pc'[q] = IF q = p THEN to ELSE pc[q]
  BY <1>3, Zenon DEF ULockIInv, ULockTypeOK
<1>7. NoffInv'
  <2> SUFFICES ASSUME NEW d \in CPU
               PROVE  Cardinality(HeldBy(d)') + Spins(d)' <= noff'[d]
    BY Zenon DEF NoffInv
  <2>1. Cardinality(HeldBy(d)) + Spins(d) <= noff[d] /\ noff[d] \in Int
    BY Zenon DEF ULockIInv, NoffInv, ULockTypeOK, SchedTypeOK
  <2>2. HeldBy(d)' = HeldBy(d)
    BY <1>1, Zenon DEF HeldBy, holding
  <2>3. Spins(d) \in {0, 1} /\ Spins(d)' \in {0, 1}
    BY Zenon DEF Spins
  <2>4. CASE d = c /\ to # "user"
    <3>1. Spins(d) = 0
      BY <1>1, <2>4, Zenon DEF Spins
    <3>2. noff'[d] = noff[d] + 1
      BY <1>3, <2>4, Zenon DEF ULockIInv, ULockTypeOK, SchedTypeOK
    <3> QED
      BY <2>1, <2>2, <2>3, <3>1, <3>2, HeldByFinite
  <2>5. CASE d # c \/ to = "user"
    <3>1. stack[d] = p => to = "user"
      BY <1>1, <2>5, OneStack, Zenon
    <3>2. Spins(d)' = Spins(d)
      BY <1>1, <1>6, <3>1, Zenon DEF Spins
    <3>3. noff'[d] = noff[d]
      BY <1>3, <2>5, Zenon DEF ULockIInv, ULockTypeOK, SchedTypeOK
    <3> QED
      BY <2>1, <2>2, <3>2, <3>3, Zenon
  <2> QED
    BY <2>4, <2>5, Zenon
<1>8. IdInv'
  <2>1. lock_used[arg[p]] => created[arg[p]] # 0
    BY <1>2, Zenon DEF ULockIInv, IdInv
  <2>2. \A q \in Proc : q # p => arg'[q] = arg[q]
    BY <1>3, Zenon DEF ULockIInv, ULockTypeOK
  <2> QED
    BY <1>1, <1>2, <1>3, <1>6, <2>1, <2>2 DEF ULockIInv, IdInv
<1>9. HolderStaysOnCpu'
  BY <1>1 DEF ULockIInv, HolderStaysOnCpu, holding
<1> QED
  BY <1>4, <1>5, <1>7, <1>8, <1>9, Zenon DEF ULockIInv

\* The waiting process takes the lock when it is free; push_off() has already
\* been counted.
LEMMA SpinKeeps ==
    ASSUME ConstantsOK, ULockIInv, NEW c \in CPU, NEW p \in Proc,
           lock_acquire_spin(c, p)
    PROVE  ULockIInv'
<1> DEFINE a == arg[p]
           l == userlocks(a)
<1>1. /\ pc[p] = "spin" /\ pc' = [pc EXCEPT ![p] = "user"]
      /\ stack[c] = p /\ Free(l) /\ lock' = [lock EXCEPT ![l] = c]
      /\ held' = [held EXCEPT ![p] = @ \cup {a}] /\ arg' = [arg EXCEPT ![p] = 0]
      /\ UNCHANGED <<state, chan, ctx, noff, cproc, stack, scan>>
      /\ UNCHANGED <<lock_used, created>>
  BY Zenon DEF lock_acquire_spin, Goto, SetArg, Runs, procvars, cpuvars
<1>2. a \in Id /\ created[a] # 0 /\ l \in Lock /\ l \notin Proc
  BY <1>1, UserLockFacts, Zenon DEF ULockIInv, IdInv
<1>3. l = userlocks(a)
  BY Zenon
<1> HIDE DEF a, l
<1>4. /\ \A q \in Proc : lock'[q] = lock[q]
      /\ \A q \in Proc : pc'[q] = IF q = p THEN "user" ELSE pc[q]
      /\ \A q \in Proc : held'[q] = IF q = p THEN held[q] \cup {a} ELSE held[q]
      /\ lock'[l] = c
  BY <1>1, <1>2, Zenon DEF ULockIInv, ULockTypeOK, SchedTypeOK, Lock
<1>5. ULockTypeOK'
  <2>1. SchedTypeOK'
    BY <1>1, <1>2, Zenon DEF ULockIInv, ULockTypeOK, SchedTypeOK
  <2>2. arg' \in [Proc -> 0 .. MAX_LOCKS] /\ pc' \in [Proc -> PC]
    BY <1>1 DEF ULockIInv, ULockTypeOK, PC, ConstantsOK
  <2>3. held' \in [Proc -> SUBSET Id]
    BY <1>1, <1>2, Zenon DEF ULockIInv, ULockTypeOK
  <2> QED
    BY <1>1, <2>1, <2>2, <2>3, Zenon DEF ULockIInv, ULockTypeOK
<1>6. StackInv'
  BY <1>1, <1>4 DEF ULockIInv, StackInv
<1>7. NoffInv'
  <2> SUFFICES ASSUME NEW d \in CPU
               PROVE  Cardinality(HeldBy(d)') + Spins(d)' <= noff'[d]
    BY Zenon DEF NoffInv
  <2>1. Cardinality(HeldBy(d)) + Spins(d) <= noff[d] /\ noff[d] \in Int /\ noff' = noff
    BY <1>1, Zenon DEF ULockIInv, NoffInv, ULockTypeOK, SchedTypeOK
  <2>2. /\ d = c => Cardinality(HeldBy(d)') = Cardinality(HeldBy(d)) + 1
        /\ d # c => HeldBy(d)' = HeldBy(d)
    BY <1>1, <1>2, TakeCounts, Zenon DEF ULockIInv, ULockTypeOK
  <2>3. d = c => Spins(d) = 1 /\ Spins(d)' = 0
    BY <1>1, <1>4 DEF Spins
  <2>4. d # c => Spins(d)' = Spins(d)
    <3>1. d # c => stack[d] # p
      BY <1>1, OneStack, Zenon
    <3> QED
      BY <1>1, <1>4, <3>1 DEF Spins
  <2> QED
    BY <2>1, <2>2, <2>3, <2>4, HeldByFinite
<1>8. IdInv'
  <2>1. \A q \in Proc : q # p => arg'[q] = arg[q]
    BY <1>1, Zenon DEF ULockIInv, ULockTypeOK
  <2> QED
    BY <1>1, <1>2, <1>4, <2>1 DEF ULockIInv, IdInv
<1>9. HolderStaysOnCpu'
  <2> SUFFICES ASSUME NEW q \in Proc, NEW id \in held'[q], created[id] < 2
               PROVE  \E d \in CPU : stack[d] = q /\ lock'[userlocks(id)] = d
    BY <1>1 DEF HolderStaysOnCpu, holding
  <2>1. CASE id = a /\ q = p
    BY <1>1, <1>3, <1>4, <2>1, Zenon
  <2>2. CASE id # a \/ q # p
    <3>1. id \in held[q]
      BY <1>4, <2>2, Zenon
    <3>2. PICK d \in CPU : stack[d] = q /\ lock[userlocks(id)] = d
      BY <3>1, Zenon DEF ULockIInv, HolderStaysOnCpu, holding
    <3>3. userlocks(id) \in Lock /\ userlocks(id) # l
      BY <1>1, <3>1, <3>2, SchedAssumption, UserLockFacts, Zenon DEF Free, ULockIInv,
         ULockTypeOK
    <3>4. lock'[userlocks(id)] = lock[userlocks(id)]
      BY <1>1, <1>2, <3>3, Zenon DEF ULockIInv, ULockTypeOK, SchedTypeOK
    <3> QED
      BY <3>2, <3>4, Zenon
  <2> QED
    BY <2>1, <2>2, Zenon
<1> QED
  BY <1>5, <1>6, <1>7, <1>8, <1>9, Zenon DEF ULockIInv

\* lock_release() frees the lock and undoes one push_off(), by release() of
\* the CPU that holds it.
LEMMA ReleaseKeeps ==
    ASSUME ConstantsOK, ULockIInv, NEW c \in CPU, NEW p \in Proc,
           lock_release(c, p)
    PROVE  ULockIInv'
<1> DEFINE a == arg[p]
           l == userlocks(a)
<1>1. /\ pc[p] = "release" /\ stack[c] = p /\ arg' = [arg EXCEPT ![p] = 0]
      /\ UNCHANGED <<lock_used, created>>
  BY Zenon DEF lock_release, Runs, SetArg
<1>2. a \in Id /\ l \in Lock /\ l \notin Proc
  BY <1>1, UserLockFacts, Zenon DEF ULockIInv, IdInv
<1>3. \/ /\ UNCHANGED <<schedvars, held>>
         /\ \E to \in {"user", "panic"} : pc' = [pc EXCEPT ![p] = to]
      \/ /\ lock[l] = c /\ lock' = [lock EXCEPT ![l] = NoCPU]
         /\ noff' = [noff EXCEPT ![c] = @ - 1]
         /\ held' = [held EXCEPT ![p] = @ \ {a}]
         /\ pc' = [pc EXCEPT ![p] = "user"]
         /\ UNCHANGED <<state, chan, ctx, cproc, stack, scan>>
  BY Zenon DEF lock_release, Goto, Release, release, holding, pop_off, procvars
<1>4. l = userlocks(a)
  BY Zenon
<1> HIDE DEF a, l
<1>5. ctx' = ctx
  BY <1>3, Zenon DEF schedvars, procvars
<1>6. /\ \A q \in Proc : q # p => pc'[q] = pc[q] /\ arg'[q] = arg[q]
      /\ pc'[p] \in {"user", "panic"}
  BY <1>1, <1>3, Zenon DEF ULockIInv, ULockTypeOK
<1>7. held' \in [Proc -> SUBSET Id] /\ \A q \in Proc : held'[q] \subseteq held[q]
  BY <1>3 DEF ULockIInv, ULockTypeOK
<1>8. arg' \in [Proc -> 0 .. MAX_LOCKS] /\ pc' \in [Proc -> PC]
  BY <1>1, <1>3 DEF ULockIInv, ULockTypeOK, PC, ConstantsOK
<1>9. IdInv'
  BY <1>1, <1>5, <1>6, <1>7, Zenon DEF ULockIInv, IdInv
<1>10. CASE UNCHANGED <<schedvars, held>>
  <2>1. SchedTypeOK'
    BY <1>10, Zenon DEF ULockIInv, ULockTypeOK, SchedTypeOK, schedvars, procvars, cpuvars
  <2>2. ULockTypeOK'
    BY <1>1, <1>7, <1>8, <2>1, Zenon DEF ULockIInv, ULockTypeOK
  <2>3. \A q \in Proc : pc'[q] = "spin" <=> pc[q] = "spin"
    BY <1>1, <1>6, Zenon
  <2> QED
    BY <1>1, <1>9, <1>10, <2>2, <2>3, QuietKeeps, Zenon
<1>11. CASE /\ lock[l] = c /\ lock' = [lock EXCEPT ![l] = NoCPU]
            /\ noff' = [noff EXCEPT ![c] = @ - 1]
            /\ held' = [held EXCEPT ![p] = @ \ {a}]
            /\ UNCHANGED <<state, chan, ctx, cproc, stack, scan>>
  <2>1. \A q \in Proc : lock'[q] = lock[q]
    BY <1>2, <1>11, Zenon DEF ULockIInv, ULockTypeOK, SchedTypeOK, Lock
  <2>2. ULockTypeOK'
    <3>1. SchedTypeOK
      BY Zenon DEF ULockIInv, ULockTypeOK
    <3>2. lock' \in [Lock -> CPU \cup {NoCPU}]
      BY <1>11, <3>1, Zenon DEF SchedTypeOK
    <3>3. noff' \in [CPU -> Int]
      BY <1>11, <3>1 DEF SchedTypeOK
    <3>4. SchedTypeOK'
      BY <1>11, <3>1, <3>2, <3>3, Zenon DEF SchedTypeOK
    <3> QED
      BY <1>1, <1>7, <1>8, <3>4, Zenon DEF ULockIInv, ULockTypeOK
  <2>3. StackInv'
    BY <1>11, <2>1 DEF ULockIInv, StackInv
  <2>4. NoffInv'
    <3> SUFFICES ASSUME NEW d \in CPU
                 PROVE  Cardinality(HeldBy(d)') + Spins(d)' <= noff'[d]
      BY Zenon DEF NoffInv
    <3>1. Cardinality(HeldBy(d)) + Spins(d) <= noff[d] /\ noff[d] \in Int
      BY Zenon DEF ULockIInv, NoffInv, ULockTypeOK, SchedTypeOK
    <3>2. Spins(d)' = Spins(d) /\ Spins(d) \in {0, 1}
      BY <1>1, <1>6, <1>11, Zenon DEF Spins
    <3>3. /\ d = c => Cardinality(HeldBy(d)') = Cardinality(HeldBy(d)) - 1
          /\ d # c => HeldBy(d)' = HeldBy(d)
      BY <1>2, <1>11, DropCounts, Zenon DEF ULockIInv, ULockTypeOK, holding
    <3>4. noff'[d] = IF d = c THEN noff[d] - 1 ELSE noff[d]
      BY <1>11, Zenon DEF ULockIInv, ULockTypeOK, SchedTypeOK
    <3> QED
      BY <3>1, <3>2, <3>3, <3>4, HeldByFinite
  <2>5. HolderStaysOnCpu'
    <3> SUFFICES ASSUME NEW q \in Proc, NEW id \in held'[q], created[id] < 2
                 PROVE  \E d \in CPU : stack[d] = q /\ lock'[userlocks(id)] = d
      BY <1>1, <1>11 DEF HolderStaysOnCpu, holding
    <3>1. id \in held[q] /\ id \in Id
      BY <1>7, Zenon
    <3>2. PICK d \in CPU : stack[d] = q /\ lock[userlocks(id)] = d
      BY <3>1, Zenon DEF ULockIInv, HolderStaysOnCpu, holding
    <3>3. id # a
      \* c holds the lock, and c runs p, which no longer has it
      <4>1. ASSUME id = a
            PROVE  q = p
        BY <1>1, <1>4, <1>11, <3>2, <4>1, Zenon
      <4>2. q = p => id # a
        BY <1>11, Zenon DEF ULockIInv, ULockTypeOK
      <4> QED
        BY <4>1, <4>2, Zenon
    <3>4. userlocks(id) \in Lock /\ userlocks(id) # l
      BY <1>2, <1>4, <3>1, <3>3, UserLockFacts, Zenon
    <3>5. lock'[userlocks(id)] = lock[userlocks(id)]
      BY <1>2, <1>11, <3>4, Zenon DEF ULockIInv, ULockTypeOK, SchedTypeOK
    <3> QED
      BY <3>2, <3>5, Zenon
  <2> QED
    BY <1>9, <2>2, <2>3, <2>4, <2>5, Zenon DEF ULockIInv
<1> QED
  BY <1>3, <1>10, <1>11, Zenon

-----------------------------------------------------------------------------
(* The invariant holds in every behaviour. *)

\* Every step of the lock calls, the scheduler and the timer keeps ULockIInv.
LEMMA ULockStep ==
    ASSUME ConstantsOK, ULockIInv, [ULockNext]_vars
    PROVE  ULockIInv'
<1>1. CASE UNCHANGED vars
  <2>1. UNCHANGED <<state, chan, ctx, lock, noff, cproc, stack, scan>>
    BY <1>1, Zenon DEF vars, schedvars, procvars, cpuvars
  <2>2. UNCHANGED <<lock_used, pc, arg, held, created>>
    BY <1>1, Zenon DEF vars, ulockvars
  <2>3. ULockTypeOK' /\ StackInv'
    BY <2>1, <2>2 DEF ULockIInv, ULockTypeOK, SchedTypeOK, StackInv
  <2>4. NoffInv'
    BY <2>1, <2>2, Zenon DEF ULockIInv, NoffInv, HeldBy, Spins, holding
  <2>5. IdInv' /\ HolderStaysOnCpu'
    BY <2>1, <2>2 DEF ULockIInv, IdInv, HolderStaysOnCpu, holding
  <2> QED
    BY <2>3, <2>4, <2>5, Zenon DEF ULockIInv
<1>2. ASSUME NEW c \in CPU, Machine(c)
      PROVE  ULockIInv'
  <2>1. PICK p \in Proc : \/ Dispatch(c, p) \/ Skip(c, p) \/ SwtchReturn(c, p)
                          \/ SwtchToScheduler(c, p) \/ Resume(c, p)
    BY <1>2, Zenon DEF Machine, SchedulerStep, SwitchStep
  <2>2. UNCHANGED ulockvars
    BY <1>2, Zenon DEF Machine
  <2> QED
    BY <2>1, <2>2, DispatchKeeps, SkipKeeps, SwtchReturnKeeps, SwtchKeeps, ResumeKeeps, Zenon
<1>3. ASSUME NEW c \in CPU, NEW p \in Proc,
             \/ Call(c, p) \/ lock_create_test(c, p) \/ initlock(c, p)
             \/ lock_create_mark(c, p) \/ lock_acquire(c, p)
             \/ lock_acquire_spin(c, p) \/ lock_release(c, p) \/ Timer(c, p)
      PROVE  ULockIInv'
  BY <1>3, CallKeeps, CreateTestKeeps, InitlockKeeps, CreateMarkKeeps, AcquireKeeps, SpinKeeps,
     ReleaseKeeps, TimerKeeps, Zenon
<1> QED
  BY <1>1, <1>2, <1>3, Zenon DEF ULockNext

\* While a lock was initialised once, its holders are on the one CPU that the
\* lock names, and a CPU executes one process.
LEMMA ULockIInvGivesInv ==
    ASSUME ULockIInv
    PROVE  ULockInv
<1>1. SharedOnlyByRace
  <2> SUFFICES ASSUME NEW p \in Proc, NEW q \in Proc,
                      NEW id \in held[p] \cap held[q], p # q, created[id] # 2
               PROVE  FALSE
    BY Zenon DEF SharedOnlyByRace
  <2>1. created[id] < 2
    BY DEF ULockIInv, ULockTypeOK
  <2> QED
    BY <2>1 DEF ULockIInv, HolderStaysOnCpu, holding
<1> QED
  BY <1>1, Zenon DEF ULockIInv, ULockInv

(***************************************************************************)
(* A user lock excludes and its holder keeps to its CPU unless two         *)
(* lock_create() calls initialised it: for every number of CPUs, processes *)
(* and locks, under every interleaving of the calls with the scheduler and *)
(* with timer interrupts that come while locks are held.                   *)
(***************************************************************************)
THEOREM UserLocksAreSound ==
    ASSUME ConstantsOK
    PROVE  ULockSpec => []ULockInv
<1>1. ULockInit => ULockIInv
  BY ULockInitInv, Zenon
<1>2. ULockIInv /\ [ULockNext]_vars => ULockIInv'
  BY ULockStep, Zenon
<1>3. ULockIInv => ULockInv
  BY ULockIInvGivesInv, Zenon
<1> QED
  BY <1>1, <1>2, <1>3, PTL DEF ULockSpec
=============================================================================
