---------------------------- MODULE TableProofs ----------------------------
(***************************************************************************)
(* The process table under kfork(), kexit() and kwait(), for any number of *)
(* CPUs and slots, as far as it depends on the locks only through two      *)
(* facts: wait_lock excludes (Exclusive, WaitFree) and the process that    *)
(* executes is RUNNING (Awake).  Module ProcProofs proves the two facts    *)
(* and puts the parts together.                                            *)
(*                                                                         *)
(* TableIInv says what a process may assume at each point of its call,     *)
(* what the loops over the table have established for the slots behind     *)
(* them, and where the wake-up of a parent that sleeps beside a zombie     *)
(* child is still to come.                                                 *)
(***************************************************************************)
EXTENDS Proc, TLAPS

\* Where a process holds wait_lock.
HasWait == {"reparent", "wakeinit", "wakeparent", "lockself", "zombie",
            "table", "sleep", "waitdone"}

Exiting == {"exit", "reparent", "wakeinit", "wakeparent", "lockself", "zombie"}
Forking == {"setparent", "start"}

\* What the locks and the scheduler guarantee.
Exclusive == \A p, q \in Proc : pc[p] \in HasWait /\ pc[q] \in HasWait => p = q
WaitFree == Free(wait_lock) => \A p \in Proc : pc[p] \notin HasWait
Awake == \A c \in CPU, p \in Proc : Runs(c, p) => state[p] = "RUNNING"

Discipline == Exclusive /\ WaitFree /\ Awake

\* Only living processes are in a call, and they sleep in kwait() only.
DeadInUser == \A p \in Proc : p \notin Alive => pc[p] = "user"
AsleepInWait == \A p \in Proc : state[p] = "SLEEPING" => pc[p] = "wait" /\ chan[p] = p

\* The locals of a call: init does not exit, and a loop index is 0 outside
\* its loop.
LocalsAt(p) ==
    /\ pc[p] \in Exiting => p # initproc
    /\ i[p] = 0 \/ pc[p] \in {"alloc", "reparent", "wakeinit", "table"}
    /\ pc[p] = "wakeinit" => i[p] \in Proc
    /\ w[p] = 0 \/ pc[p] \in {"wakeinit", "wakeparent"}
    /\ havekids[p] => pc[p] = "table"
LocalsOK == \A p \in Proc : LocalsAt(p)

\* A slot that is being set up belongs to one kfork(), and a free slot to
\* nobody.
ForkSlot ==
    \A p \in Proc : pc[p] \in Forking =>
        /\ np[p] \in Proc
        /\ state[np[p]] = "USED"
        /\ parent[np[p]] = IF pc[p] = "start" THEN p ELSE NoProc
ForkOwn ==
    \A p, q \in Proc : pc[p] \in Forking /\ pc[q] \in Forking /\ np[p] = np[q] => p = q
FreeOrphan == \A q \in Proc : state[q] = "UNUSED" => parent[q] = NoProc

\* init is the root of the family, and reparent() leaves no child behind its
\* index.
InitRoot == initproc \in Alive /\ parent[initproc] = NoProc
Behind(p, q) ==
    /\ pc[p] = "reparent" => i[p] <= q
    /\ pc[p] = "wakeinit" => i[p] < q
    /\ pc[p] \notin {"wakeparent", "lockself", "zombie"}
KidsBehind == \A p, q \in Proc : parent[q] = p => Behind(p, q)

\* kwait() knows the slots behind its index; kexit() has woken the parent
\* whose slot is behind its index.
KidsCounted(p) ==
    pc[p] = "table" => (havekids[p] <=> \E q \in Proc : q < i[p] /\ parent[q] = p)
NoZombieBehind(p) ==
    \A q \in Proc :
        parent[q] = p /\ (pc[p] = "sleep" \/ (pc[p] = "table" /\ q < i[p]))
            => state[q] # "ZOMBIE"
ParentAwake(p) ==
    (pc[p] = "wakeparent" /\ parent[p] < w[p]) \/ pc[p] \in {"lockself", "zombie"}
        => state[parent[p]] # "SLEEPING"
ScanAt(p) == KidsCounted(p) /\ NoZombieBehind(p) /\ ParentAwake(p)
ScanInv == \A p \in Proc : ScanAt(p)

\* A parent sleeps beside a zombie only while reparent() is about to wake init.
WakeInv ==
    \A q \in Proc : state[q] = "ZOMBIE" /\ state[parent[q]] = "SLEEPING" =>
        /\ parent[q] = initproc
        /\ \E p \in Proc : pc[p] = "wakeinit" /\ w[p] = 0

TableIInv ==
    /\ ProcTypeOK
    /\ DeadInUser /\ AsleepInWait /\ LocalsOK
    /\ ForkSlot /\ ForkOwn /\ FreeOrphan
    /\ InitRoot /\ ParentAlive /\ KidsBehind
    /\ ScanInv /\ WakeInv

\* Nobody becomes a zombie or falls asleep in the step.
Quiet ==
    \A q \in Proc :
        /\ state'[q] = "ZOMBIE" => state[q] = "ZOMBIE"
        /\ state'[q] = "SLEEPING" => state[q] = "SLEEPING" /\ chan'[q] = chan[q]

\* Nobody is created, dies or falls asleep.
Calm ==
    /\ Quiet
    /\ \A q \in Proc : IF q \in Alive
                       THEN state'[q] \in {"SLEEPING", "RUNNABLE", "RUNNING"}
                       ELSE state'[q] = state[q]

\* A step of a system call changes the locals of its own process only.
OwnStep(p) ==
    /\ pc' = pc \/ \E a \in PC : pc' = [pc EXCEPT ![p] = a]
    /\ i' = i \/ \E a \in 0 .. NPROC : i' = [i EXCEPT ![p] = a]
    /\ w' = w \/ \E a \in 0 .. NPROC : w' = [w EXCEPT ![p] = a]
    /\ np' = np \/ \E a \in Proc \cup {NoProc} : np' = [np EXCEPT ![p] = a]
    /\ havekids' = havekids \/ \E a \in BOOLEAN : havekids' = [havekids EXCEPT ![p] = a]

Local(p) ==
    \A q \in Proc \ {p} :
        /\ pc'[q] = pc[q]
        /\ i'[q] = i[q] /\ w'[q] = w[q]
        /\ np'[q] = np[q] /\ havekids'[q] = havekids[q]


-----------------------------------------------------------------------------
(* Types, slots and calm steps. *)

\* The conjuncts of TableIInv.
LEMMA TableParts ==
    ASSUME TableIInv
    PROVE  /\ ProcTypeOK
           /\ DeadInUser /\ AsleepInWait /\ LocalsOK
           /\ ForkSlot /\ ForkOwn /\ FreeOrphan
           /\ InitRoot /\ ParentAlive /\ KidsBehind
           /\ ScanInv /\ WakeInv
  BY Zenon DEF TableIInv

\* TableIInv holds after a step when its conjuncts do.
LEMMA TableWhole ==
    ASSUME ProcTypeOK', DeadInUser', AsleepInWait', LocalsOK',
           ForkSlot', ForkOwn', FreeOrphan',
           InitRoot', ParentAlive', KidsBehind', ScanInv', WakeInv'
    PROVE  TableIInv'
  BY Zenon DEF TableIInv

\* The types of the variables.
LEMMA ProcTypes ==
    ASSUME ProcTypeOK
    PROVE  /\ parent \in [Proc -> Proc \cup {NoProc}]
           /\ pc \in [Proc -> PC]
           /\ i \in [Proc -> 0 .. NPROC] /\ w \in [Proc -> 0 .. NPROC]
           /\ np \in [Proc -> Proc \cup {NoProc}]
           /\ havekids \in [Proc -> BOOLEAN]
           /\ state \in [Proc -> State]
           /\ chan \in [Proc -> Chan \cup {NoChan}]
           /\ ctx \in [Proc -> Ctx]
           /\ lock \in [Lock -> CPU \cup {NoCPU}]
  BY Zenon DEF ProcTypeOK, SchedTypeOK

\* Slots are numbered from 0, which is init's.
LEMMA SlotIsNat == initproc \in Proc /\ \A q \in Proc : q \in Nat /\ q < NPROC /\ q + 1 \in 0 .. NPROC
  BY SchedAssumption DEF Proc, initproc

\* The process that executes is alive.
LEMMA RunsIsRunning ==
    ASSUME Awake, NEW c \in CPU, NEW p \in Proc, Runs(c, p)
    PROVE  state[p] = "RUNNING" /\ p \in Alive
  BY Zenon DEF Awake, Alive

\* In a calm step the same processes are alive.
LEMMA CalmFacts ==
    ASSUME Calm
    PROVE  /\ Quiet
           /\ Alive' = Alive
           /\ \A q \in Proc : \A s \in {"UNUSED", "USED", "ZOMBIE"} :
                 state'[q] = s <=> state[q] = s
<1>1. \A q \in Proc : q \in Alive <=> state[q] \in {"SLEEPING", "RUNNABLE", "RUNNING"}
  BY Zenon DEF Alive
<1>2. \A q \in Proc : IF q \in Alive
                      THEN state'[q] \in {"SLEEPING", "RUNNABLE", "RUNNING"}
                      ELSE state'[q] = state[q]
  BY Zenon DEF Calm
<1>3. Alive' = Alive
  BY <1>2, Zenon DEF Alive
<1>4. \A q \in Proc : \A s \in {"UNUSED", "USED", "ZOMBIE"} : state'[q] = s <=> state[q] = s
  BY <1>1, <1>2, Zenon
<1> QED
  BY <1>3, <1>4, Zenon DEF Calm

\* Steps that leave the process table alone are calm.
LEMMA UnchangedIsCalm == ASSUME UNCHANGED <<state, chan>> PROVE Calm
  BY Zenon DEF Calm, Quiet, Alive

\* The same for steps that leave all of the scheduler's state alone.
LEMMA SchedvarsAre ==
    ASSUME UNCHANGED schedvars
    PROVE  UNCHANGED <<state, chan, ctx, lock, cproc, stack>> /\ Calm
<1>1. UNCHANGED <<state, chan, ctx, lock, cproc, stack>>
  BY Zenon DEF schedvars, procvars, cpuvars
<1> QED
  BY <1>1, UnchangedIsCalm, Zenon

\* Wake-ups are calm, and leave the locks and the CPUs alone.
LEMMA WakeIsCalm ==
    ASSUME ProcTypeOK, NEW q \in Proc, KillSlot(q) \/ \E ch : WakeSlot(q, ch)
    PROVE  Calm /\ UNCHANGED <<ctx, lock, stack, cproc>>
<1>1. CASE UNCHANGED schedvars
  BY <1>1, SchedvarsAre, Zenon
<1>2. CASE state[q] = "SLEEPING" /\ SetState(q, "SLEEPING", "RUNNABLE")
  <2>1. /\ state' = [state EXCEPT ![q] = "RUNNABLE"]
        /\ chan' = chan /\ ctx' = ctx /\ lock' = lock /\ stack' = stack /\ cproc' = cproc
    BY <1>2, Zenon DEF SetState, cpuvars
  <2>2. state'[q] = "RUNNABLE" /\ \A r \in Proc \ {q} : state'[r] = state[r]
    BY <2>1, ProcTypes, Zenon
  <2>3. Calm
    BY <1>2, <2>1, <2>2, Zenon DEF Calm, Quiet, Alive
  <2> QED
    BY <2>1, <2>3, Zenon
<1> QED
  BY <1>1, <1>2, Zenon DEF KillSlot, WakeSlot

\* An iteration of wakeup(ch) is calm, and whoever slept on its own address
\* ch in the slot has been woken.
LEMMA WakeupIsCalm ==
    ASSUME ProcTypeOK, AsleepInWait, Awake,
           NEW c \in CPU, NEW p \in Proc, Runs(c, p), NEW ch, wakeup(p, ch)
    PROVE  /\ Calm
           /\ UNCHANGED <<ctx, lock, stack, cproc>>
           /\ w[p] \in Proc
           /\ w[p] = ch => state'[ch] # "SLEEPING"
<1>1. w[p] \in Proc
  BY Zenon DEF wakeup
<1>2. CASE w[p] = p
  <2>1. UNCHANGED <<state, chan, ctx, lock, cproc, stack>> /\ Calm
    BY <1>2, SchedvarsAre, Zenon DEF wakeup
  <2> QED
    BY <1>2, <2>1, RunsIsRunning, Zenon
<1>3. CASE w[p] # p
  <2>1. WakeSlot(w[p], ch)
    BY <1>3, Zenon DEF wakeup
  <2>2. Calm /\ UNCHANGED <<ctx, lock, stack, cproc>>
    BY <1>1, <2>1, WakeIsCalm, Zenon
  <2>3. ASSUME w[p] = ch, state'[ch] = "SLEEPING" PROVE FALSE
    <3>1. state[ch] = "SLEEPING" /\ ch \in Proc
      BY <1>1, <2>2, <2>3, CalmFacts, Zenon DEF Quiet
    <3>2. chan[ch] = ch
      BY <3>1, Zenon DEF AsleepInWait
    <3>3. state' = [state EXCEPT ![ch] = "RUNNABLE"]
      BY <2>1, <2>3, <3>1, <3>2, Zenon DEF WakeSlot, SetState
    <3> QED
      BY <2>3, <3>1, <3>3, ProcTypes, Zenon
  <2> QED
    BY <1>1, <2>2, <2>3, Zenon
<1> QED
  BY <1>2, <1>3, Zenon

-----------------------------------------------------------------------------
(* The parts of the invariant after a step. *)

\* A step of a call of p keeps the types and the locals of the others.
LEMMA OwnFacts ==
    ASSUME ProcTypeOK, SchedTypeOK', NEW p \in Proc, OwnStep(p),
           parent' \in [Proc -> Proc \cup {NoProc}]
    PROVE  ProcTypeOK' /\ Local(p)
<1>1. pc' \in [Proc -> PC] /\ \A q \in Proc \ {p} : pc'[q] = pc[q]
  BY ProcTypes DEF OwnStep
<1>2. i' \in [Proc -> 0 .. NPROC] /\ \A q \in Proc \ {p} : i'[q] = i[q]
  BY ProcTypes DEF OwnStep
<1>3. w' \in [Proc -> 0 .. NPROC] /\ \A q \in Proc \ {p} : w'[q] = w[q]
  BY ProcTypes DEF OwnStep
<1>4. np' \in [Proc -> Proc \cup {NoProc}] /\ \A q \in Proc \ {p} : np'[q] = np[q]
  BY ProcTypes DEF OwnStep
<1>5. havekids' \in [Proc -> BOOLEAN] /\ \A q \in Proc \ {p} : havekids'[q] = havekids[q]
  BY ProcTypes, Zenon DEF OwnStep
<1>6. ProcTypeOK'
  BY <1>1, <1>2, <1>3, <1>4, <1>5, Zenon DEF ProcTypeOK
<1> QED
  BY <1>1, <1>2, <1>3, <1>4, <1>5, <1>6, Zenon DEF Local

\* While p is under wait_lock nobody else is.
LEMMA OthersOutside ==
    ASSUME Exclusive, NEW p \in Proc, pc[p] \in HasWait, Local(p)
    PROVE  \A q \in Proc \ {p} : pc[q] \notin HasWait /\ pc'[q] \notin HasWait
  BY Zenon DEF Exclusive, Local

\* Zombies and processes in kexit() have a parent that is alive.
LEMMA HasParent ==
    ASSUME TableIInv, NEW q \in Proc, state[q] = "ZOMBIE" \/ pc[q] \in Exiting
    PROVE  parent[q] \in Proc /\ parent[q] \in Alive
<1>1. InitRoot /\ ParentAlive /\ DeadInUser /\ LocalsOK
  BY TableParts, Zenon
<1>2. \A r \in Alive : r \in Proc /\ state[r] # "ZOMBIE"
  BY Zenon DEF Alive
<1>3. q # initproc
  BY <1>1, <1>2, Zenon DEF InitRoot, LocalsOK, LocalsAt
<1>4. q \in Alive \/ state[q] = "ZOMBIE"
  BY <1>1, Zenon DEF DeadInUser, Exiting
<1>5. parent[q] \in Alive
  BY <1>1, <1>3, <1>4, Zenon DEF ParentAlive
<1> QED
  BY <1>2, <1>5, Zenon

\* A step of a call of p that keeps its locals in order; processes die in
\* kexit() and fall asleep in kwait() only.
LEMMA KeepCall ==
    ASSUME TableIInv, NEW p \in Proc, Local(p), LocalsAt(p)',
           p \in Alive' \/ pc'[p] = "user",
           \A q \in Proc \ {p} : q \in Alive => q \in Alive',
           state'[p] = "SLEEPING" => pc'[p] = "wait" /\ chan'[p] = p,
           \A q \in Proc \ {p} : state'[q] = "SLEEPING" => state[q] = "SLEEPING" /\ chan'[q] = chan[q]
    PROVE  DeadInUser' /\ AsleepInWait' /\ LocalsOK'
<1>1. DeadInUser /\ AsleepInWait /\ LocalsOK
  BY TableParts, Zenon
<1>2. \A q \in Proc \ {p} : pc'[q] = pc[q]
  BY Zenon DEF Local
<1>3. LocalsOK'
  BY <1>1 DEF LocalsOK, Local, LocalsAt
<1>4. DeadInUser'
  BY <1>1, <1>2, Zenon DEF DeadInUser
<1>5. AsleepInWait'
  BY <1>1, <1>2, Zenon DEF AsleepInWait
<1> QED
  BY <1>3, <1>4, <1>5, Zenon

\* No slot is taken and those that are being set up are left alone.
LEMMA KeepFork ==
    ASSUME TableIInv,
           \A q \in Proc : pc'[q] \in Forking => pc'[q] = pc[q] /\ np'[q] = np[q],
           \A q \in Proc : pc'[q] \in Forking /\ state[np[q]] = "USED" =>
              state'[np[q]] = "USED" /\ parent'[np[q]] = parent[np[q]],
           \A q \in Proc : state'[q] = "UNUSED" =>
              parent'[q] = NoProc \/ (state[q] = "UNUSED" /\ parent'[q] = parent[q])
    PROVE  ForkSlot' /\ ForkOwn' /\ FreeOrphan'
<1>1. ForkSlot /\ ForkOwn /\ FreeOrphan
  BY TableParts, Zenon
<1>2. ForkSlot'
  BY <1>1 DEF ForkSlot
<1>3. ForkOwn'
  BY <1>1 DEF ForkOwn
<1>4. FreeOrphan'
  BY <1>1, Zenon DEF FreeOrphan
<1> QED
  BY <1>2, <1>3, <1>4, Zenon

\* The same for a step after which p does not set a slot up, and that leaves
\* all such slots alone.
LEMMA KeepForkOut ==
    ASSUME TableIInv, NEW p \in Proc, Local(p), pc'[p] \notin Forking,
           \A q \in Proc : state[q] = "USED" => state'[q] = "USED" /\ parent'[q] = parent[q],
           \A q \in Proc : state'[q] = "UNUSED" =>
              parent'[q] = NoProc \/ (state[q] = "UNUSED" /\ parent'[q] = parent[q])
    PROVE  ForkSlot' /\ ForkOwn' /\ FreeOrphan'
<1>1. \A q \in Proc : pc'[q] \in Forking => pc'[q] = pc[q] /\ np'[q] = np[q]
  BY Zenon DEF Local
<1>2. \A q \in Proc : pc[q] \in Forking => np[q] \in Proc
  BY TableParts, Zenon DEF ForkSlot
<1> QED
  BY <1>1, <1>2, KeepFork, Zenon

\* The children of the others are behind nobody's index.
LEMMA KeepBehind ==
    ASSUME TableIInv, NEW p \in Proc, Local(p),
           \A q \in Proc : parent'[q] = p => Behind(p, q)',
           \A q, r \in Proc : r # p /\ parent'[q] = r => parent[q] = r \/ pc[r] \notin HasWait
    PROVE  KidsBehind'
<1>1. KidsBehind
  BY TableParts, Zenon
<1>2. \A r \in Proc \ {p} : pc'[r] = pc[r] /\ i'[r] = i[r]
  BY Zenon DEF Local
<1>3. ASSUME NEW q \in Proc, NEW r \in Proc, r # p, parent'[q] = r
      PROVE  Behind(r, q)'
  <2>1. CASE parent[q] = r
    BY <1>1, <1>2, <1>3, <2>1, Zenon DEF KidsBehind, Behind
  <2>2. CASE pc[r] \notin HasWait
    BY <1>2, <1>3, <2>2, Zenon DEF Behind, HasWait
  <2> QED
    BY <1>3, <2>1, <2>2, Zenon
<1> QED
  BY <1>3, Zenon DEF KidsBehind

\* Nobody changes its parent, nobody with children dies, and whoever is
\* created or dies has a parent.
LEMMA KeepFamily ==
    ASSUME TableIInv, UNCHANGED parent, NEW p \in Proc, Local(p),
           \A q \in Proc : parent[q] = p => Behind(p, q)',
           initproc \in Alive',
           \A q \in Alive : q \in Alive' \/ \A r \in Proc : parent[r] # q,
           \A q \in Proc : q \in Alive' \/ state'[q] = "ZOMBIE" =>
              q \in Alive \/ state[q] = "ZOMBIE" \/ parent[q] # NoProc
    PROVE  InitRoot' /\ ParentAlive' /\ KidsBehind'
<1>1. InitRoot /\ ParentAlive
  BY TableParts, Zenon
<1>2. initproc' = initproc
  BY Zenon DEF initproc
<1>3. ParentAlive'
  BY <1>1, Zenon DEF ParentAlive
<1>4. InitRoot'
  BY <1>1, Zenon DEF InitRoot
<1> QED
  BY <1>3, <1>4, KeepBehind, Zenon

\* Outside the loops over the table there is nothing to know.
LEMMA PlainPoint ==
    ASSUME NEW p \in Proc, pc'[p] \in {"user", "alloc", "setparent", "start", "exit", "wait", "waitdone"}
    PROVE  ScanAt(p)' /\ \A q \in Proc : Behind(p, q)'
  BY Zenon DEF ScanAt, KidsCounted, NoZombieBehind, ParentAwake, Behind

\* What a scan has established stays true for the others.
LEMMA KeepScan ==
    ASSUME TableIInv, Quiet, UNCHANGED parent, NEW p \in Proc, Local(p), ScanAt(p)'
    PROVE  ScanInv'
<1>1. ScanInv
  BY TableParts, Zenon
<1>2. ASSUME NEW q \in Proc, q # p
      PROVE  ScanAt(q)'
  <2>1. ScanAt(q) /\ pc'[q] = pc[q] /\ i'[q] = i[q] /\ w'[q] = w[q] /\ havekids'[q] = havekids[q]
    BY <1>1, <1>2, Zenon DEF ScanInv, Local
  <2>2. KidsCounted(q)'
    BY <2>1, Zenon DEF ScanAt, KidsCounted
  <2>3. NoZombieBehind(q)'
    BY <2>1, Zenon DEF ScanAt, NoZombieBehind, Quiet
  <2>4. pc[q] \in Exiting => parent[q] \in Proc
    BY HasParent, Zenon
  <2>5. ParentAwake(q)'
    BY <2>1, <2>4, Zenon DEF ScanAt, ParentAwake, Quiet, Exiting
  <2> QED
    BY <2>2, <2>3, <2>5, Zenon DEF ScanAt
<1> QED
  BY <1>2, Zenon DEF ScanInv

\* A step under wait_lock: nobody else is in such a loop.
LEMMA LockedScan ==
    ASSUME NEW p \in Proc, \A q \in Proc \ {p} : pc'[q] \notin HasWait, ScanAt(p)'
    PROVE  ScanInv'
<1>1. \A q \in Proc \ {p} : pc'[q] \notin {"table", "sleep", "wakeparent", "lockself", "zombie"}
  BY Zenon DEF HasWait
<1>2. \A q \in Proc \ {p} : ScanAt(q)'
  BY <1>1, Zenon DEF ScanAt, KidsCounted, NoZombieBehind, ParentAwake
<1> QED
  BY <1>2, Zenon DEF ScanInv

\* No zombie changes its parent, and the wake-up of init is not passed.
LEMMA KeepWake ==
    ASSUME TableIInv, Quiet, NEW p \in Proc, Local(p),
           \A q \in Proc : state'[q] = "ZOMBIE" => parent'[q] = parent[q],
           pc[p] = "wakeinit" /\ w[p] = 0 =>
              (pc'[p] = "wakeinit" /\ w'[p] = 0) \/ state'[initproc] # "SLEEPING"
    PROVE  WakeInv'
<1>1. WakeInv
  BY TableParts, Zenon
<1>2. \A r \in Proc : pc[r] = "wakeinit" /\ w[r] = 0 =>
         (pc'[r] = "wakeinit" /\ w'[r] = 0) \/ state'[initproc] # "SLEEPING"
  BY Zenon DEF Local
<1>3. ASSUME NEW q \in Proc, state'[q] = "ZOMBIE", state'[parent[q]] = "SLEEPING"
      PROVE  /\ parent[q] = initproc
             /\ \E r \in Proc : pc'[r] = "wakeinit" /\ w'[r] = 0
  <2>1. state[q] = "ZOMBIE"
    BY <1>3, Zenon DEF Quiet
  <2>2. parent[q] \in Proc
    BY <2>1, HasParent, Zenon
  <2>3. state[parent[q]] = "SLEEPING"
    BY <1>3, <2>2, Zenon DEF Quiet
  <2>4. parent[q] = initproc /\ \E r \in Proc : pc[r] = "wakeinit" /\ w[r] = 0
    BY <1>1, <2>1, <2>3, Zenon DEF WakeInv
  <2> QED
    BY <1>2, <1>3, <2>4, Zenon
<1> QED
  BY <1>3, Zenon DEF WakeInv, initproc

\* Unless init is to be woken, no parent sleeps beside a zombie.
LEMMA NothingMissed ==
    ASSUME TableIInv, \A p \in Proc : pc[p] # "wakeinit"
    PROVE  \A q \in Proc : state[q] = "ZOMBIE" =>
              parent[q] \in Proc /\ parent[q] \in Alive /\ state[parent[q]] # "SLEEPING"
<1>1. \A q \in Proc : ~ (state[q] = "ZOMBIE" /\ state[parent[q]] = "SLEEPING")
  BY TableParts, Zenon DEF WakeInv
<1> QED
  BY <1>1, HasParent, Zenon

-----------------------------------------------------------------------------
(* Whole steps. *)

\* A step in which nobody dies, falls asleep or changes its parent.
LEMMA QuietStep ==
    ASSUME TableIInv, SchedTypeOK', NEW p \in Proc, OwnStep(p), Quiet, UNCHANGED parent,
           \A q \in Alive : q \in Alive',
           \A q \in Proc : q \in Alive' => q \in Alive \/ parent[q] # NoProc,
           DeadInUser' /\ AsleepInWait' /\ LocalsOK',
           ForkSlot' /\ ForkOwn' /\ FreeOrphan',
           ScanAt(p)', \A q \in Proc : parent[q] = p => Behind(p, q)',
           pc[p] = "wakeinit" /\ w[p] = 0 =>
              (pc'[p] = "wakeinit" /\ w'[p] = 0) \/ state'[initproc] # "SLEEPING"
    PROVE  TableIInv'
<1>1. ProcTypeOK /\ InitRoot
  BY TableParts, Zenon
<1>2. ProcTypeOK' /\ Local(p)
  BY <1>1, OwnFacts, ProcTypes, Zenon
<1>3. initproc \in Alive'
  BY <1>1, Zenon DEF InitRoot
<1>4. \A q \in Proc : state'[q] = "ZOMBIE" => state[q] = "ZOMBIE"
  BY Zenon DEF Quiet
<1>5. InitRoot' /\ ParentAlive' /\ KidsBehind'
  BY <1>2, <1>3, <1>4, KeepFamily, Zenon
<1>6. ScanInv'
  BY <1>2, KeepScan, Zenon
<1>7. WakeInv'
  BY <1>2, KeepWake, Zenon
<1> QED
  BY <1>2, <1>5, <1>6, <1>7, TableWhole, Zenon

\* What is left to show of a calm step of a call that changes no parent.
LEMMA CalmStep ==
    ASSUME TableIInv, Awake, SchedTypeOK', NEW c \in CPU, NEW p \in Proc, Runs(c, p),
           Calm, OwnStep(p), UNCHANGED parent, pc'[p] \notin Forking, LocalsAt(p)',
           ScanAt(p)', \A q \in Proc : parent[q] = p => Behind(p, q)',
           pc[p] = "wakeinit" /\ w[p] = 0 =>
              (pc'[p] = "wakeinit" /\ w'[p] = 0) \/ state'[initproc] # "SLEEPING"
    PROVE  TableIInv'
<1>1. ProcTypeOK
  BY TableParts, Zenon
<1>2. Local(p)
  BY <1>1, OwnFacts, ProcTypes, Zenon
<1>3. /\ Quiet /\ Alive' = Alive
      /\ \A q \in Proc : state[q] = "USED" => state'[q] = "USED"
      /\ \A q \in Proc : state'[q] = "UNUSED" => state[q] = "UNUSED"
  BY CalmFacts, Zenon
<1>4. \A q \in Proc : state'[q] = "SLEEPING" => state[q] = "SLEEPING" /\ chan'[q] = chan[q]
  BY <1>3, Zenon DEF Quiet
<1>5. p \in Alive /\ state[p] = "RUNNING"
  BY RunsIsRunning, Zenon
<1>6. DeadInUser' /\ AsleepInWait' /\ LocalsOK'
  BY <1>2, <1>3, <1>4, <1>5, KeepCall, Zenon
<1>7. ForkSlot' /\ ForkOwn' /\ FreeOrphan'
  BY <1>2, <1>3, KeepForkOut, Zenon
<1> QED
  BY <1>3, <1>6, <1>7, QuietStep, Zenon

\* Calm steps with no step of a system call: the scheduler, the timer, kill().
LEMMA CalmKeeps ==
    ASSUME TableIInv, SchedTypeOK', Calm, UNCHANGED <<parent, pc, i, w, np, havekids>>
    PROVE  TableIInv'
<1>1. DeadInUser /\ AsleepInWait /\ LocalsOK /\ KidsBehind /\ ScanInv /\ initproc \in Proc
  BY TableParts, SlotIsNat, Zenon
<1>2. /\ Quiet /\ Alive' = Alive
      /\ \A q \in Proc : \A s \in {"UNUSED", "USED", "ZOMBIE"} : state'[q] = s <=> state[q] = s
  BY CalmFacts, Zenon
<1>3. OwnStep(initproc)
  BY Zenon DEF OwnStep
<1>4. LocalsOK'
  BY <1>1, Zenon DEF LocalsOK, LocalsAt, initproc
<1>5. DeadInUser'
  BY <1>1, <1>2, Zenon DEF DeadInUser
<1>6. AsleepInWait'
  BY <1>1, <1>2, Zenon DEF AsleepInWait, Quiet
<1>7. \A q \in Proc : pc[q] \in Forking => np[q] \in Proc
  BY TableParts, Zenon DEF ForkSlot
<1>8. ForkSlot' /\ ForkOwn' /\ FreeOrphan'
  BY <1>2, <1>7, KeepFork, Zenon
<1>9. \A q \in Proc : parent[q] = initproc => Behind(initproc, q)'
  BY <1>1, Zenon DEF KidsBehind, Behind, initproc
<1>10. pc[initproc] \notin Exiting
  BY <1>1, Zenon DEF LocalsOK, LocalsAt
<1>11. KidsCounted(initproc)' /\ NoZombieBehind(initproc)'
  BY <1>1, <1>2, Zenon DEF ScanInv, ScanAt, KidsCounted, NoZombieBehind, Quiet, initproc
<1>12. ParentAwake(initproc)'
  BY <1>10, Zenon DEF ParentAwake, Exiting, initproc
<1>13. ScanAt(initproc)'
  BY <1>11, <1>12, Zenon DEF ScanAt
<1> QED
  BY <1>1, <1>2, <1>3, <1>4, <1>5, <1>6, <1>8, <1>9, <1>13, QuietStep, Zenon

\* kill().
LEMMA KillKeeps ==
    ASSUME TableIInv, SchedTypeOK', NEW c \in CPU, NEW p \in Proc, NEW q \in Proc, kkill(c, p, q)
    PROVE  TableIInv'
<1>1. ProcTypeOK
  BY TableParts, Zenon
<1>2. KillSlot(q) /\ UNCHANGED <<parent, pc, i, w, np, havekids>>
  BY Zenon DEF kkill, locals
<1>3. Calm
  BY <1>1, <1>2, WakeIsCalm, Zenon
<1> QED
  BY <1>2, <1>3, CalmKeeps, Zenon

-----------------------------------------------------------------------------
(* kfork() *)

\* Entering a system call.
LEMMA CallKeeps ==
    ASSUME TableIInv, Awake, SchedTypeOK', NEW c \in CPU, NEW p \in Proc, Call(c, p)
    PROVE  TableIInv'
<1>1. ProcTypeOK /\ LocalsOK
  BY TableParts, Zenon
<1>2. /\ Runs(c, p) /\ pc[p] = "user" /\ UNCHANGED schedvars
      /\ \E to \in {"alloc", "wait", "exit"} : pc' = [pc EXCEPT ![p] = to] /\ (to = "exit" => p # initproc)
      /\ parent' = parent /\ i' = i /\ w' = w /\ np' = np /\ havekids' = havekids
  BY Zenon DEF Call, Goto
<1>3. pc'[p] \in {"alloc", "wait", "exit"} /\ (pc'[p] = "exit" => p # initproc)
  BY <1>1, <1>2, ProcTypes, Zenon
<1>4. OwnStep(p)
  BY <1>2, Zenon DEF OwnStep, PC
<1>5. Calm
  BY <1>2, SchedvarsAre, Zenon
<1>6. LocalsAt(p)'
  BY <1>1, <1>2, <1>3, Zenon DEF LocalsOK, LocalsAt, Exiting, initproc
<1>7. ScanAt(p)' /\ (\A q \in Proc : Behind(p, q)') /\ pc'[p] \notin Forking
  BY <1>3, PlainPoint, Zenon DEF Forking
<1> QED
  BY <1>2, <1>4, <1>5, <1>6, <1>7, CalmStep, Zenon

\* allocproc(): looking at the next slot, or failing.
LEMMA AllocSkip ==
    ASSUME TableIInv, Awake, SchedTypeOK', NEW c \in CPU, NEW p \in Proc, Runs(c, p), pc[p] = "alloc",
           NEW to \in {"alloc", "user"}, NEW n \in 0 .. NPROC, n = 0 \/ to = "alloc",
           pc' = pc \/ pc' = [pc EXCEPT ![p] = to], pc'[p] = to,
           i' = [i EXCEPT ![p] = n],
           UNCHANGED schedvars, UNCHANGED <<parent, w, np, havekids>>
    PROVE  TableIInv'
<1>1. ProcTypeOK /\ LocalsOK /\ Calm
  BY TableParts, SchedvarsAre, Zenon
<1>2. i'[p] = n /\ to \in PC
  BY <1>1, ProcTypes, Zenon DEF PC
<1>3. OwnStep(p)
  BY <1>2, Zenon DEF OwnStep
<1>4. LocalsAt(p)'
  BY <1>1, <1>2, Zenon DEF LocalsOK, LocalsAt, Exiting, initproc
<1>5. ScanAt(p)' /\ (\A q \in Proc : Behind(p, q)') /\ pc'[p] \notin Forking
  BY PlainPoint, Zenon DEF Forking
<1> QED
  BY <1>1, <1>3, <1>4, <1>5, CalmStep, Zenon

\* allocproc(): taking an unused slot.
LEMMA AllocTake ==
    ASSUME TableIInv, Awake, SchedTypeOK', NEW c \in CPU, NEW p \in Proc, Runs(c, p),
           NEW n \in Proc, AllocSlot(n), Goto(p, "alloc", "setparent"),
           np' = [np EXCEPT ![p] = n], i' = [i EXCEPT ![p] = 0],
           UNCHANGED <<parent, w, havekids>>
    PROVE  TableIInv'
<1>1. ProcTypeOK /\ LocalsOK /\ ForkSlot /\ ForkOwn /\ FreeOrphan
  BY TableParts, Zenon
<1>2. /\ pc[p] = "alloc" /\ pc' = [pc EXCEPT ![p] = "setparent"]
      /\ state[n] = "UNUSED" /\ state' = [state EXCEPT ![n] = "USED"] /\ chan' = chan
  BY Zenon DEF Goto, AllocSlot, SetState
<1>3. pc'[p] = "setparent" /\ np'[p] = n /\ i'[p] = 0 /\ state'[n] = "USED"
  BY <1>1, <1>2, ProcTypes, Zenon
<1>4. \A q \in Proc \ {n} : state'[q] = state[q]
  BY <1>2
<1>5. "setparent" \in PC /\ n \in Proc \cup {NoProc} /\ 0 \in 0 .. NPROC
  BY SchedAssumption DEF PC
<1>6. OwnStep(p)
  BY <1>2, <1>5, Zenon DEF OwnStep
<1>7. Local(p)
  BY <1>1, <1>6, OwnFacts, ProcTypes, Zenon
<1>8. Quiet /\ Alive' = Alive
  BY <1>2 DEF Quiet, Alive
<1>9. state[p] = "RUNNING" /\ p \in Alive
  BY RunsIsRunning, Zenon
<1>10. LocalsAt(p)'
  BY <1>1, <1>2, <1>3, Zenon DEF LocalsOK, LocalsAt, Exiting
<1>11. DeadInUser' /\ AsleepInWait' /\ LocalsOK'
  BY <1>7, <1>8, <1>9, <1>10, KeepCall, Zenon DEF Quiet
<1>12. \A q \in Proc \ {p} : pc'[q] = pc[q] /\ np'[q] = np[q]
  BY <1>7, Zenon DEF Local
<1>13. \A q \in Proc : pc[q] \in Forking => np[q] # n
  BY <1>1, <1>2, Zenon DEF ForkSlot
<1>14. parent[n] = NoProc
  BY <1>1, <1>2, Zenon DEF FreeOrphan
<1>15. FreeOrphan'
  BY <1>1, <1>3, <1>4, Zenon DEF FreeOrphan
<1>16. ForkSlot'
  BY <1>1, <1>3, <1>4, <1>12, <1>14 DEF ForkSlot
<1>17. ForkOwn'
  BY <1>1, <1>3, <1>12, <1>13 DEF ForkOwn
<1>18. ScanAt(p)' /\ \A q \in Proc : Behind(p, q)'
  BY <1>3, PlainPoint, Zenon
<1> QED
  BY <1>2, <1>6, <1>8, <1>11, <1>15, <1>16, <1>17, <1>18, QuietStep, Zenon

\* allocproc().
LEMMA AllocKeeps ==
    ASSUME TableIInv, Awake, SchedTypeOK', NEW c \in CPU, NEW p \in Proc, allocproc(c, p)
    PROVE  TableIInv'
<1>1. Runs(c, p) /\ UNCHANGED <<parent, w, havekids>>
  BY Zenon DEF allocproc
<1>2. CASE /\ pc[p] = "alloc" /\ i[p] \in Proc /\ Set(i, p, i[p] + 1)
           /\ UNCHANGED <<schedvars, pc, np>>
  <2>1. i[p] + 1 \in 0 .. NPROC /\ "alloc" \in {"alloc", "user"}
    BY <1>2, SlotIsNat, Zenon
  <2> QED
    BY <1>1, <1>2, <2>1, AllocSkip, Zenon DEF Set
<1>3. CASE Goto(p, "alloc", "user") /\ Set(i, p, 0) /\ UNCHANGED <<schedvars, np>>
  <2>1. pc[p] = "alloc" /\ pc' = [pc EXCEPT ![p] = "user"] /\ i' = [i EXCEPT ![p] = 0]
    BY <1>3, Zenon DEF Goto, Set
  <2>2. pc'[p] = "user" /\ 0 \in 0 .. NPROC /\ "user" \in {"alloc", "user"}
    BY <2>1, SchedAssumption, TableParts, ProcTypes
  <2> QED
    BY <1>1, <1>3, <2>1, <2>2, AllocSkip, Zenon
<1>4. CASE /\ Goto(p, "alloc", "setparent") /\ i[p] \in Proc /\ AllocSlot(i[p])
           /\ Set(np, p, i[p]) /\ Set(i, p, 0)
  BY <1>1, <1>4, AllocTake, Zenon DEF Set
<1> QED
  BY <1>2, <1>3, <1>4, Zenon DEF allocproc

\* np->parent = p, under wait_lock.
LEMMA ForkParentKeeps ==
    ASSUME TableIInv, Discipline, SchedTypeOK', NEW c \in CPU, NEW p \in Proc, kfork_parent(c, p)
    PROVE  TableIInv'
<1> DEFINE n == np[p]
<1>1. /\ ProcTypeOK /\ LocalsOK /\ ForkSlot /\ ForkOwn /\ FreeOrphan /\ InitRoot /\ ParentAlive
      /\ WaitFree /\ Awake
  BY TableParts, Zenon DEF Discipline
<1>2. /\ pc[p] = "setparent" /\ pc' = [pc EXCEPT ![p] = "start"]
      /\ parent' = [parent EXCEPT ![n] = p] /\ i' = i /\ w' = w /\ np' = np /\ havekids' = havekids
  BY Zenon DEF kfork_parent, Goto, Set
<1>3. Runs(c, p) /\ Free(wait_lock) /\ UNCHANGED schedvars
  BY Zenon DEF kfork_parent
<1>4. state' = state /\ chan' = chan /\ Calm /\ Quiet /\ Alive' = Alive
  BY <1>3, SchedvarsAre, CalmFacts, Zenon
<1>5. n \in Proc /\ state[n] = "USED" /\ parent[n] = NoProc
  BY <1>1, <1>2, Zenon DEF ForkSlot, Forking
<1>6. \A q \in Proc : pc[q] \in Forking /\ np[q] = n => q = p
  BY <1>1, <1>2, Zenon DEF ForkOwn, Forking
<1>7. np[p] = n
  BY Zenon
<1> HIDE DEF n
<1>8. parent' \in [Proc -> Proc \cup {NoProc}] /\ \A q \in Proc \ {n} : parent'[q] = parent[q]
  BY <1>1, <1>2, ProcTypes, Zenon
<1>9. pc'[p] = "start" /\ parent'[n] = p /\ "start" \in PC
  BY <1>1, <1>2, <1>5, ProcTypes, Zenon DEF PC
<1>10. OwnStep(p)
  BY <1>2, <1>9, Zenon DEF OwnStep
<1>11. ProcTypeOK' /\ Local(p)
  BY <1>1, <1>8, <1>10, OwnFacts, Zenon
<1>12. state[p] = "RUNNING" /\ p \in Alive
  BY <1>1, <1>3, RunsIsRunning, Zenon
<1>13. n # p /\ n \notin Alive
  BY <1>5, <1>12, Zenon DEF Alive
<1>14. \A q \in Proc : pc[q] \notin HasWait /\ pc'[q] \notin HasWait
  BY <1>1, <1>3, <1>9, <1>11, Zenon DEF WaitFree, Local, HasWait
<1>15. LocalsAt(p)'
  BY <1>1, <1>2, <1>9, Zenon DEF LocalsOK, LocalsAt, Exiting, initproc
<1>16. DeadInUser' /\ AsleepInWait' /\ LocalsOK'
  BY <1>4, <1>11, <1>12, <1>15, KeepCall, Zenon
<1>17. \A q \in Proc \ {p} : pc'[q] = pc[q] /\ np'[q] = np[q]
  BY <1>11, Zenon DEF Local
<1>18. ForkSlot'
  BY <1>1, <1>2, <1>4, <1>5, <1>6, <1>7, <1>8, <1>9, <1>17 DEF ForkSlot
<1>19. pc[p] \in Forking
  BY <1>2, Zenon DEF Forking
<1>20. ForkOwn'
  BY <1>1, <1>2, <1>17, <1>19, Zenon DEF ForkOwn
<1>21. FreeOrphan'
  BY <1>1, <1>4, <1>5, <1>8, Zenon DEF FreeOrphan
<1>22. InitRoot'
  BY <1>1, <1>4, <1>8, <1>13, SlotIsNat, Zenon DEF InitRoot, initproc
<1>23. ParentAlive'
  BY <1>1, <1>4, <1>5, <1>8, <1>9, <1>12, Zenon DEF ParentAlive, initproc
<1>24. KidsBehind'
  BY <1>14, Zenon DEF KidsBehind, Behind, HasWait
<1>25. ScanInv'
  BY <1>9, <1>14, PlainPoint, LockedScan, Zenon
<1>26. WakeInv'
  BY <1>2, <1>4, <1>5, <1>8, <1>11, KeepWake, Zenon
<1> QED
  BY <1>11, <1>16, <1>18, <1>20, <1>21, <1>22, <1>23, <1>24, <1>25, <1>26, TableWhole, Zenon

\* np->state = RUNNABLE.
LEMMA ForkStartKeeps ==
    ASSUME TableIInv, Awake, SchedTypeOK', NEW c \in CPU, NEW p \in Proc, kfork_start(c, p)
    PROVE  TableIInv'
<1> DEFINE n == np[p]
<1>1. ProcTypeOK /\ LocalsOK /\ ForkSlot /\ ForkOwn
  BY TableParts, Zenon
<1>2. /\ Runs(c, p) /\ pc[p] = "start" /\ pc' = [pc EXCEPT ![p] = "user"]
      /\ state' = [state EXCEPT ![n] = "RUNNABLE"] /\ chan' = chan
      /\ np' = [np EXCEPT ![p] = NoProc]
      /\ parent' = parent /\ i' = i /\ w' = w /\ havekids' = havekids
  BY Zenon DEF kfork_start, Goto, StartSlot, SetState, Set
<1>3. n \in Proc /\ state[n] = "USED" /\ parent[n] = p
  BY <1>1, <1>2, Zenon DEF ForkSlot, Forking
<1>4. \A q \in Proc : pc[q] \in Forking /\ np[q] = n => q = p
  BY <1>1, <1>2, Zenon DEF ForkOwn, Forking
<1> HIDE DEF n
<1>5. pc'[p] = "user" /\ state'[n] = "RUNNABLE" /\ \A q \in Proc \ {n} : state'[q] = state[q]
  BY <1>1, <1>2, <1>3, ProcTypes, Zenon
<1>6. "user" \in PC /\ NoProc \in Proc \cup {NoProc}
  BY Zenon DEF PC
<1>7. OwnStep(p)
  BY <1>2, <1>6, Zenon DEF OwnStep
<1>8. Local(p)
  BY <1>1, <1>2, <1>7, OwnFacts, ProcTypes, Zenon
<1>9. state[p] = "RUNNING" /\ p \in Alive
  BY <1>2, RunsIsRunning, Zenon
<1>10. Quiet /\ Alive' = Alive \cup {n}
  BY <1>2, <1>3, <1>5, Zenon DEF Quiet, Alive
<1>11. LocalsAt(p)'
  BY <1>1, <1>2, <1>5, Zenon DEF LocalsOK, LocalsAt, Exiting, initproc
<1>12. DeadInUser' /\ AsleepInWait' /\ LocalsOK'
  BY <1>5, <1>8, <1>9, <1>10, <1>11, KeepCall, Zenon DEF Quiet
<1>13. \A q \in Proc : pc'[q] \in Forking => q # p /\ pc'[q] = pc[q] /\ np'[q] = np[q]
  BY <1>5, <1>8, Zenon DEF Local, Forking
<1>14. \A q \in Proc : pc'[q] \in Forking => np[q] \in Proc \ {n}
  BY <1>1, <1>4, <1>13, Zenon DEF ForkSlot
<1>15. ForkSlot' /\ ForkOwn' /\ FreeOrphan'
  BY <1>2, <1>5, <1>13, <1>14, KeepFork, Zenon
<1>16. ScanAt(p)' /\ \A q \in Proc : Behind(p, q)'
  BY <1>5, PlainPoint, Zenon
<1> QED
  BY <1>2, <1>3, <1>7, <1>10, <1>12, <1>15, <1>16, SchedAssumption, QuietStep, Zenon

-----------------------------------------------------------------------------
(* kexit() *)

\* acquire(&wait_lock).
LEMMA ExitLockKeeps ==
    ASSUME TableIInv, Awake, SchedTypeOK', NEW c \in CPU, NEW p \in Proc, kexit_lock(c, p)
    PROVE  TableIInv'
<1>1. ProcTypeOK /\ LocalsOK
  BY TableParts, Zenon
<1>2. /\ Runs(c, p) /\ pc[p] = "exit" /\ pc' = [pc EXCEPT ![p] = "reparent"]
      /\ state' = state /\ chan' = chan
      /\ parent' = parent /\ i' = i /\ w' = w /\ np' = np /\ havekids' = havekids
  BY Zenon DEF kexit_lock, Goto, Acquire, procvars
<1>3. pc'[p] = "reparent" /\ "reparent" \in PC /\ Calm
  BY <1>1, <1>2, ProcTypes, UnchangedIsCalm, Zenon DEF PC
<1>4. OwnStep(p)
  BY <1>2, <1>3, Zenon DEF OwnStep
<1>5. i[p] = 0 /\ w[p] = 0 /\ ~ havekids[p] /\ p # initproc
  BY <1>1, <1>2, Zenon DEF LocalsOK, LocalsAt, Exiting
<1>6. LocalsAt(p)'
  BY <1>2, <1>3, <1>5, Zenon DEF LocalsAt, initproc
<1>7. \A q \in Proc : Behind(p, q)'
  BY <1>2, <1>5, SlotIsNat DEF Behind
<1>8. ScanAt(p)' /\ pc'[p] \notin Forking
  BY <1>3, Zenon DEF ScanAt, KidsCounted, NoZombieBehind, ParentAwake, Forking
<1> QED
  BY <1>2, <1>3, <1>4, <1>6, <1>7, <1>8, CalmStep, Zenon

\* The loop of reparent() passes a slot that is no child, or ends.
LEMMA ReparentNext ==
    ASSUME TableIInv, Awake, SchedTypeOK', NEW c \in CPU, NEW p \in Proc, Runs(c, p), pc[p] = "reparent",
           NEW to \in {"reparent", "wakeparent"}, pc' = pc \/ pc' = [pc EXCEPT ![p] = to],
           pc'[p] = to, NEW n \in 0 .. NPROC, i' = [i EXCEPT ![p] = n],
           to = "reparent" => i[p] \in Proc /\ parent[i[p]] # p /\ n = i[p] + 1,
           to = "wakeparent" => i[p] = NPROC /\ n = 0,
           UNCHANGED schedvars, UNCHANGED <<parent, w, np, havekids>>
    PROVE  TableIInv'
<1>1. ProcTypeOK /\ LocalsOK /\ KidsBehind /\ Calm
  BY TableParts, SchedvarsAre, Zenon
<1>2. i'[p] = n /\ to \in PC
  BY <1>1, ProcTypes, Zenon DEF PC
<1>3. OwnStep(p)
  BY <1>2, Zenon DEF OwnStep
<1>4. w[p] = 0 /\ ~ havekids[p] /\ p # initproc
  BY <1>1, Zenon DEF LocalsOK, LocalsAt, Exiting
<1>5. LocalsAt(p)'
  BY <1>2, <1>4, Zenon DEF LocalsAt, initproc
<1>6. \A q \in Proc : parent[q] = p => i[p] <= q
  BY <1>1, Zenon DEF KidsBehind, Behind
<1>7. ASSUME NEW q \in Proc, parent[q] = p
      PROVE  Behind(p, q)'
  <2>1. to = "reparent" /\ n <= q
    BY <1>6, <1>7, SchedAssumption, SlotIsNat
  <2> QED
    BY <1>2, <2>1, Zenon DEF Behind
<1>8. parent[p] \in Nat
  BY HasParent, SlotIsNat, Zenon DEF Exiting
<1>9. ~ (parent[p] < w[p])
  BY <1>4, <1>8
<1>10. ScanAt(p)' /\ pc'[p] \notin Forking
  BY <1>9, Zenon DEF ScanAt, KidsCounted, NoZombieBehind, ParentAwake, Forking
<1> QED
  BY <1>1, <1>3, <1>5, <1>7, <1>10, CalmStep, Zenon

\* The loop of reparent() hands a child over to init.
LEMMA ReparentGive ==
    ASSUME TableIInv, Exclusive, Awake, SchedTypeOK', NEW c \in CPU, NEW p \in Proc, Runs(c, p),
           NEW n \in Proc, n = i[p], parent[n] = p, parent' = [parent EXCEPT ![n] = initproc],
           Goto(p, "reparent", "wakeinit"),
           UNCHANGED schedvars, UNCHANGED <<i, w, np, havekids>>
    PROVE  TableIInv'
<1>1. /\ ProcTypeOK /\ LocalsOK /\ ForkSlot /\ FreeOrphan /\ InitRoot /\ ParentAlive /\ KidsBehind
      /\ initproc \in Proc
  BY TableParts, SlotIsNat, Zenon
<1>2. pc[p] = "reparent" /\ pc' = [pc EXCEPT ![p] = "wakeinit"]
  BY Zenon DEF Goto
<1>3. state' = state /\ chan' = chan /\ Calm /\ Quiet /\ Alive' = Alive
  BY SchedvarsAre, CalmFacts, Zenon
<1>4. parent' \in [Proc -> Proc \cup {NoProc}] /\ \A q \in Proc \ {n} : parent'[q] = parent[q]
  BY <1>1, ProcTypes, Zenon
<1>5. pc'[p] = "wakeinit" /\ "wakeinit" \in PC /\ parent'[n] = initproc
  BY <1>1, <1>2, ProcTypes, Zenon DEF PC
<1>6. OwnStep(p)
  BY <1>2, <1>5, Zenon DEF OwnStep
<1>7. ProcTypeOK' /\ Local(p)
  BY <1>1, <1>4, <1>6, OwnFacts, Zenon
<1>8. w[p] = 0 /\ ~ havekids[p] /\ p # initproc
  BY <1>1, <1>2, Zenon DEF LocalsOK, LocalsAt, Exiting
<1>9. LocalsAt(p)'
  BY <1>5, <1>8, Zenon DEF LocalsAt, initproc
<1>10. p \in Alive /\ state[p] = "RUNNING"
  BY RunsIsRunning, Zenon
<1>11. DeadInUser' /\ AsleepInWait' /\ LocalsOK'
  BY <1>3, <1>7, <1>9, <1>10, KeepCall, Zenon
<1>12. \A q \in Proc \ {p} : pc[q] \notin HasWait /\ pc'[q] \notin HasWait
  BY <1>2, <1>7, OthersOutside, Zenon DEF HasWait
<1>13. \A q \in Proc : pc'[q] \in Forking => pc'[q] = pc[q] /\ np'[q] = np[q] /\ q # p
  BY <1>5, <1>7, Zenon DEF Local, Forking
<1>14. \A q \in Proc : pc'[q] \in Forking => np[q] \in Proc \ {n}
  BY <1>1, <1>13, SchedAssumption DEF ForkSlot
<1>15. \A q \in Proc : state[q] = "UNUSED" => q # n
  BY <1>1, SchedAssumption, Zenon DEF FreeOrphan
<1>16. ForkSlot' /\ ForkOwn' /\ FreeOrphan'
  BY <1>3, <1>4, <1>13, <1>14, <1>15, KeepFork
<1>17. n # initproc /\ initproc \in Alive /\ initproc' = initproc
  BY <1>1, SchedAssumption, Zenon DEF InitRoot, initproc
<1>18. InitRoot'
  BY <1>1, <1>3, <1>4, SchedAssumption, Zenon DEF InitRoot
<1>19. ParentAlive'
  BY <1>1, <1>3, <1>4, <1>5, <1>17, SchedAssumption, Zenon DEF ParentAlive
<1>20. \A q \in Proc : parent[q] = p => n <= q
  BY <1>1, <1>2, Zenon DEF KidsBehind, Behind
<1>21. \A q \in Proc : parent'[q] = p => n < q
  BY <1>4, <1>8, <1>20, SlotIsNat
<1>22. \A q \in Proc : parent'[q] = p => Behind(p, q)'
  BY <1>5, <1>21, Zenon DEF Behind
<1>23. KidsBehind'
  BY <1>7, <1>12, <1>22, KeepBehind, Zenon
<1>24. ScanAt(p)'
  BY <1>5, Zenon DEF ScanAt, KidsCounted, NoZombieBehind, ParentAwake
<1>25. ScanInv'
  BY <1>12, <1>24, LockedScan, Zenon
<1>26. \A q \in Proc : pc[q] # "wakeinit"
  BY <1>2, <1>12, Zenon DEF HasWait
<1>27. WakeInv'
  BY <1>3, <1>4, <1>5, <1>8, <1>26, NothingMissed, Zenon DEF WakeInv
<1> QED
  BY <1>7, <1>11, <1>16, <1>18, <1>19, <1>23, <1>25, <1>27, TableWhole, Zenon

\* The loop of reparent().
LEMMA ReparentKeeps ==
    ASSUME TableIInv, Discipline, SchedTypeOK', NEW c \in CPU, NEW p \in Proc, reparent(c, p)
    PROVE  TableIInv'
<1>1. Runs(c, p) /\ UNCHANGED schedvars /\ UNCHANGED <<w, np, havekids>> /\ Exclusive /\ Awake
  BY Zenon DEF reparent, Discipline
<1>2. /\ "reparent" \in {"reparent", "wakeparent"} /\ "wakeparent" \in {"reparent", "wakeparent"}
      /\ "reparent" # "wakeparent" /\ 0 \in 0 .. NPROC
  BY SchedAssumption
<1>3. CASE /\ pc[p] = "reparent" /\ i[p] \in Proc /\ parent[i[p]] # p
           /\ Set(i, p, i[p] + 1) /\ UNCHANGED <<parent, pc>>
  <2>1. i[p] + 1 \in 0 .. NPROC
    BY <1>3, SlotIsNat, Zenon
  <2>2. i' = [i EXCEPT ![p] = i[p] + 1] /\ pc'[p] = "reparent"
    BY <1>3, Zenon DEF Set
  <2> QED
    BY <1>1, <1>3, <2>1, <2>2, ReparentNext, Zenon
<1>4. CASE /\ Goto(p, "reparent", "wakeparent") /\ i[p] = NPROC
           /\ Set(i, p, 0) /\ UNCHANGED parent
  <2>1. pc[p] = "reparent" /\ pc' = [pc EXCEPT ![p] = "wakeparent"] /\ i' = [i EXCEPT ![p] = 0]
    BY <1>4, Zenon DEF Goto, Set
  <2>2. pc'[p] = "wakeparent"
    BY <2>1, TableParts, ProcTypes, Zenon
  <2> QED
    BY <1>1, <1>2, <1>4, <2>1, <2>2, ReparentNext, Zenon
<1>5. CASE /\ Goto(p, "reparent", "wakeinit") /\ i[p] \in Proc /\ parent[i[p]] = p
           /\ Set(parent, i[p], initproc) /\ UNCHANGED i
  BY <1>1, <1>5, ReparentGive, Zenon DEF Set
<1> QED
  BY <1>3, <1>4, <1>5, Zenon DEF reparent

\* An iteration of wakeup(initproc).
LEMMA WakeInitNext ==
    ASSUME TableIInv, Awake, SchedTypeOK', NEW c \in CPU, NEW p \in Proc, Runs(c, p),
           pc[p] = "wakeinit", wakeup(p, initproc), UNCHANGED <<pc, i, parent, np, havekids>>
    PROVE  TableIInv'
<1>1. ProcTypeOK /\ AsleepInWait /\ LocalsOK /\ KidsBehind
  BY TableParts, Zenon
<1>2. Calm /\ w[p] \in Proc /\ (w[p] = initproc => state'[initproc] # "SLEEPING")
  BY <1>1, WakeupIsCalm, Zenon
<1>3. w' = [w EXCEPT ![p] = w[p] + 1]
  BY Zenon DEF wakeup, Set
<1>4. w[p] + 1 \in 0 .. NPROC
  BY <1>2, SlotIsNat, Zenon
<1>5. OwnStep(p)
  BY <1>3, <1>4, Zenon DEF OwnStep
<1>6. p # initproc /\ i[p] \in Proc /\ ~ havekids[p]
  BY <1>1, Zenon DEF LocalsOK, LocalsAt, Exiting
<1>7. LocalsAt(p)'
  BY <1>6, Zenon DEF LocalsAt, initproc
<1>8. ScanAt(p)' /\ pc'[p] \notin Forking
  BY Zenon DEF ScanAt, KidsCounted, NoZombieBehind, ParentAwake, Forking
<1>9. \A q \in Proc : parent[q] = p => Behind(p, q)'
  BY <1>1, Zenon DEF KidsBehind, Behind
<1>10. w[p] = 0 => state'[initproc] # "SLEEPING"
  BY <1>2, Zenon DEF initproc
<1> QED
  BY <1>2, <1>5, <1>7, <1>8, <1>9, <1>10, CalmStep, Zenon

\* The end of wakeup(initproc).
LEMMA WakeInitDone ==
    ASSUME TableIInv, Awake, SchedTypeOK', NEW c \in CPU, NEW p \in Proc, Runs(c, p),
           Goto(p, "wakeinit", "reparent"), wakeup_done(p), Set(i, p, i[p] + 1),
           UNCHANGED <<parent, np, havekids>>
    PROVE  TableIInv'
<1>1. ProcTypeOK /\ LocalsOK /\ KidsBehind
  BY TableParts, Zenon
<1>2. /\ pc[p] = "wakeinit" /\ pc' = [pc EXCEPT ![p] = "reparent"]
      /\ w[p] = NPROC /\ w' = [w EXCEPT ![p] = 0]
      /\ i' = [i EXCEPT ![p] = i[p] + 1] /\ UNCHANGED schedvars
  BY Zenon DEF Goto, wakeup_done, Set
<1>3. pc'[p] = "reparent" /\ w'[p] = 0 /\ i'[p] = i[p] + 1 /\ Calm
  BY <1>1, <1>2, ProcTypes, SchedvarsAre, Zenon
<1>4. p # initproc /\ i[p] \in Proc /\ ~ havekids[p]
  BY <1>1, <1>2, Zenon DEF LocalsOK, LocalsAt, Exiting
<1>5. i[p] + 1 \in 0 .. NPROC /\ 0 \in 0 .. NPROC /\ w[p] # 0 /\ "reparent" \in PC
  BY <1>2, <1>4, SchedAssumption, SlotIsNat DEF PC
<1>6. OwnStep(p)
  BY <1>2, <1>5, Zenon DEF OwnStep
<1>7. LocalsAt(p)'
  BY <1>3, <1>4, Zenon DEF LocalsAt, initproc
<1>8. ScanAt(p)' /\ pc'[p] \notin Forking
  BY <1>3, Zenon DEF ScanAt, KidsCounted, NoZombieBehind, ParentAwake, Forking
<1>9. ASSUME NEW q \in Proc, parent[q] = p
      PROVE  Behind(p, q)'
  <2>1. i[p] < q
    BY <1>1, <1>2, <1>9, Zenon DEF KidsBehind, Behind
  <2>2. i'[p] <= q
    BY <1>3, <1>4, <2>1, SlotIsNat
  <2> QED
    BY <1>3, <2>2, Zenon DEF Behind
<1> QED
  BY <1>3, <1>5, <1>6, <1>7, <1>8, <1>9, CalmStep, Zenon

\* wakeup(initproc) in reparent().
LEMMA ReparentWakeupKeeps ==
    ASSUME TableIInv, Awake, SchedTypeOK', NEW c \in CPU, NEW p \in Proc, reparent_wakeup(c, p)
    PROVE  TableIInv'
  BY WakeInitNext, WakeInitDone, Zenon DEF reparent_wakeup

\* wakeup(p->parent).
LEMMA ExitWakeupKeeps ==
    ASSUME TableIInv, Awake, SchedTypeOK', NEW c \in CPU, NEW p \in Proc, kexit_wakeup(c, p)
    PROVE  TableIInv'
<1> DEFINE m == parent[p]
<1>1. ProcTypeOK /\ AsleepInWait /\ LocalsOK /\ KidsBehind /\ ScanInv
  BY TableParts, Zenon
<1>2. Runs(c, p) /\ pc[p] = "wakeparent" /\ parent' = parent
  BY Zenon DEF kexit_wakeup, Goto
<1>3. \/ wakeup(p, m) /\ pc' = pc
      \/ wakeup_done(p) /\ pc' = [pc EXCEPT ![p] = "lockself"]
  BY Zenon DEF kexit_wakeup, Goto
<1>4. Calm
  BY <1>1, <1>2, <1>3, WakeupIsCalm, SchedvarsAre, Zenon DEF wakeup_done
<1>5. \/ /\ w[p] \in Proc /\ w' = [w EXCEPT ![p] = w[p] + 1] /\ pc' = pc
         /\ w[p] = m => state'[m] # "SLEEPING"
      \/ w[p] = NPROC /\ w' = [w EXCEPT ![p] = 0] /\ pc' = [pc EXCEPT ![p] = "lockself"]
  BY <1>1, <1>2, <1>3, WakeupIsCalm, Zenon DEF wakeup, wakeup_done, Set
<1>6. \/ /\ w[p] \in Proc /\ w'[p] = w[p] + 1 /\ pc'[p] = "wakeparent"
         /\ w[p] = m => state'[m] # "SLEEPING"
      \/ w[p] = NPROC /\ w'[p] = 0 /\ pc'[p] = "lockself"
  BY <1>1, <1>2, <1>5, ProcTypes, Zenon
<1>7. i' = i /\ np' = np /\ havekids' = havekids
  BY Zenon DEF kexit_wakeup
<1>8. 0 \in 0 .. NPROC /\ (w[p] \in Proc => w[p] + 1 \in 0 .. NPROC) /\ "lockself" \in PC
  BY SchedAssumption, SlotIsNat DEF PC
<1>9. OwnStep(p)
  BY <1>5, <1>7, <1>8, Zenon DEF OwnStep
<1>10. p # initproc /\ i[p] = 0 /\ ~ havekids[p]
  BY <1>1, <1>2, Zenon DEF LocalsOK, LocalsAt, Exiting
<1>11. LocalsAt(p)' /\ pc'[p] \notin Forking
  BY <1>6, <1>7, <1>10, Zenon DEF LocalsAt, initproc, Forking
<1>12. \A q \in Proc : parent[q] # p
  BY <1>1, <1>2, Zenon DEF KidsBehind, Behind
<1>13. m \in Proc /\ m \in Nat /\ m < NPROC
  BY <1>2, HasParent, SlotIsNat, Zenon DEF Exiting
<1>14. m < w[p] => state[m] # "SLEEPING"
  BY <1>1, <1>2, Zenon DEF ScanInv, ScanAt, ParentAwake
<1>15. m < w[p] => state'[m] # "SLEEPING"
  BY <1>4, <1>13, <1>14, CalmFacts, Zenon DEF Quiet
<1>16. \/ pc'[p] = "wakeparent" /\ (m < w'[p] => state'[m] # "SLEEPING")
       \/ pc'[p] = "lockself" /\ state'[m] # "SLEEPING"
  BY <1>6, <1>13, <1>15, SlotIsNat
<1>17. ScanAt(p)'
  BY <1>2, <1>16, Zenon DEF ScanAt, KidsCounted, NoZombieBehind, ParentAwake
<1> QED
  BY <1>2, <1>4, <1>9, <1>11, <1>12, <1>17, CalmStep, Zenon

\* acquire(&p->lock).
LEMMA ExitLockselfKeeps ==
    ASSUME TableIInv, Awake, SchedTypeOK', NEW c \in CPU, NEW p \in Proc, kexit_lockself(c, p)
    PROVE  TableIInv'
<1>1. ProcTypeOK /\ LocalsOK /\ KidsBehind /\ ScanInv
  BY TableParts, Zenon
<1>2. /\ Runs(c, p) /\ pc[p] = "lockself" /\ pc' = [pc EXCEPT ![p] = "zombie"]
      /\ state' = state /\ chan' = chan
      /\ parent' = parent /\ i' = i /\ w' = w /\ np' = np /\ havekids' = havekids
  BY Zenon DEF kexit_lockself, Goto, Acquire, procvars
<1>3. pc'[p] = "zombie" /\ "zombie" \in PC /\ Calm
  BY <1>1, <1>2, ProcTypes, UnchangedIsCalm, Zenon DEF PC
<1>4. OwnStep(p)
  BY <1>2, <1>3, Zenon DEF OwnStep
<1>5. LocalsAt(p)'
  BY <1>1, <1>2, <1>3, Zenon DEF LocalsOK, LocalsAt, Exiting, initproc
<1>6. \A q \in Proc : parent[q] # p
  BY <1>1, <1>2, Zenon DEF KidsBehind, Behind
<1>7. state[parent[p]] # "SLEEPING"
  BY <1>1, <1>2, Zenon DEF ScanInv, ScanAt, ParentAwake
<1>8. ScanAt(p)' /\ pc'[p] \notin Forking
  BY <1>2, <1>3, <1>7, Zenon DEF ScanAt, KidsCounted, NoZombieBehind, ParentAwake, Forking
<1> QED
  BY <1>2, <1>3, <1>4, <1>5, <1>6, <1>8, CalmStep, Zenon

\* p->state = ZOMBIE: p has no children left and its parent is awake.
LEMMA ExitSchedKeeps ==
    ASSUME TableIInv, Discipline, SchedTypeOK', NEW c \in CPU, NEW p \in Proc, kexit_sched(c, p)
    PROVE  TableIInv'
<1>1. ProcTypeOK /\ LocalsOK /\ InitRoot /\ KidsBehind /\ ScanInv /\ Exclusive /\ Awake
  BY TableParts, Zenon DEF Discipline
<1>2. /\ Runs(c, p) /\ pc[p] = "zombie" /\ pc' = [pc EXCEPT ![p] = "user"]
      /\ state' = [state EXCEPT ![p] = "ZOMBIE"] /\ chan' = [chan EXCEPT ![p] = chan[p]]
      /\ parent' = parent /\ i' = i /\ w' = w /\ np' = np /\ havekids' = havekids
  BY Zenon DEF kexit_sched, ExitSched, EnterSched, Goto
<1>3. \A q \in Proc \ {p} : state'[q] = state[q] /\ chan'[q] = chan[q]
  BY <1>2, ProcTypes
<1>4. pc'[p] = "user" /\ state'[p] = "ZOMBIE" /\ "user" \in PC
  BY <1>1, <1>2, ProcTypes, Zenon DEF PC
<1>5. OwnStep(p)
  BY <1>2, <1>4, Zenon DEF OwnStep
<1>6. ProcTypeOK' /\ Local(p)
  BY <1>1, <1>2, <1>5, OwnFacts, ProcTypes, Zenon
<1>7. state[p] = "RUNNING" /\ p \in Alive /\ parent[p] \in Proc /\ parent[p] \in Alive
  BY <1>1, <1>2, RunsIsRunning, HasParent, Zenon DEF Exiting
<1>8. p # initproc /\ LocalsAt(p)'
  BY <1>1, <1>2, <1>4, Zenon DEF LocalsOK, LocalsAt, Exiting, initproc
<1>9. \A q \in Proc : parent[q] # p
  BY <1>1, <1>2, Zenon DEF KidsBehind, Behind
<1>10. state[parent[p]] # "SLEEPING"
  BY <1>1, <1>2, Zenon DEF ScanInv, ScanAt, ParentAwake
<1>11. \A q \in Proc \ {p} : pc[q] \notin HasWait /\ pc'[q] \notin HasWait
  BY <1>1, <1>2, <1>6, OthersOutside, Zenon DEF HasWait
<1>12. \A q \in Proc \ {p} : q \in Alive <=> q \in Alive'
  BY <1>3, Zenon DEF Alive
<1>13. DeadInUser' /\ AsleepInWait' /\ LocalsOK'
  BY <1>3, <1>4, <1>6, <1>8, <1>12, KeepCall, Zenon
<1>14. pc'[p] \notin Forking
  BY <1>4, Zenon DEF Forking
<1>15. ForkSlot' /\ ForkOwn' /\ FreeOrphan'
  BY <1>2, <1>3, <1>4, <1>6, <1>7, <1>14, KeepForkOut, Zenon
<1>16. initproc \in Alive'
  BY <1>1, <1>8, <1>12, SlotIsNat, Zenon DEF InitRoot
<1>17. \A q \in Alive : q \in Alive' \/ \A r \in Proc : parent[r] # q
  BY <1>9, <1>12, Zenon DEF Alive
<1>18. InitRoot' /\ ParentAlive' /\ KidsBehind'
  BY <1>2, <1>3, <1>6, <1>7, <1>9, <1>12, <1>16, <1>17, KeepFamily, Zenon
<1>19. ScanInv'
  BY <1>4, <1>11, PlainPoint, LockedScan, Zenon
<1>20. \A q \in Proc : pc[q] # "wakeinit"
  BY <1>2, <1>11, Zenon DEF HasWait
<1>21. \A q \in Proc : state'[q] = "ZOMBIE" => parent[q] \in Proc /\ state[parent[q]] # "SLEEPING"
  BY <1>3, <1>7, <1>10, <1>20, NothingMissed, Zenon
<1>22. WakeInv'
  BY <1>2, <1>3, <1>9, <1>21 DEF WakeInv
<1> QED
  BY <1>6, <1>13, <1>15, <1>18, <1>19, <1>22, TableWhole, Zenon

-----------------------------------------------------------------------------
(* kwait() *)

\* acquire(&wait_lock); havekids = 0.
LEMMA WaitLockKeeps ==
    ASSUME TableIInv, Awake, SchedTypeOK', NEW c \in CPU, NEW p \in Proc, kwait_lock(c, p)
    PROVE  TableIInv'
<1>1. ProcTypeOK /\ LocalsOK
  BY TableParts, Zenon
<1>2. /\ Runs(c, p) /\ pc[p] = "wait" /\ pc' = [pc EXCEPT ![p] = "table"]
      /\ state' = state /\ chan' = chan
      /\ havekids' = [havekids EXCEPT ![p] = FALSE]
      /\ parent' = parent /\ i' = i /\ w' = w /\ np' = np
  BY Zenon DEF kwait_lock, Goto, Set, Acquire, procvars
<1>3. pc'[p] = "table" /\ ~ havekids'[p] /\ Calm
  BY <1>1, <1>2, ProcTypes, UnchangedIsCalm, Zenon
<1>4. "table" \in PC /\ FALSE \in BOOLEAN
  BY Zenon DEF PC
<1>5. OwnStep(p)
  BY <1>2, <1>4, Zenon DEF OwnStep
<1>6. i[p] = 0 /\ w[p] = 0
  BY <1>1, <1>2, Zenon DEF LocalsOK, LocalsAt
<1>7. LocalsAt(p)'
  BY <1>2, <1>3, <1>6, Zenon DEF LocalsAt, Exiting
<1>8. \A q \in Proc : Behind(p, q)' /\ ~ (q < i'[p])
  BY <1>2, <1>6, SlotIsNat DEF Behind
<1>9. ScanAt(p)' /\ pc'[p] \notin Forking
  BY <1>3, <1>8, Zenon DEF ScanAt, KidsCounted, NoZombieBehind, ParentAwake, Forking
<1> QED
  BY <1>2, <1>3, <1>5, <1>7, <1>8, <1>9, CalmStep, Zenon

\* An iteration that finds no zombie child.
LEMMA WaitNextKeeps ==
    ASSUME TableIInv, Awake, SchedTypeOK', NEW c \in CPU, NEW p \in Proc, kwait_next(c, p)
    PROVE  TableIInv'
<1> DEFINE n == i[p]
<1>1. ProcTypeOK /\ LocalsOK /\ ScanInv
  BY TableParts, Zenon
<1>2. /\ pc[p] = "table" /\ pc' = pc /\ n \in Proc
      /\ \/ parent[n] # p /\ havekids' = havekids
         \/ parent[n] = p /\ state[n] # "ZOMBIE" /\ havekids' = [havekids EXCEPT ![p] = TRUE]
      /\ i' = [i EXCEPT ![p] = n + 1] /\ w' = w /\ np' = np
  BY Zenon DEF kwait_next, Set
<1>3. Runs(c, p) /\ parent' = parent /\ UNCHANGED schedvars
  BY Zenon DEF kwait_next
<1>4. /\ i'[p] = n + 1
      /\ \/ parent[n] # p /\ havekids'[p] = havekids[p]
         \/ parent[n] = p /\ state[n] # "ZOMBIE" /\ havekids'[p]
  BY <1>1, <1>2, ProcTypes, Zenon
<1>5. Calm /\ state' = state
  BY <1>3, SchedvarsAre, Zenon
<1>6. n + 1 \in 0 .. NPROC /\ TRUE \in BOOLEAN
  BY <1>2, SlotIsNat, Zenon
<1>7. OwnStep(p)
  BY <1>2, <1>6, Zenon DEF OwnStep
<1>8. LocalsAt(p)'
  BY <1>1, <1>2, Zenon DEF LocalsOK, LocalsAt, Exiting, initproc
<1>9. pc'[p] \notin Forking /\ \A q \in Proc : Behind(p, q)'
  BY <1>2, Zenon DEF Behind, Forking
<1>10. \A q \in Proc : q < i'[p] <=> q < n \/ q = n
  BY <1>2, <1>4, SlotIsNat
<1>11. havekids[p] <=> \E q \in Proc : q < n /\ parent[q] = p
  BY <1>1, <1>2, Zenon DEF ScanInv, ScanAt, KidsCounted
<1>12. \A q \in Proc : q < n /\ parent[q] = p => state[q] # "ZOMBIE"
  BY <1>1, <1>2, Zenon DEF ScanInv, ScanAt, NoZombieBehind
<1>13. havekids'[p] <=> \E q \in Proc : q < i'[p] /\ parent[q] = p
  BY <1>2, <1>4, <1>10, <1>11, Zenon
<1>14. KidsCounted(p)'
  BY <1>3, <1>13, Zenon DEF KidsCounted
<1>15. \A q \in Proc : q < i'[p] /\ parent[q] = p => state[q] # "ZOMBIE"
  BY <1>4, <1>10, <1>12, Zenon
<1>16. NoZombieBehind(p)' /\ ParentAwake(p)'
  BY <1>2, <1>3, <1>5, <1>15, Zenon DEF NoZombieBehind, ParentAwake
<1>17. ScanAt(p)'
  BY <1>14, <1>16, Zenon DEF ScanAt
<1> QED
  BY <1>2, <1>3, <1>5, <1>7, <1>8, <1>9, <1>17, CalmStep, Zenon

\* kwait() is about to return, with or without a child.
LEMMA WaitDone ==
    ASSUME TableIInv, Awake, SchedTypeOK', NEW c \in CPU, NEW p \in Proc, Runs(c, p),
           Goto(p, "table", "waitdone"), Set(i, p, 0),
           \/ havekids' = havekids /\ ~ havekids[p]
           \/ Set(havekids, p, FALSE),
           UNCHANGED schedvars, UNCHANGED <<parent, w, np>>
    PROVE  TableIInv'
<1>1. ProcTypeOK /\ LocalsOK /\ Calm
  BY TableParts, SchedvarsAre, Zenon
<1>2. /\ pc[p] = "table" /\ pc' = [pc EXCEPT ![p] = "waitdone"] /\ i' = [i EXCEPT ![p] = 0]
      /\ \/ havekids' = havekids /\ ~ havekids[p]
         \/ havekids' = [havekids EXCEPT ![p] = FALSE]
  BY Zenon DEF Goto, Set
<1>3. pc'[p] = "waitdone" /\ i'[p] = 0 /\ ~ havekids'[p]
  BY <1>1, <1>2, ProcTypes, Zenon
<1>4. 0 \in 0 .. NPROC /\ FALSE \in BOOLEAN /\ "waitdone" \in PC
  BY SchedAssumption DEF PC
<1>5. OwnStep(p)
  BY <1>2, <1>4, Zenon DEF OwnStep
<1>6. LocalsAt(p)'
  BY <1>1, <1>2, <1>3, Zenon DEF LocalsOK, LocalsAt, Exiting, initproc
<1>7. ScanAt(p)' /\ (\A q \in Proc : Behind(p, q)') /\ pc'[p] \notin Forking
  BY <1>3, PlainPoint, Zenon DEF Forking
<1> QED
  BY <1>1, <1>2, <1>5, <1>6, <1>7, CalmStep, Zenon

\* freeproc() on a zombie child.
LEMMA WaitFreed ==
    ASSUME TableIInv, Exclusive, Awake, SchedTypeOK', NEW c \in CPU, NEW p \in Proc, Runs(c, p),
           Goto(p, "table", "waitdone"), Set(i, p, 0), Set(havekids, p, FALSE),
           NEW n \in Proc, parent[n] = p, FreeSlot(n), Set(parent, n, NoProc),
           UNCHANGED <<w, np>>
    PROVE  TableIInv'
<1>1. ProcTypeOK /\ LocalsOK /\ InitRoot /\ ParentAlive
  BY TableParts, Zenon
<1>2. /\ pc[p] = "table" /\ pc' = [pc EXCEPT ![p] = "waitdone"] /\ i' = [i EXCEPT ![p] = 0]
      /\ havekids' = [havekids EXCEPT ![p] = FALSE]
      /\ parent' = [parent EXCEPT ![n] = NoProc]
      /\ state[n] = "ZOMBIE" /\ state' = [state EXCEPT ![n] = "UNUSED"]
      /\ chan' = [chan EXCEPT ![n] = NoChan]
  BY Zenon DEF Goto, Set, FreeSlot
<1>3. /\ parent' \in [Proc -> Proc \cup {NoProc}]
      /\ \A q \in Proc \ {n} : state'[q] = state[q] /\ chan'[q] = chan[q] /\ parent'[q] = parent[q]
  BY <1>1, <1>2, ProcTypes, Zenon
<1>4. pc'[p] = "waitdone" /\ i'[p] = 0 /\ ~ havekids'[p] /\ state'[n] = "UNUSED" /\ parent'[n] = NoProc
  BY <1>1, <1>2, ProcTypes, Zenon
<1>5. 0 \in 0 .. NPROC /\ FALSE \in BOOLEAN /\ "waitdone" \in PC
  BY SchedAssumption DEF PC
<1>6. OwnStep(p)
  BY <1>2, <1>5, Zenon DEF OwnStep
<1>7. ProcTypeOK' /\ Local(p)
  BY <1>1, <1>3, <1>6, OwnFacts, Zenon
<1>8. state[p] = "RUNNING" /\ p \in Alive /\ p # n
  BY <1>2, RunsIsRunning, Zenon
<1>9. Alive' = Alive /\ n \notin Alive
  BY <1>2, <1>3 DEF Alive
<1>10. /\ Quiet
       /\ \A q \in Proc : state'[q] = "SLEEPING" => state[q] = "SLEEPING" /\ chan'[q] = chan[q]
  BY <1>3, <1>4, Zenon DEF Quiet
<1>11. LocalsAt(p)'
  BY <1>1, <1>2, <1>4, Zenon DEF LocalsOK, LocalsAt, Exiting, initproc
<1>12. DeadInUser' /\ AsleepInWait' /\ LocalsOK'
  BY <1>3, <1>7, <1>8, <1>9, <1>10, <1>11, KeepCall, Zenon
<1>13. pc'[p] \notin Forking
  BY <1>4, Zenon DEF Forking
<1>14. \A q \in Proc : state[q] = "USED" => state'[q] = "USED" /\ parent'[q] = parent[q]
  BY <1>2, <1>3, Zenon
<1>15. ForkSlot' /\ ForkOwn' /\ FreeOrphan'
  BY <1>3, <1>4, <1>7, <1>13, <1>14, KeepForkOut, Zenon
<1>16. InitRoot'
  BY <1>1, <1>3, <1>9, SlotIsNat, Zenon DEF InitRoot, initproc
<1>17. \A q \in Proc : state'[q] = "ZOMBIE" => state[q] = "ZOMBIE" /\ q # n /\ parent'[q] = parent[q]
  BY <1>3, <1>4, Zenon
<1>18. ParentAlive'
  BY <1>1, <1>3, <1>4, <1>9, <1>17 DEF ParentAlive, initproc
<1>19. ScanAt(p)' /\ \A q \in Proc : Behind(p, q)'
  BY <1>4, PlainPoint, Zenon
<1>20. \A q, r \in Proc : parent'[q] = r => parent[q] = r
  BY <1>3, <1>4, SchedAssumption, Zenon
<1>21. KidsBehind'
  BY <1>7, <1>19, <1>20, KeepBehind, Zenon
<1>22. \A q \in Proc \ {p} : pc'[q] \notin HasWait
  BY <1>2, <1>7, OthersOutside, Zenon DEF HasWait
<1>23. ScanInv'
  BY <1>19, <1>22, LockedScan, Zenon
<1>24. WakeInv'
  BY <1>2, <1>7, <1>10, <1>17, KeepWake, Zenon
<1> QED
  BY <1>7, <1>12, <1>15, <1>16, <1>18, <1>21, <1>23, <1>24, TableWhole, Zenon

\* A zombie child is found: it is freed, or its status cannot be copied out.
LEMMA WaitReapKeeps ==
    ASSUME TableIInv, Discipline, SchedTypeOK', NEW c \in CPU, NEW p \in Proc, kwait_reap(c, p)
    PROVE  TableIInv'
<1>1. Exclusive /\ Awake
  BY Zenon DEF Discipline
<1> QED
  BY <1>1, WaitDone, WaitFreed, Zenon DEF kwait_reap

\* The table holds no child.
LEMMA WaitNoKidsKeeps ==
    ASSUME TableIInv, Awake, SchedTypeOK', NEW c \in CPU, NEW p \in Proc, kwait_nokids(c, p)
    PROVE  TableIInv'
  BY WaitDone, Zenon DEF kwait_nokids

\* acquire(&p->lock) at the start of sleep(): no child is a zombie.
LEMMA WaitBlockKeeps ==
    ASSUME TableIInv, Awake, SchedTypeOK', NEW c \in CPU, NEW p \in Proc, kwait_block(c, p)
    PROVE  TableIInv'
<1>1. ProcTypeOK /\ LocalsOK /\ ScanInv
  BY TableParts, Zenon
<1>2. /\ Runs(c, p) /\ pc[p] = "table" /\ pc' = [pc EXCEPT ![p] = "sleep"] /\ i[p] = NPROC
      /\ state' = state /\ chan' = chan
      /\ i' = [i EXCEPT ![p] = 0] /\ havekids' = [havekids EXCEPT ![p] = FALSE]
      /\ parent' = parent /\ w' = w /\ np' = np
  BY Zenon DEF kwait_block, Goto, Set, Acquire, procvars
<1>3. pc'[p] = "sleep" /\ i'[p] = 0 /\ ~ havekids'[p] /\ Calm
  BY <1>1, <1>2, ProcTypes, UnchangedIsCalm, Zenon
<1>4. 0 \in 0 .. NPROC /\ FALSE \in BOOLEAN /\ "sleep" \in PC
  BY SchedAssumption DEF PC
<1>5. OwnStep(p)
  BY <1>2, <1>4, Zenon DEF OwnStep
<1>6. LocalsAt(p)'
  BY <1>1, <1>2, <1>3, Zenon DEF LocalsOK, LocalsAt, Exiting, initproc
<1>7. pc'[p] \notin Forking /\ \A q \in Proc : Behind(p, q)'
  BY <1>3, Zenon DEF Behind, Forking
<1>8. \A q \in Proc : q < i[p]
  BY <1>2, SlotIsNat, Zenon
<1>9. \A q \in Proc : parent[q] = p => state[q] # "ZOMBIE"
  BY <1>1, <1>2, <1>8, Zenon DEF ScanInv, ScanAt, NoZombieBehind
<1>10. ScanAt(p)'
  BY <1>2, <1>3, <1>9, Zenon DEF ScanAt, KidsCounted, NoZombieBehind, ParentAwake
<1> QED
  BY <1>2, <1>3, <1>5, <1>6, <1>7, <1>10, CalmStep, Zenon

\* release(&wait_lock) and p->state = SLEEPING.
LEMMA WaitSleepKeeps ==
    ASSUME TableIInv, Discipline, SchedTypeOK', NEW c \in CPU, NEW p \in Proc, kwait_sleep(c, p)
    PROVE  TableIInv'
<1>1. ProcTypeOK /\ LocalsOK /\ InitRoot /\ ScanInv /\ Exclusive /\ Awake
  BY TableParts, Zenon DEF Discipline
<1>2. /\ Runs(c, p) /\ pc[p] = "sleep" /\ pc' = [pc EXCEPT ![p] = "wait"]
      /\ state' = [state EXCEPT ![p] = "SLEEPING"] /\ chan' = [chan EXCEPT ![p] = p]
      /\ parent' = parent /\ i' = i /\ w' = w /\ np' = np /\ havekids' = havekids
  BY Zenon DEF kwait_sleep, sleep, EnterSched, Goto
<1>3. \A q \in Proc \ {p} : state'[q] = state[q] /\ chan'[q] = chan[q]
  BY <1>2, ProcTypes
<1>4. pc'[p] = "wait" /\ state'[p] = "SLEEPING" /\ chan'[p] = p /\ "wait" \in PC
  BY <1>1, <1>2, ProcTypes, Zenon DEF PC
<1>5. OwnStep(p)
  BY <1>2, <1>4, Zenon DEF OwnStep
<1>6. ProcTypeOK' /\ Local(p)
  BY <1>1, <1>2, <1>5, OwnFacts, ProcTypes, Zenon
<1>7. state[p] = "RUNNING" /\ p \in Alive
  BY <1>1, <1>2, RunsIsRunning, Zenon
<1>8. Alive' = Alive
  BY <1>3, <1>4, <1>7, Zenon DEF Alive
<1>9. \A q \in Proc \ {p} : pc[q] \notin HasWait /\ pc'[q] \notin HasWait
  BY <1>1, <1>2, <1>6, OthersOutside, Zenon DEF HasWait
<1>10. LocalsAt(p)'
  BY <1>1, <1>2, <1>4, Zenon DEF LocalsOK, LocalsAt, Exiting, initproc
<1>11. DeadInUser' /\ AsleepInWait' /\ LocalsOK'
  BY <1>3, <1>4, <1>6, <1>7, <1>8, <1>10, KeepCall, Zenon
<1>12. pc'[p] \notin Forking /\ initproc \in Alive
  BY <1>1, <1>4, Zenon DEF Forking, InitRoot
<1>13. ForkSlot' /\ ForkOwn' /\ FreeOrphan'
  BY <1>2, <1>3, <1>4, <1>6, <1>7, <1>12, KeepForkOut, Zenon
<1>14. ScanAt(p)' /\ \A q \in Proc : Behind(p, q)'
  BY <1>4, PlainPoint, Zenon
<1>15. \A q \in Proc : state'[q] = "ZOMBIE" => state[q] = "ZOMBIE"
  BY <1>3, <1>4, Zenon
<1>16. InitRoot' /\ ParentAlive' /\ KidsBehind'
  BY <1>2, <1>6, <1>8, <1>12, <1>14, <1>15, KeepFamily, Zenon
<1>17. ScanInv'
  BY <1>9, <1>14, LockedScan, Zenon
<1>18. \A q \in Proc : pc[q] # "wakeinit"
  BY <1>2, <1>9, Zenon DEF HasWait
<1>19. \A q \in Proc : parent[q] = p => state[q] # "ZOMBIE"
  BY <1>1, <1>2, Zenon DEF ScanInv, ScanAt, NoZombieBehind
<1>20. \A q \in Proc : state'[q] = "ZOMBIE" =>
          parent[q] \in Proc /\ parent[q] # p /\ state[parent[q]] # "SLEEPING"
  BY <1>15, <1>18, <1>19, NothingMissed, Zenon
<1>21. WakeInv'
  BY <1>2, <1>3, <1>20 DEF WakeInv
<1> QED
  BY <1>6, <1>11, <1>13, <1>16, <1>17, <1>21, TableWhole, Zenon

\* release(&wait_lock) and return.
LEMMA WaitReturnKeeps ==
    ASSUME TableIInv, Awake, SchedTypeOK', NEW c \in CPU, NEW p \in Proc, kwait_return(c, p)
    PROVE  TableIInv'
<1>1. ProcTypeOK /\ LocalsOK
  BY TableParts, Zenon
<1>2. /\ Runs(c, p) /\ pc[p] = "waitdone" /\ pc' = [pc EXCEPT ![p] = "user"]
      /\ state' = state /\ chan' = chan
      /\ parent' = parent /\ i' = i /\ w' = w /\ np' = np /\ havekids' = havekids
  BY Zenon DEF kwait_return, Release, Goto, procvars
<1>3. pc'[p] = "user" /\ "user" \in PC /\ Calm
  BY <1>1, <1>2, ProcTypes, UnchangedIsCalm, Zenon DEF PC
<1>4. OwnStep(p)
  BY <1>2, <1>3, Zenon DEF OwnStep
<1>5. LocalsAt(p)'
  BY <1>1, <1>2, <1>3, Zenon DEF LocalsOK, LocalsAt, Exiting, initproc
<1>6. ScanAt(p)' /\ (\A q \in Proc : Behind(p, q)') /\ pc'[p] \notin Forking
  BY <1>3, PlainPoint, Zenon DEF Forking
<1> QED
  BY <1>2, <1>3, <1>4, <1>5, <1>6, CalmStep, Zenon

-----------------------------------------------------------------------------
(* Together. *)

\* Every step of a system call keeps the process table in order, whenever the
\* locks do what they are for.
LEMMA KernelKeeps ==
    ASSUME TableIInv, Discipline, SchedTypeOK', NEW c \in CPU, NEW p \in Proc,
           Call(c, p) \/ KernelStep(c, p)
    PROVE  TableIInv'
<1>1. Awake
  BY Zenon DEF Discipline
<1>2. CASE Call(c, p)
  BY <1>1, <1>2, CallKeeps, Zenon
<1>3. CASE allocproc(c, p) \/ kfork_parent(c, p) \/ kfork_start(c, p)
  BY <1>1, <1>3, AllocKeeps, ForkParentKeeps, ForkStartKeeps, Zenon
<1>4. CASE \/ kexit_lock(c, p) \/ reparent(c, p) \/ reparent_wakeup(c, p)
           \/ kexit_wakeup(c, p) \/ kexit_lockself(c, p) \/ kexit_sched(c, p)
  BY <1>1, <1>4, ExitLockKeeps, ReparentKeeps, ReparentWakeupKeeps, ExitWakeupKeeps,
     ExitLockselfKeeps, ExitSchedKeeps, Zenon
<1>5. CASE \/ kwait_lock(c, p) \/ kwait_next(c, p) \/ kwait_reap(c, p) \/ kwait_nokids(c, p)
           \/ kwait_block(c, p) \/ kwait_sleep(c, p) \/ kwait_return(c, p)
  BY <1>1, <1>5, WaitLockKeeps, WaitNextKeeps, WaitReapKeeps, WaitNoKidsKeeps, WaitBlockKeeps,
     WaitSleepKeeps, WaitReturnKeeps, Zenon
<1> QED
  BY <1>2, <1>3, <1>4, <1>5, Zenon DEF KernelStep

\* The table at boot.
LEMMA TableInitHolds == ASSUME ProcInit, SchedTypeOK PROVE TableIInv
<1>1. /\ state = [p \in Proc |-> IF p = initproc THEN "RUNNABLE" ELSE "UNUSED"]
      /\ parent = [p \in Proc |-> NoProc] /\ pc = [p \in Proc |-> "user"]
      /\ i = [p \in Proc |-> 0] /\ w = [p \in Proc |-> 0]
      /\ np = [p \in Proc |-> NoProc] /\ havekids = [p \in Proc |-> FALSE]
  BY Zenon DEF ProcInit
<1>2. \A p \in Proc : /\ parent[p] = NoProc /\ pc[p] = "user" /\ i[p] = 0 /\ w[p] = 0
                      /\ ~ havekids[p] /\ (p # initproc => state[p] = "UNUSED")
                      /\ state[p] \in {"RUNNABLE", "UNUSED"}
  BY <1>1, Zenon
<1>3. initproc \in Proc /\ initproc \in Alive
  BY <1>1, SlotIsNat, Zenon DEF Alive
<1>4. \A p \in Alive : p = initproc
  BY <1>2, Zenon DEF Alive
<1>5. ProcTypeOK
  BY <1>1, SchedAssumption DEF ProcTypeOK, PC
<1>6. DeadInUser /\ AsleepInWait
  BY <1>2, Zenon DEF DeadInUser, AsleepInWait
<1>7. LocalsOK
  BY <1>2, Zenon DEF LocalsOK, LocalsAt, Exiting
<1>8. ForkSlot /\ ForkOwn /\ FreeOrphan
  BY <1>2, Zenon DEF ForkSlot, ForkOwn, FreeOrphan, Forking
<1>9. InitRoot /\ ParentAlive /\ KidsBehind
  BY <1>2, <1>3, <1>4, SchedAssumption, Zenon DEF InitRoot, ParentAlive, KidsBehind
<1>10. ScanInv
  BY <1>2, Zenon DEF ScanInv, ScanAt, KidsCounted, NoZombieBehind, ParentAwake
<1>11. WakeInv
  BY <1>2, Zenon DEF WakeInv
<1> QED
  BY <1>5, <1>6, <1>7, <1>8, <1>9, <1>10, <1>11, Zenon DEF TableIInv

=============================================================================
