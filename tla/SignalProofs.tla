---------------------------- MODULE SignalProofs ----------------------------
(***************************************************************************)
(* Proofs about module Signal: for any number of processes, signals and    *)
(* pids, what is pending for a process is what was sent to it and not yet  *)
(* delivered unless two updates of pending_signals overlapped; handlers do *)
(* not nest; and a killed process makes no system call.                    *)
(***************************************************************************)
EXTENDS Signal, TLAPS

\* A kkill() between its load and its store holds the lock of its target,
\* which is not the parent, and has an exact copy of its pending signals
\* unless deliver_signals() has stored meanwhile.
KillInv ==
    \A s \in Slot :
        /\ pc[s] = "kstore" <=> kk[s].slot \in Slot
        /\ kk[s].slot # Root
        /\ \A t \in Slot : kk[s].slot \in Slot /\ kk[t].slot = kk[s].slot => s = t
        /\ kk[s].slot \in Slot /\ ~raced[kk[s].slot]
              => kk[s].old = pending_signals[kk[s].slot]

\* The parent is never signalled, killed or reaped.
RootInv ==
    /\ pid[Root] = 1
    /\ pending_signals[Root] = {}
    /\ ~killed[Root]
    /\ trapframe[Root].epc = "main"
    /\ pc[Root] \notin {"none", "zombie", "clear"}

\* Pids are handed out in order, so that no signal was sent to a later one.
PidInv ==
    \A s \in Slot :
        /\ pid[s] < nextpid
        /\ \A g \in Sig : aim[s][g] < nextpid

\* Every saved trapframe is one of the main program, also in a slot that is
\* not in use; deliver_signals() about to store is outside any handler, and
\* what it has loaded is exact unless a kkill() has stored meanwhile.
SavedInv ==
    \A s \in Slot :
        /\ signal_trapframe[s].epc = "main"
        /\ pc[s] = "clear" =>
              /\ ~in_signal_handler[s]
              /\ sig[s] \in Sig
              /\ ~raced[s] => loaded[s] = pending_signals[s]

SignalIInv == SignalInv /\ KillInv /\ RootInv /\ PidInv /\ SavedInv

-----------------------------------------------------------------------------
\* No kkill() in progress is told from one by its slot.
LEMMA SlotFacts ==
    /\ Root \in Slot /\ NoKill.slot \notin Slot
    /\ -1 \in Val /\ 0 \in Val /\ 1 \in Val /\ Sig \subseteq Val
    /\ 0 \in Pid /\ 1 \in Pid
BY SignalAssumption DEF Slot, Root, NoKill, Sig, Pid

\* Nobody has been signalled when the parent starts.
LEMMA InitInv == Init => SignalIInv
<1> SUFFICES ASSUME Init
             PROVE  SignalIInv
  BY Zenon
<1>1. /\ Root \in Slot /\ NoKill.slot \notin Slot /\ NoKill.slot # Root
      /\ 0 \in Val /\ 0 \in Pid /\ 1 \in Pid /\ nextpid = 2 /\ 2 \in 1 .. MaxPid + 1
      /\ 0 \in 0 .. NSIG
  BY SlotFacts, SignalAssumption DEF NoKill, Root, Init
<1>2. TypeOK
  <2>1. kk \in [Slot -> {NoKill} \cup [slot : Slot, sig : Sig, old : SUBSET Sig]]
    BY Zenon DEF Init
  <2>2. trapframe \in [Slot -> Trapframe] /\ signal_trapframe \in [Slot -> Trapframe]
    BY <1>1, Zenon DEF Init, Trapframe
  <2>3. killed \in [Slot -> BOOLEAN] /\ raced \in [Slot -> BOOLEAN]
        /\ in_signal_handler \in [Slot -> BOOLEAN]
    BY Zenon DEF Init
  <2>4. pc \in [Slot -> PC] /\ pid \in [Slot -> Pid]
    BY <1>1, Zenon DEF Init, PC
  <2> QED
    BY <1>1, <2>1, <2>2, <2>3, <2>4, Zenon DEF Init, TypeOK
<1>3. SignalInv
  BY <1>2, Zenon DEF Init, SignalInv, KilledNotInSyscall, NoNesting, ExactWithoutRace
<1>4. KillInv
  BY <1>1, Zenon DEF Init, KillInv
<1>5. RootInv
  BY <1>1, Zenon DEF Init, RootInv
<1>6. PidInv
  BY <1>1 DEF Init, PidInv
<1>7. SavedInv
  BY Zenon DEF Init, SavedInv
<1> QED
  BY <1>3, <1>4, <1>5, <1>6, <1>7, Zenon DEF SignalIInv

\* A step of the process in slot s that touches no pending signals: a trap,
\* a turn of deliver_signals(), a system call other than kill().
LEMMA LocalStep ==
    ASSUME SignalIInv, TypeOK', NEW s \in Slot, NEW to \in PC \ {"none", "kstore"},
           pc[s] \notin {"none", "zombie", "kstore"}, pc' = [pc EXCEPT ![s] = to],
           UNCHANGED <<pid, nextpid, pending_signals, signal_trapframe, kk, aim, raced>>,
           \A t \in Slot : t # s =>
              /\ owed'[t] = owed[t] /\ killed'[t] = killed[t] /\ trapframe'[t] = trapframe[t]
              /\ in_signal_handler'[t] = in_signal_handler[t]
              /\ sig'[t] = sig[t] /\ loaded'[t] = loaded[t],
           to = "zombie" \/ owed'[s] = owed[s],
           killed'[s] => to # "syscall",
           trapframe'[s].epc = "handler" => in_signal_handler'[s],
           to = "clear" => /\ ~in_signal_handler'[s] /\ sig'[s] \in Sig
                           /\ loaded'[s] = pending_signals[s],
           s = Root => /\ ~killed'[s] /\ trapframe'[s].epc = "main"
                       /\ to \notin {"zombie", "clear"}
    PROVE  SignalIInv'
<1>1. /\ pc \in [Slot -> PC] /\ pc'[s] = to
      /\ \A t \in Slot : t # s => pc'[t] = pc[t]
  BY Zenon DEF SignalIInv, SignalInv, TypeOK
<1>2. KilledNotInSyscall'
  BY <1>1, Zenon DEF SignalIInv, SignalInv, KilledNotInSyscall
<1>3. NoNesting'
  BY <1>1, Zenon DEF SignalIInv, SignalInv, NoNesting, Live, SavedInv
<1>4. ExactWithoutRace'
  BY <1>1 DEF SignalIInv, SignalInv, ExactWithoutRace, Live
<1>5. KillInv'
  BY <1>1 DEF SignalIInv, KillInv
<1>6. RootInv'
  BY <1>1, SlotFacts, Zenon DEF SignalIInv, RootInv
<1>7. PidInv'
  BY Zenon DEF SignalIInv, PidInv
<1>8. SavedInv'
  BY <1>1 DEF SignalIInv, SavedInv
<1> QED
  BY <1>2, <1>3, <1>4, <1>5, <1>6, <1>7, <1>8, Zenon DEF SignalIInv, SignalInv

\* usertrap() on a system call: a killed process exits instead.
LEMMA TrapSyscallInv ==
    ASSUME SignalIInv, NEW s \in Slot, usertrap_syscall(s)
    PROVE  SignalIInv'
<1>1. /\ pc[s] = "user"
      /\ UNCHANGED <<pid, nextpid, sigvars, killed, trapframe, sig, loaded, kk, aim, raced>>
  BY Zenon DEF usertrap_syscall
<1>2. trapframe'[s].epc = "handler" => in_signal_handler'[s]
  BY <1>1, Zenon DEF NoNesting, Live, sigvars, SignalIInv, SignalInv
<1>3. CASE killed[s]
  <2>1. pc' = [pc EXCEPT ![s] = "zombie"] /\ owed' = [owed EXCEPT ![s] = {}] /\ s # Root
    BY <1>3, Zenon DEF usertrap_syscall, kexit, RootInv, SignalIInv
  <2>2. TypeOK'
    BY <1>1, <2>1, Zenon DEF TypeOK, PC, sigvars, SignalIInv, SignalInv
  <2> HIDE DEF SignalIInv, SignalInv
  <2>3. owed \in [Slot -> SUBSET Sig]
    BY Zenon DEF SignalIInv, SignalInv, TypeOK
  <2> QED
    BY <1>1, <1>2, <2>1, <2>2, <2>3, LocalStep, Zenon DEF PC, sigvars
<1>4. CASE ~killed[s]
  <2>1. pc' = [pc EXCEPT ![s] = "syscall"] /\ owed' = owed
    BY <1>4, Zenon DEF usertrap_syscall, Goto
  <2>2. TypeOK'
    BY <1>1, <2>1, Zenon DEF TypeOK, PC, sigvars, SignalIInv, SignalInv
  <2>3. s = Root => ~killed'[s] /\ trapframe'[s].epc = "main"
    BY <1>1, Zenon DEF RootInv, SignalIInv
  <2> HIDE DEF SignalIInv, SignalInv
  <2> QED
    BY <1>1, <1>2, <1>4, <2>1, <2>2, <2>3, LocalStep, Zenon DEF PC, sigvars
<1> QED
  BY <1>3, <1>4, Zenon

\* usertrap() on an interrupt, or on a fault, which kills the process.
LEMMA TrapOtherInv ==
    ASSUME SignalIInv, NEW s \in Slot, usertrap_other(s)
    PROVE  SignalIInv'
<1>1. /\ pc[s] = "user" /\ pc' = [pc EXCEPT ![s] = "check"]
      /\ killed' = killed \/ (s # Root /\ killed' = [killed EXCEPT ![s] = TRUE])
      /\ UNCHANGED <<pid, nextpid, sigvars, trapframe, sig, loaded, kk, history>>
  BY Zenon DEF usertrap_other, Goto
<1>2. trapframe'[s].epc = "handler" => in_signal_handler'[s]
  BY <1>1, Zenon DEF NoNesting, Live, sigvars, SignalIInv, SignalInv
<1>3. /\ killed \in [Slot -> BOOLEAN] /\ killed' \in [Slot -> BOOLEAN]
      /\ \A t \in Slot : t # s => killed'[t] = killed[t]
      /\ s = Root => killed' = killed
  BY <1>1, Zenon DEF TypeOK, SignalIInv, SignalInv
<1>4. TypeOK'
  BY <1>1, <1>3, Zenon DEF TypeOK, PC, sigvars, history, SignalIInv, SignalInv
<1>5. s = Root => ~killed'[s] /\ trapframe'[s].epc = "main"
  BY <1>1, <1>3, Zenon DEF RootInv, SignalIInv
<1> HIDE DEF SignalIInv, SignalInv
<1> QED
  BY <1>1, <1>2, <1>3, <1>4, <1>5, LocalStep, Zenon DEF PC, sigvars, history

\* The second test of killed() in usertrap().
LEMMA TrapCheckInv ==
    ASSUME SignalIInv, NEW s \in Slot, usertrap_check(s)
    PROVE  SignalIInv'
<1>1. /\ pc[s] = "check" /\ sig' = [sig EXCEPT ![s] = 0]
      /\ UNCHANGED <<pid, nextpid, sigvars, killed, trapframe, loaded, kk, aim, raced>>
  BY Zenon DEF usertrap_check
<1>2. trapframe'[s].epc = "handler" => in_signal_handler'[s]
  BY <1>1, Zenon DEF NoNesting, Live, sigvars, SignalIInv, SignalInv
<1>3. sig' \in [Slot -> 0 .. NSIG] /\ \A t \in Slot : t # s => sig'[t] = sig[t]
  BY <1>1, SignalAssumption DEF TypeOK, SignalIInv, SignalInv
<1>4. CASE killed[s]
  <2>1. pc' = [pc EXCEPT ![s] = "zombie"] /\ owed' = [owed EXCEPT ![s] = {}] /\ s # Root
    BY <1>4, Zenon DEF usertrap_check, kexit, RootInv, SignalIInv
  <2>2. TypeOK'
    BY <1>1, <1>3, <2>1, Zenon DEF TypeOK, PC, sigvars, SignalIInv, SignalInv
  <2>3. owed \in [Slot -> SUBSET Sig]
    BY Zenon DEF TypeOK, SignalIInv, SignalInv
  <2> HIDE DEF SignalIInv, SignalInv
  <2> QED
    BY <1>1, <1>2, <1>3, <2>1, <2>2, <2>3, LocalStep, Zenon DEF PC, sigvars
<1>5. CASE ~killed[s]
  <2>1. pc' = [pc EXCEPT ![s] = "deliver"] /\ owed' = owed
    BY <1>5, Zenon DEF usertrap_check, Goto
  <2>2. TypeOK'
    BY <1>1, <1>3, <2>1, Zenon DEF TypeOK, PC, sigvars, SignalIInv, SignalInv
  <2>3. s = Root => ~killed'[s] /\ trapframe'[s].epc = "main"
    BY <1>1, Zenon DEF RootInv, SignalIInv
  <2> HIDE DEF SignalIInv, SignalInv
  <2> QED
    BY <1>1, <1>2, <1>3, <2>1, <2>2, <2>3, LocalStep, Zenon DEF PC, sigvars
<1> QED
  BY <1>4, <1>5, Zenon

\* A turn of the loop in deliver_signals(): it returns, looks at the next
\* signal, or loads the pending signals because this one is among them.
LEMMA DeliverInv ==
    ASSUME SignalIInv, NEW s \in Slot, deliver_signals(s)
    PROVE  SignalIInv'
<1>1. /\ pc[s] = "deliver"
      /\ UNCHANGED <<pid, nextpid, sigvars, killed, trapframe, kk, history>>
  BY Zenon DEF deliver_signals
<1>2. trapframe'[s].epc = "handler" => in_signal_handler'[s]
  BY <1>1, Zenon DEF NoNesting, Live, sigvars, SignalIInv, SignalInv
<1>3. s = Root => ~killed'[s] /\ trapframe'[s].epc = "main"
  BY <1>1, Zenon DEF RootInv, SignalIInv
<1>4. CASE pc' = [pc EXCEPT ![s] = "user"] /\ UNCHANGED <<sig, loaded>>
  <2>1. TypeOK'
    BY <1>1, <1>4, Zenon DEF TypeOK, PC, sigvars, history, SignalIInv, SignalInv
  <2> HIDE DEF SignalIInv, SignalInv
  <2> QED
    BY <1>1, <1>2, <1>3, <1>4, <2>1, LocalStep, Zenon DEF PC, sigvars, history
<1>5. CASE sig[s] \in Sig /\ sig' = [sig EXCEPT ![s] = @ + 1] /\ UNCHANGED <<pc, loaded>>
  <2>1. sig' \in [Slot -> 0 .. NSIG] /\ \A t \in Slot : t # s => sig'[t] = sig[t]
    BY <1>5, SignalAssumption DEF TypeOK, Sig, SignalIInv, SignalInv
  <2>2. TypeOK'
    BY <1>1, <1>5, <2>1, Zenon DEF TypeOK, sigvars, history, SignalIInv, SignalInv
  <2>3. pc' = [pc EXCEPT ![s] = "deliver"]
    BY <1>1, <1>5, Zenon DEF TypeOK, SignalIInv, SignalInv
  <2> HIDE DEF SignalIInv, SignalInv
  <2> QED
    BY <1>1, <1>2, <1>3, <1>5, <2>1, <2>2, <2>3, LocalStep, Zenon DEF PC, sigvars, history
<1>6. CASE /\ ~in_signal_handler[s] /\ sig[s] \in pending_signals[s]
           /\ loaded' = [loaded EXCEPT ![s] = pending_signals[s]]
           /\ pc' = [pc EXCEPT ![s] = "clear"] /\ UNCHANGED sig
  <2>1. /\ loaded' \in [Slot -> SUBSET Sig] /\ loaded'[s] = pending_signals[s]
        /\ \A t \in Slot : t # s => loaded'[t] = loaded[t]
    BY <1>6, Zenon DEF TypeOK, SignalIInv, SignalInv
  <2>2. TypeOK'
    BY <1>1, <1>6, <2>1, Zenon DEF TypeOK, PC, sigvars, history, SignalIInv, SignalInv
  <2>3. s # Root /\ sig'[s] \in Sig /\ ~in_signal_handler'[s]
    BY <1>1, <1>6, Zenon DEF RootInv, TypeOK, sigvars, SignalIInv, SignalInv
  <2> HIDE DEF SignalIInv, SignalInv
  <2> QED
    BY <1>1, <1>2, <1>6, <2>1, <2>2, <2>3, LocalStep, Zenon DEF PC, sigvars, history
<1> QED
  BY <1>4, <1>5, <1>6, Zenon DEF deliver_signals, Goto

\* The result of a system call leaves the program counter of its frame alone.
LEMMA ReturnFacts ==
    ASSUME trapframe \in [Slot -> Trapframe], NEW s \in Slot, NEW tf \in Trapframe,
           NEW v \in Val, Return(s, tf, v)
    PROVE  /\ trapframe' \in [Slot -> Trapframe] /\ trapframe'[s].epc = tf.epc
           /\ \A t \in Slot : t # s => trapframe'[t] = trapframe[t]
BY Zenon DEF Return, Trapframe

\* A system call that only sets the caller's registers and handlers, and
\* whose registers come from the process itself or from its saved frame.
LEMMA ReturnStep ==
    ASSUME SignalIInv, NEW s \in Slot, NEW tf \in Trapframe, NEW v \in Val,
           pc[s] = "syscall", pc' = [pc EXCEPT ![s] = "check"], Return(s, tf, v),
           signal_handlers' \in [Slot -> SUBSET Sig],
           in_signal_handler' \in [Slot -> BOOLEAN],
           \A t \in Slot : t # s => in_signal_handler'[t] = in_signal_handler[t],
           tf.epc = "handler" => in_signal_handler'[s],
           s = Root => tf.epc = "main",
           UNCHANGED <<pid, nextpid, pending_signals, signal_trapframe, killed, sig, loaded,
                       kk, history>>
    PROVE  SignalIInv'
<1>1. /\ trapframe' \in [Slot -> Trapframe] /\ trapframe'[s].epc = tf.epc
      /\ \A t \in Slot : t # s => trapframe'[t] = trapframe[t]
  BY ReturnFacts, Zenon DEF TypeOK, SignalIInv, SignalInv
<1>2. TypeOK'
  BY <1>1, Zenon DEF TypeOK, PC, history, SignalIInv, SignalInv
<1>3. trapframe'[s].epc = "handler" => in_signal_handler'[s]
  BY <1>1, Zenon
<1>4. s = Root => ~killed'[s] /\ trapframe'[s].epc = "main"
  BY <1>1, Zenon DEF RootInv, SignalIInv
<1> HIDE DEF SignalIInv, SignalInv
<1> QED
  BY <1>1, <1>2, <1>3, <1>4, LocalStep, Zenon DEF PC, history

\* signal().
LEMMA SysSignalInv ==
    ASSUME SignalIInv, NEW s \in Slot, NEW g \in Sig, NEW null \in BOOLEAN,
           sys_signal(s, g, null)
    PROVE  SignalIInv'
<1>1. /\ s # Root /\ pc[s] = "syscall" /\ pc' = [pc EXCEPT ![s] = "check"]
      /\ signal_handlers' =
           [signal_handlers EXCEPT ![s] = IF null THEN @ \ {g} ELSE @ \cup {g}]
      /\ Return(s, trapframe[s], 0)
      /\ UNCHANGED <<pid, nextpid, pending_signals, in_signal_handler, signal_trapframe,
                     killed, sig, loaded, kk, history>>
  BY Zenon DEF sys_signal, Goto
<1>2. signal_handlers' \in [Slot -> SUBSET Sig] /\ in_signal_handler' \in [Slot -> BOOLEAN]
  BY <1>1, Zenon DEF SignalIInv, SignalInv, TypeOK
<1>3. /\ trapframe[s] \in Trapframe /\ 0 \in Val
      /\ trapframe[s].epc = "handler" => in_signal_handler[s]
  BY <1>1, SlotFacts, Zenon DEF SignalIInv, SignalInv, TypeOK, NoNesting, Live
<1> QED
  BY <1>1, <1>2, <1>3, ReturnStep, Zenon

\* sigreturn(): the saved frame belongs to the main program.
LEMMA SigreturnInv ==
    ASSUME SignalIInv, NEW s \in Slot, sys_sigreturn(s)
    PROVE  SignalIInv'
<1>1. /\ pc[s] = "syscall" /\ pc' = [pc EXCEPT ![s] = "check"]
      /\ in_signal_handler' = [in_signal_handler EXCEPT ![s] = FALSE]
      /\ Return(s, signal_trapframe[s], 0)
      /\ UNCHANGED <<pid, nextpid, pending_signals, signal_handlers, signal_trapframe,
                     killed, sig, loaded, kk, history>>
  BY Zenon DEF sys_sigreturn, Goto
<1>2. /\ signal_handlers' \in [Slot -> SUBSET Sig] /\ in_signal_handler' \in [Slot -> BOOLEAN]
      /\ \A t \in Slot : t # s => in_signal_handler'[t] = in_signal_handler[t]
  BY <1>1, Zenon DEF SignalIInv, SignalInv, TypeOK
<1>3. /\ signal_trapframe[s] \in Trapframe /\ 0 \in Val
      /\ signal_trapframe[s].epc = "main"
  BY SlotFacts, Zenon DEF SignalIInv, SignalInv, TypeOK, SavedInv
<1> QED
  BY <1>1, <1>2, <1>3, ReturnStep, Zenon

\* A kill() of a pid that nobody has, or any other system call.
LEMMA SysOtherInv ==
    ASSUME SignalIInv, NEW s \in Slot, NEW v \in Val,
           pc[s] = "syscall", pc' = [pc EXCEPT ![s] = "check"],
           Return(s, trapframe[s], v),
           UNCHANGED <<pid, nextpid, sigvars, killed, sig, loaded, kk, history>>
    PROVE  SignalIInv'
<1>1. signal_handlers' \in [Slot -> SUBSET Sig] /\ in_signal_handler' \in [Slot -> BOOLEAN]
  BY Zenon DEF SignalIInv, SignalInv, TypeOK, sigvars
<1>2. /\ trapframe[s] \in Trapframe
      /\ trapframe[s].epc = "handler" => in_signal_handler[s]
      /\ s = Root => trapframe[s].epc = "main"
  BY Zenon DEF SignalIInv, SignalInv, TypeOK, NoNesting, Live, RootInv
<1> QED
  BY <1>1, <1>2, ReturnStep, Zenon DEF sigvars

\* exit().
LEMMA SysExitInv ==
    ASSUME SignalIInv, NEW s \in Slot, sys_exit(s)
    PROVE  SignalIInv'
<1>1. /\ s # Root /\ pc[s] = "syscall"
      /\ pc' = [pc EXCEPT ![s] = "zombie"] /\ owed' = [owed EXCEPT ![s] = {}]
      /\ UNCHANGED <<pid, nextpid, sigvars, killed, trapframe, sig, loaded, kk, aim, raced>>
  BY Zenon DEF sys_exit, kexit
<1>2. trapframe'[s].epc = "handler" => in_signal_handler'[s]
  BY <1>1, Zenon DEF NoNesting, Live, sigvars, SignalIInv, SignalInv
<1>3. TypeOK'
  BY <1>1, Zenon DEF TypeOK, PC, sigvars, SignalIInv, SignalInv
<1>4. owed \in [Slot -> SUBSET Sig]
  BY Zenon DEF TypeOK, SignalIInv, SignalInv
<1> HIDE DEF SignalIInv, SignalInv
<1> QED
  BY <1>1, <1>2, <1>3, <1>4, LocalStep, Zenon DEF PC, sigvars

\* The load of kkill(), under the lock of its target.
LEMMA KillLoadInv ==
    ASSUME SignalIInv, NEW s \in Slot, NEW q \in Slot, NEW g \in Sig,
           pid[q] # 1, ~Locked(q), pc[s] = "syscall", pc' = [pc EXCEPT ![s] = "kstore"],
           kk' = [kk EXCEPT ![s] = [slot |-> q, sig |-> g, old |-> pending_signals[q]]],
           UNCHANGED <<pid, nextpid, sigvars, killed, trapframe, sig, loaded, history>>
    PROVE  SignalIInv'
<1>1. /\ pc'[s] = "kstore" /\ \A t \in Slot : t # s => pc'[t] = pc[t]
      /\ kk'[s] = [slot |-> q, sig |-> g, old |-> pending_signals[q]]
      /\ \A t \in Slot : t # s => kk'[t] = kk[t]
  BY Zenon DEF TypeOK, SignalIInv, SignalInv
<1>2. q # Root /\ kk[s].slot \notin Slot
  BY Zenon DEF RootInv, KillInv, SignalIInv
<1>3. TypeOK'
  BY Zenon DEF TypeOK, PC, sigvars, history, SignalIInv, SignalInv
<1>4. KilledNotInSyscall'
  BY <1>1, Zenon DEF KilledNotInSyscall, SignalIInv, SignalInv
<1>5. NoNesting'
  BY <1>1, Zenon DEF NoNesting, Live, sigvars, SignalIInv, SignalInv
<1>6. ExactWithoutRace'
  BY <1>1, Zenon DEF ExactWithoutRace, Live, sigvars, history, SignalIInv, SignalInv
<1>7. KillInv'
  BY <1>1, <1>2 DEF KillInv, Locked, sigvars, history, SignalIInv
<1>8. RootInv' /\ PidInv'
  BY <1>1, SlotFacts, Zenon DEF RootInv, PidInv, sigvars, history, SignalIInv
<1>9. SavedInv'
  BY <1>1 DEF SavedInv, sigvars, history, SignalIInv
<1> QED
  BY <1>3, <1>4, <1>5, <1>6, <1>7, <1>8, <1>9, Zenon DEF SignalIInv, SignalInv

\* The store of kkill().  Unless deliver_signals() is between its own load
\* and store, or has stored since the load, exactly the one signal is added.
LEMMA KillStoreInv ==
    ASSUME SignalIInv, NEW s \in Slot, kkill_store(s)
    PROVE  SignalIInv'
<1> DEFINE q == kk[s].slot
           g == kk[s].sig
<1>1. /\ pc[s] = "kstore" /\ pc' = [pc EXCEPT ![s] = "check"]
      /\ pending_signals' = [pending_signals EXCEPT ![q] = kk[s].old \cup {g}]
      /\ kk' = [kk EXCEPT ![s] = NoKill]
      /\ Return(s, trapframe[s], 0)
      /\ owed' = [owed EXCEPT ![q] = IF pc[q] = "zombie" THEN @ ELSE @ \cup {g}]
      /\ aim' = [aim EXCEPT ![q][g] = pid[q]]
      /\ raced' = [raced EXCEPT ![q] = @ \/ pc[q] = "clear"]
      /\ UNCHANGED <<pid, nextpid, signal_handlers, in_signal_handler, signal_trapframe,
                     killed, sig, loaded>>
  BY Zenon DEF kkill_store, Goto
<1>2. /\ q \in Slot /\ q # Root /\ g \in Sig /\ kk[s].old \in SUBSET Sig
      /\ \A t \in Slot : t # s => kk[t].slot # q
      /\ ~raced[q] => kk[s].old = pending_signals[q]
  <2>1. q \in Slot /\ q # Root /\ (~raced[q] => kk[s].old = pending_signals[q])
    BY <1>1, Zenon DEF KillInv, SignalIInv
  <2>2. \A t \in Slot : t # s => kk[t].slot # q
    BY <2>1, Zenon DEF KillInv, SignalIInv
  <2>3. kk[s] # NoKill
    BY <2>1, SlotFacts, Zenon
  <2>4. kk[s] \in [slot : Slot, sig : Sig, old : SUBSET Sig]
    BY <2>3, Zenon DEF TypeOK, SignalIInv, SignalInv
  <2> QED
    BY <2>1, <2>2, <2>4, Zenon
<1> HIDE DEF q, g
<1>3. /\ pc'[s] = "check" /\ \A t \in Slot : t # s => pc'[t] = pc[t]
      /\ kk'[s] = NoKill /\ \A t \in Slot : t # s => kk'[t] = kk[t]
      /\ pending_signals'[q] = kk[s].old \cup {g}
      /\ \A t \in Slot : t # q => pending_signals'[t] = pending_signals[t]
  BY <1>1, <1>2, Zenon DEF TypeOK, SignalIInv, SignalInv
<1>4. /\ owed'[q] = (IF pc[q] = "zombie" THEN owed[q] ELSE owed[q] \cup {g})
      /\ \A t \in Slot : t # q => owed'[t] = owed[t]
      /\ aim'[q][g] = pid[q]
      /\ \A x \in Sig : x # g => aim'[q][x] = aim[q][x]
      /\ \A t \in Slot : t # q => aim'[t] = aim[t]
  BY <1>1, <1>2, Zenon DEF TypeOK, SignalIInv, SignalInv
<1>5. /\ raced'[q] = (raced[q] \/ pc[q] = "clear")
      /\ \A t \in Slot : t # q => raced'[t] = raced[t]
      /\ raced' \in [Slot -> BOOLEAN]
  BY <1>1, <1>2, Zenon DEF TypeOK, SignalIInv, SignalInv
<1>6. /\ trapframe' \in [Slot -> Trapframe] /\ trapframe'[s].epc = trapframe[s].epc
      /\ \A t \in Slot : t # s => trapframe'[t] = trapframe[t]
  <2>1. trapframe \in [Slot -> Trapframe] /\ trapframe[s] \in Trapframe /\ 0 \in Val
    BY SlotFacts, Zenon DEF TypeOK, SignalIInv, SignalInv
  <2> QED
    BY <1>1, <2>1, ReturnFacts, Zenon
<1>7. TypeOK'
  <2>1. /\ pending_signals' \in [Slot -> SUBSET Sig] /\ owed' \in [Slot -> SUBSET Sig]
        /\ pc' \in [Slot -> PC]
        /\ kk' \in [Slot -> {NoKill} \cup [slot : Slot, sig : Sig, old : SUBSET Sig]]
    BY <1>1, <1>2, Zenon DEF TypeOK, PC, SignalIInv, SignalInv
  <2>2. aim' \in [Slot -> [Sig -> Pid]]
    BY <1>1, <1>2, Zenon DEF TypeOK, SignalIInv, SignalInv
  <2> QED
    BY <1>1, <1>5, <1>6, <2>1, <2>2, Zenon DEF TypeOK, SignalIInv, SignalInv
<1>8. KilledNotInSyscall'
  BY <1>1, <1>3, Zenon DEF KilledNotInSyscall, SignalIInv, SignalInv
<1>9. NoNesting'
  BY <1>1, <1>3, <1>6, Zenon DEF NoNesting, Live, SignalIInv, SignalInv
<1>10. ExactWithoutRace'
  <2> SUFFICES ASSUME NEW t \in Slot, Live(t)', ~raced'[t]
               PROVE  owed'[t] = {x \in pending_signals'[t] : aim'[t][x] = pid'[t]}
    BY Zenon DEF ExactWithoutRace
  <2>1. Live(t)
    BY <1>1, <1>3, Zenon DEF Live
  <2>2. CASE t # q
    BY <1>1, <1>3, <1>4, <1>5, <2>1, <2>2 DEF ExactWithoutRace, SignalIInv, SignalInv
  <2>3. CASE t = q
    <3>1. ~raced[q] /\ pc[q] # "zombie"
      BY <1>5, <2>1, <2>3, Zenon DEF Live
    <3>2. /\ owed[q] = {x \in pending_signals[q] : aim[q][x] = pid[q]}
          /\ kk[s].old = pending_signals[q] /\ pending_signals[q] \subseteq Sig
      BY <1>2, <2>1, <2>3, <3>1, Zenon DEF ExactWithoutRace, TypeOK, SignalIInv, SignalInv
    <3>3. owed'[q] = owed[q] \cup {g} /\ pending_signals'[q] = pending_signals[q] \cup {g}
      BY <1>3, <1>4, <3>1, <3>2, Zenon
    <3> QED
      BY <1>1, <1>4, <2>3, <3>2, <3>3
  <2> QED
    BY <2>2, <2>3, Zenon
<1>11. KillInv'
  BY <1>2, <1>3, <1>5, SlotFacts DEF KillInv, SignalIInv
<1>12. RootInv'
  BY <1>1, <1>2, <1>3, <1>6, SlotFacts, Zenon DEF RootInv, SignalIInv
<1>13. PidInv'
  BY <1>1, <1>2, <1>4 DEF PidInv, SignalIInv
<1>14. SavedInv'
  <2> SUFFICES ASSUME NEW t \in Slot, pc'[t] = "clear"
               PROVE  /\ ~in_signal_handler[t] /\ sig[t] \in Sig
                      /\ ~raced'[t] => loaded[t] = pending_signals'[t]
    BY <1>1, Zenon DEF SavedInv, SignalIInv
  <2>1. pc[t] = "clear"
    BY <1>3, Zenon
  <2>2. t # q => pending_signals'[t] = pending_signals[t] /\ raced'[t] = raced[t]
    BY <1>3, <1>5, Zenon
  <2>3. t = q => raced'[t]
    BY <1>5, <2>1, Zenon
  <2> QED
    BY <2>1, <2>2, <2>3, Zenon DEF SavedInv, SignalIInv
<1> QED
  BY <1>7, <1>8, <1>9, <1>10, <1>11, <1>12, <1>13, <1>14, Zenon DEF SignalIInv, SignalInv

\* The store of deliver_signals() with what follows it: the signal is
\* consumed, by the handler or by killing the process.
LEMMA DeliverStoreInv ==
    ASSUME SignalIInv, NEW s \in Slot, deliver_signals_store(s)
    PROVE  SignalIInv'
<1>1. /\ pc[s] = "clear"
      /\ pending_signals' = [pending_signals EXCEPT ![s] = loaded[s] \ {sig[s]}]
      /\ loaded' = [loaded EXCEPT ![s] = {}]
      /\ owed' = [owed EXCEPT ![s] = @ \ {sig[s]}]
      /\ raced' = [raced EXCEPT ![s] = @ \/ Locked(s)]
      /\ UNCHANGED <<pid, nextpid, signal_handlers, kk, aim>>
  BY Zenon DEF deliver_signals_store
<1>2. /\ s # Root /\ sig[s] \in Sig /\ ~in_signal_handler[s]
      /\ ~raced[s] => loaded[s] = pending_signals[s]
      /\ trapframe[s] \in Trapframe /\ trapframe[s].epc = "main"
  <2>1. /\ s # Root /\ sig[s] \in Sig /\ ~in_signal_handler[s]
        /\ ~raced[s] => loaded[s] = pending_signals[s]
    BY <1>1, Zenon DEF RootInv, SavedInv, SignalIInv
  <2>2. trapframe[s] \in Trapframe /\ trapframe[s].epc # "handler"
    BY <1>1, <2>1, Zenon DEF NoNesting, Live, TypeOK, SignalIInv, SignalInv
  <2> QED
    BY <2>1, <2>2, Zenon DEF Trapframe
<1>3. /\ pending_signals'[s] = loaded[s] \ {sig[s]}
      /\ \A t \in Slot : t # s => pending_signals'[t] = pending_signals[t]
      /\ owed'[s] = owed[s] \ {sig[s]}
      /\ \A t \in Slot : t # s => owed'[t] = owed[t] /\ loaded'[t] = loaded[t]
      /\ pending_signals' \in [Slot -> SUBSET Sig] /\ loaded' \in [Slot -> SUBSET Sig]
      /\ owed' \in [Slot -> SUBSET Sig]
  BY <1>1, Zenon DEF TypeOK, SignalIInv, SignalInv
<1>4. /\ raced'[s] = (raced[s] \/ Locked(s))
      /\ \A t \in Slot : t # s => raced'[t] = raced[t]
      /\ raced' \in [Slot -> BOOLEAN]
  BY <1>1, Zenon DEF TypeOK, Locked, SignalIInv, SignalInv
<1>5. /\ pc'[s] \in {"user", "deliver"} /\ \A t \in Slot : t # s => pc'[t] = pc[t]
      /\ pc' \in [Slot -> PC]
      /\ sig' \in [Slot -> 0 .. NSIG] /\ \A t \in Slot : t # s => sig'[t] = sig[t]
  <2>1. CASE sig[s] \in signal_handlers[s]
    <3>1. pc' = [pc EXCEPT ![s] = "user"] /\ sig' = sig
      BY <2>1, Zenon DEF deliver_signals_store, Goto
    <3> QED
      BY <3>1, Zenon DEF TypeOK, PC, SignalIInv, SignalInv
  <2>2. CASE sig[s] \notin signal_handlers[s]
    <3>1. pc' = [pc EXCEPT ![s] = "deliver"] /\ sig' = [sig EXCEPT ![s] = @ + 1]
      BY <2>2, Zenon DEF deliver_signals_store, Goto
    <3>2. sig' \in [Slot -> 0 .. NSIG] /\ \A t \in Slot : t # s => sig'[t] = sig[t]
      BY <1>2, <3>1, SignalAssumption DEF TypeOK, Sig, SignalIInv, SignalInv
    <3> QED
      BY <3>1, <3>2, Zenon DEF TypeOK, PC, SignalIInv, SignalInv
  <2> QED
    BY <2>1, <2>2, Zenon
<1>6. /\ killed' \in [Slot -> BOOLEAN] /\ in_signal_handler' \in [Slot -> BOOLEAN]
      /\ \A t \in Slot : t # s => /\ killed'[t] = killed[t]
                                  /\ in_signal_handler'[t] = in_signal_handler[t]
  BY Zenon DEF deliver_signals_store, TypeOK, SignalIInv, SignalInv
<1>7. /\ trapframe' \in [Slot -> Trapframe] /\ signal_trapframe' \in [Slot -> Trapframe]
      /\ signal_trapframe'[s].epc = "main"
      /\ trapframe'[s].epc = "handler" => in_signal_handler'[s]
      /\ \A t \in Slot : t # s => /\ trapframe'[t] = trapframe[t]
                                  /\ signal_trapframe'[t] = signal_trapframe[t]
  <2>1. /\ trapframe \in [Slot -> Trapframe] /\ signal_trapframe \in [Slot -> Trapframe]
        /\ in_signal_handler \in [Slot -> BOOLEAN] /\ signal_trapframe[s].epc = "main"
    BY Zenon DEF TypeOK, SavedInv, SignalIInv, SignalInv
  <2>2. CASE sig[s] \in signal_handlers[s]
    <3>1. /\ signal_trapframe' = [signal_trapframe EXCEPT ![s] = trapframe[s]]
          /\ in_signal_handler' = [in_signal_handler EXCEPT ![s] = TRUE]
          /\ trapframe' = [trapframe EXCEPT ![s] = [epc |-> "handler", a0 |-> sig[s]]]
      BY <2>2, Zenon DEF deliver_signals_store
    <3>2. [epc |-> "handler", a0 |-> sig[s]] \in Trapframe
      BY <1>2, SlotFacts, Zenon DEF Trapframe
    <3> QED
      BY <1>2, <2>1, <3>1, <3>2, Zenon
  <2>3. CASE sig[s] \notin signal_handlers[s]
    <3>1. UNCHANGED <<signal_trapframe, in_signal_handler, trapframe>>
      BY <2>3, Zenon DEF deliver_signals_store
    <3> QED
      BY <1>2, <2>1, <3>1, Zenon
  <2> QED
    BY <2>2, <2>3, Zenon
<1>8. TypeOK'
  BY <1>1, <1>3, <1>4, <1>5, <1>6, <1>7, Zenon DEF TypeOK, SignalIInv, SignalInv
<1>9. KilledNotInSyscall'
  BY <1>5, <1>6, Zenon DEF KilledNotInSyscall, SignalIInv, SignalInv
<1>10. NoNesting'
  BY <1>5, <1>6, <1>7 DEF NoNesting, Live, SignalIInv, SignalInv
<1>11. ExactWithoutRace'
  <2> SUFFICES ASSUME NEW t \in Slot, Live(t)', ~raced'[t]
               PROVE  owed'[t] = {x \in pending_signals'[t] : aim'[t][x] = pid'[t]}
    BY Zenon DEF ExactWithoutRace
  <2>1. CASE t # s
    BY <1>1, <1>3, <1>4, <1>5, <2>1 DEF ExactWithoutRace, Live, SignalIInv, SignalInv
  <2>2. CASE t = s
    <3>1. /\ loaded[s] = pending_signals[s]
          /\ owed[s] = {x \in pending_signals[s] : aim[s][x] = pid[s]}
      BY <1>1, <1>2, <1>4, <2>2, Zenon DEF ExactWithoutRace, Live, SignalIInv, SignalInv
    <3> QED
      BY <1>1, <1>3, <2>2, <3>1, Zenon
  <2> QED
    BY <2>1, <2>2, Zenon
<1>12. KillInv'
  <2> SUFFICES ASSUME NEW t \in Slot
               PROVE  /\ pc'[t] = "kstore" <=> kk[t].slot \in Slot
                      /\ kk[t].slot \in Slot /\ ~raced'[kk[t].slot]
                            => kk[t].old = pending_signals'[kk[t].slot]
    BY <1>1, Zenon DEF KillInv, SignalIInv
  <2>1. pc'[t] = "kstore" <=> pc[t] = "kstore"
    BY <1>1, <1>5, Zenon
  <2>2. kk[t].slot = s => raced'[s]
    BY <1>4, Zenon DEF Locked
  <2>3. kk[t].slot \in Slot /\ kk[t].slot # s =>
           /\ raced'[kk[t].slot] = raced[kk[t].slot]
           /\ pending_signals'[kk[t].slot] = pending_signals[kk[t].slot]
    BY <1>3, <1>4, Zenon
  <2> QED
    BY <2>1, <2>2, <2>3, Zenon DEF KillInv, SignalIInv
<1>13. RootInv'
  BY <1>1, <1>2, <1>3, <1>5, <1>6, <1>7, SlotFacts, Zenon DEF RootInv, SignalIInv
<1>14. PidInv'
  BY <1>1, Zenon DEF PidInv, SignalIInv
<1>15. SavedInv'
  BY <1>3, <1>4, <1>5, <1>6, <1>7 DEF SavedInv, SignalIInv
<1> QED
  BY <1>8, <1>9, <1>10, <1>11, <1>12, <1>13, <1>14, <1>15, Zenon DEF SignalIInv, SignalInv

\* kfork() gives the slot a pid that no signal was ever sent to, whatever is
\* still pending in it.
LEMMA ForkInv ==
    ASSUME SignalIInv, NEW q \in Slot, kfork(q)
    PROVE  SignalIInv'
<1>1. /\ pc[Root] = "syscall" /\ pc[q] = "none" /\ ~Locked(q) /\ nextpid <= MaxPid
      /\ pid' = [pid EXCEPT ![q] = nextpid] /\ nextpid' = nextpid + 1
      /\ pc' = [pc EXCEPT ![Root] = "check", ![q] = "user"]
      /\ trapframe' = [trapframe EXCEPT ![Root].a0 = 1,
                                        ![q] = [trapframe[Root] EXCEPT !.a0 = 0]]
      /\ owed' = [owed EXCEPT ![q] = {}] /\ raced' = [raced EXCEPT ![q] = FALSE]
      /\ UNCHANGED <<sigvars, killed, sig, loaded, kk, aim>>
  BY Zenon DEF kfork
<1>2. q # Root /\ Root \in Slot /\ nextpid \in Nat
  BY <1>1, SlotFacts, SignalAssumption DEF TypeOK, SignalIInv, SignalInv
<1>3. /\ pc'[Root] = "check" /\ pc'[q] = "user"
      /\ \A t \in Slot : t # q /\ t # Root => pc'[t] = pc[t]
      /\ pc' \in [Slot -> PC]
  BY <1>1, <1>2, Zenon DEF TypeOK, PC, SignalIInv, SignalInv
<1>4. /\ pid'[q] = nextpid /\ \A t \in Slot : t # q => pid'[t] = pid[t]
      /\ owed'[q] = {} /\ \A t \in Slot : t # q => owed'[t] = owed[t]
      /\ ~raced'[q] /\ \A t \in Slot : t # q => raced'[t] = raced[t]
      /\ owed' \in [Slot -> SUBSET Sig] /\ raced' \in [Slot -> BOOLEAN]
  BY <1>1, <1>2, Zenon DEF TypeOK, SignalIInv, SignalInv
<1>5. /\ trapframe' \in [Slot -> Trapframe]
      /\ trapframe'[q].epc = "main" /\ trapframe'[Root].epc = "main"
      /\ \A t \in Slot : t # q /\ t # Root => trapframe'[t] = trapframe[t]
  <2>1. /\ trapframe \in [Slot -> Trapframe] /\ trapframe[Root] \in Trapframe
        /\ trapframe[Root].epc = "main" /\ 0 \in Val /\ 1 \in Val
    BY <1>2, SlotFacts, Zenon DEF TypeOK, RootInv, SignalIInv, SignalInv
  <2>2. /\ [trapframe[Root] EXCEPT !.a0 = 1] \in Trapframe
        /\ [trapframe[Root] EXCEPT !.a0 = 0] \in Trapframe
        /\ [trapframe[Root] EXCEPT !.a0 = 1].epc = "main"
        /\ [trapframe[Root] EXCEPT !.a0 = 0].epc = "main"
    BY <2>1, Zenon DEF Trapframe
  <2>3. /\ trapframe'[q] = [trapframe[Root] EXCEPT !.a0 = 0]
        /\ trapframe'[Root] = [trapframe[Root] EXCEPT !.a0 = 1]
        /\ \A t \in Slot : t # q /\ t # Root => trapframe'[t] = trapframe[t]
        /\ DOMAIN trapframe' = Slot
        /\ trapframe' = [t \in Slot |-> trapframe'[t]]
    BY <1>1, <1>2, <2>1, Zenon
  <2> QED
    BY <2>1, <2>2, <2>3
<1>6. TypeOK'
  <2>1. nextpid' \in 1 .. MaxPid + 1 /\ pid' \in [Slot -> Pid]
    BY <1>1, SignalAssumption DEF TypeOK, Pid, SignalIInv, SignalInv
  <2> QED
    BY <1>1, <1>3, <1>4, <1>5, <2>1, Zenon DEF TypeOK, sigvars, SignalIInv, SignalInv
<1>7. KilledNotInSyscall'
  BY <1>1, <1>3, Zenon DEF KilledNotInSyscall, SignalIInv, SignalInv
<1>8. NoNesting'
  BY <1>1, <1>3, <1>5, Zenon DEF NoNesting, Live, SavedInv, sigvars, SignalIInv, SignalInv
<1>9. ExactWithoutRace'
  <2> SUFFICES ASSUME NEW t \in Slot, Live(t)', ~raced'[t]
               PROVE  owed'[t] = {x \in pending_signals[t] : aim[t][x] = pid'[t]}
    BY <1>1, Zenon DEF ExactWithoutRace, sigvars
  <2>1. CASE t # q
    <3>1. Live(t)
      BY <1>1, <1>3, <2>1, Zenon DEF Live
    <3> QED
      BY <1>4, <2>1, <3>1 DEF ExactWithoutRace, SignalIInv, SignalInv
  <2>2. CASE t = q
    <3>1. \A x \in pending_signals[q] : aim[q][x] \in Nat /\ aim[q][x] < nextpid
      BY SignalAssumption DEF PidInv, TypeOK, Pid, SignalIInv, SignalInv
    <3> QED
      BY <1>2, <1>4, <2>2, <3>1
  <2> QED
    BY <2>1, <2>2, Zenon
<1>10. KillInv'
  BY <1>1, <1>2, <1>3, <1>4 DEF KillInv, Locked, sigvars, SignalIInv
<1>11. RootInv'
  BY <1>1, <1>2, <1>3, <1>4, <1>5, Zenon DEF RootInv, sigvars, SignalIInv
<1>12. PidInv'
  <2>1. \A t \in Slot : pid[t] \in Int /\ \A x \in Sig : aim[t][x] \in Int
    BY SignalAssumption DEF TypeOK, Pid, SignalIInv, SignalInv
  <2> QED
    BY <1>1, <1>2, <1>4, <2>1 DEF PidInv, SignalIInv
<1>13. SavedInv'
  BY <1>1, <1>3, <1>4, Zenon DEF SavedInv, sigvars, SignalIInv
<1> QED
  BY <1>6, <1>7, <1>8, <1>9, <1>10, <1>11, <1>12, <1>13, Zenon DEF SignalIInv, SignalInv

\* kwait() frees a zombie's slot, with its signals.
LEMMA WaitInv ==
    ASSUME SignalIInv, NEW q \in Slot, kwait(q)
    PROVE  SignalIInv'
<1>1. /\ pc[Root] = "syscall" /\ pc[q] = "zombie" /\ ~Locked(q)
      /\ pid' = [pid EXCEPT ![q] = 0] /\ killed' = [killed EXCEPT ![q] = FALSE]
      /\ pc' = [pc EXCEPT ![Root] = "check", ![q] = "none"]
      /\ Return(Root, trapframe[Root], 1)
      /\ UNCHANGED <<nextpid, sigvars, sig, loaded, kk, history>>
  BY Zenon DEF kwait
<1>2. q # Root /\ Root \in Slot /\ nextpid \in Nat /\ nextpid > 0
  BY <1>1, SlotFacts, SignalAssumption DEF TypeOK, SignalIInv, SignalInv
<1>3. /\ pc'[Root] = "check" /\ pc'[q] = "none"
      /\ \A t \in Slot : t # q /\ t # Root => pc'[t] = pc[t]
      /\ pc' \in [Slot -> PC]
  BY <1>1, <1>2, Zenon DEF TypeOK, PC, SignalIInv, SignalInv
<1>4. /\ pid'[q] = 0 /\ ~killed'[q]
      /\ \A t \in Slot : t # q => pid'[t] = pid[t] /\ killed'[t] = killed[t]
      /\ pid' \in [Slot -> Pid] /\ killed' \in [Slot -> BOOLEAN]
  BY <1>1, <1>2, SlotFacts, Zenon DEF TypeOK, SignalIInv, SignalInv
<1>5. /\ trapframe' \in [Slot -> Trapframe] /\ trapframe'[Root].epc = trapframe[Root].epc
      /\ \A t \in Slot : t # Root => trapframe'[t] = trapframe[t]
  <2>1. trapframe \in [Slot -> Trapframe] /\ trapframe[Root] \in Trapframe /\ 1 \in Val
    BY <1>2, SlotFacts, Zenon DEF TypeOK, SignalIInv, SignalInv
  <2> QED
    BY <1>1, <1>2, <2>1, ReturnFacts, Zenon
<1>6. TypeOK'
  BY <1>1, <1>3, <1>4, <1>5, Zenon DEF TypeOK, sigvars, history, SignalIInv, SignalInv
<1>7. KilledNotInSyscall'
  BY <1>3, <1>4, Zenon DEF KilledNotInSyscall, SignalIInv, SignalInv
<1>8. NoNesting'
  BY <1>1, <1>3, <1>5, Zenon DEF NoNesting, Live, sigvars, RootInv, SignalIInv, SignalInv
<1>9. ExactWithoutRace'
  BY <1>1, <1>3, <1>4, Zenon DEF ExactWithoutRace, Live, sigvars, history, SignalIInv, SignalInv
<1>10. KillInv'
  BY <1>1, <1>2, <1>3 DEF KillInv, sigvars, history, SignalIInv
<1>11. RootInv'
  BY <1>1, <1>2, <1>3, <1>4, <1>5, Zenon DEF RootInv, sigvars, SignalIInv
<1>12. PidInv'
  BY <1>1, <1>2, <1>4, Zenon DEF PidInv, history, SignalIInv
<1>13. SavedInv'
  BY <1>1, <1>3, Zenon DEF SavedInv, sigvars, history, SignalIInv
<1> QED
  BY <1>6, <1>7, <1>8, <1>9, <1>10, <1>11, <1>12, <1>13, Zenon DEF SignalIInv, SignalInv

\* Every step keeps the invariant.
LEMMA StepInv ==
    ASSUME SignalIInv, [Next]_vars
    PROVE  SignalIInv'
<1>1. ASSUME NEW s \in Slot, NEW x \in (0 .. nextpid - 1) \ {1}, NEW g \in Sig, kkill(s, x, g)
      PROVE  SignalIInv'
  <2>1. CASE \E q \in Slot :
               /\ pid[q] = x /\ ~Locked(q) /\ Goto(s, "syscall", "kstore")
               /\ kk' = [kk EXCEPT ![s] = [slot |-> q, sig |-> g, old |-> pending_signals[q]]]
               /\ UNCHANGED trapframe
    BY <1>1, <2>1, KillLoadInv, Zenon DEF kkill, Goto
  <2>2. CASE /\ Goto(s, "syscall", "check") /\ Return(s, trapframe[s], -1)
             /\ UNCHANGED kk
    BY <1>1, <2>2, SlotFacts, SysOtherInv, Zenon DEF kkill, Goto
  <2> QED
    BY <1>1, <2>1, <2>2, Zenon DEF kkill
<1>2. ASSUME NEW s \in Slot, NEW v \in Val, sys_other(s, v)
      PROVE  SignalIInv'
  BY <1>2, SysOtherInv, Zenon DEF sys_other, Goto
<1>3. ASSUME NEW s \in Slot, syscall(s)
      PROVE  SignalIInv'
  BY <1>1, <1>2, <1>3, SysSignalInv, SigreturnInv, KillStoreInv, SysExitInv, Zenon DEF syscall
<1>4. ASSUME NEW s \in Slot, Trap(s) \/ Kernel(s)
      PROVE  SignalIInv'
  BY <1>3, <1>4, TrapSyscallInv, TrapOtherInv, TrapCheckInv, DeliverInv, DeliverStoreInv, Zenon
  DEF Trap, Kernel
<1>5. ASSUME UNCHANGED vars
      PROVE  SignalIInv'
  BY <1>5, Zenon DEF vars, sigvars, history, SignalIInv, SignalInv, TypeOK, KilledNotInSyscall,
     NoNesting, ExactWithoutRace, Live, KillInv, RootInv, PidInv, SavedInv
<1> QED
  BY <1>4, <1>5, ForkInv, WaitInv, Zenon DEF Next

-----------------------------------------------------------------------------
(* Theorems. *)

(***************************************************************************)
(* The inductive invariant of signals holds in every reachable state.      *)
(***************************************************************************)
THEOREM SignalInvariant == Spec => []SignalIInv
<1>1. SignalIInv /\ [Next]_vars => SignalIInv'
  BY StepInv, Zenon
<1> QED
  BY <1>1, InitInv, PTL DEF Spec

(***************************************************************************)
(* SignalInv for every number of slots, signals and pids: a process whose  *)
(* updates of pending_signals did not race has pending exactly what was    *)
(* sent to its pid and not consumed (beside what an earlier process left   *)
(* in the slot), handlers never nest, so that sigreturn() resumes the main *)
(* program, and a killed process makes no system call.                     *)
(***************************************************************************)
THEOREM SignalIsSound == Spec => []SignalInv
<1>1. SignalIInv => SignalInv
  BY Zenon DEF SignalIInv
<1> QED
  BY <1>1, SignalInvariant, PTL
=============================================================================
