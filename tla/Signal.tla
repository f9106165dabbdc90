------------------------------- MODULE Signal -------------------------------
(***************************************************************************)
(* Signals: kill, signal and sigreturn of kernel/sysproc.c, kkill of       *)
(* kernel/proc.c, the traps of kernel/trap.c with deliver_signals, and     *)
(* what allocproc and freeproc leave in a reused slot of the process       *)
(* table.                                                                  *)
(*                                                                         *)
(* Slot 0 is a parent that forks the children, waits for them, signals     *)
(* them and is sent no signals; every process may signal 0 and any pid     *)
(* that fork() has returned.                                               *)
(* pending_signals is updated by kkill under p->lock and by                *)
(* deliver_signals without it, so both updates are a load and a store.     *)
(* Only epc and a0 of a trapframe are kept.                                *)
(***************************************************************************)
EXTENDS Integers

CONSTANTS
    NPROC,
    NSIG,       \* 32 in the code
    MaxPid,     \* bound on the processes created
    Val         \* values of a0

Slot == 0 .. NPROC - 1
Sig == 0 .. NSIG - 1
Pid == 0 .. MaxPid
Root == 0

ASSUME SignalAssumption ==
    /\ NPROC \in Nat \ {0, 1} /\ NSIG \in Nat \ {0} /\ MaxPid \in Nat \ {0}
    /\ {-1, 0, 1} \cup Sig \subseteq Val

Trapframe == [epc : {"main", "handler"}, a0 : Val]

NoKill == [slot |-> -1, sig |-> 0, old |-> {}]

VARIABLES
    pid, nextpid,
    pending_signals, signal_handlers, in_signal_handler, killed,
    trapframe, signal_trapframe,
    pc,         \* where the process of the slot is
    sig,        \* loop variable of deliver_signals()
    loaded,     \* pending_signals as its `&=' has read it
    kk,         \* kkill() in progress: the slot it has locked and read
    owed,       \* history: signals sent to this process, not yet consumed
    aim,        \* history: the pid each signal was last sent to
    raced       \* history: two updates of pending_signals have overlapped

sigvars == <<pending_signals, signal_handlers, in_signal_handler, signal_trapframe>>
history == <<owed, aim, raced>>
vars == <<pid, nextpid, sigvars, killed, trapframe, pc, sig, loaded, kk, history>>

PC == {"none", "user", "syscall", "kstore", "check", "deliver", "clear", "zombie"}

\* Types; deliver_signals() stays inside the table of signals.
TypeOK ==
    /\ pid \in [Slot -> Pid] /\ nextpid \in 1 .. MaxPid + 1
    /\ pending_signals \in [Slot -> SUBSET Sig]
    /\ signal_handlers \in [Slot -> SUBSET Sig]
    /\ in_signal_handler \in [Slot -> BOOLEAN]
    /\ killed \in [Slot -> BOOLEAN]
    /\ trapframe \in [Slot -> Trapframe]
    /\ signal_trapframe \in [Slot -> Trapframe]
    /\ pc \in [Slot -> PC]
    /\ sig \in [Slot -> 0 .. NSIG]
    /\ loaded \in [Slot -> SUBSET Sig]
    /\ kk \in [Slot -> {NoKill} \cup [slot : Slot, sig : Sig, old : SUBSET Sig]]
    /\ owed \in [Slot -> SUBSET Sig]
    /\ aim \in [Slot -> [Sig -> Pid]]
    /\ raced \in [Slot -> BOOLEAN]

Init ==
    LET start == [epc |-> "main", a0 |-> 0]
    IN  /\ pid = [s \in Slot |-> IF s = Root THEN 1 ELSE 0]
        /\ nextpid = 2
        /\ pending_signals = [s \in Slot |-> {}]
        /\ signal_handlers = [s \in Slot |-> {}]
        /\ in_signal_handler = [s \in Slot |-> FALSE]
        /\ killed = [s \in Slot |-> FALSE]
        /\ trapframe = [s \in Slot |-> start]
        /\ signal_trapframe = [s \in Slot |-> start]
        /\ pc = [s \in Slot |-> IF s = Root THEN "user" ELSE "none"]
        /\ sig = [s \in Slot |-> 0]
        /\ loaded = [s \in Slot |-> {}]
        /\ kk = [s \in Slot |-> NoKill]
        /\ owed = [s \in Slot |-> {}]
        /\ aim = [s \in Slot |-> [g \in Sig |-> 0]]
        /\ raced = [s \in Slot |-> FALSE]

Goto(s, from, to) ==
    /\ pc[s] = from
    /\ pc' = [pc EXCEPT ![s] = to]

\* p->lock of slot q is held by a kkill() between its load and its store.
Locked(q) == \E s \in Slot : kk[s].slot = q

\* The end of syscall(): the result goes to p->trapframe->a0.
Return(s, tf, v) == trapframe' = [trapframe EXCEPT ![s] = [tf EXCEPT !.a0 = v]]

-----------------------------------------------------------------------------
(* Traps from user mode. *)

\* kexit() as far as this module goes.
kexit(s) ==
    /\ pc' = [pc EXCEPT ![s] = "zombie"]
    /\ owed' = [owed EXCEPT ![s] = {}]

\* Mutant: without the test of killed().
usertrap_syscall_unchecked(s) ==
    /\ Goto(s, "user", "syscall")
    /\ UNCHANGED <<pid, nextpid, sigvars, killed, trapframe, sig, loaded, kk, history>>

usertrap_syscall(s) ==
    /\ pc[s] = "user" /\ ~Locked(s)
    /\ IF killed[s]
       THEN kexit(s)
       ELSE Goto(s, "user", "syscall") /\ UNCHANGED owed
    /\ UNCHANGED <<pid, nextpid, sigvars, killed, trapframe, sig, loaded, kk, aim, raced>>

\* A device or timer interrupt, or a fault that ends in setkilled().
usertrap_other(s) ==
    /\ Goto(s, "user", "check")
    /\ \/ UNCHANGED killed
       \/ s # Root /\ ~Locked(s) /\ killed' = [killed EXCEPT ![s] = TRUE]
    /\ UNCHANGED <<pid, nextpid, sigvars, trapframe, sig, loaded, kk, history>>

\* The rest of usertrap() up to deliver_signals().
usertrap_check(s) ==
    /\ pc[s] = "check" /\ ~Locked(s)
    /\ IF killed[s]
       THEN kexit(s)
       ELSE Goto(s, "check", "deliver") /\ UNCHANGED owed
    /\ sig' = [sig EXCEPT ![s] = 0]
    /\ UNCHANGED <<pid, nextpid, sigvars, killed, trapframe, loaded, kk, aim, raced>>

\* Mutant: the loop runs to signal NSIG.
deliver_signals_overrun(s) ==
    /\ pc[s] = "deliver"
    /\ \/ /\ in_signal_handler[s] \/ sig[s] = NSIG + 1
          /\ Goto(s, "deliver", "user")
          /\ UNCHANGED <<sig, loaded>>
       \/ /\ ~in_signal_handler[s] /\ sig[s] \in (0 .. NSIG) \ pending_signals[s]
          /\ sig' = [sig EXCEPT ![s] = @ + 1]
          /\ UNCHANGED <<pc, loaded>>
       \/ /\ ~in_signal_handler[s] /\ sig[s] \in pending_signals[s]
          /\ loaded' = [loaded EXCEPT ![s] = pending_signals[s]]
          /\ Goto(s, "deliver", "clear")
          /\ UNCHANGED sig
    /\ UNCHANGED <<pid, nextpid, sigvars, killed, trapframe, kk, history>>

\* Mutant: without the test of in_signal_handler.
deliver_signals_nested(s) ==
    /\ pc[s] = "deliver"
    /\ \/ /\ sig[s] = NSIG
          /\ Goto(s, "deliver", "user")
          /\ UNCHANGED <<sig, loaded>>
       \/ /\ sig[s] \in Sig \ pending_signals[s]
          /\ sig' = [sig EXCEPT ![s] = @ + 1]
          /\ UNCHANGED <<pc, loaded>>
       \/ /\ sig[s] \in pending_signals[s]
          /\ loaded' = [loaded EXCEPT ![s] = pending_signals[s]]
          /\ Goto(s, "deliver", "clear")
          /\ UNCHANGED sig
    /\ UNCHANGED <<pid, nextpid, sigvars, killed, trapframe, kk, history>>

\* An iteration of the loop in deliver_signals(), up to the load of
\* "p->pending_signals &= ~(1 << sig)".
deliver_signals(s) ==
    /\ pc[s] = "deliver"
    /\ \/ /\ in_signal_handler[s] \/ sig[s] = NSIG
          /\ Goto(s, "deliver", "user")
          /\ UNCHANGED <<sig, loaded>>
       \/ /\ ~in_signal_handler[s] /\ sig[s] \in Sig \ pending_signals[s]
          /\ sig' = [sig EXCEPT ![s] = @ + 1]
          /\ UNCHANGED <<pc, loaded>>
       \/ /\ ~in_signal_handler[s] /\ sig[s] \in pending_signals[s]
          /\ loaded' = [loaded EXCEPT ![s] = pending_signals[s]]
          /\ Goto(s, "deliver", "clear")
          /\ UNCHANGED sig
    /\ UNCHANGED <<pid, nextpid, sigvars, killed, trapframe, kk, history>>

\* Mutant: all pending signals are cleared with the one delivered.
deliver_signals_clear(s) ==
    /\ pc[s] = "clear"
    /\ pending_signals' = [pending_signals EXCEPT ![s] = {}]
    /\ loaded' = [loaded EXCEPT ![s] = {}]
    /\ signal_trapframe' = [signal_trapframe EXCEPT ![s] = trapframe[s]]
    /\ in_signal_handler' = [in_signal_handler EXCEPT ![s] = TRUE]
    /\ trapframe' = [trapframe EXCEPT ![s] = [epc |-> "handler", a0 |-> sig[s]]]
    /\ Goto(s, "clear", "user")
    /\ owed' = [owed EXCEPT ![s] = @ \ {sig[s]}]
    /\ raced' = [raced EXCEPT ![s] = @ \/ Locked(s)]
    /\ UNCHANGED <<pid, nextpid, signal_handlers, killed, sig, kk, aim>>

\* The store, then the handler's frame or p->killed = 1.
deliver_signals_store(s) ==
    /\ pc[s] = "clear"
    /\ pending_signals' = [pending_signals EXCEPT ![s] = loaded[s] \ {sig[s]}]
    /\ loaded' = [loaded EXCEPT ![s] = {}]
    /\ IF sig[s] \in signal_handlers[s]
       THEN /\ signal_trapframe' = [signal_trapframe EXCEPT ![s] = trapframe[s]]
            /\ in_signal_handler' = [in_signal_handler EXCEPT ![s] = TRUE]
            /\ trapframe' = [trapframe EXCEPT ![s] = [epc |-> "handler", a0 |-> sig[s]]]
            /\ Goto(s, "clear", "user")
            /\ UNCHANGED <<killed, sig>>
       ELSE /\ killed' = [killed EXCEPT ![s] = TRUE]
            /\ Goto(s, "clear", "deliver")
            /\ sig' = [sig EXCEPT ![s] = @ + 1]
            /\ UNCHANGED <<signal_trapframe, in_signal_handler, trapframe>>
    /\ owed' = [owed EXCEPT ![s] = @ \ {sig[s]}]
    /\ raced' = [raced EXCEPT ![s] = @ \/ Locked(s)]
    /\ UNCHANGED <<pid, nextpid, signal_handlers, kk, aim>>

-----------------------------------------------------------------------------
(* System calls. *)

\* signal(g, handler); a null handler unregisters.
sys_signal(s, g, null) ==
    /\ s # Root
    /\ Goto(s, "syscall", "check")
    /\ signal_handlers' = [signal_handlers EXCEPT ![s] = IF null THEN @ \ {g} ELSE @ \cup {g}]
    /\ Return(s, trapframe[s], 0)
    /\ UNCHANGED <<pid, nextpid, pending_signals, in_signal_handler, signal_trapframe,
                   killed, sig, loaded, kk, history>>

\* sigreturn(), called by a handler.
sys_sigreturn(s) ==
    /\ trapframe[s].epc = "handler"
    /\ Goto(s, "syscall", "check")
    /\ in_signal_handler' = [in_signal_handler EXCEPT ![s] = FALSE]
    /\ Return(s, signal_trapframe[s], 0)
    /\ UNCHANGED <<pid, nextpid, pending_signals, signal_handlers, signal_trapframe,
                   killed, sig, loaded, kk, history>>

\* Any other system call, with any result.
sys_other(s, v) ==
    /\ s # Root
    /\ Goto(s, "syscall", "check")
    /\ Return(s, trapframe[s], v)
    /\ UNCHANGED <<pid, nextpid, sigvars, killed, sig, loaded, kk, history>>

\* sys_kill() and kkill(): the load of "p->pending_signals |= ..." in the
\* first slot with that pid, or -1 if there is none.  The pid of an unused
\* slot is 0, so kill(0, g) finds one.
kkill(s, x, g) ==
    /\ \/ \E q \in Slot :
             /\ pid[q] = x /\ (\A r \in 0 .. q - 1 : pid[r] # x)
             /\ ~Locked(q)
             /\ Goto(s, "syscall", "kstore")
             /\ kk' = [kk EXCEPT ![s] = [slot |-> q, sig |-> g, old |-> pending_signals[q]]]
             /\ UNCHANGED trapframe
       \/ /\ \A q \in Slot : pid[q] # x
          /\ Goto(s, "syscall", "check")
          /\ Return(s, trapframe[s], -1)
          /\ UNCHANGED kk
    /\ UNCHANGED <<pid, nextpid, sigvars, killed, sig, loaded, history>>

kkill_store(s) ==
    LET q == kk[s].slot
        g == kk[s].sig
    IN  /\ Goto(s, "kstore", "check")
        /\ pending_signals' = [pending_signals EXCEPT ![q] = kk[s].old \cup {g}]
        /\ kk' = [kk EXCEPT ![s] = NoKill]
        /\ Return(s, trapframe[s], 0)
        /\ owed' = [owed EXCEPT ![q] = IF pc[q] = "zombie" THEN @ ELSE @ \cup {g}]
        /\ aim' = [aim EXCEPT ![q][g] = pid[q]]
        /\ raced' = [raced EXCEPT ![q] = @ \/ pc[q] = "clear"]
        /\ UNCHANGED <<pid, nextpid, signal_handlers, in_signal_handler, signal_trapframe,
                       killed, sig, loaded>>

\* kfork() by the parent: a copy of its registers, and whatever signal state
\* the slot has.  The child starts in user mode through forkret().
kfork(q) ==
    /\ pc[Root] = "syscall" /\ pc[q] = "none"
    /\ ~Locked(q)
    /\ nextpid <= MaxPid
    /\ pid' = [pid EXCEPT ![q] = nextpid]
    /\ nextpid' = nextpid + 1
    /\ pc' = [pc EXCEPT ![Root] = "check", ![q] = "user"]
    /\ trapframe' = [trapframe EXCEPT ![Root].a0 = 1, ![q] = [trapframe[Root] EXCEPT !.a0 = 0]]
    /\ owed' = [owed EXCEPT ![q] = {}]
    /\ raced' = [raced EXCEPT ![q] = FALSE]
    /\ UNCHANGED <<sigvars, killed, sig, loaded, kk, aim>>

sys_exit(s) ==
    /\ s # Root
    /\ pc[s] = "syscall" /\ ~Locked(s)
    /\ kexit(s)
    /\ UNCHANGED <<pid, nextpid, sigvars, killed, trapframe, sig, loaded, kk, aim, raced>>

\* kwait() by the parent, with freeproc().
kwait(q) ==
    /\ pc[Root] = "syscall" /\ pc[q] = "zombie"
    /\ ~Locked(q)
    /\ pid' = [pid EXCEPT ![q] = 0]
    /\ killed' = [killed EXCEPT ![q] = FALSE]
    /\ pc' = [pc EXCEPT ![Root] = "check", ![q] = "none"]
    /\ Return(Root, trapframe[Root], 1)
    /\ UNCHANGED <<nextpid, sigvars, sig, loaded, kk, history>>

syscall(s) ==
    \/ \E g \in Sig, null \in BOOLEAN : sys_signal(s, g, null)
    \/ sys_sigreturn(s)
    \/ \E v \in Val : sys_other(s, v)
    \/ \E x \in (0 .. nextpid - 1) \ {1}, g \in Sig : kkill(s, x, g)
    \/ kkill_store(s)
    \/ sys_exit(s)

Trap(s) ==
    \/ usertrap_syscall(s)
    \/ usertrap_other(s)

Kernel(s) ==
    \/ usertrap_check(s)
    \/ deliver_signals(s)
    \/ deliver_signals_store(s)
    \/ syscall(s)

Next ==
    \/ \E s \in Slot : Trap(s) \/ Kernel(s)
    \/ \E q \in Slot : kfork(q) \/ kwait(q)

Spec == Init /\ [][Next]_vars

-----------------------------------------------------------------------------
(* Properties. *)

Live(s) == pc[s] \notin {"none", "zombie"}

(***************************************************************************)
(* A process with p->killed set never executes a system call: it reaches   *)
(* kexit() at the entry of its next trap.  Hence the tests of killed() in  *)
(* the sleep loops of kwait(), the pipes and the console never succeed.    *)
(***************************************************************************)
KilledNotInSyscall == \A s \in Slot : killed[s] => pc[s] \notin {"syscall", "kstore"}

(***************************************************************************)
(* Handlers do not nest, so the saved trapframe is always that of the main *)
(* program and sigreturn() resumes it.                                     *)
(***************************************************************************)
NoNesting ==
    \A s \in Slot : Live(s) =>
        /\ trapframe[s].epc = "handler" => in_signal_handler[s]
        /\ signal_trapframe[s].epc = "main"

(***************************************************************************)
(* As long as the unlocked update of pending_signals in deliver_signals()  *)
(* has not met a kkill(), a process has pending exactly the signals sent   *)
(* to its pid and not consumed, beside those sent to an earlier process of *)
(* its slot.                                                               *)
(***************************************************************************)
ExactWithoutRace ==
    \A s \in Slot : Live(s) /\ ~raced[s] =>
        owed[s] = {g \in pending_signals[s] : aim[s][g] = pid[s]}

(***************************************************************************)
(* "Restore process state after signal handler finishes": a process goes   *)
(* on after sigreturn() with the registers it was interrupted with.        *)
(***************************************************************************)
HandlerIsTransparent ==
    [][\A s \in Slot : in_signal_handler[s] /\ ~in_signal_handler'[s]
          => trapframe'[s] = signal_trapframe[s]]_vars

(***************************************************************************)
(* "Kill the process with the given pid": a signal that is pending for a   *)
(* process was sent to its pid.                                            *)
(***************************************************************************)
SignalHitsPid ==
    \A s \in Slot : Live(s) =>
        \A g \in pending_signals[s] : aim[s][g] = pid[s]

(***************************************************************************)
(* "Deliver any pending signals to the current process": a signal that     *)
(* kill() has posted stays pending until it is delivered.                  *)
(***************************************************************************)
NoSignalLost == \A s \in Slot : Live(s) => owed[s] \subseteq pending_signals[s]

(***************************************************************************)
(* Signals are sound but for races: what is pending is what was sent and   *)
(* not yet delivered, handlers do not nest, and a killed process makes no  *)
(* call.                                                                   *)
(***************************************************************************)
SignalInv ==
    /\ TypeOK
    /\ KilledNotInSyscall
    /\ NoNesting
    /\ ExactWithoutRace
=============================================================================
