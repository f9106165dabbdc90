------------------------------- MODULE Mailbox -------------------------------
(***************************************************************************)
(* The send and recv system calls of kernel/sysproc.c.  Every slot of the  *)
(* process table has room for one message; send() copies into the slot of  *)
(* its target and recv() prints the messages of all slots.  Neither takes  *)
(* a lock, so a message is copied and printed in two halves.               *)
(***************************************************************************)
EXTENDS Integers, FiniteSets

CONSTANTS
    Caller,         \* processes making the calls
    NPROC, pid,     \* the process table; pid 0 where a slot is unused
    Msg,            \* messages, each a pair of halves
    None

Slot == 0 .. NPROC - 1

VARIABLES
    message, has_message,
    call,           \* of each caller: [at, s, msg, found]
    box,            \* history: the last message sent to a slot, until printed
    raced           \* history: two calls were at work on one slot

vars == <<message, has_message, call, box, raced>>

Idle == [at |-> "idle", s |-> 0, msg |-> <<None, None>>, found |-> FALSE]

\* A call is changing or printing the message of slot s.
Works(c, s) == c.at \in {"copy2", "flag", "print1", "print2", "clear"} /\ c.s = s

Becomes(p, c) ==
    /\ call' = [call EXCEPT ![p] = c]
    /\ raced' = (raced \/ \E s \in Slot, q \in Caller \ {p} : Works(c, s) /\ Works(call[q], s))

-----------------------------------------------------------------------------
\* send(): the first slot with the pid, or -1.
sys_send(p, x, m) ==
    LET slots == {s \in Slot : pid[s] = x} IN
    /\ call[p].at = "idle" /\ slots # {}
    /\ Becomes(p, [Idle EXCEPT !.at = "copy1", !.msg = m,
                               !.s = CHOOSE s \in slots : \A o \in slots : s <= o])
    /\ UNCHANGED <<message, has_message, box>>

safestrcpy(p) ==
    LET c == call[p] IN
    \/ /\ c.at = "copy1"
       /\ message' = [message EXCEPT ![c.s][1] = c.msg[1]]
       /\ Becomes(p, [c EXCEPT !.at = "copy2"])
       /\ UNCHANGED <<has_message, box>>
    \/ /\ c.at = "copy2"
       /\ message' = [message EXCEPT ![c.s][2] = c.msg[2]]
       /\ Becomes(p, [c EXCEPT !.at = "flag"])
       /\ UNCHANGED <<has_message, box>>

send_flag(p) ==
    LET c == call[p] IN
    /\ c.at = "flag"
    /\ has_message' = [has_message EXCEPT ![c.s] = TRUE]
    /\ box' = [box EXCEPT ![c.s] = c.msg]
    /\ Becomes(p, Idle)
    /\ UNCHANGED message

sys_recv(p) ==
    /\ call[p].at = "idle"
    /\ Becomes(p, [Idle EXCEPT !.at = "scan"])
    /\ UNCHANGED <<message, has_message, box>>

\* The next slot, or the return.
recv_scan(p) ==
    LET c == call[p] IN
    /\ c.at = "scan"
    /\ Becomes(p, IF c.s = NPROC THEN Idle
                  ELSE IF has_message[c.s] THEN [c EXCEPT !.at = "print1", !.found = TRUE]
                  ELSE [c EXCEPT !.s = @ + 1])
    /\ UNCHANGED <<message, has_message, box>>

recv_print(p) ==
    LET c == call[p] IN
    /\ \/ c.at = "print1" /\ Becomes(p, [c EXCEPT !.at = "print2", !.msg[1] = message[c.s][1]])
       \/ c.at = "print2" /\ Becomes(p, [c EXCEPT !.at = "clear", !.msg[2] = message[c.s][2]])
    /\ UNCHANGED <<message, has_message, box>>

\* Mutant: the message stays.
recv_cleared_kept(s) == UNCHANGED has_message

recv_cleared(s) == has_message' = [has_message EXCEPT ![s] = FALSE]

recv_clear(p) ==
    LET c == call[p] IN
    /\ c.at = "clear"
    /\ recv_cleared(c.s)
    /\ box' = [box EXCEPT ![c.s] = <<None, None>>]
    /\ Becomes(p, [c EXCEPT !.at = "scan", !.s = @ + 1, !.msg = <<None, None>>])
    /\ UNCHANGED message

-----------------------------------------------------------------------------
Init ==
    /\ message = [s \in Slot |-> <<None, None>>] /\ box = message
    /\ has_message = [s \in Slot |-> FALSE]
    /\ call = [p \in Caller |-> Idle] /\ raced = FALSE

Next ==
    \E p \in Caller :
        \/ \E x \in {pid[s] : s \in Slot}, m \in Msg : sys_send(p, x, m)
        \/ safestrcpy(p) \/ send_flag(p)
        \/ sys_recv(p) \/ recv_scan(p) \/ recv_print(p) \/ recv_clear(p)

Spec == Init /\ [][Next]_vars

-----------------------------------------------------------------------------
(* Properties. *)

(***************************************************************************)
(* Until two calls overlap on one slot, a slot holds the whole of the last *)
(* message sent to it exactly until it is printed, and what is printed is  *)
(* that message: losses, mixtures and repetitions come only from calls     *)
(* that work on the same slot at the same time.                            *)
(***************************************************************************)
ExactUnlessRaced ==
    ~raced =>
        /\ \A s \in Slot : (\A p \in Caller : ~Works(call[p], s)) =>
              /\ has_message[s] <=> box[s] # <<None, None>>
              /\ has_message[s] => message[s] = box[s]
        /\ \A p \in Caller : call[p].at = "clear" => call[p].msg = box[call[p].s]
=============================================================================
