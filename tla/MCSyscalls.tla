----------------------------- MODULE MCSyscalls -----------------------------
(***************************************************************************)
(* Bounded instances of signals and messages, which this kernel adds to    *)
(* xv6.  A behaviour is about one of the two.                              *)
(***************************************************************************)
EXTENDS Signal, TLC

CONSTANTS m1, m2, None

VARIABLES part, message, has_message, call, box, overlap

Results == {-1, 0, 1}

\* Slots 0 and 1 with the pids 0 (unused) and 1.
Mail == INSTANCE Mailbox
          WITH Caller <- {m1, m2}, NPROC <- 2, pid <- [s \in 0 .. 1 |-> s],
               Msg <- {<<"a", "b">>, <<"c", "d">>}, raced <- overlap

mvars == <<message, has_message, call, box, overlap>>

MCInit ==
    /\ part \in {"signal", "mail"}
    /\ Init /\ Mail!Init

MCNext ==
    \/ part = "signal" /\ Next /\ UNCHANGED <<part, mvars>>
    \/ part = "mail" /\ Mail!Next /\ UNCHANGED <<part, vars>>

MCSpec == MCInit /\ [][MCNext]_<<part, vars, mvars>>

\* The property of Mailbox: messages are lost, mixed or repeated only by calls
\* that overlap on one slot.
ExactUnlessRaced == part = "mail" => Mail!ExactUnlessRaced
=============================================================================
