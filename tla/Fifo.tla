-------------------------------- MODULE Fifo --------------------------------
(***************************************************************************)
(* What a pipe promises: a bounded queue of bytes with two ends.  Bytes    *)
(* come out in the order they went in, none twice and none invented; no    *)
(* byte goes in once the read end is closed or after the write end is.     *)
(***************************************************************************)
EXTENDS Naturals, Sequences

CONSTANTS Byte, Size

VARIABLES q, readopen, writeopen

vars == <<q, readopen, writeopen>>

Init == q = << >> /\ readopen = TRUE /\ writeopen = TRUE

Put(ch) ==
    /\ readopen /\ writeopen
    /\ Len(q) < Size
    /\ q' = Append(q, ch)
    /\ UNCHANGED <<readopen, writeopen>>

Get ==
    /\ readopen
    /\ q # << >>
    /\ q' = Tail(q)
    /\ UNCHANGED <<readopen, writeopen>>

CloseRead ==
    /\ readopen
    /\ readopen' = FALSE
    /\ UNCHANGED <<q, writeopen>>

CloseWrite ==
    /\ writeopen
    /\ writeopen' = FALSE
    /\ UNCHANGED <<q, readopen>>

Next == (\E ch \in Byte : Put(ch)) \/ Get \/ CloseRead \/ CloseWrite

Spec == Init /\ [][Next]_vars
=============================================================================
