------------------------------ MODULE MCSignal ------------------------------
(* A parent and its children exchanging signals for model checking. *)
EXTENDS Signal

Results == {-1, 0, 1}
=============================================================================
