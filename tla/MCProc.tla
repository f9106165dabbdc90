------------------------------- MODULE MCProc -------------------------------
(* Process life cycle with a small process table for model checking. *)
EXTENDS Proc, TLC

Procs == Proc
Sym == Permutations(CPU)
=============================================================================
