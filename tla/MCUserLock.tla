----------------------------- MODULE MCUserLock -----------------------------
(* Two programs that create and use a lock, for model checking. *)
EXTENDS UserLock

UserLocks == {userlocks(id) : id \in Id}
=============================================================================
