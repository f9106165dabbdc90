-------------------------------- MODULE MCFs --------------------------------
(***************************************************************************)
(* The file system above the log, for TLC: the tree of names and inodes,   *)
(* and the contents of files.  The two are explored one after the other;   *)
(* the variable part says which one runs.                                  *)
(***************************************************************************)
EXTENDS FsTree

CONSTANTS p1, p2, i1, i2, BSIZE, NDIRECT, NBLOCK, UintMod, NFILE, MaxWrite, NByte

a == <<"a">>
d == <<"d">>
da == <<"d", "a">>
dotdot == <<"..">>
mkdir(path) == [op |-> "mkdir", path |-> path, type |-> "dir"]
mknod(path) == [op |-> "mknod", path |-> path, type |-> "dev"]
creat(path) == [op |-> "create", path |-> path, type |-> "file"]
open(path) == [op |-> "open", path |-> path, write |-> TRUE]
unlink(path) == [op |-> "unlink", path |-> path]
link(path, new) == [op |-> "link", path |-> path, new |-> new]
chdir(path) == [op |-> "chdir", path |-> path]

\* What the two processes call, in four settings: a directory that is removed
\* while it is filled, a file with two names, a process in a directory whose
\* parents are removed, and calls on the wrong type of inode.
Two(A, B) == [p \in Proc |-> IF p = p1 THEN A ELSE B]
MCWorkloads ==
    {Two({mkdir(d), unlink(d), creat(da), unlink(<<"d", "..">>)},
         {creat(da), unlink(da), mkdir(da), unlink(d)}),
     Two({creat(a), link(a, <<"/", "d">>), unlink(a)}, {unlink(d), unlink(a), link(d, a)}),
     Two({mkdir(d), mkdir(da), unlink(da), unlink(d)}, {chdir(da), chdir(dotdot)}),
     Two({mknod(a), mkdir(d), unlink(a)},
         {open(d), open(a), link(d, a), chdir(<<"/">>), chdir(d), mkdir(a)})}
MCName == {"a", "d"}
MCLens == {1, 3, -1}
MCOpens == {<<p1, i1>>, <<p2, i2>>}

VARIABLES part, used, block, addrs, size, flock, ftable, fofile, w, bytes

F == INSTANCE FileData
       WITH Inode <- {i1, i2}, Lens <- MCLens, Opens <- MCOpens, lock <- flock,
            ofile <- fofile

fvars == <<used, block, addrs, size, flock, ftable, fofile, w, bytes>>
allvars == <<part, vars, fvars>>

MCInit ==
    /\ part \in {"tree", "data"}
    /\ IF part = "tree" THEN Init
       ELSE Init /\ workload = CHOOSE x \in MCWorkloads : TRUE
    /\ F!Init

MCNext ==
    \/ part = "tree" /\ Next /\ UNCHANGED <<part, fvars>>
    \/ part = "data" /\ F!Next /\ UNCHANGED <<part, vars>>

MCSpec == MCInit /\ [][MCNext]_allvars

\* writei(), itrunc() and fileclose() keep blocks and descriptors accounted for.
FileInv == F!FileInv
\* readi() returns the bytes that writei() last stored.
ReadsWhatWasWritten == F!ReadsWhatWasWritten
=============================================================================
