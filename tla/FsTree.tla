------------------------------- MODULE FsTree -------------------------------
(***************************************************************************)
(* Inodes, directories and path names: the inode table of kernel/fs.c      *)
(* (iget, ilock, iput, ialloc, ireclaim), dirlookup, dirlink and namex,    *)
(* and the calls of kernel/sysfile.c that use them: open, mkdir, mknod,    *)
(* link, unlink, chdir and close, made by several processes at once.       *)
(*                                                                         *)
(* A section under one inode's sleep lock or under itable.lock is a step   *)
(* unless another lock is taken inside it; iput() is split wherever it     *)
(* drops itable.lock or changes the disk.  A directory is a function from  *)
(* names to inode numbers, 0 being a free entry; "." is the directory      *)
(* itself and ".." is up.  A write of a new entry may fail for want of     *)
(* disk blocks.  The calls between two moments with no call under way form *)
(* one transaction (module Log), so a crash undoes what was done since the *)
(* last such moment: a crash at that moment stands for all.                *)
(***************************************************************************)
EXTENDS Integers, Sequences, FiniteSets

CONSTANTS
    Proc, Name,
    ninodes,        \* inodes 1 .. ninodes - 1
    Workloads,      \* bound: the calls each process makes
    NOFILE,         \* bound: open files of a process
    None

ROOTINO == 1
Inum == 1 .. ninodes - 1

VARIABLES
    din,            \* type and nlink of the inodes on disk
    dir, up,        \* the contents of directories
    mem,            \* the in-memory copy, None when not valid
    ref, lock,      \* of the inode table's entries
    cwd, ofile,     \* of the processes
    t,              \* the call each process is in
    panicked,
    workload,
    lost            \* history: inodes given a name in a removed directory

tree == <<din, dir, up>>
procs == <<cwd, ofile, t>>
vars == <<tree, mem, ref, lock, procs, panicked, lost, workload>>

FreeInode == [type |-> "free", nlink |-> 0]
NoEntries == [n \in Name |-> 0]
Idle == [pc |-> "idle", call |-> None, path |-> << >>, ip |-> 0, dp |-> 0,
         puts |-> << >>, ret |-> "", removed |-> FALSE]

\* Types; no link count or reference count goes below zero, and open() fails
\* when the descriptors are used up.
TreeTypeOK ==
    /\ din \in [Inum -> [type : {"free", "dir", "file", "dev"}, nlink : Nat]]
    /\ dir \in [Inum -> [Name -> Inum \cup {0}]] /\ up \in [Inum -> Inum \cup {0}]
    /\ \A i \in Inum : mem[i] # None => mem[i].nlink \in Nat
    /\ ref \in [Inum -> Nat] /\ lock \in [Inum -> Proc \cup {None}]
    /\ cwd \in [Proc -> Inum]
    /\ \A p \in Proc : ofile[p] \in Seq(Inum) /\ Len(ofile[p]) <= NOFILE
    /\ lost \subseteq Inum

\* The image mkfs writes, here without files; every process starts in "/".
Init ==
    /\ din = [i \in Inum |-> IF i = ROOTINO THEN [type |-> "dir", nlink |-> 1] ELSE FreeInode]
    /\ dir = [i \in Inum |-> NoEntries]
    /\ up = [i \in Inum |-> IF i = ROOTINO THEN ROOTINO ELSE 0]
    /\ mem = [i \in Inum |-> None]
    /\ ref = [i \in Inum |-> IF i = ROOTINO THEN Cardinality(Proc) ELSE 0]
    /\ lock = [i \in Inum |-> None]
    /\ cwd = [p \in Proc |-> ROOTINO] /\ ofile = [p \in Proc |-> << >>]
    /\ t = [p \in Proc |-> Idle]
    /\ panicked = "" /\ lost = {}
    /\ workload \in Workloads

-----------------------------------------------------------------------------
(* Inodes. *)

\* p stands at label l of its call with no iput() left to do.
At(p, l) == t[p].pc = l /\ t[p].puts = << >> /\ panicked = ""

\* It goes on at l after the iput()s in puts.
Goto(p, l, puts) == t' = [t EXCEPT ![p] = [@ EXCEPT !.pc = l, !.puts = puts]]

\* What ilock() finds: the copy if it is valid, else the disk's.
Loaded(i) == IF mem[i] = None THEN din[i] ELSE mem[i]

\* ilock(i) succeeds.
ilock(i) == lock[i] = None /\ Loaded(i).type # "free"

\* The inode after a change of nlink and iupdate().
Put(f, i, n) == [f EXCEPT ![i] = [Loaded(i) EXCEPT !.nlink = n]]
Load(i) == [mem EXCEPT ![i] = Loaded(i)]

Lookup(d, n) == IF n = "." THEN d ELSE IF n = ".." THEN up[d] ELSE dir[d][n]

\* Mutant: an entry that is in the table is not counted again.
iget_cached(i) == [ref EXCEPT ![i] = IF @ = 0 THEN 1 ELSE @]

iget(i) == [ref EXCEPT ![i] = @ + 1]

\* The entry of an inode without references will be read again.
Drop(i) ==
    /\ ref' = [ref EXCEPT ![i] = @ - 1]
    /\ mem' = [mem EXCEPT ![i] = IF ref[i] = 1 THEN None ELSE @]

\* Mutant: other references do not hold the inode.
UnusedShared(i) == mem[i] # None /\ Loaded(i).nlink = 0

\* iput() must free i: no links, and no reference but this.
Unused(i) == ref[i] = 1 /\ mem[i] # None /\ Loaded(i).nlink = 0

\* iput() of the first inode in puts.
iput(p) ==
    /\ t[p].puts # << >> /\ panicked = ""
    /\ t[p].pc \notin {"iput_free", "iput_unlock", "iput_dec"}
    /\ LET i == Head(t[p].puts) IN
       IF Unused(i)
       THEN /\ lock[i] = None
            /\ lock' = [lock EXCEPT ![i] = p]
            /\ t' = [t EXCEPT ![p] = [@ EXCEPT !.pc = "iput_free", !.ret = t[p].pc]]
            /\ UNCHANGED <<mem, ref>>
       ELSE /\ Drop(i)
            /\ t' = [t EXCEPT ![p] = [@ EXCEPT !.puts = Tail(@)]]
            /\ UNCHANGED lock
    /\ UNCHANGED <<tree, cwd, ofile, panicked, lost>>

\* itrunc(), type = 0, iupdate().
iput_free(p) ==
    /\ t[p].pc = "iput_free" /\ panicked = ""
    /\ LET i == Head(t[p].puts) IN
       /\ din' = [din EXCEPT ![i] = FreeInode]
       /\ mem' = [mem EXCEPT ![i] = FreeInode]
       /\ dir' = [dir EXCEPT ![i] = NoEntries] /\ up' = [up EXCEPT ![i] = 0]
       /\ lost' = lost \ {i}
    /\ t' = [t EXCEPT ![p].pc = "iput_unlock"]
    /\ UNCHANGED <<ref, lock, cwd, ofile, panicked>>

\* Mutant: valid stays set.
iput_unlock_valid(p) ==
    /\ t[p].pc = "iput_unlock" /\ panicked = ""
    /\ lock' = [lock EXCEPT ![Head(t[p].puts)] = None]
    /\ t' = [t EXCEPT ![p].pc = "iput_dec"]
    /\ UNCHANGED <<tree, mem, ref, cwd, ofile, panicked, lost>>

\* valid = 0, releasesleep().
iput_unlock(p) ==
    /\ t[p].pc = "iput_unlock" /\ panicked = ""
    /\ mem' = [mem EXCEPT ![Head(t[p].puts)] = None]
    /\ lock' = [lock EXCEPT ![Head(t[p].puts)] = None]
    /\ t' = [t EXCEPT ![p].pc = "iput_dec"]
    /\ UNCHANGED <<tree, ref, cwd, ofile, panicked, lost>>

\* ref-- under itable.lock, and back to the caller.
iput_dec(p) ==
    /\ t[p].pc = "iput_dec" /\ panicked = ""
    /\ Drop(Head(t[p].puts))
    /\ t' = [t EXCEPT ![p] = [@ EXCEPT !.pc = t[p].ret, !.ret = "", !.puts = Tail(@)]]
    /\ UNCHANGED <<tree, lock, cwd, ofile, panicked, lost>>

\* The inode that p is about to ilock(): namei() and the inode it found are
\* in ip, nameiparent() and its directory in dp.
Wants(p) ==
    IF t[p].puts # << >> \/ panicked # "" THEN 0
    ELSE IF t[p].pc \in {"namei", "ip", "found", "new", "victim", "link_bad"} THEN t[p].ip
    ELSE IF t[p].pc \in {"nameiparent", "dp"} THEN t[p].dp
    ELSE 0

\* panic("ilock: no type").
ilock_panic(p) ==
    /\ Wants(p) # 0 /\ lock[Wants(p)] = None /\ Loaded(Wants(p)).type = "free"
    /\ panicked' = IF t[p].removed THEN "no type, through .. of a removed directory"
                                   ELSE "no type"
    /\ UNCHANGED <<tree, mem, ref, lock, procs, lost>>

-----------------------------------------------------------------------------
(* Path names. *)

Creates == {"create", "mkdir", "mknod"}

\* begin_op() and the start of namex().
Begin(p, c) ==
    LET parent == c.op \in Creates \cup {"unlink"}
        root == c.path[1] = "/"
        i == IF root THEN ROOTINO ELSE cwd[p]
        rest == IF root THEN Tail(c.path) ELSE c.path
    IN /\ At(p, "idle")
       /\ ref' = iget(i)
       /\ t' = [t EXCEPT ![p] = [Idle EXCEPT
              !.pc = IF parent THEN "nameiparent" ELSE IF rest = << >> THEN "ip" ELSE "namei",
              !.call = c, !.path = rest,
              !.ip = IF parent THEN 0 ELSE i, !.dp = IF parent THEN i ELSE 0]]
       /\ UNCHANGED <<tree, mem, lock, cwd, ofile, panicked, lost>>

\* One round of namex()'s loop, with the reference to the element it leaves
\* still to be dropped.
namex(p) ==
    LET parent == t[p].pc = "nameiparent"
        i == IF parent THEN t[p].dp ELSE t[p].ip
        n == Head(t[p].path)
        next == Lookup(i, n)
        fail == IF t[p].call.op = "link" /\ parent THEN "link_bad" ELSE "end"
        last == Len(t[p].path) = 1
    IN /\ At(p, "namei") \/ At(p, "nameiparent")
       /\ ilock(i)
       /\ mem' = Load(i)
       /\ \/ /\ Loaded(i).type # "dir" \/ (next = 0 /\ ~(parent /\ last))
             /\ Goto(p, fail, <<i>>)
             /\ UNCHANGED ref
          \/ /\ Loaded(i).type = "dir" /\ parent /\ last
             /\ Goto(p, "dp", << >>)
             /\ UNCHANGED ref
          \/ /\ Loaded(i).type = "dir" /\ next # 0 /\ ~(parent /\ last)
             /\ ref' = iget(next)
             /\ t' = [t EXCEPT ![p] = [@ EXCEPT
                    !.pc = IF last THEN "ip" ELSE @,
                    !.path = Tail(@), !.puts = <<i>>,
                    !.ip = IF parent THEN @ ELSE next, !.dp = IF parent THEN next ELSE @,
                    !.removed = @ \/ (n = ".." /\ Loaded(i).nlink = 0)]]
       /\ UNCHANGED <<tree, lock, cwd, ofile, panicked, lost>>

end_op(p) ==
    /\ At(p, "end")
    /\ t' = [t EXCEPT ![p] = Idle]
    /\ UNCHANGED <<tree, mem, ref, lock, cwd, ofile, panicked, lost>>

-----------------------------------------------------------------------------
(* open(), chdir() and close(). *)

\* Mutant: fdalloc() runs one past the table.
OpenFileOneMore(p, i) ==
    IF Len(ofile[p]) <= NOFILE
    THEN /\ ofile' = [ofile EXCEPT ![p] = Append(@, i)]
         /\ Goto(p, "end", << >>)
    ELSE /\ Goto(p, "end", <<i>>)
         /\ UNCHANGED ofile

\* filealloc(), fdalloc() and the rest of sys_open(), with i locked.
OpenFile(p, i) ==
    IF Len(ofile[p]) < NOFILE
    THEN /\ ofile' = [ofile EXCEPT ![p] = Append(@, i)]
         /\ Goto(p, "end", << >>)
    ELSE /\ Goto(p, "end", <<i>>)
         /\ UNCHANGED ofile

sys_open(p) ==
    /\ At(p, "ip") /\ t[p].call.op = "open"
    /\ ilock(t[p].ip)
    /\ mem' = Load(t[p].ip)
    /\ IF Loaded(t[p].ip).type = "dir" /\ t[p].call.write
       THEN Goto(p, "end", <<t[p].ip>>) /\ UNCHANGED ofile
       ELSE OpenFile(p, t[p].ip)
    /\ UNCHANGED <<tree, ref, lock, cwd, panicked, lost>>

\* The old directory is put before cwd is assigned.
sys_chdir(p) ==
    \/ /\ At(p, "ip") /\ t[p].call.op = "chdir"
       /\ ilock(t[p].ip)
       /\ mem' = Load(t[p].ip)
       /\ IF Loaded(t[p].ip).type = "dir" THEN Goto(p, "chdir", <<cwd[p]>>)
                                         ELSE Goto(p, "end", <<t[p].ip>>)
       /\ UNCHANGED <<tree, ref, lock, cwd, ofile, panicked, lost>>
    \/ /\ At(p, "chdir")
       /\ cwd' = [cwd EXCEPT ![p] = t[p].ip]
       /\ Goto(p, "end", << >>)
       /\ UNCHANGED <<tree, mem, ref, lock, ofile, panicked, lost>>

\* The last reference to the file: fileclose() puts the inode.
sys_close(p, k) ==
    /\ At(p, "idle")
    /\ ofile' = [ofile EXCEPT ![p] = SubSeq(@, 1, k - 1) \o SubSeq(@, k + 1, Len(@))]
    /\ Goto(p, "end", <<ofile[p][k]>>)
    /\ UNCHANGED <<tree, mem, ref, lock, cwd, panicked, lost>>

-----------------------------------------------------------------------------
(* create(), as open(O_CREATE), mkdir() and mknod() call it. *)

\* ialloc() takes the first of these.
FreeInums == {i \in Inum : din[i].type = "free"}

\* No name leads to d any more.
Removed(d) == d # ROOTINO /\ \A e \in Inum, n \in Name : dir[e][n] # d

\* The name is looked up; if it is free an inode is allocated on disk.
create(p) ==
    LET d == t[p].dp
        found == Lookup(d, Head(t[p].path))
    IN /\ At(p, "dp") /\ t[p].call.op \in Creates
       /\ ilock(d)
       /\ mem' = Load(d)
       /\ \/ /\ found # 0
             /\ ref' = iget(found)
             /\ t' = [t EXCEPT ![p] = [@ EXCEPT !.pc = "found", !.ip = found, !.puts = <<d>>]]
             /\ UNCHANGED <<din, lock>>
          \/ /\ found = 0 /\ FreeInums = {}
             /\ Goto(p, "end", <<d>>)
             /\ UNCHANGED <<din, ref, lock>>
          \/ /\ found = 0 /\ FreeInums # {}
             /\ LET i == CHOOSE i \in FreeInums : \A j \in FreeInums : i <= j IN
                /\ din' = [din EXCEPT ![i] = [type |-> t[p].call.type, nlink |-> 0]]
                /\ ref' = iget(i)
                /\ t' = [t EXCEPT ![p] = [@ EXCEPT !.pc = "new", !.ip = i]]
             /\ lock' = [lock EXCEPT ![d] = p]
       /\ UNCHANGED <<dir, up, cwd, ofile, panicked, lost>>

\* The name existed.
create_found(p) ==
    /\ At(p, "found")
    /\ ilock(t[p].ip)
    /\ mem' = Load(t[p].ip)
    /\ IF t[p].call.op = "create" /\ Loaded(t[p].ip).type \in {"file", "dev"}
       THEN OpenFile(p, t[p].ip)
       ELSE Goto(p, "end", <<t[p].ip>>) /\ UNCHANGED ofile
    /\ UNCHANGED <<tree, ref, lock, cwd, panicked, lost>>

\* The new inode is locked, linked, and entered in dp; the writes of new
\* directory entries may fail.
create_new(p) ==
    LET d == t[p].dp i == t[p].ip isdir == t[p].call.type = "dir" IN
    /\ At(p, "new")
    /\ ilock(i)
    /\ \/ /\ din' = Put(din, i, 0) /\ mem' = Put(mem, i, 0)
          /\ Goto(p, "bad", <<i>>)
          /\ UNCHANGED <<dir, up, lock, lost>>
       \/ /\ din' = Put(IF isdir THEN Put(din, d, Loaded(d).nlink + 1) ELSE din, i, 1)
          /\ mem' = Put(IF isdir THEN Put(mem, d, Loaded(d).nlink + 1) ELSE mem, i, 1)
          /\ dir' = [dir EXCEPT ![d] = [@ EXCEPT ![Head(t[p].path)] = i]]
          /\ up' = [up EXCEPT ![i] = IF isdir THEN d ELSE 0]
          /\ lock' = [lock EXCEPT ![d] = None, ![i] = p]
          /\ Goto(p, "created", <<d>>)
          /\ lost' = IF Removed(d) THEN lost \cup {i} ELSE lost
    /\ UNCHANGED <<ref, cwd, ofile, panicked>>

\* create() has returned the locked inode.
created(p) ==
    /\ At(p, "created")
    /\ lock' = [lock EXCEPT ![t[p].ip] = None]
    /\ IF t[p].call.op = "create" THEN OpenFile(p, t[p].ip)
       ELSE Goto(p, "end", <<t[p].ip>>) /\ UNCHANGED ofile
    /\ UNCHANGED <<tree, mem, ref, cwd, panicked, lost>>

-----------------------------------------------------------------------------
(* unlink() and link(). *)

\* iunlockput(dp) on the way out.
bad(p) ==
    /\ At(p, "bad")
    /\ lock' = [lock EXCEPT ![t[p].dp] = None]
    /\ Goto(p, IF t[p].call.op = "link" THEN "link_bad" ELSE "end", <<t[p].dp>>)
    /\ UNCHANGED <<tree, mem, ref, cwd, ofile, panicked, lost>>

\* Mutant: ".." may be unlinked.
KeptDot(n) == n = "."

\* unlink() refuses these.
Kept(n) == n \in {".", ".."}

sys_unlink(p) ==
    LET d == t[p].dp
        n == Head(t[p].path)
        found == Lookup(d, n)
    IN /\ At(p, "dp") /\ t[p].call.op = "unlink"
       /\ ilock(d)
       /\ mem' = Load(d)
       /\ lock' = [lock EXCEPT ![d] = p]
       /\ IF Kept(n) \/ found = 0
          THEN Goto(p, "bad", << >>) /\ UNCHANGED ref
          ELSE /\ ref' = iget(found)
               /\ t' = [t EXCEPT ![p] = [@ EXCEPT !.pc = "victim", !.ip = found]]
       /\ UNCHANGED <<tree, cwd, ofile, panicked, lost>>

\* Mutant: a directory is removed without a look at its entries.
isdirempty_always(i) == TRUE

isdirempty(i) == dir[i] = NoEntries

\* The entry is cleared and dp given up, with the inode still locked.
unlink_entry(p) ==
    LET d == t[p].dp i == t[p].ip isdir == Loaded(i).type = "dir" IN
    /\ At(p, "victim")
    /\ ilock(i)
    /\ IF Loaded(i).nlink < 1
       THEN panicked' = "unlink: nlink < 1" /\ UNCHANGED <<din, dir, mem, lock, t>>
       ELSE /\ UNCHANGED panicked
            /\ \/ /\ isdir /\ ~isdirempty(i)
                  /\ mem' = Load(i)
                  /\ Goto(p, "bad", <<i>>)
                  /\ UNCHANGED <<din, dir, lock>>
               \/ /\ ~isdir \/ isdirempty(i)
                  /\ dir' = [dir EXCEPT ![d][Head(t[p].path)] = 0]
                  /\ din' = IF isdir THEN Put(din, d, Loaded(d).nlink - 1) ELSE din
                  /\ mem' = [(IF isdir THEN Put(mem, d, Loaded(d).nlink - 1) ELSE mem)
                                EXCEPT ![i] = Loaded(i)]
                  /\ lock' = [lock EXCEPT ![d] = None, ![i] = p]
                  /\ Goto(p, "unlinked", <<d>>)
    /\ UNCHANGED <<up, ref, cwd, ofile, lost>>

unlinked(p) ==
    LET i == t[p].ip IN
    /\ At(p, "unlinked")
    /\ din' = Put(din, i, Loaded(i).nlink - 1) /\ mem' = Put(mem, i, Loaded(i).nlink - 1)
    /\ lock' = [lock EXCEPT ![i] = None]
    /\ Goto(p, "end", <<i>>)
    /\ UNCHANGED <<dir, up, ref, cwd, ofile, panicked, lost>>

\* Mutant: link() does not count the new name.
link_ip_uncounted(p) ==
    LET i == t[p].ip new == t[p].call.new root == new[1] = "/" IN
    /\ At(p, "ip") /\ t[p].call.op = "link"
    /\ ilock(i)
    /\ mem' = Load(i)
    /\ t' = [t EXCEPT ![p] = [@ EXCEPT
           !.pc = "nameiparent", !.dp = IF root THEN ROOTINO ELSE cwd[p],
           !.path = IF root THEN Tail(new) ELSE new]]
    /\ ref' = iget(IF root THEN ROOTINO ELSE cwd[p])
    /\ UNCHANGED <<din, dir, up, lock, cwd, ofile, panicked, lost>>

\* The new name is counted before it is entered.
link_ip(p) ==
    LET i == t[p].ip new == t[p].call.new root == new[1] = "/" IN
    /\ At(p, "ip") /\ t[p].call.op = "link"
    /\ ilock(i)
    /\ IF Loaded(i).type = "dir"
       THEN mem' = Load(i) /\ Goto(p, "end", <<i>>) /\ UNCHANGED <<din, ref>>
       ELSE /\ din' = Put(din, i, Loaded(i).nlink + 1)
            /\ mem' = Put(mem, i, Loaded(i).nlink + 1)
            /\ t' = [t EXCEPT ![p] = [@ EXCEPT
                   !.pc = "nameiparent", !.dp = IF root THEN ROOTINO ELSE cwd[p],
                   !.path = IF root THEN Tail(new) ELSE new]]
            /\ ref' = iget(IF root THEN ROOTINO ELSE cwd[p])
    /\ UNCHANGED <<dir, up, lock, cwd, ofile, panicked, lost>>

\* dirlink() into dp: an entry of that name is looked up and put again, and
\* the write may fail.
link_dp(p) ==
    LET d == t[p].dp
        n == Head(t[p].path)
        found == Lookup(d, n)
    IN /\ At(p, "dp") /\ t[p].call.op = "link"
       /\ ilock(d)
       /\ mem' = Load(d)
       /\ \/ /\ lock' = [lock EXCEPT ![d] = p]
             /\ ref' = IF found = 0 THEN ref ELSE iget(found)
             /\ Goto(p, "bad", IF found = 0 THEN << >> ELSE <<found>>)
             /\ UNCHANGED <<dir, lost>>
          \/ /\ found = 0
             /\ dir' = [dir EXCEPT ![d][n] = t[p].ip]
             /\ Goto(p, "end", <<d, t[p].ip>>)
             /\ lost' = IF Removed(d) THEN lost \cup {t[p].ip} ELSE lost
             /\ UNCHANGED <<ref, lock>>
       /\ UNCHANGED <<din, up, cwd, ofile, panicked>>

link_bad(p) ==
    LET i == t[p].ip IN
    /\ At(p, "link_bad")
    /\ ilock(i)
    /\ din' = Put(din, i, Loaded(i).nlink - 1) /\ mem' = Put(mem, i, Loaded(i).nlink - 1)
    /\ Goto(p, "end", <<i>>)
    /\ UNCHANGED <<dir, up, ref, lock, cwd, ofile, panicked, lost>>

-----------------------------------------------------------------------------
(* A crash, and the boot after it: the log is recovered and ireclaim()     *)
(* frees the inodes that no name refers to any more.                       *)

\* Mutant: orphans are left.
ireclaim_none(d) == {}

ireclaim(d) == {i \in Inum : d[i].type # "free" /\ d[i].nlink = 0}

Crash ==
    /\ \A p \in Proc : t[p].pc = "idle"
    /\ LET orphans == ireclaim(din) IN
       /\ din' = [i \in Inum |-> IF i \in orphans THEN FreeInode ELSE din[i]]
       /\ dir' = [i \in Inum |-> IF i \in orphans THEN NoEntries ELSE dir[i]]
       /\ up' = [i \in Inum |-> IF i \in orphans THEN 0 ELSE up[i]]
       /\ lost' = lost \ orphans
    /\ mem' = [i \in Inum |-> None]
    /\ ref' = [i \in Inum |-> IF i = ROOTINO THEN Cardinality(Proc) ELSE 0]
    /\ cwd' = [p \in Proc |-> ROOTINO] /\ ofile' = [p \in Proc |-> << >>]
    /\ UNCHANGED <<lock, t, panicked>>

Step(p) ==
    \/ iput(p) \/ iput_free(p) \/ iput_unlock(p) \/ iput_dec(p) \/ ilock_panic(p)
    \/ namex(p) \/ end_op(p) \/ sys_open(p) \/ sys_chdir(p)
    \/ create(p) \/ create_found(p) \/ create_new(p) \/ created(p)
    \/ bad(p) \/ sys_unlink(p) \/ unlink_entry(p) \/ unlinked(p)
    \/ link_ip(p) \/ link_dp(p) \/ link_bad(p)

Next ==
    /\ \/ \E p \in Proc : Step(p)
       \/ \E p \in Proc : \E c \in workload[p] : Begin(p, c)
       \/ \E p \in Proc : \E k \in 1 .. Len(ofile[p]) : sys_close(p, k)
       \/ Crash
    /\ UNCHANGED workload

Spec == Init /\ [][Next]_vars

-----------------------------------------------------------------------------
(* Properties. *)

Quiet == \A p \in Proc : t[p].pc = "idle"
Allocated == {i \in Inum : din[i].type # "free"}
Dirs == {i \in Inum : din[i].type = "dir"}

\* The names of i and the subdirectories in it, whose ".." is i.
Links(i) ==
    Cardinality({x \in Dirs \X Name : dir[x[1]][x[2]] = i})
      + Cardinality({n \in Name : dir[i][n] \in Dirs})
      + IF i = ROOTINO THEN 1 ELSE 0

(***************************************************************************)
(* Between calls the link count of every inode is the number of its names  *)
(* and of the ".." entries that lead to it, whatever calls ran at once and *)
(* whichever of their error paths they took.  Excepted are inodes that     *)
(* were given a name in a directory already removed.                       *)
(* (The workloads make no entries in a directory they reached through ".." *)
(* of a removed one: that inode may be another call's half-made one.)      *)
(***************************************************************************)
NlinkCountsNames ==
    Quiet => \A i \in Allocated \ lost : din[i].nlink = Links(i)

(***************************************************************************)
(* At every moment each name in a directory leads to an allocated inode,   *)
(* and to a directory only from its own "..": the directories form a tree. *)
(***************************************************************************)
NamesLead ==
    \A d \in Dirs, n \in Name :
        dir[d][n] # 0 => /\ dir[d][n] \in Allocated
                         /\ dir[d][n] \in Dirs => up[dir[d][n]] = d

\* The references a process holds.
Refs(p, i) ==
    LET x == t[p]
        one(b) == IF b THEN 1 ELSE 0
        put(k) == one(k <= Len(x.puts) /\ x.puts[k] = i)
        main == IF x.pc \in {"iput_free", "iput_unlock", "iput_dec"} THEN x.ret ELSE x.pc
    IN one(cwd[p] = i /\ ~(main = "chdir"))
         + Cardinality({k \in 1 .. Len(ofile[p]) : ofile[p][k] = i})
         + put(1) + put(2)
         + one(x.ip = i /\ main \notin {"idle", "end"}
                        /\ ~(main = "bad" /\ x.call.op # "link"))
         + one(x.dp = i /\ (main \in {"nameiparent", "dp", "new", "victim", "bad"}))

(***************************************************************************)
(* The reference count of every inode is the number of current             *)
(* directories, open files and local variables of calls under way that     *)
(* point to it, so no table entry is recycled under its user.              *)
(***************************************************************************)
RefsCounted ==
    panicked = "" =>
      \A i \in Inum :
        ref[i] = LET sum[S \in SUBSET Proc] ==
                       IF S = {} THEN 0
                       ELSE LET p == CHOOSE p \in S : TRUE IN Refs(p, i) + sum[S \ {p}]
                 IN sum[Proc]

(***************************************************************************)
(* An unlocked in-memory inode that is valid equals the one on disk,       *)
(* although ialloc() writes the disk's without the lock, in particular     *)
(* while iput() is freeing that very inode; and the acquiresleep() inside  *)
(* iput(), made under a spin lock, never finds the lock taken.             *)
(***************************************************************************)
InodeCoherent ==
    /\ \A i \in Inum : mem[i] # None /\ lock[i] = None => mem[i] = din[i]
    /\ \A p \in Proc :
          t[p].puts # << >> /\ t[p].pc \notin {"iput_free", "iput_unlock", "iput_dec"}
            => LET i == Head(t[p].puts) IN
               Unused(i) => lock[i] = None

(***************************************************************************)
(* No two calls wait for each other's inode locks.                         *)
(***************************************************************************)
NoLockCycle ==
    \A p, q \in Proc :
        p # q /\ Wants(p) # 0 /\ Wants(q) # 0
          => ~(lock[Wants(p)] = q /\ lock[Wants(q)] = p)

(***************************************************************************)
(* The only panic of these calls: a process whose directory was removed    *)
(* looks up ".." after the parent was removed as well.                     *)
(***************************************************************************)
OnlyDotDotPanics ==
    panicked \in {"", "no type, through .. of a removed directory"}

(***************************************************************************)
(* After a boot no inode is left without a name.                           *)
(***************************************************************************)
BootReclaims ==
    [][Crash => \A i \in Inum : din'[i].type = "free" \/ din'[i].nlink > 0]_vars

(***************************************************************************)
(* The tree of names is sound: link counts are the numbers of names        *)
(* between calls, and names lead to allocated inodes at every moment.      *)
(***************************************************************************)
TreeInv ==
    /\ TreeTypeOK
    /\ NlinkCountsNames
    /\ NamesLead

(***************************************************************************)
(* The inode table is sound: reference counts are exact, unlocked copies   *)
(* equal the disk's, and ilock() meets a free inode only through "..".     *)
(***************************************************************************)
InodesInv ==
    /\ RefsCounted
    /\ InodeCoherent
    /\ OnlyDotDotPanics
=============================================================================
