----------------------------- MODULE LogProofs -----------------------------
(***************************************************************************)
(* Proofs about the write-ahead log of module Log, for any number of       *)
(* blocks, calls and log slots: LogInv holds, and the log implements the   *)
(* transactional disk of module TxnDisk, crashes and recoveries included.  *)
(*                                                                         *)
(* The inductive invariant LogIInv relates, for each point of commit() and *)
(* of the recovery, the header in memory, the header on disk, the blocks   *)
(* of the log, the home blocks, the buffers and their pins.  For the space *)
(* reservation it counts the blocks that the calls under way may still     *)
(* write.                                                                  *)
(***************************************************************************)
EXTENDS Log, FiniteSetTheorems, TLAPS

Committing == {"write_log", "write_head", "install", "clear", "done"}

InLog(b) == \E k \in 1 .. Len(lh) : lh[k] = b

\* The blocks that calls may still write: one pair for each.
Slack == {x \in Running \X (1 .. MAXOPBLOCKS) : x[2] > Cardinality(wrote[x[1]])}

\* Calls, reservations and who commits.
CallInv ==
    /\ committing <=> pc \in Committing
    /\ pc # "normal" => Running = {}
    /\ Recovering => \A p \in Op : op[p] = "idle"
    /\ outstanding = Cardinality(Running)
    /\ pc = "normal" /\ Running = {} => lh = << >>
    /\ \A p \in Running :
          /\ \A b \in wrote[p] : InLog(b)
          /\ IsFiniteSet(wrote[p]) /\ Cardinality(wrote[p]) <= MAXOPBLOCKS
    /\ \A p \in Op \ Running : wrote[p] = {}
    /\ Len(lh) + Cardinality(Slack) <= LOGBLOCKS
    /\ SleeperHasWaker

\* The two headers.
HeadInv ==
    /\ \A j, k \in 1 .. Len(lh) : lh[j] = lh[k] => j = k
    /\ \A j, k \in 1 .. Len(head) : head[j] = head[k] => j = k
    /\ pc \in {"normal", "write_log", "write_head", "done"} => head = << >>
    /\ pc \in {"install", "clear", "rinstall", "rclear"} => head = lh
    /\ pc \in {"read_head", "done"} => lh = << >>
    /\ pc \in {"write_log", "install", "rinstall"} => tail <= Len(lh)
    /\ pc \in {"write_head", "clear", "rclear"} => tail = Len(lh)
    /\ pc = "read_head" => tail = 0

\* Buffers: those of the transaction are pinned until they are installed,
\* the others hold what is on disk.
Pinned(b) ==
    /\ ~Recovering
    /\ \E k \in 1 .. Len(lh) : lh[k] = b /\ (pc \in {"install", "clear"} => k > tail)

CacheInv ==
    /\ \A b \in Block : pin[b] = IF Pinned(b) THEN 1 ELSE 0
    /\ \A b \in Block : Pinned(b) => cache[b] \in Val
    /\ \A b \in Block : pin[b] = 0 /\ cache[b] # NotCached => cache[b] = disk[b]

\* What commit() has copied, and what a crash leaves.
Copied(k) ==
    \/ pc = "write_log" /\ k <= tail
    \/ pc = "write_head"
    \/ pc = "install" /\ k > tail

CopyInv ==
    /\ \A k \in 1 .. Len(lh) : Copied(k) => logd[k] = cache[lh[k]]
    /\ pc \in {"install", "clear", "rinstall", "rclear"} =>
          \A k \in 1 .. Len(lh) : k <= tail => disk[lh[k]] = logd[k]
    /\ \A k \in 1 .. Len(head) : logd[k] \in Val
    /\ \A b \in Block : disk[b] = Torn => Recovering /\ Logged(b)

LogIInv == TypeOK /\ CallInv /\ HeadInv /\ CacheInv /\ CopyInv

-----------------------------------------------------------------------------
(* Counting: the calls under way, and the blocks they may still write. *)

\* The header of an empty transaction, and only that, has no blocks.
LEMMA NoBlocks ==
    /\ << >> \in Seq(Block) /\ Len(<< >>) = 0
    /\ \A s \in Seq(Block) : Len(s) = 0 => s = << >>
OBVIOUS

\* A header has a length, and each of its entries is a block.
LEMMA HeaderFacts ==
    ASSUME NEW s \in Seq(Block)
    PROVE  Len(s) \in Nat /\ s \in [1 .. Len(s) -> Block]
OBVIOUS

\* log_write() adds a block at the end of the header.
LEMMA AddedBlock ==
    ASSUME NEW s \in Seq(Block), NEW b \in Block
    PROVE  /\ Append(s, b) \in Seq(Block) /\ Len(Append(s, b)) = Len(s) + 1
           /\ \A k \in 1 .. Len(s) : Append(s, b)[k] = s[k]
           /\ Append(s, b)[Len(s) + 1] = b
OBVIOUS

\* A set of calls is finite.
LEMMA CallsFinite ==
    ASSUME NEW R \in SUBSET Op
    PROVE  IsFiniteSet(R) /\ Cardinality(R) \in Nat
BY FS_Subset, FS_CardinalityType, LogAssumption, Zenon

\* A set of blocks still to be written is finite, and begin_op() reserves
\* MAXOPBLOCKS for each call, which is enough for all of them.
LEMMA SlackBound ==
    ASSUME NEW R \in SUBSET Op,
           NEW S \in SUBSET (R \X (1 .. MAXOPBLOCKS))
    PROVE  /\ IsFiniteSet(S) /\ Cardinality(S) \in Nat
           /\ Cardinality(S) <= Cardinality(R) * MAXOPBLOCKS
<1>1. IsFiniteSet(R) /\ Cardinality(R) \in Nat
  BY CallsFinite, Zenon
<1>2. IsFiniteSet(1 .. MAXOPBLOCKS) /\ Cardinality(1 .. MAXOPBLOCKS) = MAXOPBLOCKS
  <2>1. MAXOPBLOCKS \in Nat /\ MAXOPBLOCKS > 0
    BY LogAssumption
  <2> QED
    BY <2>1, FS_Interval, 1 \in Int
<1>3. /\ IsFiniteSet(R \X (1 .. MAXOPBLOCKS))
      /\ Cardinality(R \X (1 .. MAXOPBLOCKS)) = Cardinality(R) * MAXOPBLOCKS
  BY <1>1, <1>2, FS_Product, Zenon
<1> QED
  BY <1>3, FS_Subset, FS_CardinalityType, Zenon

\* Without calls there is nothing to be written.
LEMMA NoSlack ==
    ASSUME Running = {}
    PROVE  Slack = {}
<1>1. {} \X (1 .. MAXOPBLOCKS) = {}
  BY Zenon
<1>2. Slack \subseteq Running \X (1 .. MAXOPBLOCKS)
  BY Zenon DEF Slack
<1> QED
  BY <1>1, <1>2, Zenon

-----------------------------------------------------------------------------
(* The initial state. *)

\* A freshly made file system satisfies the invariant.
LEMMA InitInv ==
    ASSUME Init
    PROVE  LogIInv
<1>1. Running = {} /\ Slack = {} /\ lh = << >> /\ head = << >> /\ Len(lh) = 0 /\ Len(head) = 0
  <2>1. Running = {}
    BY Zenon DEF Init, Running
  <2>2. Slack = {}
    BY <2>1, NoSlack, Zenon
  <2> QED
    BY <2>1, <2>2, Zenon DEF Init
<1>2. Cardinality(Running) = 0 /\ Cardinality(Slack) = 0
  BY <1>1, FS_EmptySet, Zenon
<1>3. TypeOK
  <2>1. lh \in Seq(Block) /\ head \in Seq(Block)
    BY <1>1, NoBlocks, Zenon
  <2>2. LOGBLOCKS \in Nat /\ InitVal \in Val
    BY LogAssumption, Zenon
  <2>3. disk \in [Block -> Val \cup {Torn}] /\ logd \in [1 .. LOGBLOCKS -> Val \cup {Torn}]
    BY <2>2, Zenon DEF Init
  <2>4. cache \in [Block -> Val \cup {Torn, NotCached}] /\ pin \in [Block -> Nat]
    BY Zenon DEF Init
  <2>5. /\ op \in [Op -> {"idle", "begin", "asleep", "run", "commit"}]
        /\ wrote \in [Op -> SUBSET Block]
    BY Zenon DEF Init
  <2>6. outstanding \in Nat /\ pc \in PC /\ tail \in 0 .. LOGBLOCKS
    BY <2>2 DEF Init, PC
  <2>7. committing \in BOOLEAN
    BY Zenon DEF Init
  <2>8. Len(lh) <= LOGBLOCKS /\ Len(head) <= LOGBLOCKS
    BY <1>1, <2>2
  <2> QED
    BY <2>1, <2>3, <2>4, <2>5, <2>6, <2>7, <2>8, Zenon DEF TypeOK
<1>4. CallInv
  BY <1>1, <1>2, LogAssumption DEF Init, CallInv, Committing, Recovering, SleeperHasWaker
<1>5. HeadInv
  BY <1>1 DEF Init, HeadInv
<1>6. CacheInv
  BY <1>1 DEF Init, CacheInv, Pinned
<1>7. CopyInv
  BY <1>1, LogAssumption DEF Init, CopyInv, Logged
<1> QED
  BY <1>3, <1>4, <1>5, <1>6, <1>7, Zenon DEF LogIInv

-----------------------------------------------------------------------------
(* What several steps leave alone. *)

\* Sizes and members of the two headers.
LEMMA Facts ==
    ASSUME TypeOK
    PROVE  /\ LOGBLOCKS \in Nat /\ MAXOPBLOCKS \in Nat /\ MAXOPBLOCKS > 0
           /\ MAXOPBLOCKS <= LOGBLOCKS
           /\ Len(lh) \in Nat /\ Len(head) \in Nat
           /\ Len(lh) <= LOGBLOCKS /\ Len(head) <= LOGBLOCKS
           /\ \A k \in 1 .. Len(lh) : lh[k] \in Block /\ k \in 1 .. LOGBLOCKS
           /\ \A k \in 1 .. Len(head) : head[k] \in Block /\ k \in 1 .. LOGBLOCKS
           /\ tail \in Nat
<1>1. Len(lh) \in Nat /\ lh \in [1 .. Len(lh) -> Block]
  BY HeaderFacts, Zenon DEF TypeOK
<1>2. Len(head) \in Nat /\ head \in [1 .. Len(head) -> Block]
  BY HeaderFacts, Zenon DEF TypeOK
<1>3. LOGBLOCKS \in Nat /\ MAXOPBLOCKS \in Nat /\ MAXOPBLOCKS > 0 /\ MAXOPBLOCKS <= LOGBLOCKS
  BY LogAssumption
<1>4. Len(lh) <= LOGBLOCKS /\ Len(head) <= LOGBLOCKS /\ tail \in 0 .. LOGBLOCKS
  BY Zenon DEF TypeOK
<1> QED
  BY <1>1, <1>2, <1>3, <1>4

\* The calls and their reservations do not notice a step of commit(), of the
\* recovery or of the buffer cache.
LEMMA CallFrame ==
    ASSUME TypeOK, CallInv, UNCHANGED <<lh, outstanding, committing, op, wrote>>,
           \/ pc' = pc
           \/ pc \in Committing /\ pc' \in Committing
           \/ Recovering /\ Recovering'
    PROVE  CallInv'
<1>1. Running' = Running /\ Slack' = Slack
  BY Zenon DEF Running, Slack
<1>2. \A b : InLog(b)' <=> InLog(b)
  BY Zenon DEF InLog
<1>3. SleeperHasWaker'
  BY Zenon DEF CallInv, SleeperHasWaker
<1>4. committing' <=> pc' \in Committing
  BY Zenon DEF CallInv, Committing, Recovering, TypeOK
<1>5. (pc' # "normal" => Running' = {}) /\ (pc' = "normal" => pc = "normal")
  BY <1>1, Zenon DEF CallInv, Committing, Recovering
<1>6. Recovering' => \A p \in Op : op'[p] = "idle"
  BY Zenon DEF CallInv, Committing, Recovering
<1>7. /\ outstanding' = Cardinality(Running')
      /\ pc' = "normal" /\ Running' = {} => lh' = << >>
      /\ \A p \in Op \ Running' : wrote'[p] = {}
      /\ Len(lh') + Cardinality(Slack') <= LOGBLOCKS
  BY <1>1, <1>5, Zenon DEF CallInv
<1>8. \A p \in Running' :
         /\ \A b \in wrote'[p] : InLog(b)'
         /\ IsFiniteSet(wrote'[p]) /\ Cardinality(wrote'[p]) <= MAXOPBLOCKS
  BY <1>1, <1>2, Zenon DEF CallInv
<1> QED
  BY <1>3, <1>4, <1>5, <1>6, <1>7, <1>8, Zenon DEF CallInv

\* The transaction's data does not notice a step of begin_op() and end_op().
LEMMA DataFrame ==
    ASSUME HeadInv, CacheInv, CopyInv,
           UNCHANGED <<disk, logd, head, cache, pin, lh, pc, tail>>
    PROVE  HeadInv' /\ CacheInv' /\ CopyInv'
<1>1. HeadInv'
  BY DEF HeadInv
<1>2. CacheInv'
  BY Zenon DEF CacheInv, Pinned, Recovering
<1>3. CopyInv'
  BY Zenon DEF CopyInv, Copied, Recovering, Logged
<1> QED
  BY <1>1, <1>2, <1>3, Zenon

-----------------------------------------------------------------------------
(* The buffer cache. *)

\* bread() of a block that is not cached: the block is not pinned, so the
\* buffer gets what is on disk.
LEMMA BreadInv ==
    ASSUME LogIInv, NEW b \in Block, bread(b)
    PROVE  LogIInv'
<1>1. UNCHANGED <<disk, logd, head, pin, lh, outstanding, committing, op, wrote, pc, tail>>
  BY Zenon DEF bread, diskvars
<1>2. cache' = [cache EXCEPT ![b] = disk[b]] /\ cache[b] = NotCached
  BY Zenon DEF bread
<1>3. TypeOK'
  BY <1>1, <1>2, Zenon DEF TypeOK, LogIInv
<1>4. CallInv'
  BY <1>1, CallFrame, Zenon DEF LogIInv
<1>5. HeadInv'
  BY <1>1 DEF HeadInv, LogIInv
<1>6. ~Pinned(b) /\ \A c \in Block : Pinned(c)' <=> Pinned(c)
  BY <1>1, <1>2, LogAssumption, Zenon DEF CacheInv, Pinned, Recovering, LogIInv
<1>7. CacheInv'
  BY <1>1, <1>2, <1>6, Zenon DEF CacheInv, TypeOK, LogIInv
<1>8. CopyInv'
  <2>1. ~Recovering
    BY Zenon DEF bread
  <2>2. \A k \in 1 .. Len(lh) : Copied(k) => Pinned(lh[k])
    BY <2>1, Zenon DEF Copied, Pinned
  <2>3. \A k \in 1 .. Len(lh) : Copied(k) => cache'[lh[k]] = cache[lh[k]]
    BY <1>2, <1>6, <2>2, Facts DEF TypeOK
  <2>4. \A k \in 1 .. Len(lh) : Copied(k)' <=> Copied(k)
    BY <1>1, Zenon DEF Copied
  <2> QED
    BY <1>1, <2>3, <2>4, Zenon DEF CopyInv, Logged, Recovering, LogIInv
<1> QED
  BY <1>3, <1>4, <1>5, <1>7, <1>8, Zenon DEF LogIInv

\* bget() recycles a buffer: it is not pinned, so nothing is lost.
LEMMA RecycleInv ==
    ASSUME LogIInv, NEW b \in Block, Recycle(b)
    PROVE  LogIInv'
<1>1. UNCHANGED <<disk, logd, head, pin, lh, outstanding, committing, op, wrote, pc, tail>>
  BY Zenon DEF Recycle, diskvars
<1>2. cache' = [cache EXCEPT ![b] = NotCached] /\ pin[b] = 0
  BY Zenon DEF Recycle
<1>3. TypeOK'
  BY <1>1, <1>2, Zenon DEF TypeOK, LogIInv
<1>4. CallInv'
  BY <1>1, CallFrame, Zenon DEF LogIInv
<1>5. HeadInv'
  BY <1>1 DEF HeadInv, LogIInv
<1>6. ~Pinned(b) /\ \A c \in Block : Pinned(c)' <=> Pinned(c)
  BY <1>1, <1>2 DEF CacheInv, Pinned, Recovering, LogIInv
<1>7. CacheInv'
  BY <1>1, <1>2, <1>6, Zenon DEF CacheInv, TypeOK, LogIInv
<1>8. CopyInv'
  <2>1. \A k \in 1 .. Len(lh) : Copied(k) => Pinned(lh[k])
    BY Zenon DEF Copied, Pinned, Recovering
  <2>2. \A k \in 1 .. Len(lh) : Copied(k) => cache'[lh[k]] = cache[lh[k]]
    BY <1>2, <1>6, <2>1, Facts DEF TypeOK
  <2>3. \A k \in 1 .. Len(lh) : Copied(k)' <=> Copied(k)
    BY <1>1, Zenon DEF Copied
  <2> QED
    BY <1>1, <2>2, <2>3, Zenon DEF CopyInv, Logged, Recovering, LogIInv
<1> QED
  BY <1>3, <1>4, <1>5, <1>7, <1>8, Zenon DEF LogIInv

-----------------------------------------------------------------------------
(* begin_op(), log_write() and end_op(). *)

\* A step that moves processes between the states outside a transaction, and
\* puts none to sleep, keeps the account of the calls.
LEMMA MoveFrame ==
    ASSUME TypeOK, CallInv, UNCHANGED <<lh, outstanding, committing, wrote, pc>>,
           Running' = Running,
           ~Recovering,
           SleeperHasWaker'
    PROVE  CallInv'
<1>1. Slack' = Slack
  BY Zenon DEF Slack
<1>2. \A b : InLog(b)' <=> InLog(b)
  BY Zenon DEF InLog
<1> QED
  BY <1>1, <1>2, Zenon DEF CallInv, Recovering

\* A process makes a call.
LEMMA CallStepInv ==
    ASSUME LogIInv, NEW p \in Op, Call(p)
    PROVE  LogIInv'
<1>1. UNCHANGED <<disk, logd, head, cache, pin, lh, outstanding, committing, wrote, pc, tail>>
  BY Zenon DEF Call, diskvars, memvars
<1>2. op' = [op EXCEPT ![p] = "begin"] /\ op[p] = "idle" /\ ~Recovering
  BY Zenon DEF Call
<1>3. TypeOK'
  BY <1>1, <1>2, Zenon DEF TypeOK, LogIInv
<1>4. Running' = Running
  BY <1>2 DEF Running, TypeOK
<1>5. SleeperHasWaker'
  BY <1>1, <1>2, Zenon DEF SleeperHasWaker, CallInv, TypeOK, LogIInv
<1>6. CallInv'
  BY <1>1, <1>2, <1>4, <1>5, MoveFrame, Zenon DEF LogIInv
<1> QED
  BY <1>1, <1>3, <1>6, DataFrame, Zenon DEF LogIInv

\* kkill() wakes a process in begin_op(); it only looks at the log again.
LEMMA KillInv ==
    ASSUME LogIInv, NEW p \in Op, kkill(p)
    PROVE  LogIInv'
<1>1. UNCHANGED <<disk, logd, head, cache, pin, lh, outstanding, committing, wrote, pc, tail>>
  BY Zenon DEF kkill, diskvars, memvars
<1>2. op' = [op EXCEPT ![p] = "begin"] /\ op[p] = "asleep"
  BY Zenon DEF kkill
<1>3. TypeOK'
  BY <1>1, <1>2, Zenon DEF TypeOK, LogIInv
<1>4. Running' = Running /\ ~Recovering
  BY <1>2, Zenon DEF Running, TypeOK, CallInv, LogIInv
<1>5. SleeperHasWaker'
  BY <1>1, <1>2, Zenon DEF SleeperHasWaker, CallInv, TypeOK, LogIInv
<1>6. CallInv'
  BY <1>1, <1>4, <1>5, MoveFrame, Zenon DEF LogIInv
<1> QED
  BY <1>1, <1>3, <1>6, DataFrame, Zenon DEF LogIInv

\* begin_op(): it sleeps only while somebody is left to wake it, and enters
\* only when the log has room for MAXOPBLOCKS blocks of every call.
LEMMA BeginInv ==
    ASSUME LogIInv, NEW p \in Op, begin_op(p)
    PROVE  LogIInv'
<1>1. UNCHANGED <<disk, logd, head, cache, pin, lh, committing, wrote, pc, tail>> /\ op[p] = "begin"
  BY Zenon DEF begin_op, diskvars
<1>2. ~Recovering
  BY <1>1, Zenon DEF CallInv, LogIInv
<1>3. IsFiniteSet(Running) /\ Cardinality(Running) \in Nat /\ outstanding = Cardinality(Running)
  BY CallsFinite, Zenon DEF Running, CallInv, LogIInv
<1>4. CASE MustWait /\ op' = [op EXCEPT ![p] = "asleep"] /\ UNCHANGED outstanding
  <2>1. TypeOK'
    BY <1>1, <1>4, Zenon DEF TypeOK, LogIInv
  <2>2. Running' = Running
    BY <1>1, <1>4 DEF Running, TypeOK
  <2>3. outstanding > 0 \/ committing
    <3> SUFFICES ASSUME outstanding = 0, ~committing
                 PROVE  FALSE
      BY <1>3
    <3>1. Running = {} /\ pc = "normal"
      BY <1>2, <1>3, FS_EmptySet, Zenon DEF CallInv, Committing, Recovering, TypeOK, PC, LogIInv
    <3>2. Len(lh) = 0
      BY <3>1, Zenon DEF CallInv, LogIInv
    <3> QED
      BY <1>4, <3>2, Facts DEF MustWait, LogIInv
  <2>4. SleeperHasWaker'
    BY <1>1, <1>4, <2>3, Zenon DEF SleeperHasWaker
  <2>5. CallInv'
    BY <1>1, <1>2, <1>4, <2>2, <2>4, MoveFrame, Zenon DEF LogIInv
  <2> QED
    BY <1>1, <2>1, <2>5, DataFrame, Zenon DEF LogIInv
<1>5. CASE ~MustWait /\ outstanding' = outstanding + 1 /\ op' = [op EXCEPT ![p] = "run"]
  <2>1. TypeOK'
    BY <1>1, <1>5 DEF TypeOK, LogIInv
  <2>2. Running' = Running \cup {p} /\ p \notin Running
    BY <1>1, <1>5, Zenon DEF Running, TypeOK, LogIInv
  <2>3. outstanding' = Cardinality(Running')
    BY <1>3, <1>5, <2>2, FS_AddElement, Zenon
  <2>4. pc = "normal" /\ ~committing
    BY <1>2, <1>5, Zenon DEF MustWait, CallInv, Committing, Recovering, TypeOK, PC, LogIInv
  <2>5. Len(lh') + Cardinality(Slack') <= LOGBLOCKS
    <3>1. /\ Cardinality(Slack') \in Nat
          /\ Cardinality(Slack') <= Cardinality(Running') * MAXOPBLOCKS
      <4>1. Running' \in SUBSET Op
        BY Zenon DEF Running
      <4>2. Slack' \in SUBSET (Running' \X (1 .. MAXOPBLOCKS))
        BY Zenon DEF Slack
      <4> QED
        BY <4>1, <4>2, SlackBound, Zenon
    <3>2. Len(lh) + (outstanding + 1) * MAXOPBLOCKS <= LOGBLOCKS
      BY <1>3, <1>5, <2>4, Facts DEF MustWait, LogIInv
    <3>3. Cardinality(Running') * MAXOPBLOCKS = (outstanding + 1) * MAXOPBLOCKS
      BY <1>5, <2>3, Zenon
    <3>4. (outstanding + 1) * MAXOPBLOCKS \in Nat
      BY <1>3, Facts DEF LogIInv
    <3> QED
      BY <1>1, <3>1, <3>2, <3>3, <3>4, Facts DEF LogIInv
  <2>6. wrote[p] = {} /\ IsFiniteSet({}) /\ Cardinality({}) = 0
    BY <2>2, FS_EmptySet, Zenon DEF CallInv, LogIInv
  <2>7. \A q \in Running' :
           /\ \A b \in wrote'[q] : InLog(b)'
           /\ IsFiniteSet(wrote'[q]) /\ Cardinality(wrote'[q]) <= MAXOPBLOCKS
    <3>1. \A b : InLog(b)' <=> InLog(b)
      BY <1>1, Zenon DEF InLog
    <3>2. \A q \in Running :
             /\ \A b \in wrote[q] : InLog(b)
             /\ IsFiniteSet(wrote[q]) /\ Cardinality(wrote[q]) <= MAXOPBLOCKS
      BY Zenon DEF CallInv, LogIInv
    <3>3. 0 <= MAXOPBLOCKS
      BY Facts DEF LogIInv
    <3>4. IsFiniteSet(wrote[p]) /\ Cardinality(wrote[p]) <= MAXOPBLOCKS
      BY <2>6, <3>3, Zenon
    <3> QED
      BY <1>1, <2>2, <2>6, <3>1, <3>2, <3>4, Zenon
  <2>8. SleeperHasWaker'
    BY <1>3, <1>5 DEF SleeperHasWaker
  <2>9. CallInv'
    <3>1. /\ committing' <=> pc' \in Committing
          /\ ~Recovering' /\ pc' = "normal" /\ Running' # {}
      BY <1>1, <1>2, <2>2, <2>4, Zenon DEF CallInv, Recovering, Committing
    <3>2. \A q \in Op \ Running' : wrote'[q] = {}
      BY <1>1, <2>2, Zenon DEF CallInv, LogIInv
    <3> QED
      BY <2>3, <2>5, <2>7, <2>8, <3>1, <3>2, Zenon DEF CallInv
  <2> QED
    BY <1>1, <2>1, <2>9, DataFrame, Zenon DEF LogIInv
<1> QED
  BY <1>4, <1>5, Zenon DEF begin_op

\* Two sets of pairs are equal if they have the same pairs.
LEMMA PairsEqual ==
    ASSUME NEW S, NEW T, NEW A \in SUBSET (S \X T), NEW B \in SUBSET (S \X T),
           \A s \in S, x \in T : <<s, x>> \in A <=> <<s, x>> \in B
    PROVE  A = B
<1>1. ASSUME NEW y \in S \X T
      PROVE  y \in A <=> y \in B
  <2>1. PICK s \in S, x \in T : y = <<s, x>>
    OBVIOUS
  <2> QED
    BY <2>1, Zenon
<1> QED
  BY <1>1, Zenon

\* A pair of Slack is a call and a number.
LEMMA SlackMember ==
    ASSUME NEW q, NEW n
    PROVE  <<q, n>> \in Slack <=>
             q \in Running /\ n \in 1 .. MAXOPBLOCKS /\ n > Cardinality(wrote[q])
BY Zenon DEF Slack

\* log_write() of a block that the call has not written yet uses one of the
\* blocks reserved for it.
LEMMA SlackSpent ==
    ASSUME TypeOK, CallInv, NEW p \in Running, NEW b \in Block,
           b \notin wrote[p], Cardinality(wrote[p]) < MAXOPBLOCKS,
           wrote' = [wrote EXCEPT ![p] = @ \cup {b}], Running' = Running
    PROVE  /\ Cardinality(Slack') = Cardinality(Slack) - 1
           /\ IsFiniteSet(wrote'[p]) /\ Cardinality(wrote'[p]) <= MAXOPBLOCKS
<1> DEFINE c == Cardinality(wrote[p])
<1>1. c \in Nat /\ IsFiniteSet(wrote[p])
  BY FS_CardinalityType, Zenon DEF CallInv
<1>2. wrote'[p] = wrote[p] \cup {b} /\ \A q \in Op : q # p => wrote'[q] = wrote[q]
  BY Zenon DEF TypeOK, Running
<1>3. IsFiniteSet(wrote'[p]) /\ Cardinality(wrote'[p]) = c + 1
  <2>1. /\ IsFiniteSet(wrote[p] \cup {b})
        /\ Cardinality(wrote[p] \cup {b}) = Cardinality(wrote[p]) + 1
    BY <1>1, FS_AddElement, Zenon
  <2> QED
    BY <1>2, <2>1, Zenon
<1>4. MAXOPBLOCKS \in Nat
  BY LogAssumption, Zenon
<1>5. IsFiniteSet(Slack)
  <2>1. Running \in SUBSET Op
    BY Zenon DEF Running
  <2>2. Slack \in SUBSET (Running \X (1 .. MAXOPBLOCKS))
    BY Zenon DEF Slack
  <2> QED
    BY <2>1, <2>2, SlackBound, Zenon
<1>6. <<p, c + 1>> \in Slack
  BY <1>1, <1>4, SlackMember
<1> HIDE DEF c
<1>7. Slack' = Slack \ {<<p, c + 1>>}
  <2>1. ASSUME NEW q \in Running, NEW n \in 1 .. MAXOPBLOCKS
        PROVE  <<q, n>> \in Slack' <=> <<q, n>> \in Slack \ {<<p, c + 1>>}
    <3>1. <<q, n>> \in Slack' <=> n > Cardinality(wrote'[q])
      BY Zenon DEF Slack
    <3>2. <<q, n>> \in Slack <=> n > Cardinality(wrote[q])
      BY SlackMember, Zenon
    <3>3. CASE q = p
      BY <1>1, <1>3, <1>4, <3>1, <3>2, <3>3 DEF c
    <3>4. CASE q # p
      <4>1. wrote'[q] = wrote[q]
        BY <1>2, <3>4, Zenon DEF Running
      <4> QED
        BY <3>1, <3>2, <3>4, <4>1, Zenon
    <3> QED
      BY <3>3, <3>4, Zenon
  <2>2. Slack \in SUBSET (Running \X (1 .. MAXOPBLOCKS))
    BY Zenon DEF Slack
  <2>3. Slack' \in SUBSET (Running \X (1 .. MAXOPBLOCKS))
    BY Zenon DEF Slack
  <2> QED
    BY <2>1, <2>2, <2>3, PairsEqual
<1>8. Cardinality(Slack') = Cardinality(Slack) - 1
  BY <1>5, <1>6, <1>7, FS_RemoveElement, Zenon
<1> QED
  BY <1>1, <1>3, <1>4, <1>8 DEF c

\* log_write(): a new block of the transaction is pinned and takes a slot of
\* the header, one that is already there is absorbed.
LEMMA WriteInv ==
    ASSUME LogIInv, NEW p \in Op, NEW b \in Block, NEW v \in Val,
           log_write(p, b, v)
    PROVE  LogIInv'
<1>1. /\ UNCHANGED <<disk, logd, head, outstanding, committing, op, pc, tail>>
      /\ cache' = [cache EXCEPT ![b] = v]
      /\ wrote' = [wrote EXCEPT ![p] = @ \cup {b}]
      /\ b \in wrote[p] \/ Cardinality(wrote[p]) < MAXOPBLOCKS
      /\ Len(lh) < LOGBLOCKS
  BY Zenon DEF log_write, diskvars
<1>2. p \in Running /\ Running' = Running
  BY <1>1, Zenon DEF log_write, Running
<1>3. pc = "normal" /\ ~Recovering /\ ~committing
  BY <1>2, Zenon DEF CallInv, Recovering, Committing, LogIInv
<1>4. head = << >> /\ Len(head) = 0
  BY <1>3, Zenon DEF HeadInv, LogIInv
<1>5. \/ InLog(b) /\ lh' = lh /\ pin' = pin
      \/ ~InLog(b) /\ lh' = Append(lh, b) /\ pin' = [pin EXCEPT ![b] = @ + 1]
  BY Zenon DEF log_write, InLog
<1>6. /\ lh' \in Seq(Block) /\ Len(lh') \in Nat
      /\ Len(lh') = IF InLog(b) THEN Len(lh) ELSE Len(lh) + 1
      /\ \A k \in 1 .. Len(lh) : lh'[k] = lh[k]
      /\ ~InLog(b) => lh'[Len(lh) + 1] = b
  <2>1. CASE InLog(b)
    BY <1>5, <2>1, Facts, Zenon DEF TypeOK, LogIInv
  <2>2. CASE ~InLog(b)
    <3>1. lh' = Append(lh, b) /\ lh \in Seq(Block) /\ Len(lh) \in Nat
      BY <1>5, <2>2, Facts, Zenon DEF TypeOK, LogIInv
    <3>2. /\ lh' \in Seq(Block) /\ Len(lh') = Len(lh) + 1
          /\ \A k \in 1 .. Len(lh) : lh'[k] = lh[k]
          /\ lh'[Len(lh) + 1] = b
      BY <3>1, AddedBlock, Zenon
    <3> QED
      BY <2>2, <3>1, <3>2
  <2> QED
    BY <2>1, <2>2, Zenon
<1>7. \A c \in Block : InLog(c)' <=> InLog(c) \/ c = b
  <2>1. \A c \in Block : InLog(c) => InLog(c)'
    BY <1>6, Facts DEF InLog
  <2>2. InLog(b)'
    <3>1. CASE InLog(b)
      BY <2>1, <3>1, Zenon
    <3>2. CASE ~InLog(b)
      BY <1>6, <3>2, Facts DEF InLog
    <3> QED
      BY <3>1, <3>2, Zenon
  <2>3. \A c \in Block : InLog(c)' => InLog(c) \/ c = b
    BY <1>6, Facts DEF InLog
  <2> QED
    BY <2>1, <2>2, <2>3, Zenon
<1>8. TypeOK'
  <2>1. Len(lh') <= LOGBLOCKS
    BY <1>1, <1>6, Facts DEF LogIInv
  <2>2. pin' \in [Block -> Nat]
    <3>1. pin \in [Block -> Nat]
      BY Zenon DEF TypeOK, LogIInv
    <3>2. pin[b] + 1 \in Nat
      BY <3>1
    <3> QED
      BY <1>5, <3>1, <3>2, Zenon
  <2>3. cache' \in [Block -> Val \cup {Torn, NotCached}] /\ wrote' \in [Op -> SUBSET Block]
    BY <1>1, Zenon DEF TypeOK, LogIInv
  <2> QED
    BY <1>1, <1>6, <2>1, <2>2, <2>3, Zenon DEF TypeOK, LogIInv
<1>9. CallInv'
  <2>1. /\ Len(lh') + Cardinality(Slack') <= LOGBLOCKS
        /\ IsFiniteSet(wrote'[p]) /\ Cardinality(wrote'[p]) <= MAXOPBLOCKS
    <3>1. Cardinality(Slack) \in Nat
      <4>1. Running \in SUBSET Op
        BY Zenon DEF Running
      <4>2. Slack \in SUBSET (Running \X (1 .. MAXOPBLOCKS))
        BY Zenon DEF Slack
      <4> QED
        BY <4>1, <4>2, SlackBound, Zenon
    <3>2. CASE b \in wrote[p]
      <4>1. wrote' = wrote /\ InLog(b)
        BY <1>1, <1>2, <3>2 DEF CallInv, TypeOK, LogIInv
      <4>2. Slack' = Slack /\ lh' = lh
        BY <1>2, <1>5, <4>1, Zenon DEF Slack
      <4> QED
        BY <1>2, <4>1, <4>2, Zenon DEF CallInv, LogIInv
    <3>3. CASE b \notin wrote[p]
      <4>1. /\ Cardinality(Slack') = Cardinality(Slack) - 1
            /\ IsFiniteSet(wrote'[p]) /\ Cardinality(wrote'[p]) <= MAXOPBLOCKS
        BY <1>1, <1>2, <3>3, SlackSpent, Zenon DEF LogIInv
      <4>2. Len(lh') <= Len(lh) + 1 /\ Len(lh) \in Nat /\ LOGBLOCKS \in Nat
        BY <1>6, Facts DEF LogIInv
      <4>3. Len(lh) + Cardinality(Slack) <= LOGBLOCKS
        BY Zenon DEF CallInv, LogIInv
      <4> QED
        BY <1>6, <3>1, <4>1, <4>2, <4>3
    <3> QED
      BY <3>2, <3>3, Zenon
  <2>2. \A q \in Running : q # p => wrote'[q] = wrote[q]
    BY <1>1, <1>2 DEF TypeOK, Running
  <2>3. wrote'[p] = wrote[p] \cup {b}
    BY <1>1, <1>2, Zenon DEF TypeOK, Running, LogIInv
  <2>4. \A q \in Running' : \A c \in wrote'[q] : InLog(c)'
    <3> SUFFICES ASSUME NEW q \in Running, NEW c \in wrote'[q]
                 PROVE  InLog(c)'
      BY <1>2, Zenon
    <3>1. q \in Op /\ wrote[q] \in SUBSET Block /\ \A d \in wrote[q] : InLog(d)
      BY Zenon DEF CallInv, TypeOK, Running, LogIInv
    <3>2. c \in wrote[q] \/ c = b
      BY <2>2, <2>3, Zenon
    <3> QED
      BY <1>7, <3>1, <3>2, Zenon
  <2>5. \A q \in Running' : IsFiniteSet(wrote'[q]) /\ Cardinality(wrote'[q]) <= MAXOPBLOCKS
    BY <1>2, <2>1, <2>2, Zenon DEF CallInv, LogIInv
  <2>6. \A q \in Op \ Running' : wrote'[q] = {}
    BY <1>1, <1>2, Zenon DEF CallInv, TypeOK, LogIInv
  <2>7. SleeperHasWaker'
    BY <1>1, Zenon DEF SleeperHasWaker, CallInv, LogIInv
  <2>8. /\ committing' <=> pc' \in Committing
        /\ pc' = "normal" /\ ~Recovering' /\ Running' # {}
    BY <1>1, <1>2, <1>3, Zenon DEF CallInv, Recovering, LogIInv
  <2>9. outstanding' = Cardinality(Running')
    BY <1>1, <1>2, Zenon DEF CallInv, LogIInv
  <2> QED
    BY <2>1, <2>4, <2>5, <2>6, <2>7, <2>8, <2>9, Zenon DEF CallInv
<1>10. HeadInv'
  <2>1. \A j, k \in 1 .. Len(lh') : lh'[j] = lh'[k] => j = k
    <3>1. \A j, k \in 1 .. Len(lh) : lh[j] = lh[k] => j = k
      BY Zenon DEF HeadInv, LogIInv
    <3>2. CASE InLog(b)
      BY <1>6, <3>1, <3>2, Zenon
    <3>3. CASE ~InLog(b)
      <4>1. \A j \in 1 .. Len(lh) : lh'[j] # b
        BY <1>6, <3>3, Zenon DEF InLog
      <4>2. \A j \in 1 .. Len(lh') : j \in 1 .. Len(lh) \/ j = Len(lh) + 1
        BY <1>6, <3>3, Facts
      <4> QED
        BY <1>6, <3>1, <3>3, <4>1, <4>2, Zenon
    <3> QED
      BY <3>2, <3>3, Zenon
  <2> QED
    BY <1>1, <1>3, <1>4, <2>1 DEF HeadInv
<1>11. CacheInv'
  <2>1. \A c \in Block : (Pinned(c) <=> InLog(c)) /\ (Pinned(c)' <=> InLog(c)')
    BY <1>1, <1>3, Zenon DEF Pinned, InLog, Recovering
  <2>2. \A c \in Block : pin'[c] = IF InLog(c)' THEN 1 ELSE 0
    <3>1. CASE InLog(b)
      BY <1>5, <1>7, <2>1, <3>1, Zenon DEF CacheInv, LogIInv
    <3>2. CASE ~InLog(b)
      BY <1>5, <1>7, <2>1, <3>2 DEF CacheInv, TypeOK, LogIInv
    <3> QED
      BY <3>1, <3>2, Zenon
  <2>3. \A c \in Block : c # b => cache'[c] = cache[c]
    BY <1>1 DEF TypeOK
  <2>4. cache'[b] = v
    BY <1>1, Zenon DEF TypeOK, LogIInv
  <2> QED
    BY <1>1, <1>7, <2>1, <2>2, <2>3, <2>4 DEF CacheInv, LogIInv
<1>12. CopyInv'
  BY <1>1, <1>3, <1>4, Zenon DEF CopyInv, Copied, Recovering, Logged, LogIInv
<1> QED
  BY <1>8, <1>9, <1>10, <1>11, <1>12, Zenon DEF LogIInv

\* end_op(): the last call of the transaction commits it, any other wakes
\* the processes that wait for space.
LEMMA EndInv ==
    ASSUME LogIInv, NEW p \in Op, end_op(p)
    PROVE  LogIInv'
<1>1. /\ UNCHANGED <<disk, logd, head, cache, pin, lh>> /\ op[p] = "run"
      /\ outstanding' = outstanding - 1
      /\ wrote' = [wrote EXCEPT ![p] = {}]
  BY Zenon DEF end_op, diskvars
<1>2. p \in Running
  BY <1>1, Zenon DEF Running
<1>3. pc = "normal" /\ ~Recovering /\ ~committing
  BY <1>2, Zenon DEF CallInv, Recovering, Committing, LogIInv
<1>4. head = << >> /\ Len(head) = 0
  BY <1>3, Zenon DEF HeadInv, LogIInv
<1>5. IsFiniteSet(Running) /\ Cardinality(Running) \in Nat /\ outstanding = Cardinality(Running)
  BY CallsFinite, Zenon DEF Running, CallInv, LogIInv
<1>6. Running' = Running \ {p}
  BY <1>1, Zenon DEF end_op, Running, Woken, TypeOK, LogIInv
<1>7. outstanding' = Cardinality(Running') /\ outstanding' \in Nat
  <2>1. Cardinality(Running \ {p}) = Cardinality(Running) - 1 /\ IsFiniteSet(Running \ {p})
    BY <1>2, <1>5, FS_RemoveElement, Zenon
  <2>2. Cardinality(Running \ {p}) \in Nat
    BY <2>1, FS_CardinalityType, Zenon
  <2> QED
    BY <1>1, <1>5, <1>6, <2>1, <2>2, Zenon
<1>8. \A q \in Running' : q \in Running /\ wrote'[q] = wrote[q]
  BY <1>1, <1>6 DEF TypeOK, Running
<1>9. Len(lh') + Cardinality(Slack') <= LOGBLOCKS
  <2>1. Slack' \subseteq Slack
    BY <1>8, Zenon DEF Slack
  <2>2. IsFiniteSet(Slack) /\ Cardinality(Slack) \in Nat
    <3>1. Running \in SUBSET Op
      BY Zenon DEF Running
    <3>2. Slack \in SUBSET (Running \X (1 .. MAXOPBLOCKS))
      BY Zenon DEF Slack
    <3> QED
      BY <3>1, <3>2, SlackBound, Zenon
  <2>3. Cardinality(Slack') \in Nat /\ Cardinality(Slack') <= Cardinality(Slack)
    BY <2>1, <2>2, FS_Subset, FS_CardinalityType, Zenon
  <2> QED
    BY <1>1, <2>2, <2>3, Facts DEF CallInv, LogIInv
<1>10. \A q \in Running' :
         /\ \A b \in wrote'[q] : InLog(b)'
         /\ IsFiniteSet(wrote'[q]) /\ Cardinality(wrote'[q]) <= MAXOPBLOCKS
  BY <1>1, <1>8 DEF CallInv, InLog, LogIInv
<1>11. \A q \in Op \ Running' : wrote'[q] = {}
  BY <1>1, <1>6, Zenon DEF CallInv, TypeOK, LogIInv
<1>12. CASE /\ outstanding = 1 /\ committing' = TRUE /\ op' = [op EXCEPT ![p] = "commit"]
            /\ pc' = (IF Len(lh) > 0 THEN "write_log" ELSE "done") /\ tail' = 0
  <2>1. TypeOK'
    BY <1>1, <1>7, <1>12, Facts DEF TypeOK, PC, LogIInv
  <2>2. Running' = {}
    <3>1. Cardinality(Running') = 0
      BY <1>1, <1>7, <1>12
    <3>2. IsFiniteSet(Running')
      BY <1>5, <1>6, FS_RemoveElement, Zenon
    <3> QED
      BY <3>1, <3>2, FS_EmptySet, Zenon
  <2>3. pc' = "done" => lh = << >>
    BY <1>12, NoBlocks, Facts DEF TypeOK
  <2>4. CallInv'
    <3>1. SleeperHasWaker'
      BY <1>12, Zenon DEF SleeperHasWaker
    <3>2. (committing' <=> pc' \in Committing) /\ pc' # "normal" /\ ~Recovering'
      BY <1>12, Zenon DEF Committing, Recovering
    <3> QED
      BY <1>7, <1>9, <1>10, <1>11, <2>2, <3>1, <3>2, Zenon DEF CallInv
  <2>5. HeadInv'
    BY <1>1, <1>4, <1>12, <2>3, Facts DEF HeadInv, LogIInv
  <2>6. CacheInv'
    <3>1. \A b \in Block : Pinned(b)' <=> Pinned(b)
      BY <1>1, <1>3, <1>12, Zenon DEF Pinned, Recovering
    <3> QED
      BY <1>1, <3>1, Zenon DEF CacheInv, LogIInv
  <2>7. CopyInv'
    <3>1. \A k \in 1 .. Len(lh') : ~Copied(k)'
      BY <1>1, <1>12, Facts DEF Copied
    <3> QED
      BY <1>1, <1>3, <1>4, <1>12, <3>1, Zenon DEF CopyInv, Recovering, LogIInv
  <2> QED
    BY <2>1, <2>4, <2>5, <2>6, <2>7, Zenon DEF LogIInv
<1>13. CASE /\ outstanding # 1 /\ op' = [Woken EXCEPT ![p] = "idle"]
            /\ UNCHANGED <<committing, pc, tail>>
  <2>1. TypeOK'
    BY <1>1, <1>7, <1>13, Zenon DEF TypeOK, Woken, LogIInv
  <2>2. Running' # {}
    <3>1. outstanding' # 0
      BY <1>1, <1>5, <1>13
    <3> QED
      BY <1>7, <3>1, FS_EmptySet, Zenon
  <2>3. CallInv'
    <3>1. SleeperHasWaker'
      BY <1>13, Zenon DEF SleeperHasWaker, Woken
    <3>2. (committing' <=> pc' \in Committing) /\ pc' = "normal" /\ ~Recovering'
      BY <1>3, <1>13, Zenon DEF CallInv, Recovering, LogIInv
    <3> QED
      BY <1>7, <1>9, <1>10, <1>11, <2>2, <3>1, <3>2, Zenon DEF CallInv
  <2> QED
    BY <1>1, <1>13, <2>1, <2>3, DataFrame, Zenon DEF LogIInv
<1> QED
  BY <1>12, <1>13, Zenon DEF end_op

-----------------------------------------------------------------------------
(* commit(). *)

\* write_log(): the blocks of the transaction are copied from the buffers,
\* which are pinned, to the log.
LEMMA WriteLogInv ==
    ASSUME LogIInv, write_log
    PROVE  LogIInv'
<1>1. /\ UNCHANGED <<disk, head, cache, pin, lh, outstanding, committing, op, wrote>>
      /\ pc = "write_log"
  BY Zenon DEF write_log, memvars
<1>2. ~Recovering /\ head = << >> /\ Len(head) = 0 /\ tail <= Len(lh)
  BY <1>1, Zenon DEF Recovering, HeadInv, LogIInv
<1>3. CASE /\ tail < Len(lh) /\ tail' = tail + 1 /\ pc' = pc
           /\ logd' = [logd EXCEPT ![tail + 1] = Data(lh[tail + 1])]
  <2>1. tail + 1 \in 1 .. Len(lh) /\ tail + 1 \in 1 .. LOGBLOCKS
    BY <1>3, Facts DEF LogIInv
  <2>2. Data(lh[tail + 1]) = cache[lh[tail + 1]] /\ cache[lh[tail + 1]] \in Val
    <3>1. Pinned(lh[tail + 1]) /\ lh[tail + 1] \in Block
      BY <1>1, <1>2, <2>1, Facts, Zenon DEF Pinned, LogIInv
    <3> QED
      BY <3>1, LogAssumption, Zenon DEF Data, CacheInv, LogIInv
  <2>3. TypeOK'
    BY <1>1, <1>3, <2>1, <2>2, Facts DEF TypeOK, LogIInv
  <2>4. CallInv'
    BY <1>1, <1>3, CallFrame, Zenon DEF LogIInv
  <2>5. HeadInv'
    BY <1>1, <1>3, <2>1 DEF HeadInv, LogIInv
  <2>6. CacheInv'
    BY <1>1, <1>3, Zenon DEF CacheInv, Pinned, Recovering, LogIInv
  <2>7. \A k \in 1 .. Len(lh) : k <= tail + 1 => logd'[k] = cache[lh[k]]
    <3>1. \A k \in 1 .. Len(lh) : k <= tail => logd[k] = cache[lh[k]]
      BY <1>1, Zenon DEF CopyInv, Copied, LogIInv
    <3>2. \A k \in 1 .. Len(lh) : k <= tail + 1 => k <= tail \/ k = tail + 1
      BY Facts DEF LogIInv
    <3>3. logd'[tail + 1] = cache[lh[tail + 1]]
      BY <1>3, <2>1, <2>2, Zenon DEF TypeOK, LogIInv
    <3>4. \A k \in 1 .. Len(lh) : k # tail + 1 => logd'[k] = logd[k]
      <4>1. \A k \in 1 .. Len(lh) : k \in 1 .. LOGBLOCKS
        BY Facts, Zenon DEF LogIInv
      <4> QED
        BY <1>3, <4>1 DEF TypeOK
    <3> QED
      BY <3>1, <3>2, <3>3, <3>4, Facts, Zenon
  <2>8. CopyInv'
    BY <1>1, <1>2, <1>3, <2>7 DEF CopyInv, Copied, Recovering, Logged, LogIInv
  <2> QED
    BY <2>3, <2>4, <2>5, <2>6, <2>8, Zenon DEF LogIInv
<1>4. CASE tail = Len(lh) /\ pc' = "write_head" /\ UNCHANGED <<logd, tail>>
  <2>1. TypeOK'
    BY <1>1, <1>4, Zenon DEF TypeOK, PC, LogIInv
  <2>2. CallInv'
    BY <1>1, <1>4, CallFrame, Zenon DEF Committing, LogIInv
  <2>3. HeadInv'
    BY <1>1, <1>2, <1>4 DEF HeadInv, LogIInv
  <2>4. CacheInv'
    <3>1. \A b \in Block : Pinned(b)' <=> Pinned(b)
      BY <1>1, <1>4, Zenon DEF Pinned, Recovering
    <3> QED
      BY <1>1, <3>1, Zenon DEF CacheInv, LogIInv
  <2>5. \A k \in 1 .. Len(lh) : logd[k] = cache[lh[k]]
    BY <1>1, <1>4 DEF CopyInv, Copied, LogIInv
  <2>6. CopyInv'
    BY <1>1, <1>2, <1>4, <2>5, Zenon DEF CopyInv, Recovering, Logged, LogIInv
  <2> QED
    BY <2>1, <2>2, <2>3, <2>4, <2>6, Zenon DEF LogIInv
<1> QED
  BY <1>3, <1>4, Zenon DEF write_log

\* write_head(): the real commit; the log holds every block it names.
LEMMA WriteHeadInv ==
    ASSUME LogIInv, write_head
    PROVE  LogIInv'
<1>1. /\ UNCHANGED <<disk, logd, cache, pin, lh, outstanding, committing, op, wrote>>
      /\ pc = "write_head" /\ pc' = "install" /\ head' = lh /\ tail' = 0
  BY Zenon DEF write_head, memvars
<1>2. ~Recovering /\ ~Recovering'
  BY <1>1, Zenon DEF Recovering
<1>3. TypeOK'
  BY <1>1, Facts DEF TypeOK, PC, LogIInv
<1>4. CallInv'
  BY <1>1, CallFrame, Zenon DEF Committing, LogIInv
<1>5. HeadInv'
  BY <1>1, Facts DEF HeadInv, LogIInv
<1>6. \A b \in Block : Pinned(b)' <=> Pinned(b)
  BY <1>1, <1>2, Facts DEF Pinned
<1>7. CacheInv'
  BY <1>1, <1>6, Zenon DEF CacheInv, LogIInv
<1>8. \A k \in 1 .. Len(lh) : logd[k] = cache[lh[k]] /\ logd[k] \in Val
  <2>1. \A k \in 1 .. Len(lh) : logd[k] = cache[lh[k]]
    BY <1>1, Zenon DEF CopyInv, Copied, LogIInv
  <2>2. \A k \in 1 .. Len(lh) : lh[k] \in Block /\ Pinned(lh[k])
    BY <1>1, <1>2, Facts, Zenon DEF Pinned, LogIInv
  <2> QED
    BY <2>1, <2>2, Zenon DEF CacheInv, LogIInv
<1>9. CopyInv'
  BY <1>1, <1>2, <1>8, Facts DEF CopyInv, Copied, LogIInv
<1> QED
  BY <1>3, <1>4, <1>5, <1>7, <1>9, Zenon DEF LogIInv

\* install_trans() in commit(): a home block gets what the log holds, which
\* is what its buffer holds, and the buffer is unpinned.
LEMMA InstallInv ==
    ASSUME LogIInv, install_trans
    PROVE  LogIInv'
<1>1. /\ UNCHANGED <<logd, head, lh, outstanding, committing, op, wrote>>
      /\ pc = "install"
  BY Zenon DEF install_trans
<1>2. ~Recovering /\ head = lh /\ tail <= Len(lh)
  BY <1>1, Zenon DEF Recovering, HeadInv, LogIInv
<1>3. CASE /\ InstallBlock /\ pc' = pc
           /\ pin' = [pin EXCEPT ![lh[tail + 1]] = @ - 1]
  <2> DEFINE b == lh[tail + 1]
  <2>1. tail \in Nat /\ Len(lh) \in Nat /\ \A k \in 1 .. Len(lh) : lh[k] \in Block
    BY Facts, Zenon DEF LogIInv
  <2>2. /\ tail < Len(lh) /\ tail' = tail + 1
        /\ disk' = [disk EXCEPT ![b] = logd[tail + 1]]
        /\ cache' = [cache EXCEPT ![b] = logd[tail + 1]]
        /\ pin' = [pin EXCEPT ![b] = @ - 1]
    BY <1>3, Zenon DEF InstallBlock
  <2>3. tail + 1 \in 1 .. Len(lh) /\ tail + 1 \in 1 .. LOGBLOCKS /\ b \in Block
    BY <2>2, Facts DEF LogIInv
  <2>4. Pinned(b) /\ pin[b] = 1 /\ logd[tail + 1] = cache[b] /\ cache[b] \in Val
    <3>1. Pinned(b)
      BY <1>1, <1>2, <2>3, Facts DEF Pinned, LogIInv
    <3>2. logd[tail + 1] = cache[b]
      BY <1>1, <2>3, Facts DEF CopyInv, Copied, LogIInv
    <3> QED
      BY <2>3, <3>1, <3>2, Zenon DEF CacheInv, LogIInv
  <2>5. \A k \in 1 .. Len(lh) : lh[k] = b => k = tail + 1
    BY <2>3, Zenon DEF HeadInv, LogIInv
  <2> HIDE DEF b
  <2>6. cache' = cache
    BY <2>2, <2>3, <2>4, Zenon DEF TypeOK, LogIInv
  <2>7. disk'[b] = cache[b] /\ \A c \in Block : c # b => disk'[c] = disk[c]
    BY <2>2, <2>3, <2>4, Zenon DEF TypeOK, LogIInv
  <2>8. pin'[b] = 0 /\ \A c \in Block : c # b => pin'[c] = pin[c]
    BY <2>2, <2>3, <2>4 DEF TypeOK, LogIInv
  <2>9. \A c \in Block : Pinned(c)' <=> Pinned(c) /\ c # b
    <3>1. \A c : Pinned(c) <=> \E k \in 1 .. Len(lh) : lh[k] = c /\ k > tail
      BY <1>1, <1>2, Zenon DEF Pinned
    <3>2. \A c : Pinned(c)' <=> \E k \in 1 .. Len(lh) : lh[k] = c /\ k > tail + 1
      BY <1>1, <1>3, <2>2, Zenon DEF Pinned, Recovering
    <3>3. \A k \in 1 .. Len(lh) : k > tail + 1 <=> k > tail /\ k # tail + 1
      BY <2>1
    <3> QED
      BY <2>5, <3>1, <3>2, <3>3, b = lh[tail + 1], Zenon DEF b
  <2>10. TypeOK'
    <3>1. pin' \in [Block -> Nat]
      BY <2>2, <2>3, <2>4 DEF TypeOK, LogIInv
    <3>2. disk' \in [Block -> Val \cup {Torn}]
      BY <2>2, <2>3, <2>4, Zenon DEF TypeOK, LogIInv
    <3>3. tail' \in 0 .. LOGBLOCKS
      BY <2>1, <2>2, <2>3
    <3> QED
      BY <1>1, <1>3, <2>6, <3>1, <3>2, <3>3, Zenon DEF TypeOK, LogIInv
  <2>11. CallInv'
    BY <1>1, <1>3, CallFrame, Zenon DEF LogIInv
  <2>12. HeadInv'
    BY <1>1, <1>3, <2>2, <2>3 DEF HeadInv, LogIInv
  <2>13. CacheInv'
    BY <2>3, <2>6, <2>7, <2>8, <2>9, Zenon DEF CacheInv, LogIInv
  <2>14. CopyInv'
    <3>1. \A k \in 1 .. Len(lh) : k > tail + 1 => logd[k] = cache[lh[k]]
      <4>1. \A k \in 1 .. Len(lh) : k > tail => logd[k] = cache[lh[k]]
        BY <1>1, Zenon DEF CopyInv, Copied, LogIInv
      <4> QED
        BY <2>1, <4>1
    <3>2. \A k \in 1 .. Len(lh) : k <= tail + 1 => disk'[lh[k]] = logd[k]
      <4>1. \A k \in 1 .. Len(lh) : k <= tail => disk[lh[k]] = logd[k]
        BY <1>1, Zenon DEF CopyInv, LogIInv
      <4>2. \A k \in 1 .. Len(lh) : k <= tail => lh[k] # b
        BY <2>1, <2>5
      <4>3. \A k \in 1 .. Len(lh) : k <= tail + 1 => k <= tail \/ k = tail + 1
        BY <2>1
      <4>4. disk'[lh[tail + 1]] = logd[tail + 1]
        BY <2>4, <2>7, Zenon DEF b
      <4> QED
        BY <2>1, <2>7, <4>1, <4>2, <4>3, <4>4, Zenon
    <3>3. \A c \in Block : disk'[c] # Torn
      BY <1>2, <2>4, <2>7, LogAssumption, Zenon DEF CopyInv, LogIInv
    <3>4. \A k \in 1 .. Len(head') : logd'[k] \in Val
      BY <1>1, Zenon DEF CopyInv, LogIInv
    <3>5. \A k \in 1 .. Len(lh') : Copied(k)' => logd'[k] = cache'[lh'[k]]
      BY <1>1, <1>3, <2>2, <2>6, <3>1, Zenon DEF Copied
    <3>6. \A k \in 1 .. Len(lh') : k <= tail' => disk'[lh'[k]] = logd'[k]
      BY <1>1, <2>2, <3>2, Zenon
    <3> QED
      BY <3>3, <3>4, <3>5, <3>6, Zenon DEF CopyInv
  <2> QED
    BY <2>10, <2>11, <2>12, <2>13, <2>14, Zenon DEF LogIInv
<1>4. CASE tail = Len(lh) /\ pc' = "clear" /\ UNCHANGED <<disk, cache, pin, tail>>
  <2>1. TypeOK'
    BY <1>1, <1>4, Zenon DEF TypeOK, PC, LogIInv
  <2>2. CallInv'
    BY <1>1, <1>4, CallFrame, Zenon DEF Committing, LogIInv
  <2>3. HeadInv'
    BY <1>1, <1>2, <1>4 DEF HeadInv, LogIInv
  <2>4. CacheInv'
    <3>1. \A c \in Block : Pinned(c)' <=> Pinned(c)
      BY <1>1, <1>4, Zenon DEF Pinned, Recovering
    <3> QED
      BY <1>1, <1>4, <3>1, Zenon DEF CacheInv, LogIInv
  <2>5. CopyInv'
    BY <1>1, <1>2, <1>4, Zenon DEF CopyInv, Copied, Recovering, LogIInv
  <2> QED
    BY <2>1, <2>2, <2>3, <2>4, <2>5, Zenon DEF LogIInv
<1> QED
  BY <1>3, <1>4, Zenon DEF install_trans

\* Erasing the header when every block of it is installed.
LEMMA EraseInv ==
    ASSUME LogIInv, EraseHead,
           \/ pc = "clear" /\ pc' = "done"
           \/ pc = "rclear" /\ pc' = "normal"
    PROVE  LogIInv'
<1>1. /\ UNCHANGED <<disk, logd, cache, pin, outstanding, committing, op, wrote>>
      /\ lh' = << >> /\ head' = << >> /\ tail' = 0 /\ Len(lh') = 0 /\ Len(head') = 0
  BY Zenon DEF EraseHead
<1>2. head = lh /\ tail = Len(lh)
  <2>1. pc \in {"clear", "rclear"}
    BY Zenon
  <2> QED
    BY <2>1, Zenon DEF HeadInv, LogIInv
<1>3. TypeOK'
  BY <1>1, NoBlocks, Facts DEF TypeOK, PC, LogIInv
<1>4. CallInv'
  <2>1. Running = {} /\ Running' = {} /\ Slack = {} /\ Slack' = {}
    <3>1. Running = {} /\ Running' = {}
      BY <1>1, Zenon DEF CallInv, Running, LogIInv
    <3>2. Slack = {} /\ Slack' = Slack
      BY <1>1, <3>1, NoSlack, Zenon DEF Slack
    <3> QED
      BY <3>1, <3>2, Zenon
  <2>2. SleeperHasWaker'
    BY <1>1, Zenon DEF CallInv, SleeperHasWaker, LogIInv
  <2>3. committing' <=> pc' \in Committing
    BY <1>1, Zenon DEF CallInv, Committing, LogIInv
  <2>4. ~Recovering'
    BY Zenon DEF Recovering
  <2>5. Len(lh') + Cardinality(Slack') <= LOGBLOCKS
    BY <1>1, <2>1, FS_EmptySet, Facts DEF LogIInv
  <2>6. outstanding' = Cardinality(Running') /\ \A p \in Op : wrote'[p] = {}
    BY <1>1, <2>1, Zenon DEF CallInv, LogIInv
  <2> HIDE DEF LogIInv
  <2> QED
    BY <1>1, <2>1, <2>2, <2>3, <2>4, <2>5, <2>6, Zenon DEF CallInv
<1>5. HeadInv'
  BY <1>1 DEF HeadInv
<1>6. \A b \in Block : ~Pinned(b) /\ ~Pinned(b)'
  BY <1>1, <1>2, Facts DEF Pinned, Recovering
<1>7. CacheInv'
  BY <1>1, <1>6, Zenon DEF CacheInv, LogIInv
<1>8. CopyInv'
  <2>1. \A k \in 1 .. Len(head) : disk[head[k]] = logd[k] /\ logd[k] \in Val
    BY <1>2, Facts DEF CopyInv, LogIInv
  <2>2. \A b \in Block : disk[b] # Torn
    BY <2>1, LogAssumption DEF CopyInv, Logged, LogIInv
  <2> QED
    BY <1>1, <2>2 DEF CopyInv
<1> QED
  BY <1>3, <1>4, <1>5, <1>7, <1>8, Zenon DEF LogIInv

\* The end of the last end_op(): the log is empty again, and the processes
\* that waited in begin_op() look at it.
LEMMA CommitDoneInv ==
    ASSUME LogIInv, commit_done
    PROVE  LogIInv'
<1>1. /\ UNCHANGED <<disk, logd, head, cache, pin, lh, outstanding, wrote, tail>>
      /\ pc = "done" /\ pc' = "normal" /\ committing' = FALSE
      /\ op' = [p \in Op |-> IF op[p] = "commit" THEN "idle" ELSE Woken[p]]
  BY Zenon DEF commit_done, diskvars
<1>2. lh = << >> /\ head = << >> /\ Len(lh) = 0 /\ Len(head) = 0
  BY <1>1, Zenon DEF HeadInv, LogIInv
<1>3. TypeOK'
  <2>1. op' \in [Op -> {"idle", "begin", "asleep", "run", "commit"}]
    BY <1>1, Zenon DEF TypeOK, Woken, LogIInv
  <2>2. committing' \in BOOLEAN
    BY <1>1, Zenon
  <2> QED
    BY <1>1, <2>1, <2>2, Zenon DEF TypeOK, PC, LogIInv
<1>4. CallInv'
  <2>1. Running = {} /\ Running' = {} /\ Slack = {} /\ Slack' = {}
    <3>1. Running = {}
      BY <1>1, Zenon DEF CallInv, LogIInv
    <3>2. Running' = Running
      BY <1>1, Zenon DEF Running, Woken
    <3>3. Slack = {} /\ Slack' = Slack
      BY <1>1, <3>1, <3>2, NoSlack, Zenon DEF Slack
    <3> QED
      BY <3>1, <3>2, <3>3, Zenon
  <2>2. SleeperHasWaker'
    BY <1>1, Zenon DEF SleeperHasWaker, Woken
  <2>3. (committing' <=> pc' \in Committing) /\ ~Recovering'
    BY <1>1, Zenon DEF Committing, Recovering
  <2>4. /\ outstanding' = Cardinality(Running') /\ \A p \in Op : wrote'[p] = {}
        /\ Len(lh') + Cardinality(Slack') <= LOGBLOCKS
    BY <1>1, <2>1, Zenon DEF CallInv, LogIInv
  <2> HIDE DEF LogIInv
  <2> QED
    BY <1>1, <1>2, <2>1, <2>2, <2>3, <2>4, Zenon DEF CallInv
<1>5. HeadInv'
  BY <1>1, <1>2 DEF HeadInv
<1>6. CacheInv'
  <2>1. \A b \in Block : ~Pinned(b) /\ ~Pinned(b)'
    BY <1>1, <1>2 DEF Pinned
  <2> QED
    BY <1>1, <2>1, Zenon DEF CacheInv, LogIInv
<1>7. CopyInv'
  BY <1>1, <1>2, Zenon DEF CopyInv, Copied, Recovering, LogIInv
<1> QED
  BY <1>3, <1>4, <1>5, <1>6, <1>7, Zenon DEF LogIInv

-----------------------------------------------------------------------------
(* Crash and recovery. *)

\* A crash: the memory is lost; a block torn by it is named by the header on
\* disk, or lies in a log that no header names.
LEMMA CrashInv ==
    ASSUME LogIInv, Crash
    PROVE  LogIInv'
<1>1. /\ cache' = [b \in Block |-> NotCached] /\ pin' = [b \in Block |-> 0]
      /\ lh' = << >> /\ Len(lh') = 0 /\ outstanding' = 0 /\ committing' = FALSE
      /\ op' = [p \in Op |-> "idle"] /\ wrote' = [p \in Op |-> {}]
      /\ pc' = "read_head" /\ tail' = 0 /\ head' = head
  BY Zenon DEF Crash
<1>2. Recovering'
  BY <1>1, Zenon DEF Recovering
<1>3. \A k \in 1 .. Len(lh) : lh[k] \in Block /\ k \in 1 .. LOGBLOCKS
  BY Facts, Zenon DEF LogIInv
<1>4. /\ disk' \in [Block -> Val \cup {Torn}] /\ logd' \in [1 .. LOGBLOCKS -> Val \cup {Torn}]
      /\ \A k \in 1 .. Len(head) : logd'[k] = logd[k]
      /\ \A b \in Block : ~Logged(b) => disk'[b] = disk[b]
  <2>1. CASE UNCHANGED <<disk, logd>>
    BY <2>1, Zenon DEF TypeOK, LogIInv
  <2>2. CASE /\ pc = "write_log" /\ tail < Len(lh)
             /\ logd' = [logd EXCEPT ![tail + 1] = Torn] /\ UNCHANGED disk
    <3>1. Len(head) = 0
      BY <2>2 DEF HeadInv, LogIInv
    <3>2. logd' \in [1 .. LOGBLOCKS -> Val \cup {Torn}] /\ disk' \in [Block -> Val \cup {Torn}]
      BY <2>2, Zenon DEF TypeOK, LogIInv
    <3>3. \A k \in 1 .. Len(head) : FALSE
      BY <3>1
    <3> QED
      BY <2>2, <3>2, <3>3, Zenon
  <2>3. CASE /\ pc \in {"install", "rinstall"} /\ tail < Len(lh)
             /\ disk' = [disk EXCEPT ![lh[tail + 1]] = Torn] /\ UNCHANGED logd
    <3>1. head = lh /\ tail + 1 \in 1 .. Len(lh)
      BY <2>3, Facts DEF HeadInv, LogIInv
    <3>2. Logged(lh[tail + 1])
      BY <3>1, Zenon DEF Logged
    <3> QED
      BY <2>3, <3>2, Zenon DEF TypeOK, LogIInv
  <2> QED
    BY <2>1, <2>2, <2>3, Zenon DEF Crash, TornDisk
<1>5. TypeOK'
  <2>1. cache' \in [Block -> Val \cup {Torn, NotCached}] /\ pin' \in [Block -> Nat]
    BY <1>1, Zenon
  <2>2. /\ op' \in [Op -> {"idle", "begin", "asleep", "run", "commit"}]
        /\ wrote' \in [Op -> SUBSET Block]
    BY <1>1, Zenon
  <2>3. lh' \in Seq(Block) /\ Len(lh') <= LOGBLOCKS
    BY <1>1, NoBlocks, Facts DEF LogIInv
  <2>4. committing' \in BOOLEAN
    BY <1>1, Zenon
  <2>5. outstanding' \in Nat /\ pc' \in PC /\ tail' \in 0 .. LOGBLOCKS
    <3>1. LOGBLOCKS \in Nat
      BY Facts, Zenon DEF LogIInv
    <3> QED
      BY <1>1, <3>1 DEF PC
  <2> QED
    BY <1>1, <1>4, <2>1, <2>2, <2>3, <2>4, <2>5, Zenon DEF TypeOK, LogIInv
<1>6. CallInv'
  <2>1. Running' = {}
    BY <1>1, Zenon DEF Running
  <2>2. Slack' = {}
    <3>1. {} \X (1 .. MAXOPBLOCKS) = {}
      BY Zenon
    <3>2. Slack' \subseteq Running' \X (1 .. MAXOPBLOCKS)
      BY Zenon DEF Slack
    <3> QED
      BY <2>1, <3>1, <3>2, Zenon
  <2>3. Cardinality(Running') = 0 /\ Cardinality(Slack') = 0
    BY <2>1, <2>2, FS_EmptySet, Zenon
  <2>4. SleeperHasWaker'
    BY <1>1, Zenon DEF SleeperHasWaker
  <2>5. (committing' <=> pc' \in Committing) /\ pc' # "normal"
    BY <1>1, Zenon DEF Committing
  <2>6. /\ \A p \in Op : op'[p] = "idle"
        /\ \A p \in Op \ Running' : wrote'[p] = {}
    BY <1>1, Zenon
  <2>7. Len(lh') + Cardinality(Slack') <= LOGBLOCKS
    BY <1>1, <2>3, Facts DEF LogIInv
  <2>8. outstanding' = Cardinality(Running') /\ \A p \in Running' : FALSE
    BY <1>1, <2>1, <2>3, Zenon
  <2> HIDE DEF LogIInv
  <2> QED
    BY <2>1, <2>4, <2>5, <2>6, <2>7, <2>8, Zenon DEF CallInv
<1>7. HeadInv'
  BY <1>1 DEF HeadInv, LogIInv
<1>8. CacheInv'
  BY <1>1, <1>2 DEF CacheInv, Pinned
<1>9. CopyInv'
  <2>1. \A b : Logged(b)' <=> Logged(b)
    BY <1>1, Zenon DEF Logged
  <2>2. \A b \in Block : disk'[b] = Torn => Logged(b)
    BY <1>4, Zenon DEF CopyInv, LogIInv
  <2>3. \A k \in 1 .. Len(head) : logd'[k] \in Val
    BY <1>4, Zenon DEF CopyInv, LogIInv
  <2> QED
    BY <1>1, <1>2, <2>1, <2>2, <2>3 DEF CopyInv
<1> QED
  BY <1>5, <1>6, <1>7, <1>8, <1>9, Zenon DEF LogIInv

\* read_head(): the header of the log is read at boot.
LEMMA ReadHeadInv ==
    ASSUME LogIInv, read_head
    PROVE  LogIInv'
<1>1. /\ UNCHANGED <<disk, logd, head, cache, pin, outstanding, committing, op, wrote, tail>>
      /\ pc = "read_head" /\ pc' = "rinstall" /\ lh' = head
  BY Zenon DEF read_head, diskvars
<1>2. Recovering /\ Recovering' /\ tail = 0
  BY <1>1, Zenon DEF Recovering, HeadInv, LogIInv
<1>3. TypeOK'
  BY <1>1, Zenon DEF TypeOK, PC, LogIInv
<1>4. CallInv'
  <2>1. Running = {} /\ Running' = {} /\ Slack = {} /\ Slack' = {}
    <3>1. Running = {} /\ Running' = Running
      BY <1>1, Zenon DEF CallInv, Running, LogIInv
    <3>2. Slack = {} /\ Slack' = Slack
      BY <1>1, <3>1, NoSlack, Zenon DEF Slack
    <3> QED
      BY <3>1, <3>2, Zenon
  <2>2. SleeperHasWaker'
    BY <1>1, Zenon DEF CallInv, SleeperHasWaker, LogIInv
  <2>3. (committing' <=> pc' \in Committing) /\ pc' # "normal"
    BY <1>1, Zenon DEF CallInv, Committing, LogIInv
  <2>4. Len(lh') + Cardinality(Slack') <= LOGBLOCKS
    BY <1>1, <2>1, FS_EmptySet, Facts DEF LogIInv
  <2>5. outstanding' = Cardinality(Running') /\ \A p \in Op : op'[p] = "idle" /\ wrote'[p] = {}
    BY <1>1, <1>2, <2>1, Zenon DEF CallInv, LogIInv
  <2> HIDE DEF LogIInv
  <2> QED
    BY <2>1, <2>2, <2>3, <2>4, <2>5, Zenon DEF CallInv
<1>5. HeadInv'
  BY <1>1, <1>2, Facts DEF HeadInv, LogIInv
<1>6. CacheInv'
  BY <1>1, <1>2, Zenon DEF CacheInv, Pinned, LogIInv
<1>7. CopyInv'
  BY <1>1, <1>2, Facts DEF CopyInv, Copied, Logged, LogIInv
<1> QED
  BY <1>3, <1>4, <1>5, <1>6, <1>7, Zenon DEF LogIInv

\* install_trans() in the recovery: a home block, perhaps torn, gets what
\* the log holds.
LEMMA ReinstallInv ==
    ASSUME LogIInv, rinstall_trans
    PROVE  LogIInv'
<1>1. /\ UNCHANGED <<logd, head, pin, lh, outstanding, committing, op, wrote>>
      /\ pc = "rinstall"
  BY Zenon DEF rinstall_trans
<1>2. Recovering /\ head = lh /\ tail <= Len(lh)
  BY <1>1, Zenon DEF Recovering, HeadInv, LogIInv
<1>3. CASE InstallBlock /\ pc' = pc
  <2> DEFINE b == lh[tail + 1]
  <2>1. /\ tail < Len(lh) /\ tail' = tail + 1
        /\ disk' = [disk EXCEPT ![b] = logd[tail + 1]]
        /\ cache' = [cache EXCEPT ![b] = logd[tail + 1]]
    BY <1>3, Zenon DEF InstallBlock
  <2>2. tail + 1 \in 1 .. Len(lh) /\ tail + 1 \in 1 .. LOGBLOCKS /\ b \in Block
    BY <2>1, Facts DEF LogIInv
  <2>3. logd[tail + 1] \in Val
    BY <1>2, <2>2, Zenon DEF CopyInv, LogIInv
  <2>4. \A k \in 1 .. Len(lh) : lh[k] = b => k = tail + 1
    BY <2>2, Zenon DEF HeadInv, LogIInv
  <2> HIDE DEF b
  <2>5. /\ disk'[b] = logd[tail + 1] /\ cache'[b] = logd[tail + 1]
        /\ \A c \in Block : c # b => disk'[c] = disk[c] /\ cache'[c] = cache[c]
    BY <2>1, <2>2, Zenon DEF TypeOK, LogIInv
  <2>6. Recovering' /\ \A c \in Block : ~Pinned(c) /\ ~Pinned(c)'
    <3>1. Recovering'
      BY <1>2, <1>3, Zenon DEF Recovering
    <3> QED
      BY <1>2, <3>1, Zenon DEF Pinned
  <2>7. TypeOK'
    <3>1. /\ disk' \in [Block -> Val \cup {Torn}]
          /\ cache' \in [Block -> Val \cup {Torn, NotCached}]
      BY <2>1, <2>2, <2>3, Zenon DEF TypeOK, LogIInv
    <3>2. tail' \in 0 .. LOGBLOCKS
      <4>1. tail \in Nat /\ LOGBLOCKS \in Nat
        BY Facts, Zenon DEF LogIInv
      <4> QED
        BY <2>1, <2>2, <4>1
    <3> QED
      BY <1>1, <1>3, <3>1, <3>2, Zenon DEF TypeOK, LogIInv
  <2>8. CallInv'
    BY <1>1, <1>3, CallFrame, Zenon DEF LogIInv
  <2>9. HeadInv'
    BY <1>1, <1>3, <2>1, <2>2 DEF HeadInv, LogIInv
  <2>10. CacheInv'
    BY <1>1, <2>5, <2>6, Zenon DEF CacheInv, LogIInv
  <2>11. CopyInv'
    <3>1. \A k \in 1 .. Len(lh) : k <= tail + 1 => disk'[lh[k]] = logd[k]
      <4>1. \A k \in 1 .. Len(lh) : k <= tail => disk[lh[k]] = logd[k] /\ lh[k] # b
        BY <1>1, <2>4, Facts DEF CopyInv, LogIInv
      <4>2. \A k \in 1 .. Len(lh) : k <= tail + 1 => k <= tail \/ k = tail + 1
        BY Facts DEF LogIInv
      <4> QED
        BY <2>5, <4>1, <4>2, Facts, Zenon DEF b, LogIInv
    <3>2. \A c \in Block : disk'[c] = Torn => Logged(c)'
      BY <1>1, <2>3, <2>5, LogAssumption DEF CopyInv, Logged, LogIInv
    <3>3. \A k \in 1 .. Len(head') : logd'[k] \in Val
      BY <1>1, Zenon DEF CopyInv, LogIInv
    <3> QED
      BY <1>1, <1>3, <2>1, <2>6, <3>1, <3>2, <3>3, Zenon DEF CopyInv, Copied
  <2> QED
    BY <2>7, <2>8, <2>9, <2>10, <2>11, Zenon DEF LogIInv
<1>4. CASE tail = Len(lh) /\ pc' = "rclear" /\ UNCHANGED <<disk, cache, tail>>
  <2>1. TypeOK'
    BY <1>1, <1>4, Zenon DEF TypeOK, PC, LogIInv
  <2>2. CallInv'
    BY <1>1, <1>2, <1>4, CallFrame, Zenon DEF Recovering, LogIInv
  <2>3. HeadInv'
    BY <1>1, <1>2, <1>4 DEF HeadInv, LogIInv
  <2>4. CacheInv'
    BY <1>1, <1>2, <1>4, Zenon DEF CacheInv, Pinned, Recovering, LogIInv
  <2>5. CopyInv'
    BY <1>1, <1>2, <1>4, Zenon DEF CopyInv, Copied, Recovering, Logged, LogIInv
  <2> QED
    BY <2>1, <2>2, <2>3, <2>4, <2>5, Zenon DEF LogIInv
<1> QED
  BY <1>3, <1>4, Zenon DEF rinstall_trans

-----------------------------------------------------------------------------
(* The invariant of the log. *)

\* Every step of the file system's calls, of commit(), of a crash and of the
\* recovery preserves the invariant.
LEMMA StepInv ==
    ASSUME LogIInv, [Next]_vars
    PROVE  LogIInv'
<1>1. CASE \E b \in Block : bread(b) \/ Recycle(b)
  BY <1>1, BreadInv, RecycleInv, Zenon
<1>2. CASE \E p \in Op : Call(p) \/ begin_op(p) \/ kkill(p) \/ end_op(p)
  BY <1>2, CallStepInv, BeginInv, KillInv, EndInv, Zenon
<1>3. CASE \E p \in Op, b \in Block, v \in Val : log_write(p, b, v)
  BY <1>3, WriteInv, Zenon
<1>4. CASE commit
  BY <1>4, WriteLogInv, WriteHeadInv, InstallInv, EraseInv, CommitDoneInv, Zenon DEF commit,
     clear
<1>5. CASE Crash
  BY <1>5, CrashInv, Zenon
<1>6. CASE recover_from_log
  BY <1>6, ReadHeadInv, ReinstallInv, EraseInv, Zenon DEF recover_from_log, rclear
<1>7. CASE UNCHANGED vars
  <2>1. /\ UNCHANGED <<disk, logd, head, cache, pin, lh, pc, tail>>
        /\ UNCHANGED <<outstanding, committing, op, wrote>>
    BY <1>7, Zenon DEF vars, diskvars, memvars
  <2>2. TypeOK'
    BY <2>1, Zenon DEF LogIInv, TypeOK
  <2>3. CallInv'
    BY <2>1, CallFrame, Zenon DEF LogIInv
  <2> QED
    BY <2>1, <2>2, <2>3, DataFrame, Zenon DEF LogIInv
<1> QED
  BY <1>1, <1>2, <1>3, <1>4, <1>5, <1>6, <1>7, Zenon DEF Next

\* The invariant makes the log sound.
LEMMA IInvImpliesLogInv ==
    ASSUME LogIInv
    PROVE  LogInv
<1>1. ReservationSuffices
  <2> SUFFICES ASSUME NEW p \in Running, Cardinality(wrote[p]) < MAXOPBLOCKS
               PROVE  Len(lh) < LOGBLOCKS
    BY Zenon DEF ReservationSuffices
  <2>1. IsFiniteSet(Slack) /\ Cardinality(Slack) \in Nat
    <3>1. Running \in SUBSET Op
      BY Zenon DEF Running
    <3>2. Slack \in SUBSET (Running \X (1 .. MAXOPBLOCKS))
      BY Zenon DEF Slack
    <3> QED
      BY <3>1, <3>2, SlackBound, Zenon
  <2>2. <<p, MAXOPBLOCKS>> \in Slack
    BY SlackMember, Facts DEF LogIInv
  <2>3. Cardinality(Slack) # 0
    BY <2>1, <2>2, FS_EmptySet, Zenon
  <2> QED
    BY <2>1, <2>3, Facts DEF CallInv, LogIInv
<1>2. CacheCoherent
  BY Zenon DEF CacheCoherent, CacheInv, CopyInv, LogIInv
<1> QED
  BY <1>1, <1>2, Zenon DEF LogInv, CallInv, LogIInv

(***************************************************************************)
(* The inductive invariant holds in every state of the log.                *)
(***************************************************************************)
THEOREM LogInvariant ==
    Spec => []LogIInv
<1>1. Init => LogIInv
  BY InitInv, Zenon
<1>2. LogIInv /\ [Next]_vars => LogIInv'
  BY StepInv, Zenon
<1> QED
  BY <1>1, <1>2, PTL DEF Spec

(***************************************************************************)
(* The log is sound for any number of blocks, calls and log slots: the     *)
(* space reserved by begin_op() suffices, recycled buffers lose nothing,   *)
(* no home block stays torn, and a process asleep in begin_op() has        *)
(* somebody to wake it.                                                    *)
(***************************************************************************)
THEOREM LogIsSound ==
    Spec => []LogInv
<1>1. LogIInv => LogInv
  BY IInvImpliesLogInv, Zenon
<1> QED
  BY <1>1, LogInvariant, PTL

-----------------------------------------------------------------------------
(* Crash atomicity: the log implements the transactional disk. *)

\* What a restart finds in a block that the header on disk names, and in one
\* that it does not name.
LEMMA DurableAt ==
    ASSUME HeadInv, NEW b \in Block
    PROVE  /\ \A k \in 1 .. Len(head) : head[k] = b => Durable[b] = logd[k]
           /\ ~Logged(b) => Durable[b] = disk[b]
<1>1. ASSUME NEW k \in 1 .. Len(head), head[k] = b
      PROVE  Durable[b] = logd[k]
  <2>1. Logged(b)
    BY <1>1, Zenon DEF Logged
  <2> DEFINE j == CHOOSE i \in 1 .. Len(head) : head[i] = b
  <2>2. j \in 1 .. Len(head) /\ head[j] = b
    BY <1>1, Zenon
  <2>3. j = k
    BY <1>1, <2>2, Zenon DEF HeadInv
  <2> QED
    BY <2>1, <2>3, Zenon DEF Durable
<1>2. ~Logged(b) => Durable[b] = disk[b]
  BY Zenon DEF Durable
<1> QED
  BY <1>1, <1>2, Zenon

\* The durable contents stay when the header stays, together with the log
\* blocks it names and the home blocks it does not name.
LEMMA DurableFrame ==
    ASSUME head' = head,
           \A k \in 1 .. Len(head) : logd'[k] = logd[k],
           \A b \in Block : ~Logged(b) => disk'[b] = disk[b]
    PROVE  Durable' = Durable
<1> SUFFICES ASSUME NEW b \in Block
             PROVE  Durable'[b] = Durable[b]
  <2>1. Durable = [b \in Block |-> Durable[b]] /\ Durable' = [b \in Block |-> Durable'[b]]
    BY DEF Durable
  <2> QED
    BY <2>1, Zenon
<1>1. Logged(b)' <=> Logged(b)
  BY Zenon DEF Logged
<1>2. CASE Logged(b)
  <2> DEFINE j == CHOOSE i \in 1 .. Len(head) : head[i] = b
  <2>1. j \in 1 .. Len(head)
    BY <1>2, Zenon DEF Logged
  <2>2. Durable[b] = logd[j] /\ Durable'[b] = logd'[j]
    BY <1>1, <1>2, Zenon DEF Durable
  <2> QED
    BY <2>1, <2>2, Zenon
<1>3. CASE ~Logged(b)
  BY <1>1, <1>3, Zenon DEF Durable
<1> QED
  BY <1>2, <1>3, Zenon

\* The contents that the running system reads stay when every block reads as
\* before.
LEMMA CurrentFrame ==
    ASSUME ~Recovering, ~Recovering', \A b \in Block : Data(b)' = Data(b)
    PROVE  Current' = Current
BY Zenon DEF Current

\* The buffer cache changes no contents.
LEMMA CacheStep ==
    ASSUME LogIInv, NEW b \in Block, bread(b) \/ Recycle(b)
    PROVE  UNCHANGED TD!vars
<1>1. UNCHANGED <<disk, logd, head, pin, op, pc>>
  BY Zenon DEF bread, Recycle, diskvars
<1>2. Durable' = Durable /\ Running' = Running /\ (Recovering' <=> Recovering)
  BY <1>1, DurableFrame, Zenon DEF Running, Recovering
<1>3. CASE Recovering
  BY <1>2, <1>3, Zenon DEF Current, TD!vars
<1>4. CASE ~Recovering
  <2>1. \A c \in Block : Data(c)' = Data(c)
    BY <1>1, Zenon DEF bread, Recycle, Data, LogIInv, TypeOK, CacheInv
  <2> QED
    BY <1>2, <1>4, <2>1, CurrentFrame, Zenon DEF TD!vars
<1> QED
  BY <1>3, <1>4, Zenon

\* Outside log_write(), commit() and crashes a step changes no contents.
LEMMA ContentsFrame ==
    ASSUME UNCHANGED <<disk, logd, head, cache>>, Recovering' <=> Recovering
    PROVE  Durable' = Durable /\ Current' = Current
<1>1. Durable' = Durable
  BY DurableFrame, Zenon
<1>2. \A b \in Block : Data(b)' = Data(b)
  BY Zenon DEF Data
<1> QED
  BY <1>1, <1>2, Zenon DEF Current

\* begin_op() either waits or starts a call of the transaction.
LEMMA BeginStep ==
    ASSUME LogIInv, NEW p \in Op, begin_op(p)
    PROVE  TD!Begin(p) \/ UNCHANGED TD!vars
<1>1. UNCHANGED <<disk, logd, head, cache, pc>> /\ op[p] = "begin" /\ p \notin Running
  BY Zenon DEF begin_op, diskvars, Running
<1>2. Durable' = Durable /\ Current' = Current
  BY <1>1, ContentsFrame, Zenon DEF Recovering
<1>3. CASE op' = [op EXCEPT ![p] = "asleep"]
  <2>1. Running' = Running
    BY <1>1, <1>3, Zenon DEF Running, LogIInv, TypeOK
  <2> QED
    BY <1>2, <2>1, Zenon DEF TD!vars
<1>4. CASE op' = [op EXCEPT ![p] = "run"]
  <2>1. Running' = Running \cup {p}
    BY <1>1, <1>4, Zenon DEF Running, LogIInv, TypeOK
  <2> QED
    BY <1>1, <1>2, <2>1, Zenon DEF TD!Begin
<1> QED
  BY <1>3, <1>4, Zenon DEF begin_op

\* A call that begins, or one that is killed in its sleep, is not active.
LEMMA CallKillStep ==
    ASSUME LogIInv, NEW p \in Op, Call(p) \/ kkill(p)
    PROVE  UNCHANGED TD!vars
<1>1. UNCHANGED <<disk, logd, head, cache, pc>>
  BY Zenon DEF Call, kkill, diskvars, memvars
<1>2. Durable' = Durable /\ Current' = Current
  BY <1>1, ContentsFrame, Zenon DEF Recovering
<1>3. Running' = Running
  BY Zenon DEF Call, kkill, Running, LogIInv, TypeOK
<1> QED
  BY <1>2, <1>3, Zenon DEF TD!vars

\* end_op() ends a call; what it wrote stays in memory.
LEMMA EndStep ==
    ASSUME LogIInv, NEW p \in Op, end_op(p)
    PROVE  TD!End(p)
<1>1. UNCHANGED <<disk, logd, head, cache>> /\ p \in Running
  BY Zenon DEF end_op, diskvars, Running
<1>2. pc = "normal" /\ pc' \in {"normal", "write_log", "done"}
  BY <1>1, Zenon DEF LogIInv, CallInv, end_op
<1>3. Durable' = Durable /\ Current' = Current
  BY <1>1, <1>2, ContentsFrame, Zenon DEF Recovering
<1>4. Running' = Running \ {p}
  <2>1. op \in [Op -> {"idle", "begin", "asleep", "run", "commit"}]
    BY Zenon DEF LogIInv, TypeOK
  <2>2. op' = [op EXCEPT ![p] = "commit"] \/ op' = [Woken EXCEPT ![p] = "idle"]
    BY Zenon DEF end_op
  <2> QED
    BY <2>1, <2>2, Zenon DEF Running, Woken
<1> QED
  BY <1>1, <1>3, <1>4, Zenon DEF TD!End

\* log_write() changes what the running system reads, and nothing durable.
LEMMA WriteStep ==
    ASSUME LogIInv, NEW p \in Op, NEW b \in Block, NEW v \in Val,
           log_write(p, b, v)
    PROVE  TD!Write(p, b, v)
<1>1. /\ UNCHANGED <<disk, logd, head, op, pc>> /\ p \in Running
      /\ cache' = [cache EXCEPT ![b] = v]
  <2>1. UNCHANGED <<diskvars, op, pc>> /\ op[p] = "run" /\ cache' = [cache EXCEPT ![b] = v]
    BY Zenon DEF log_write
  <2> QED
    BY <2>1, Zenon DEF diskvars, Running
<1>2. ~Recovering /\ ~Recovering'
  <2>1. pc = "normal"
    BY <1>1, Zenon DEF LogIInv, CallInv
  <2> QED
    BY <1>1, <2>1, Zenon DEF Recovering
<1>3. Durable' = Durable /\ Running' = Running
  BY <1>1, DurableFrame, Zenon DEF Running
<1>4. Current' = [Current EXCEPT ![b] = v]
  <2>1. v # NotCached
    BY LogAssumption, Zenon
  <2>2. \A c \in Block : Data(c)' = IF c = b THEN v ELSE Data(c)
    BY <1>1, <2>1, Zenon DEF Data, LogIInv, TypeOK
  <2> QED
    BY <1>2, <2>2, Zenon DEF Current
<1> QED
  BY <1>1, <1>3, <1>4, Zenon DEF TD!Write

\* write_log() writes where no header points.
LEMMA WriteLogStep ==
    ASSUME LogIInv, write_log
    PROVE  UNCHANGED TD!vars
<1>1. /\ UNCHANGED <<disk, head, cache, op>>
      /\ pc = "write_log" /\ pc' \in {"write_log", "write_head"}
  BY Zenon DEF write_log, memvars
<1>2. Len(head) = 0 /\ ~Recovering /\ ~Recovering'
  BY <1>1, Zenon DEF LogIInv, HeadInv, Recovering
<1>3. Durable' = Durable
  BY <1>1, <1>2, DurableFrame
<1>4. \A b \in Block : Data(b)' = Data(b)
  BY <1>1, Zenon DEF Data
<1> QED
  BY <1>1, <1>2, <1>3, <1>4, CurrentFrame, Zenon DEF Running, TD!vars

\* write_head() makes everything that the running system reads durable, in
\* one step and while no call is active.
LEMMA WriteHeadStep ==
    ASSUME LogIInv, write_head
    PROVE  TD!Commit
<1>1. /\ UNCHANGED <<disk, logd, cache, lh, op>> /\ head' = lh
      /\ pc = "write_head" /\ pc' = "install"
  BY Zenon DEF write_head, memvars
<1>2. ~Recovering /\ ~Recovering' /\ Running = {} /\ Running' = {}
  BY <1>1, Zenon DEF CallInv, Recovering, Running, LogIInv
<1>3. Current' = Current
  BY <1>1, <1>2, CurrentFrame, Zenon DEF Data
<1>4. ASSUME NEW b \in Block
      PROVE  Durable'[b] = Data(b)
  <2>1. CASE InLog(b)
    <3> DEFINE j == CHOOSE i \in 1 .. Len(lh) : lh[i] = b
    <3>1. j \in 1 .. Len(lh) /\ lh[j] = b
      BY <2>1, Zenon DEF InLog
    <3>2. Durable'[b] = logd[j]
      <4>1. Logged(b)'
        BY <1>1, <2>1, Zenon DEF Logged, InLog
      <4> QED
        BY <1>1, <4>1, Zenon DEF Durable
    <3> HIDE DEF j
    <3>3. logd[j] = cache[b]
      BY <1>1, <3>1, Zenon DEF CopyInv, Copied, LogIInv
    <3>4. cache[b] \in Val
      <4>1. Pinned(b)
        BY <1>1, <1>2, <3>1, Zenon DEF Pinned
      <4> QED
        BY <4>1, Zenon DEF CacheInv, LogIInv
    <3> QED
      BY <3>2, <3>3, <3>4, LogAssumption, Zenon DEF Data
  <2>2. CASE ~InLog(b)
    <3>1. Durable'[b] = disk[b]
      BY <1>1, <2>2, Zenon DEF Durable, Logged, InLog
    <3>2. pin[b] = 0
      BY <2>2, Zenon DEF CacheInv, Pinned, InLog, LogIInv
    <3> QED
      BY <3>1, <3>2, Zenon DEF CacheInv, Data, LogIInv
  <2> QED
    BY <2>1, <2>2, Zenon
<1>5. Durable' = Current
  <2>1. Durable' = [b \in Block |-> Durable'[b]]
    BY DEF Durable
  <2>2. Current = [b \in Block |-> Data(b)]
    BY <1>2, Zenon DEF Current
  <2> QED
    BY <1>4, <2>1, <2>2, Zenon
<1> QED
  BY <1>2, <1>3, <1>5, Zenon DEF TD!Commit

\* install_trans() in commit() repeats on the home blocks what is durable in
\* the log already.
LEMMA InstallStep ==
    ASSUME LogIInv, install_trans
    PROVE  UNCHANGED TD!vars
<1>1. /\ UNCHANGED <<logd, head, lh, op>> /\ pc = "install" /\ pc' \in {"install", "clear"}
  BY Zenon DEF install_trans
<1>2. ~Recovering /\ ~Recovering' /\ head = lh
  BY <1>1, Zenon DEF Recovering, HeadInv, LogIInv
<1>3. CASE InstallBlock
  <2> DEFINE b == lh[tail + 1]
  <2>1. /\ tail < Len(lh)
        /\ disk' = [disk EXCEPT ![b] = logd[tail + 1]]
        /\ cache' = [cache EXCEPT ![b] = logd[tail + 1]]
    BY <1>3, Zenon DEF InstallBlock
  <2>2. tail + 1 \in 1 .. Len(lh) /\ b \in Block
    BY <2>1, Facts DEF LogIInv
  <2>3. Logged(b)
    BY <1>2, <2>2, Zenon DEF Logged
  <2>4. logd[tail + 1] = cache[b] /\ cache[b] \in Val
    <3>1. logd[tail + 1] = cache[b]
      BY <1>1, <2>2, Facts DEF CopyInv, Copied, LogIInv
    <3>2. logd[tail + 1] \in Val
      BY <1>2, <2>2, Zenon DEF CopyInv, LogIInv
    <3> QED
      BY <3>1, <3>2, Zenon
  <2> HIDE DEF b
  <2>5. Durable' = Durable
    BY <1>1, <2>1, <2>3, DurableFrame DEF TypeOK
  <2>6. \A c \in Block : Data(c)' = Data(c)
    BY <2>1, <2>2, <2>4, LogAssumption DEF Data, TypeOK
  <2> QED
    BY <1>1, <1>2, <2>5, <2>6, CurrentFrame, Zenon DEF Running, TD!vars
<1>4. CASE UNCHANGED <<disk, cache>>
  <2>1. Durable' = Durable /\ Current' = Current
    BY <1>1, <1>2, <1>4, ContentsFrame, Zenon
  <2> QED
    BY <1>1, <2>1, Zenon DEF Running, TD!vars
<1> QED
  BY <1>3, <1>4, Zenon DEF install_trans

\* Erasing the header changes nothing: every block it names is installed.
\* After the recovery the running system reads the durable contents.
LEMMA EraseStep ==
    ASSUME LogIInv, EraseHead,
           \/ pc = "clear" /\ pc' = "done"
           \/ pc = "rclear" /\ pc' = "normal"
    PROVE  UNCHANGED TD!vars
<1>1. UNCHANGED <<disk, logd, cache, op>> /\ head' = << >> /\ Len(head') = 0
  BY Zenon DEF EraseHead
<1>2. head = lh /\ tail = Len(lh) /\ ~Recovering'
  BY Zenon DEF HeadInv, Recovering, LogIInv
<1>3. \A b \in Block : Durable'[b] = disk[b]
  BY <1>1 DEF Durable, Logged
<1>4. ASSUME NEW b \in Block
      PROVE  Durable[b] = disk[b]
  <2>1. CASE Logged(b)
    <3>1. PICK k \in 1 .. Len(head) : head[k] = b
      BY <2>1, Zenon DEF Logged
    <3>2. Durable[b] = logd[k]
      BY <3>1, DurableAt, Zenon DEF LogIInv
    <3>3. disk[b] = logd[k]
      BY <1>2, <3>1, Facts DEF CopyInv, LogIInv
    <3> QED
      BY <3>2, <3>3, Zenon
  <2>2. CASE ~Logged(b)
    BY <2>2, DurableAt, Zenon DEF LogIInv
  <2> QED
    BY <2>1, <2>2, Zenon
<1>5. Durable' = Durable
  BY <1>3, <1>4, Zenon DEF Durable
<1>6. Current' = Current
  <2>1. CASE pc = "clear"
    <3>1. ~Recovering
      BY <2>1, Zenon DEF Recovering
    <3> QED
      BY <1>1, <1>2, <3>1, CurrentFrame, Zenon DEF Data
  <2>2. CASE pc = "rclear"
    <3>1. Recovering /\ Current = Durable
      BY <2>2, Zenon DEF Recovering, Current
    <3>2. \A b \in Block : Data(b)' = disk[b]
      <4>1. \A b \in Block : pin[b] = 0
        BY <3>1, Zenon DEF CacheInv, Pinned, LogIInv
      <4> QED
        BY <1>1, <4>1, Zenon DEF Data, CacheInv, LogIInv
    <3>3. Current' = [b \in Block |-> disk[b]]
      BY <1>2, <3>2, Zenon DEF Current
    <3>4. Durable = [b \in Block |-> disk[b]]
      BY <1>4, Zenon DEF Durable
    <3> QED
      BY <3>1, <3>3, <3>4, Zenon
  <2> QED
    BY <2>1, <2>2, Zenon
<1> QED
  BY <1>1, <1>5, <1>6, Zenon DEF Running, TD!vars

\* The end of commit() changes no contents.
LEMMA CommitDoneStep ==
    ASSUME LogIInv, commit_done
    PROVE  UNCHANGED TD!vars
<1>1. UNCHANGED <<disk, logd, head, cache>> /\ pc = "done" /\ pc' = "normal"
  BY Zenon DEF commit_done, diskvars
<1>2. Durable' = Durable /\ Current' = Current
  BY <1>1, ContentsFrame, Zenon DEF Recovering
<1>3. Running' = Running
  BY Zenon DEF commit_done, Running, Woken
<1> QED
  BY <1>2, <1>3, Zenon DEF TD!vars

\* A crash at any point, also inside a disk write, leaves what is durable as
\* it is, and the running system falls back to it.
LEMMA CrashStep ==
    ASSUME LogIInv, Crash
    PROVE  TD!Crash
<1>1. head' = head /\ Recovering' /\ Running' = {}
  BY Zenon DEF Crash, Recovering, Running
<1>2. Durable' = Durable
  <2>1. CASE UNCHANGED <<disk, logd>>
    BY <1>1, <2>1, DurableFrame, Zenon
  <2>2. CASE /\ pc = "write_log" /\ UNCHANGED disk
    <3>1. Len(head) = 0
      BY <2>2 DEF HeadInv, LogIInv
    <3> QED
      BY <1>1, <2>2, <3>1, DurableFrame
  <2>3. CASE /\ pc \in {"install", "rinstall"} /\ tail < Len(lh)
             /\ disk' = [disk EXCEPT ![lh[tail + 1]] = Torn] /\ UNCHANGED logd
    <3>1. head = lh /\ tail + 1 \in 1 .. Len(lh)
      BY <2>3, Facts DEF HeadInv, LogIInv
    <3>2. Logged(lh[tail + 1])
      BY <3>1, Zenon DEF Logged
    <3>3. \A b \in Block : ~Logged(b) => disk'[b] = disk[b]
      BY <2>3, <3>2 DEF TypeOK
    <3> QED
      BY <1>1, <2>3, <3>3, DurableFrame, Zenon
  <2> QED
    BY <2>1, <2>2, <2>3, Zenon DEF Crash, TornDisk
<1>3. Current' = Durable
  BY <1>1, <1>2, Zenon DEF Current
<1> QED
  BY <1>1, <1>2, <1>3, Zenon DEF TD!Crash

\* The recovery reads the header and installs again; a restart in the middle
\* of it finds the same contents.
LEMMA RecoverStep ==
    ASSUME LogIInv, read_head \/ rinstall_trans
    PROVE  UNCHANGED TD!vars
<1>1. UNCHANGED <<logd, head, op>> /\ Recovering /\ Recovering'
  BY Zenon DEF read_head, rinstall_trans, diskvars, Recovering
<1>2. Durable' = Durable
  <2>1. CASE UNCHANGED disk
    BY <1>1, <2>1, DurableFrame, Zenon
  <2>2. CASE rinstall_trans /\ InstallBlock
    <3>1. /\ disk' = [disk EXCEPT ![lh[tail + 1]] = logd[tail + 1]]
          /\ tail < Len(lh) /\ pc = "rinstall"
      BY <2>2, Zenon DEF InstallBlock, rinstall_trans
    <3>2. head = lh /\ tail + 1 \in 1 .. Len(lh)
      BY <3>1, Facts DEF HeadInv, LogIInv
    <3>3. Logged(lh[tail + 1])
      BY <3>2, Zenon DEF Logged
    <3>4. \A b \in Block : ~Logged(b) => disk'[b] = disk[b]
      BY <3>1, <3>3 DEF TypeOK
    <3> QED
      BY <1>1, <3>4, DurableFrame, Zenon
  <2> QED
    BY <2>1, <2>2, Zenon DEF read_head, rinstall_trans, diskvars
<1> QED
  BY <1>1, <1>2, Zenon DEF Current, Running, TD!vars

\* Every step of the log is a step of the transactional disk, or none.
LEMMA RefinementStep ==
    ASSUME LogIInv, [Next]_vars
    PROVE  [TD!Next]_(TD!vars)
<1>1. CASE \E b \in Block : bread(b) \/ Recycle(b)
  BY <1>1, CacheStep, Zenon
<1>2. CASE \E p \in Op : Call(p) \/ begin_op(p) \/ kkill(p) \/ end_op(p)
  BY <1>2, CallKillStep, BeginStep, EndStep, Zenon DEF TD!Next
<1>3. CASE \E p \in Op, b \in Block, v \in Val : log_write(p, b, v)
  BY <1>3, WriteStep, Zenon DEF TD!Next
<1>4. CASE commit
  BY <1>4, WriteLogStep, WriteHeadStep, InstallStep, EraseStep, CommitDoneStep, Zenon
     DEF commit, clear, TD!Next
<1>5. CASE Crash
  BY <1>5, CrashStep, Zenon DEF TD!Next
<1>6. CASE recover_from_log
  BY <1>6, RecoverStep, EraseStep, Zenon DEF recover_from_log, rclear
<1>7. CASE UNCHANGED vars
  <2>1. UNCHANGED <<disk, logd, head, cache, op, pc>>
    BY <1>7, Zenon DEF vars, diskvars, memvars
  <2>2. Durable' = Durable /\ Current' = Current /\ Running' = Running
    BY <2>1, ContentsFrame, Zenon DEF Recovering, Running
  <2> QED
    BY <2>2, Zenon DEF TD!vars
<1> QED
  BY <1>1, <1>2, <1>3, <1>4, <1>5, <1>6, <1>7, Zenon DEF Next

(***************************************************************************)
(* Crash atomicity for any number of blocks, calls and log slots: the log  *)
(* implements the transactional disk.  The writes of the calls that share  *)
(* a transaction become durable in one step, write_head(), while no call   *)
(* is active, and a crash at any point loses exactly the writes made since *)
(* the last commit.                                                        *)
(***************************************************************************)
THEOREM LogIsCrashAtomic ==
    Spec => CrashAtomic
<1>1. Init => TD!Init
  <2> SUFFICES ASSUME Init PROVE TD!Init
    BY Zenon
  <2>1. Len(head) = 0 /\ ~Recovering /\ disk = [b \in Block |-> InitVal]
    BY Zenon DEF Init, Recovering
  <2>2. Durable = [b \in Block |-> InitVal]
    BY <2>1 DEF Durable, Logged
  <2>3. Current = [b \in Block |-> InitVal]
    BY <2>1, Zenon DEF Init, Current, Data
  <2>4. Running = {}
    BY Zenon DEF Init, Running
  <2> QED
    BY <2>2, <2>3, <2>4, Zenon DEF TD!Init
<1>2. LogIInv /\ [Next]_vars => [TD!Next]_(TD!vars)
  BY RefinementStep, Zenon
<1> QED
  BY <1>1, <1>2, LogInvariant, PTL DEF Spec, CrashAtomic, TD!Spec
=============================================================================
