-------------------------------- MODULE Log ---------------------------------
(***************************************************************************)
(* The write-ahead log of log.c, with the part of the buffer cache (bio.c) *)
(* it depends on.  Processes run file system operations between begin_op   *)
(* and end_op; the last end_op commits the group; the machine may lose     *)
(* power at any step, including inside recovery.                           *)
(*                                                                         *)
(* Granularity.  Code under log.lock is one step.  A disk write (bwrite)   *)
(* is one step and writes its block whole: iderw returns only when the     *)
(* controller has finished, so one process's writes reach the disk in      *)
(* program order.  Everything between two such points may interleave.      *)
(***************************************************************************)
EXTENDS Naturals, Sequences, FiniteSets

CONSTANTS Proc,        \* processes that run file system operations
          Block,       \* disk blocks outside the log
          Value,       \* contents of a block
          Zero,        \* the content mkfs gives the log area
          NoBlock,     \* "no block": an absent buffer, no buffer held
          MAXOPBLOCKS, \* param.h: what begin_op reserves for one operation
          LOGSIZE,     \* param.h: what begin_op hands out in all
          NLOG,        \* sb.nlog: blocks of the on-disk log, header included
          OpMax        \* distinct blocks an operation really writes

ASSUME LogConstants ==
  /\ MAXOPBLOCKS \in Nat \ {0} /\ LOGSIZE \in Nat /\ NLOG \in Nat \ {0}
  /\ OpMax \in 0..MAXOPBLOCKS
  /\ Zero \in Value /\ NoBlock \notin Value /\ NoBlock \notin Block
  /\ IsFiniteSet(Proc)

\* The operations leave the log enough room: they write fewer blocks than
\* begin_op reserves, by at least the slack log_write's own check needs.
LogRoom == /\ OpMax < MAXOPBLOCKS /\ MAXOPBLOCKS <= LOGSIZE
           /\ LOGSIZE + OpMax + 2 <= NLOG + MAXOPBLOCKS

VARIABLES
  home,         \* disk: the blocks at their home location
  head,         \* disk: the log header, the blocks of a committed transaction
  area,         \* disk: the log blocks after the header
  cache,        \* buffer cache: the content of a cached block, or NoBlock
  dirty,        \* buffer cache: the buffers with B_DIRTY, never recycled
  outstanding,  \* log.outstanding
  committing,   \* log.committing
  lh,           \* log.lh, the in-memory header
  tail,         \* the loop counter of write_log and install_trans
  pc,           \* where each process is in begin_op, log_write and end_op
  buf,          \* the buffer (its sleep lock) a process holds for log_write
  wrote,        \* the blocks the current operation of a process has written
  sys           \* "boot" | "recover" | "up" | "panic"

disk == <<home, head, area>>
bcache == <<cache, dirty>>
log == <<outstanding, committing, lh, tail>>
ctl == <<pc, buf, wrote>>
vars == <<disk, bcache, log, ctl, sys>>

Slot == 1..(NLOG - 1)
InOp == {p \in Proc : pc[p] \in {"inop", "check", "append"}}
Held == {buf[p] : p \in Proc} \ {NoBlock}
Logged == {lh[i] : i \in 1..Len(lh)}

\* What bread returns: the cached buffer, else the block from the disk.
View(b) == IF cache[b] = NoBlock THEN home[b] ELSE cache[b]

\* wakeup(&log): everyone asleep in begin_op tests the condition again.
Wakeup(f) == [p \in Proc |-> IF f[p] = "asleep" THEN "begin" ELSE f[p]]

Init == /\ home \in [Block -> Value] /\ head = <<>> /\ area = [i \in Slot |-> Zero]
        /\ cache = [b \in Block |-> NoBlock] /\ dirty = {}
        /\ outstanding = 0 /\ committing = FALSE /\ lh = <<>> /\ tail = 0
        /\ pc = [p \in Proc |-> "idle"] /\ buf = [p \in Proc |-> NoBlock]
        /\ wrote = [p \in Proc |-> {}]
        /\ sys = "boot"

Panic == sys' = "panic" /\ UNCHANGED <<disk, bcache, log, ctl>>

(***************************************************************************)
(* The buffer cache, as far as the log depends on it.                      *)
(***************************************************************************)
\* bread by any reader: an absent block is read from its home location.
Bread(b) == /\ sys = "up"
            /\ cache[b] = NoBlock
            /\ cache' = [cache EXCEPT ![b] = home[b]]
            /\ UNCHANGED <<disk, dirty, log, ctl, sys>>

\* bget recycles a buffer nobody holds, unless B_DIRTY is set.
Recycle(b) == /\ sys = "up"
              /\ cache[b] # NoBlock
              /\ b \notin Held
              /\ b \notin dirty
              /\ cache' = [cache EXCEPT ![b] = NoBlock]
              /\ UNCHANGED <<disk, dirty, log, ctl, sys>>

(***************************************************************************)
(* File system operations.                                                 *)
(***************************************************************************)
\* Mutant: the operation that is about to start is not counted.
NoRoom_NotCounted == Len(lh) + outstanding * MAXOPBLOCKS > LOGSIZE

\* Mutant: begin_op does not wait for space.
NoRoom_Never == FALSE

\* begin_op's test: this operation might exhaust the log.
NoRoom == Len(lh) + (outstanding + 1) * MAXOPBLOCKS > LOGSIZE

\* begin_op, one pass of its loop that sleeps.
BeginSleep(p) == /\ sys = "up"
                 /\ pc[p] \in {"idle", "begin"}
                 /\ committing \/ NoRoom
                 /\ pc' = [pc EXCEPT ![p] = "asleep"]
                 /\ UNCHANGED <<disk, bcache, log, buf, wrote, sys>>

\* Mutant: the operation is not counted in log.outstanding.
BeginOp_NoCount(p) ==
  /\ sys = "up" /\ pc[p] \in {"idle", "begin"} /\ ~committing /\ ~NoRoom
  /\ pc' = [pc EXCEPT ![p] = "inop"]
  /\ wrote' = [wrote EXCEPT ![p] = {}]
  /\ UNCHANGED <<disk, bcache, log, buf, sys>>

\* Mutant: begin_op does not wait for a running commit.
BeginOp_DuringCommit(p) ==
  /\ sys = "up" /\ pc[p] \in {"idle", "begin"} /\ ~NoRoom
  /\ outstanding' = outstanding + 1
  /\ pc' = [pc EXCEPT ![p] = "inop"]
  /\ wrote' = [wrote EXCEPT ![p] = {}]
  /\ UNCHANGED <<disk, bcache, committing, lh, tail, buf, sys>>

\* begin_op, the pass that reserves space and returns.
BeginOp(p) == /\ sys = "up"
              /\ pc[p] \in {"idle", "begin"}
              /\ ~committing
              /\ ~NoRoom
              /\ outstanding' = outstanding + 1
              /\ pc' = [pc EXCEPT ![p] = "inop"]
              /\ wrote' = [wrote EXCEPT ![p] = {}]
              /\ UNCHANGED <<disk, bcache, committing, lh, tail, buf, sys>>

\* kill() makes a sleeping process runnable whatever it waits for.
KillWakeup(p) == /\ sys = "up"
                 /\ pc[p] = "asleep"
                 /\ pc' = [pc EXCEPT ![p] = "begin"]
                 /\ UNCHANGED <<disk, bcache, log, buf, wrote, sys>>

\* The operation breads a block and changes the buffer, holding its lock, as
\* writei, iupdate, bzero, balloc and the others in fs.c do before log_write.
Modify(p, b, v) == /\ sys = "up"
                   /\ pc[p] = "inop"
                   /\ b \notin Held
                   /\ Cardinality(wrote[p] \cup {b}) <= OpMax
                   /\ cache' = [cache EXCEPT ![b] = v]
                   /\ buf' = [buf EXCEPT ![p] = b]
                   /\ pc' = [pc EXCEPT ![p] = "check"]
                   /\ UNCHANGED <<disk, dirty, log, wrote, sys>>

\* log_write, the two tests it makes before it takes log.lock.
LogCheck(p) ==
  /\ sys = "up"
  /\ pc[p] = "check"
  /\ IF Len(lh) >= LOGSIZE \/ Len(lh) >= NLOG - 1 \/ outstanding < 1
     THEN Panic
     ELSE /\ pc' = [pc EXCEPT ![p] = "append"]
          /\ UNCHANGED <<disk, bcache, log, buf, wrote, sys>>

\* Mutant: log_write does not set B_DIRTY.
LogAppend_NotPinned(p) ==
  /\ sys = "up" /\ pc[p] = "append"
  /\ lh' = IF buf[p] \in Logged THEN lh ELSE Append(lh, buf[p])
  /\ buf' = [buf EXCEPT ![p] = NoBlock]
  /\ wrote' = [wrote EXCEPT ![p] = @ \cup {buf[p]}]
  /\ pc' = [pc EXCEPT ![p] = "inop"]
  /\ UNCHANGED <<disk, bcache, outstanding, committing, tail, sys>>

\* log_write under log.lock, with absorption, and the caller's brelse.
LogAppend(p) ==
  /\ sys = "up"
  /\ pc[p] = "append"
  /\ lh' = IF buf[p] \in Logged THEN lh ELSE Append(lh, buf[p])
  /\ dirty' = dirty \cup {buf[p]}
  /\ buf' = [buf EXCEPT ![p] = NoBlock]
  /\ wrote' = [wrote EXCEPT ![p] = @ \cup {buf[p]}]
  /\ pc' = [pc EXCEPT ![p] = "inop"]
  /\ UNCHANGED <<disk, cache, outstanding, committing, tail, sys>>

\* Mutant: commit() installs without writing the log first.
EndOp_NoLog(p) ==
  /\ sys = "up" /\ pc[p] = "inop" /\ ~committing
  /\ outstanding' = outstanding - 1
  /\ committing' = (outstanding = 1)
  /\ pc' = IF outstanding = 1 THEN [pc EXCEPT ![p] = "install"]
           ELSE Wakeup([pc EXCEPT ![p] = "idle"])
  /\ tail' = 0
  /\ UNCHANGED <<disk, bcache, lh, buf, wrote, sys>>

\* end_op up to the release of log.lock.  The last operation out commits.
EndOp(p) ==
  /\ sys = "up"
  /\ pc[p] = "inop"
  /\ IF committing
     THEN Panic
     ELSE /\ outstanding' = outstanding - 1
          /\ committing' = (outstanding = 1)
          /\ pc' = IF outstanding = 1
                   THEN [pc EXCEPT ![p] = IF lh = <<>> THEN "done" ELSE "write_log"]
                   ELSE Wakeup([pc EXCEPT ![p] = "idle"])
          /\ tail' = 0
          /\ UNCHANGED <<disk, bcache, lh, buf, wrote, sys>>

(***************************************************************************)
(* commit(), without log.lock.                                             *)
(***************************************************************************)
\* write_log, one iteration: the cached block goes to its log block.
WriteLog(p) == /\ sys = "up"
               /\ pc[p] = "write_log"
               /\ tail < Len(lh)
               /\ area' = [area EXCEPT ![tail + 1] = View(lh[tail + 1])]
               /\ cache' = [cache EXCEPT ![lh[tail + 1]] = View(lh[tail + 1])]
               /\ tail' = tail + 1
               /\ UNCHANGED <<home, head, dirty, outstanding, committing, lh, ctl, sys>>

\* Mutant: the header is written before the blocks are in the log.
WriteHead_Early(p) ==
  /\ sys = "up" /\ pc[p] = "write_log"
  /\ head' = lh
  /\ pc' = [pc EXCEPT ![p] = "install"]
  /\ tail' = 0
  /\ UNCHANGED <<home, area, bcache, outstanding, committing, lh, buf, wrote, sys>>

\* write_head with the transaction's blocks: the commit point.
WriteHead(p) == /\ sys = "up"
                /\ pc[p] = "write_log"
                /\ tail = Len(lh)
                /\ head' = lh
                /\ pc' = [pc EXCEPT ![p] = "install"]
                /\ tail' = 0
                /\ UNCHANGED <<home, area, bcache, outstanding, committing, lh, buf, wrote, sys>>

\* install_trans, one iteration: the log block goes home and its buffer is
\* no longer dirty (bwrite through iderw clears B_DIRTY).
InstallOne == /\ tail < Len(lh)
              /\ home' = [home EXCEPT ![lh[tail + 1]] = area[tail + 1]]
              /\ cache' = [cache EXCEPT ![lh[tail + 1]] = area[tail + 1]]
              /\ dirty' = dirty \ {lh[tail + 1]}
              /\ tail' = tail + 1
              /\ UNCHANGED <<head, area, outstanding, committing, lh, ctl, sys>>

\* Mutant: only the in-memory header is cleared.
EraseLog_MemoryOnly ==
  /\ tail = Len(lh)
  /\ lh' = <<>>
  /\ tail' = 0
  /\ UNCHANGED <<disk, bcache, outstanding, committing, buf, wrote>>

\* log.lh.n = 0 and write_head: the transaction is erased from the log.
EraseLog == /\ tail = Len(lh)
            /\ lh' = <<>>
            /\ head' = <<>>
            /\ tail' = 0
            /\ UNCHANGED <<home, area, bcache, outstanding, committing, buf, wrote>>

Install(p) == sys = "up" /\ pc[p] = "install" /\ InstallOne

Erase(p) == /\ sys = "up"
            /\ pc[p] = "install"
            /\ EraseLog
            /\ pc' = [pc EXCEPT ![p] = "done"]
            /\ UNCHANGED sys

\* Mutant: nobody is woken when the commit is over.
CommitDone_NoWakeup(p) ==
  /\ sys = "up" /\ pc[p] = "done"
  /\ committing' = FALSE
  /\ pc' = [pc EXCEPT ![p] = "idle"]
  /\ UNCHANGED <<disk, bcache, outstanding, lh, tail, buf, wrote, sys>>

\* end_op after commit() returns.
CommitDone(p) == /\ sys = "up"
                 /\ pc[p] = "done"
                 /\ committing' = FALSE
                 /\ pc' = Wakeup([pc EXCEPT ![p] = "idle"])
                 /\ UNCHANGED <<disk, bcache, outstanding, lh, tail, buf, wrote, sys>>

(***************************************************************************)
(* Power loss, and recovery by the first process before any operation.     *)
(***************************************************************************)
Crash == /\ sys' = "boot"
         /\ cache' = [b \in Block |-> NoBlock] /\ dirty' = {}
         /\ outstanding' = 0 /\ committing' = FALSE /\ lh' = <<>> /\ tail' = 0
         /\ pc' = [p \in Proc |-> "idle"] /\ buf' = [p \in Proc |-> NoBlock]
         /\ wrote' = [p \in Proc |-> {}]
         /\ UNCHANGED disk

\* initlog and read_head.
ReadHead == /\ sys = "boot"
            /\ lh' = head
            /\ tail' = 0
            /\ sys' = "recover"
            /\ UNCHANGED <<disk, bcache, outstanding, committing, ctl>>

RecoverInstall == sys = "recover" /\ InstallOne

RecoverErase == /\ sys = "recover"
                /\ EraseLog
                /\ sys' = "up"
                /\ UNCHANGED pc

Step(p) == \/ BeginSleep(p) \/ BeginOp(p) \/ KillWakeup(p)
           \/ \E b \in Block, v \in Value : Modify(p, b, v)
           \/ LogCheck(p) \/ LogAppend(p) \/ EndOp(p)
           \/ WriteLog(p) \/ WriteHead(p) \/ Install(p) \/ Erase(p) \/ CommitDone(p)

Recover == ReadHead \/ RecoverInstall \/ RecoverErase

Next == \/ \E p \in Proc : Step(p)
        \/ \E b \in Block : Bread(b) \/ Recycle(b)
        \/ Recover
        \/ Crash

Spec == Init /\ [][Next]_vars

\* The scheduling the liveness property assumes: every process that can take
\* its next step in log.c takes it, and every operation makes finitely many
\* log_writes before its end_op.  Crashes and kills are never owed.
FairSpec == /\ Spec
            /\ WF_vars(Recover)
            /\ \A p \in Proc :
                 /\ WF_vars(BeginOp(p)) /\ WF_vars(LogCheck(p)) /\ WF_vars(LogAppend(p))
                 /\ WF_vars(WriteLog(p)) /\ WF_vars(WriteHead(p)) /\ WF_vars(Install(p))
                 /\ WF_vars(Erase(p)) /\ WF_vars(CommitDone(p))
                 /\ SF_vars(EndOp(p))

(***************************************************************************)
(* Properties.                                                             *)
(***************************************************************************)
PC == {"idle", "begin", "asleep", "inop", "check", "append",
       "write_log", "install", "done"}

\* The variables of log.c and of the buffers keep their types.
TypeOK == /\ home \in [Block -> Value]
          /\ head \in Seq(Block)
          /\ area \in [Slot -> Value]
          /\ cache \in [Block -> Value \cup {NoBlock}]
          /\ dirty \subseteq Block
          /\ outstanding \in Nat
          /\ committing \in BOOLEAN
          /\ lh \in Seq(Block)
          /\ tail \in Nat
          /\ pc \in [Proc -> PC]
          /\ buf \in [Proc -> Block \cup {NoBlock}]
          /\ wrote \in [Proc -> SUBSET Block]
          /\ sys \in {"boot", "recover", "up", "panic"}

\* The reservation made by begin_op is enough: however the operations
\* interleave, no log_write and no end_op reaches one of its panics
\* ("too big a transaction", "log_write outside of trans", "log.committing").
NoPanic == sys # "panic"

\* The in-memory header never lists more blocks than the on-disk log holds,
\* although log_write tests the space before it takes log.lock.
LogFits == Len(lh) <= LOGSIZE /\ Len(lh) <= NLOG - 1

\* The disk a reboot would show: recovery installs the logged blocks.
Durable == [b \in Block |->
              IF \E i \in 1..Len(head) : head[i] = b
              THEN area[CHOOSE i \in 1..Len(head) : head[i] = b]
              ELSE home[b]]

\* The disk the kernel shows.
Current == [b \in Block |-> IF sys \in {"up", "panic"} THEN View(b) ELSE Durable[b]]

TX == INSTANCE TxDisk WITH durable <- Durable, current <- Current, active <- InOp

\* Whatever the interleaving and wherever the power fails, even twice inside
\* recovery, log.c gives a disk on which whole groups of finished operations
\* become durable at one instant and an unfinished operation never does.
CrashAtomic == TX!Spec

\* Once end_op has returned and no operation is left, everything written is
\* at its home location and the on-disk log is empty: nothing depends on a
\* replay, and nothing stays pinned in the cache.
QuiescentIsDurable ==
  sys = "up" /\ outstanding = 0 /\ ~committing
    => /\ \A b \in Block : View(b) = home[b]
       /\ head = <<>> /\ lh = <<>> /\ dirty = {}

\* A buffer whose content is newer than the disk cannot be recycled: someone
\* holds it or log_write has set B_DIRTY.  And B_DIRTY pins nothing beyond
\* the transaction: only blocks that the in-memory header lists carry it.
ModifiedIsPinned ==
  sys = "up" =>
    /\ \A b \in Block : View(b) # home[b] => b \in Held \cup dirty
    /\ dirty \subseteq Logged

\* The write-ahead rule: a home block changes only when the header on the
\* disk lists it, and then to the logged content.
WriteAhead ==
  [][\A b \in Block : home'[b] # home[b] =>
       \E i \in 1..Len(head) : head[i] = b /\ home'[b] = area[i]]_vars

\* While commit() runs without log.lock nobody else touches what it reads:
\* the in-memory header and the buffers it lists.
CommitUndisturbed ==
  [][(sys = "up" /\ sys' = "up" /\ committing)
       => /\ lh' \in {lh, <<>>}
          /\ \A b \in Logged : View(b)' = View(b)
          /\ outstanding' = 0]_vars

\* No wakeup is lost: a process that sleeps in begin_op is always woken,
\* because every end_op either wakes it or commits and then wakes it.
SleeperWakes == \A p \in Proc : pc[p] = "asleep" ~> pc[p] # "asleep"
=============================================================================
