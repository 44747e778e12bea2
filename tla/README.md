# A verification of the xv6 kernel of this repository

TLA+ models of the concurrent parts of the kernel, TLC runs on small instances,
and TLAPS proofs for every value of the constants. `PROJECT.json` maps each
definition to the lines it models.

## The system and its parts

The repository is xv6 for x86 with lab extensions: a three-level scheduler, a
barrier, a reentrant spin lock, console line editing and some query calls.
`param.h` sets `NCPU` to 1. Code under a spin lock runs with interrupts off, so
on one CPU it is atomic; everywhere else the timer may preempt. All models use
that granularity and say where they depend on it.

| part | source | module | state |
|---|---|---|---|
| write-ahead log | log.c | Log, TxDisk, LogOpProofs, LogCommitProofs, LogProofs | modelled, proved |
| process table | proc.c | Proc, ProcTree, ProcProofs | partly, invariants proved |
| trap entry and return, sys_sleep | trap.c, sysproc.c | Proc | partly |
| barrier | proc.c | Barrier | modelled |
| pipes | pipe.c | Pipe, ByteStream | all but the failure exits of pipealloc |
| file table | file.c | Pipe | the two pipe files |
| buffer cache, disk | bio.c, ide.c | Log, Proc | what these two need |
| scheduler | proc.c | | planned |
| locks | spinlock.c, sleeplock.c | | planned |
| inodes, directories, file calls | fs.c, sysfile.c | | planned |
| console | console.c | | planned |
| memory, exec | kalloc.c, vm.c, exec.c | | partly planned |
| user allocator, lab query calls | umalloc.c, proc.c, sysproc.c | | planned |
| boot, devices, user programs, mkfs | | | not planned |

They meet in two places. The process table's sleep and wakeup carry the log,
the pipe, the barrier and wait. The log sits on the buffer cache and below
every file system call.

## Modules

**Log** has one action per section under `log.lock` and per disk write:
`BeginOp`/`BeginSleep` (begin_op), `LogCheck` and `LogAppend` (log_write, whose
test runs before the lock), `EndOp`, `WriteLog`, `WriteHead`, `Install`,
`Erase`, `CommitDone` (end_op and commit), `ReadHead`, `RecoverInstall`,
`RecoverErase` (recovery). `Crash` drops everything but the disk at any step.
A block write is whole and writes reach the disk in program order, because
iderw returns only when the request is done. The cache is kept as far as the
log depends on it: reading, recycling, and `B_DIRTY`. `OpMax` is the number of
distinct blocks an operation writes.

**TxDisk** is what the log promises: transactions that become durable together.

**Proc** is the table with fork in its five steps, exit, wait, kill, sys_sleep,
and the traps. `pc` says where a process is in the kernel. `Pick` chooses any
RUNNABLE process, so the results hold for whatever the scheduler does. kalloc
and copyuvm may fail at any time. How long sys_sleep has to go is left out: its
loop may end at any turn. A panic stops everything.

**ProcTree** is what fork, exit and wait promise in terms of pids: a tree, with
orphans going to init and each child reaped once, by its parent.

**Barrier** splits `counter++` into load and store, and lets the following test
use the register or a reload, since the build may do either.

**Pipe** has one action per section under `p->lock`, and fileclose and kfree as
separate steps. `UintSize` is the width of the counters. The sets `rends` and
`wends` stand for the reference counts of the two files. `addr` holds the bytes
the caller passed to write that are not yet in the ring, so a write that sleeps
half way goes on with the rest of the same buffer; `want` is what a read asked
for. The initial state is the one after pipealloc has succeeded.

**ByteStream** is a bounded FIFO with two ends and, for each client, the write or
the read it has in progress. `Send` moves bytes from the front of a pending
write to the end of the stream; a write is given up only when the stream is
full and the read end is closed or the writer was killed. `Recv` gives a reader
as many bytes as it asked for or as there are, and nothing from an empty stream
unless the write end is closed. A byte that is lost, repeated, stale or out of
order, within a write or across its sleep, is therefore no step of ByteStream,
and neither is a short or an empty read that is not due.

Operators named `X_Something` in these modules are mutants of `X`: plausible
bugs that the properties are shown to notice.

## Runs

| run | instance | checks |
|---|---|---|
| log_crash | 2 processes, 2 blocks, 2 values | refinement of TxDisk, write-ahead order, pinning, durability, commit undisturbed |
| log_space | 3 processes, 5 blocks, NLOG = LOGSIZE = 5 | no panic, no overflow |
| log_sleep | fair, as above but smaller | sleepers in begin_op wake |
| log_full | operations that use their whole reservation | NoPanic fails |
| proc_life | 3 slots, 4 pids, all calls | NoOrphan, KilledAwake, NoSlotLeak, refinement of ProcTree |
| proc_inherit | 4 slots, fork, exit and wait | NoMissedExit |
| proc_born | 2 slots | BornUnkilled fails |
| barrier_safe | 4 processes, all killable | NoEarlyPass |
| barrier_live | 2 processes, fair | AllPass fails |
| pipe_stream | ring of 2, counters modulo 4, 2 processes, 2 byte values | refinement of ByteStream, NoStuckWriter |
| pipe_sleep | 3 processes, no kill | NoStuckReader, NoUseAfterFree |
| pipe_kill | as pipe_sleep, one process killable | NoStuckReader fails |

**Bounds.** Two processes and two blocks give group commit, absorption and every
crash point. log_space makes three operations compete for room for two, with
NLOG = LOGSIZE as mkfs has it; operations of one block out of a reservation of
two fill the header to three of the four data blocks, one below the panic. That
is one block tighter than `LogRoom`; the theorem is what covers the real sizes
(MAXOPBLOCKS 10, LOGSIZE = NLOG = 30, operations of at most 8 blocks). Three
slots give a grandchild and reuse of slots; four are needed for init to sleep in
wait while an unrelated process bequeaths it a ZOMBIE. `MaxPid` caps fork. A ring
of two with writes of up to three bytes fills, sleeps in mid-write and wraps its
counters; pipe_stream needs two byte values to tell orders apart, and they are
interchangeable (symmetry), while the other two pipe runs need only one. The Proc, Barrier and Pipe runs do not check deadlock: a panic, a
passed barrier and a closed pipe are ends.

**Fairness.** log_sleep assumes that a process able to take its next step in
log.c takes it, that recovery goes on, and strong fairness of end_op, that is,
operations finish. Crashes and kills are never owed. barrier_live gives every
process weak fairness. The three-level scheduler does not promise this in
general: a busy level 0 starves the others. Processes start at level 0, and the
claims are for processes that do get the CPU.

## What disagrees with the code's own words

* **log_full.** begin_op reserves against LOGSIZE, but the log holds LOGSIZE - 1
  data blocks. Operations writing all of MAXOPBLOCKS panic. The operations of
  this file system write 7 or 8 of 10, which leaves the slack `LogRoom` names.
* **proc_born.** kill matches free slots: kill(0), or a pid left by a failed fork,
  marks a free slot, and the next process there is born killed.
* **barrier_live.** `counter++` is not under a lock: in TLC's trace both processes
  load 0, both store 1, both see 1 < 2 and sleep, and nobody is left to wake
  them. The test and the sleep are not under one lock either, so even with both
  arrivals counted the only wakeup can fall between them.
* **pipe_kill.** A killed writer that fills the ring returns without waking the
  readers, who stay asleep while the write end is open elsewhere.

## Proofs

**LogOpProofs, LogCommitProofs, LogProofs**, from `LogConstants` and `LogRoom`. The
first states `IInv` and proves that the steps of an operation keep it, the second
that commit, a crash and recovery do, the third derives the theorems. `IInv` ties the header on disk
to the one in memory at each point of commit and recovery (`Logging`,
`Installing`, `RecoverInv`), says what is pinned (`PinInv`), and accounts for
space: the length of the log and a finite set of tokens, one for each block a
running operation may still add, stay within the log together (`SpaceInv`). The properties are not
inductive without it: that a crash is harmless depends on which log blocks the
header covers. Proved: `NoPanic`, `LogFits`, `TypeOK`, `QuiescentIsDurable`,
`ModifiedIsPinned`, `WriteAhead`, and `CrashAtomic`, the refinement of TxDisk.

**ProcProofs**, from `ProcConstants`. `IInv` adds that one process runs, that init
lives, who owns an EMBRYO at each step of fork, what parent each kind of slot
has, and on which channel a process sleeps in which call. Proved: `TypeOK`,
`NoOrphan`, `NoMissedExit`, `KilledAwake`, `NoSlotLeak`.

Only model-checked: `CommitUndisturbed`, `ImplementsTree`, everything of Barrier
and Pipe, and liveness (`SleeperWakes`, `AllPass`), which is out of this prover's
reach, as are ENABLED, induction over data and RECURSIVE operators.

## Not modelled

Page tables, ELF loading, path parsing, text formatting, device registers, boot
code and user programs are outside. So are pipealloc's failure exits and bget's
panic when no buffer can be recycled (the cache in Log is unbounded; the bound
comes with the buffer cache module). NCPU above 1 is outside: the order of
tickslock and ptable.lock, and sys_sleep's test of killed, rely on one CPU.

## Plan

1. Scheduler: lottery, HRRN and priority levels as a refinement of `Pick`;
   starvation, the zero divisor, the missing stop at the winner.
2. Spin locks (pushcli nesting, the reentrant lock) and sleep locks.
3. Buffer cache and disk queue: LRU, reference counts, NBUF, request order,
   composed with Log.
4. Inode cache, link counts, block allocation, directories; then the file calls
   with their failure paths, and the file table.
5. Console line editor; kalloc, allocuvm and exec's failure paths; umalloc; the
   query calls as pure operators against reference definitions.
6. Proofs: `ImplementsTree`, `NoEarlyPass` (by counting arrivals),
   `NoStuckWriter`, `NoStuckReader` without kills, `CommitUndisturbed`, then the
   locks and the inode reference counts.
