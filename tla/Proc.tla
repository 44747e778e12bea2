-------------------------------- MODULE Proc --------------------------------
(***************************************************************************)
(* The process table of proc.c: allocproc, fork, exit, wait, sleep, wakeup *)
(* and kill, with the trap entry and return that act on killed (trap.c)    *)
(* and sys_sleep as the interruptible sleeper (sysproc.c).                 *)
(*                                                                         *)
(* Granularity.  A section under ptable.lock (or tickslock) runs with      *)
(* interrupts off, and param.h has NCPU = 1: it is one step.  Between two  *)
(* such sections the timer may take the CPU away (TimerTrap) and another   *)
(* process may run.  Which RUNNABLE process runs next is left open here;   *)
(* the three-level policy of scheduler() is not part of this module.       *)
(***************************************************************************)
EXTENDS Naturals

CONSTANTS NPROC,   \* size of the table
          MaxPid,  \* bound on the pids handed out
          Calls    \* the system calls that processes make

Call == {"fork", "exiting", "wait", "sleep", "kill"}

ASSUME ProcConstants == /\ NPROC \in Nat \ {0}
                        /\ MaxPid \in Nat \ {0}
                        /\ Calls \subseteq Call

Slot == 1..NPROC
initproc == 1          \* userinit takes the first slot
None == 0              \* a null pointer, to a slot or as a channel
TicksChan == NPROC + 1 \* the channel &ticks
DiskChan == NPROC + 2  \* the channels of the disk and its locks

VARIABLES
  state,    \* p->state
  pid,      \* p->pid
  parent,   \* p->parent, a slot or None
  killed,   \* p->killed
  kstack,   \* p->kstack # 0
  chan,     \* p->chan: a slot (sleep in wait), TicksChan, DiskChan or None
  pc,       \* where the process is: in user mode or in which kernel code
  np,       \* fork's local np
  nextpid,
  panicked  \* panic("init exiting") has stopped the machine

vars == <<state, pid, parent, killed, kstack, chan, pc, np, nextpid, panicked>>

Live == {s \in Slot : state[s] \in {"SLEEPING", "RUNNABLE", "RUNNING"}}
Children(s) == {t \in Slot : parent[t] = s}
Running(s) == ~panicked /\ state[s] = "RUNNING"

\* wakeup1(c) on the states f.
Wakeup1(f, c) == [s \in Slot |-> IF f[s] = "SLEEPING" /\ chan[s] = c THEN "RUNNABLE" ELSE f[s]]

\* The table after userinit.
Init == /\ state = [s \in Slot |-> IF s = initproc THEN "RUNNABLE" ELSE "UNUSED"]
        /\ pid = [s \in Slot |-> IF s = initproc THEN 1 ELSE 0]
        /\ parent = [s \in Slot |-> None]
        /\ killed = [s \in Slot |-> FALSE]
        /\ kstack = [s \in Slot |-> s = initproc]
        /\ chan = [s \in Slot |-> None]
        /\ pc = [s \in Slot |-> "user"]
        /\ np = [s \in Slot |-> None]
        /\ nextpid = 2
        /\ panicked = FALSE

(***************************************************************************)
(* The CPU.                                                                *)
(***************************************************************************)
\* scheduler: run_p switches to a RUNNABLE process.  A process that comes
\* out of sleep clears its channel before it gives up ptable.lock.
Pick(s) == /\ ~panicked
           /\ state[s] = "RUNNABLE"
           /\ \A t \in Slot : state[t] # "RUNNING"
           /\ state' = [state EXCEPT ![s] = "RUNNING"]
           /\ chan' = [chan EXCEPT ![s] = None]
           /\ UNCHANGED <<pid, parent, killed, kstack, pc, np, nextpid, panicked>>

\* A clock tick while s runs: wake the sleepers, then yield; a killed
\* process in user mode exits instead, before or after it has yielded.
TimerTrap(s) ==
  /\ Running(s)
  /\ IF pc[s] = "user" /\ killed[s]
     THEN /\ state' = Wakeup1(state, TicksChan)
          /\ pc' = [pc EXCEPT ![s] = "exiting"]
     ELSE /\ state' = [Wakeup1(state, TicksChan) EXCEPT ![s] = "RUNNABLE"]
          /\ pc' = [pc EXCEPT ![s] = IF @ = "user" THEN "ret" ELSE @]
  /\ UNCHANGED <<pid, parent, killed, kstack, chan, np, nextpid, panicked>>

\* A clock tick while no process runs.
TimerIdle == /\ ~panicked
             /\ \A s \in Slot : state[s] # "RUNNING"
             /\ state' = Wakeup1(state, TicksChan)
             /\ UNCHANGED <<pid, parent, killed, kstack, chan, pc, np, nextpid, panicked>>

\* An exception in user mode: the process is killed and exits at once.
Fault(s) == /\ Running(s)
            /\ pc[s] = "user"
            /\ killed' = [killed EXCEPT ![s] = TRUE]
            /\ pc' = [pc EXCEPT ![s] = "exiting"]
            /\ UNCHANGED <<state, pid, parent, kstack, chan, np, nextpid, panicked>>

\* A system call: killed is tested on entry ...
Syscall(s, call) == /\ Running(s)
                    /\ pc[s] = "user"
                    /\ pc' = [pc EXCEPT ![s] = IF killed[s] THEN "exiting" ELSE call]
                    /\ UNCHANGED <<state, pid, parent, killed, kstack, chan, np, nextpid, panicked>>

\* ... and on the way out, as at the end of every trap from user mode.
TrapRet(s) == /\ Running(s)
              /\ pc[s] = "ret"
              /\ pc' = [pc EXCEPT ![s] = IF killed[s] THEN "exiting" ELSE "user"]
              /\ UNCHANGED <<state, pid, parent, killed, kstack, chan, np, nextpid, panicked>>

(***************************************************************************)
(* fork.                                                                   *)
(***************************************************************************)
\* Mutant: the scan does not stop at the end of the table (<= for <).
AllocProc_PastEnd(s) ==
  /\ Running(s)
  /\ pc[s] = "fork"
  /\ nextpid <= MaxPid
  /\ \E t \in Slot \cup {NPROC + 1} :
       /\ t \in Slot => state[t] = "UNUSED"
       /\ \A u \in Slot : u < t => state[u] # "UNUSED"
       /\ state' = [u \in Slot |-> IF u = t THEN "EMBRYO" ELSE state[u]]
       /\ pid' = [u \in Slot |-> IF u = t THEN nextpid ELSE pid[u]]
       /\ np' = [np EXCEPT ![s] = t]
  /\ nextpid' = nextpid + 1
  /\ pc' = [pc EXCEPT ![s] = "kalloc"]
  /\ UNCHANGED <<parent, killed, kstack, chan, panicked>>

\* allocproc under ptable.lock: the first free slot, or none.
AllocProc(s) ==
  /\ Running(s)
  /\ pc[s] = "fork"
  /\ \/ /\ \A t \in Slot : state[t] # "UNUSED"
        /\ pc' = [pc EXCEPT ![s] = "ret"]
        /\ UNCHANGED <<state, pid, np, nextpid>>
     \/ /\ nextpid <= MaxPid
        /\ \E t \in Slot :
             /\ state[t] = "UNUSED"
             /\ \A u \in Slot : u < t => state[u] # "UNUSED"
             /\ state' = [state EXCEPT ![t] = "EMBRYO"]
             /\ pid' = [pid EXCEPT ![t] = nextpid]
             /\ np' = [np EXCEPT ![s] = t]
        /\ nextpid' = nextpid + 1
        /\ pc' = [pc EXCEPT ![s] = "kalloc"]
  /\ UNCHANGED <<parent, killed, kstack, chan, panicked>>

\* kalloc for the kernel stack: np is still an EMBRYO nobody else touches.
KallocStack(s) ==
  /\ Running(s)
  /\ pc[s] = "kalloc"
  /\ \/ /\ kstack' = [kstack EXCEPT ![np[s]] = TRUE]
        /\ pc' = [pc EXCEPT ![s] = "copyuvm"]
        /\ UNCHANGED <<state, np>>
     \/ /\ state' = [state EXCEPT ![np[s]] = "UNUSED"]
        /\ pc' = [pc EXCEPT ![s] = "ret"]
        /\ np' = [np EXCEPT ![s] = None]
        /\ UNCHANGED kstack
  /\ UNCHANGED <<pid, parent, killed, chan, nextpid, panicked>>

\* Mutant: the failure path gives back the slot but not the stack.
CopyFail_KeepsStack(s) == /\ Running(s)
                          /\ pc[s] = "copyuvm"
                          /\ state' = [state EXCEPT ![np[s]] = "UNUSED"]
                          /\ pc' = [pc EXCEPT ![s] = "ret"]
                          /\ np' = [np EXCEPT ![s] = None]
                          /\ UNCHANGED <<pid, parent, killed, kstack, chan, nextpid, panicked>>

\* copyuvm: out of memory, the stack and the slot are given back.
CopyFail(s) == /\ Running(s)
               /\ pc[s] = "copyuvm"
               /\ kstack' = [kstack EXCEPT ![np[s]] = FALSE]
               /\ state' = [state EXCEPT ![np[s]] = "UNUSED"]
               /\ pc' = [pc EXCEPT ![s] = "ret"]
               /\ np' = [np EXCEPT ![s] = None]
               /\ UNCHANGED <<pid, parent, killed, chan, nextpid, panicked>>

\* The child is given its parent ...
CopyProc(s) == /\ Running(s)
               /\ pc[s] = "copyuvm"
               /\ parent' = [parent EXCEPT ![np[s]] = s]
               /\ pc' = [pc EXCEPT ![s] = "publish"]
               /\ UNCHANGED <<state, pid, killed, kstack, chan, np, nextpid, panicked>>

\* ... and, under ptable.lock, made RUNNABLE; it starts in user mode.
ForkRun(s) == /\ Running(s)
              /\ pc[s] = "publish"
              /\ state' = [state EXCEPT ![np[s]] = "RUNNABLE"]
              /\ pc' = [pc EXCEPT ![np[s]] = "user", ![s] = "ret"]
              /\ np' = [np EXCEPT ![s] = None]
              /\ UNCHANGED <<pid, parent, killed, kstack, chan, nextpid, panicked>>

(***************************************************************************)
(* exit, wait, sleep, kill.                                                *)
(***************************************************************************)
\* Closing files and releasing cwd may sleep for the disk, any number of
\* times; kill cuts such a sleep short and the code sleeps again.
DiskSleep(s) == /\ Running(s)
                /\ pc[s] = "exiting"
                /\ s # initproc
                /\ state' = [state EXCEPT ![s] = "SLEEPING"]
                /\ chan' = [chan EXCEPT ![s] = DiskChan]
                /\ UNCHANGED <<pid, parent, killed, kstack, pc, np, nextpid, panicked>>

DiskWakeup == /\ ~panicked
              /\ state' = Wakeup1(state, DiskChan)
              /\ UNCHANGED <<pid, parent, killed, kstack, chan, pc, np, nextpid, panicked>>

ExitPanic == /\ Running(initproc)
             /\ pc[initproc] = "exiting"
             /\ panicked' = TRUE
             /\ UNCHANGED <<state, pid, parent, killed, kstack, chan, pc, np, nextpid>>

\* Mutant: the children keep a parent that is gone.
Exit_NoReparent(s) ==
  /\ Running(s)
  /\ pc[s] = "exiting"
  /\ s # initproc
  /\ state' = [Wakeup1(state, parent[s]) EXCEPT ![s] = "ZOMBIE"]
  /\ UNCHANGED <<pid, parent, killed, kstack, chan, pc, np, nextpid, panicked>>

\* Mutant: init is not told of a ZOMBIE it inherits.
Exit_NoInitWakeup(s) ==
  /\ Running(s)
  /\ pc[s] = "exiting"
  /\ s # initproc
  /\ state' = [Wakeup1(state, parent[s]) EXCEPT ![s] = "ZOMBIE"]
  /\ parent' = [t \in Slot |-> IF parent[t] = s THEN initproc ELSE parent[t]]
  /\ UNCHANGED <<pid, killed, kstack, chan, pc, np, nextpid, panicked>>

\* exit under ptable.lock: wake the parent, hand the children to init,
\* waking it when one of them is a ZOMBIE, and become a ZOMBIE.
Exit(s) ==
  /\ Running(s)
  /\ pc[s] = "exiting"
  /\ s # initproc
  /\ LET woken == Wakeup1(state, parent[s])
         orphans == \E t \in Children(s) : state[t] = "ZOMBIE"
     IN state' = [(IF orphans THEN Wakeup1(woken, initproc) ELSE woken) EXCEPT ![s] = "ZOMBIE"]
  /\ parent' = [t \in Slot |-> IF parent[t] = s THEN initproc ELSE parent[t]]
  /\ UNCHANGED <<pid, killed, kstack, chan, pc, np, nextpid, panicked>>

\* Mutant: the scan takes any ZOMBIE, not only the caller's children.
Reap_AnyZombie(s, t) == /\ state[t] = "ZOMBIE"
                        /\ state' = [state EXCEPT ![t] = "UNUSED"]
                        /\ pid' = [pid EXCEPT ![t] = 0]
                        /\ parent' = [parent EXCEPT ![t] = None]
                        /\ killed' = [killed EXCEPT ![t] = FALSE]
                        /\ kstack' = [kstack EXCEPT ![t] = FALSE]
                        /\ pc' = [pc EXCEPT ![s] = "ret"]
                        /\ UNCHANGED <<chan, np, nextpid, panicked>>

\* One scan of wait under ptable.lock: reap the first ZOMBIE child ...
Reap(s, t) == /\ state[t] = "ZOMBIE" /\ parent[t] = s
              /\ \A u \in Children(s) : u < t => state[u] # "ZOMBIE"
              /\ state' = [state EXCEPT ![t] = "UNUSED"]
              /\ pid' = [pid EXCEPT ![t] = 0]
              /\ parent' = [parent EXCEPT ![t] = None]
              /\ killed' = [killed EXCEPT ![t] = FALSE]
              /\ kstack' = [kstack EXCEPT ![t] = FALSE]
              /\ pc' = [pc EXCEPT ![s] = "ret"]
              /\ UNCHANGED <<chan, np, nextpid, panicked>>

\* ... or give up, or sleep until a child exits and scan again.
NoZombie(s) == /\ \A u \in Children(s) : state[u] # "ZOMBIE"
               /\ IF Children(s) = {} \/ killed[s]
                  THEN /\ pc' = [pc EXCEPT ![s] = "ret"]
                       /\ UNCHANGED <<state, chan>>
                  ELSE /\ state' = [state EXCEPT ![s] = "SLEEPING"]
                       /\ chan' = [chan EXCEPT ![s] = s]
                       /\ UNCHANGED pc
               /\ UNCHANGED <<pid, parent, killed, kstack, np, nextpid, panicked>>

Wait(s) == /\ Running(s)
           /\ pc[s] = "wait"
           /\ NoZombie(s) \/ \E t \in Slot : Reap(s, t)

\* Mutant: the loop does not look at killed.
SysSleep_IgnoresKill(s) == /\ Running(s)
                           /\ pc[s] = "sleep"
                           /\ state' = [state EXCEPT ![s] = "SLEEPING"]
                           /\ chan' = [chan EXCEPT ![s] = TicksChan]
                           /\ UNCHANGED <<pid, parent, killed, kstack, pc, np, nextpid, panicked>>

\* One turn of sys_sleep's loop under tickslock; how many ticks are left
\* is not modelled, so the loop may end at any turn.
SysSleep(s) == /\ Running(s)
               /\ pc[s] = "sleep"
               /\ \/ /\ pc' = [pc EXCEPT ![s] = "ret"]
                     /\ UNCHANGED <<state, chan>>
                  \/ /\ ~killed[s]
                     /\ state' = [state EXCEPT ![s] = "SLEEPING"]
                     /\ chan' = [chan EXCEPT ![s] = TicksChan]
                     /\ UNCHANGED pc
               /\ UNCHANGED <<pid, parent, killed, kstack, np, nextpid, panicked>>

\* kill(p): the first slot with that pid, whatever its state.
Kill(s, p) ==
  /\ Running(s)
  /\ pc[s] = "kill"
  /\ \/ \E t \in Slot :
          /\ pid[t] = p
          /\ \A u \in Slot : u < t => pid[u] # p
          /\ killed' = [killed EXCEPT ![t] = TRUE]
          /\ state' = [state EXCEPT ![t] = IF @ = "SLEEPING" THEN "RUNNABLE" ELSE @]
     \/ /\ \A t \in Slot : pid[t] # p
        /\ UNCHANGED <<killed, state>>
  /\ pc' = [pc EXCEPT ![s] = "ret"]
  /\ UNCHANGED <<pid, parent, kstack, chan, np, nextpid, panicked>>

Fork(s) == AllocProc(s) \/ KallocStack(s) \/ CopyFail(s) \/ CopyProc(s) \/ ForkRun(s)

Trap(s) == TimerTrap(s) \/ Fault(s) \/ TrapRet(s) \/ \E call \in Calls : Syscall(s, call)

Next == \/ TimerIdle \/ DiskWakeup \/ ExitPanic
        \/ \E s \in Slot : \/ Pick(s) \/ Trap(s) \/ Fork(s)
                           \/ DiskSleep(s) \/ Exit(s) \/ Wait(s) \/ SysSleep(s)
                           \/ \E p \in 0..MaxPid : Kill(s, p)

Spec == Init /\ [][Next]_vars

(***************************************************************************)
(* Properties.                                                             *)
(***************************************************************************)
\* Every field of the table holds a value of its type; in particular what
\* allocproc hands to fork, and every parent, is a slot of the table.
TypeOK ==
  /\ state \in [Slot -> {"UNUSED", "EMBRYO", "SLEEPING", "RUNNABLE", "RUNNING", "ZOMBIE"}]
  /\ pid \in [Slot -> 0..MaxPid]
  /\ parent \in [Slot -> Slot \cup {None}]
  /\ killed \in [Slot -> BOOLEAN]
  /\ kstack \in [Slot -> BOOLEAN]
  /\ chan \in [Slot -> 0..NPROC + 2]
  /\ pc \in [Slot -> Call \cup {"user", "kalloc", "copyuvm", "publish", "ret"}]
  /\ np \in [Slot -> Slot \cup {None}]
  /\ nextpid \in 1..MaxPid + 1
  /\ panicked \in BOOLEAN

\* Every process but init has a parent that can still wait for it, so no
\* ZOMBIE and no slot is ever lost: exit hands its children to init before
\* it stops, whatever they and their own children are doing meanwhile.
NoOrphan == \A t \in Slot \ {initproc} :
              t \in Live \/ state[t] = "ZOMBIE" => parent[t] \in Live

\* A process asleep in wait has a child and none of its children is a
\* ZOMBIE: no exit slips in between wait's scan and its sleep, also when
\* the ZOMBIE is one that init inherits.
NoMissedExit == \A s \in Slot : state[s] = "SLEEPING" /\ chan[s] = s =>
                  /\ Children(s) # {}
                  /\ \A t \in Children(s) : state[t] # "ZOMBIE"

\* A killed process is never left asleep in wait or in sys_sleep: kill wakes
\* it and neither loop goes back to sleep.
KilledAwake == \A s \in Slot : killed[s] /\ state[s] = "SLEEPING" => chan[s] = DiskChan

\* fork's failure paths and wait give back what allocproc took: only slots
\* in use hold a kernel stack, and an EMBRYO belongs to exactly one fork in
\* progress, so none stays half made.
NoSlotLeak == \A t \in Slot :
  /\ kstack[t] => state[t] # "UNUSED"
  /\ state[t] = "EMBRYO" => \E s \in Live : np[s] = t /\ \A u \in Slot \ {s} : np[u] # t

\* The process tree the table stands for: pids, whatever slots hold them.
Tree == INSTANCE ProcTree WITH
          Pid <- 1..MaxPid, Root <- 1, NoPid <- 0,
          current <- IF \E s \in Slot : state[s] = "RUNNING"
                     THEN pid[CHOOSE s \in Slot : state[s] = "RUNNING"] ELSE 0,
          alive <- {pid[s] : s \in Live},
          zombie <- {pid[s] : s \in {t \in Slot : state[t] = "ZOMBIE"}},
          child <- {<<pid[t], pid[parent[t]]>> :
                      t \in {u \in Slot : parent[u] # None /\ state[u] # "EMBRYO"}}

\* The table implements the tree of processes that fork, exit and wait
\* promise: slots and pids are recycled, forks fail half way and exits race
\* with waits, but each child is reaped once and by its parent, or by init
\* after the parent has exited.
ImplementsTree == Tree!Spec

\* A new process is not killed before it exists: allocproc is to "initialize
\* state required to run in the kernel" (proc.c).
BornUnkilled == [][\A t \in Slot : state[t] = "UNUSED" /\ state'[t] = "EMBRYO" => ~killed'[t]]_vars
=============================================================================
