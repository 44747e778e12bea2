---------------------------- MODULE ProcProofs -----------------------------
(***************************************************************************)
(* Proofs about Proc, for every size of the table and every bound on pids. *)
(*                                                                         *)
(* None of the properties is inductive.  NoOrphan needs to know that init  *)
(* stays alive and that a slot which is not in use has no children;        *)
(* NoSlotLeak, who owns an EMBRYO at each point of fork; NoMissedExit and  *)
(* KilledAwake, on which channels a process sleeps in which system call.   *)
(* The refinement of ProcTree also needs that a pid names one slot and     *)
(* that no pid is handed out twice (PidInv); Kinds sorts the steps by what *)
(* they do to pids and parents.                                            *)
(***************************************************************************)
EXTENDS Proc, TLAPS

Forking == {"kalloc", "copyuvm", "publish"}

\* One CPU: at most one process is RUNNING.
OneRunning == \A s, t \in Slot : state[s] = "RUNNING" /\ state[t] = "RUNNING" => s = t

\* init never leaves the table and is nobody's child.
InitLives == initproc \in Live /\ parent[initproc] = None

\* A process between allocproc and the end of fork has one EMBRYO of its own.
ForkInv == /\ \A s \in Slot : s \notin Live => pc[s] \in {"user", "exiting"}
           /\ \A s \in Slot : (np[s] # None) <=> (pc[s] \in Forking)
           /\ \A s \in Slot : np[s] # None => state[np[s]] = "EMBRYO"
           /\ \A s, t \in Slot : np[s] # None /\ np[s] = np[t] => s = t
           /\ \A t \in Slot : state[t] = "EMBRYO" => \E s \in Slot : np[s] = t

\* Kernel stacks follow the slot through fork's steps.
StackInv == /\ \A t \in Slot : kstack[t] => state[t] # "UNUSED"
            /\ \A s \in Slot : pc[s] = "kalloc" => ~kstack[np[s]]

\* Parents: none for a free slot, the forking process for an EMBRYO about to
\* be published, a live process for everything else.
FamilyInv == /\ \A t \in Slot : state[t] = "UNUSED" => parent[t] = None
             /\ \A s \in Slot : pc[s] \in {"kalloc", "copyuvm"} => parent[np[s]] = None
             /\ \A s \in Slot : pc[s] = "publish" => parent[np[s]] = s
             /\ \A t \in Slot : parent[t] # None => parent[t] \in Live /\ parent[t] # t
             /\ \A t \in Slot \ {initproc} :
                  t \in Live \/ state[t] = "ZOMBIE" => parent[t] # None

\* What a sleeper sleeps on, in which code.
SleepInv == \A s \in Slot : state[s] = "SLEEPING" =>
              \/ chan[s] = s /\ pc[s] = "wait" /\ ~killed[s]
              \/ chan[s] = TicksChan /\ pc[s] = "sleep" /\ ~killed[s]
              \/ chan[s] = DiskChan /\ pc[s] = "exiting"

\* The inductive invariant.
IInv == /\ TypeOK /\ OneRunning /\ InitLives /\ ForkInv /\ StackInv
        /\ FamilyInv /\ SleepInv /\ NoMissedExit

\* The facts about slots and channels the proofs need: the null pointer and
\* the two channels are not slots.
LEMMA SlotFacts ==
  /\ initproc \in Slot
  /\ None \notin Slot /\ TicksChan \notin Slot /\ DiskChan \notin Slot
  /\ TicksChan # DiskChan /\ None # TicksChan /\ None # DiskChan
  /\ None \in 0..NPROC + 2 /\ TicksChan \in 0..NPROC + 2 /\ DiskChan \in 0..NPROC + 2
  /\ \A s \in Slot : s \in 0..NPROC + 2
BY ProcConstants DEF Slot, initproc, None, TicksChan, DiskChan

\* The table userinit leaves satisfies the invariant.
LEMMA InvInit == Init => IInv
<1> SUFFICES ASSUME Init PROVE IInv
  OBVIOUS
<1> USE SlotFacts
<1>1. TypeOK
  <2>1. kstack \in [Slot -> BOOLEAN]
    BY Zenon DEF Init
  <2>2. pid \in [Slot -> 0..MaxPid] /\ nextpid \in 1..MaxPid + 1
    BY ProcConstants DEF Init
  <2> QED
    BY <2>1, <2>2, Zenon DEF Init, TypeOK
<1>2. OneRunning /\ InitLives /\ ForkInv /\ StackInv /\ FamilyInv /\ SleepInv
  BY Zenon DEF Init, OneRunning, InitLives, ForkInv, StackInv, FamilyInv, SleepInv, Live, Forking
<1>3. NoMissedExit
  BY DEF Init, NoMissedExit
<1> QED
  BY <1>1, <1>2, <1>3 DEF IInv

\* A running process that goes from one piece of kernel code to another, not
\* into fork's, and that may be marked as killed by its own fault.
LEMMA PcInv ==
  ASSUME IInv, NEW s \in Slot, state[s] = "RUNNING", pc[s] \notin Forking,
         NEW k \in Call \cup {"user", "ret"}, pc' = [pc EXCEPT ![s] = k],
         killed' \in [Slot -> BOOLEAN], \A t \in Slot \ {s} : killed'[t] = killed[t],
         UNCHANGED <<state, pid, parent, kstack, chan, np, nextpid, panicked>>
  PROVE  IInv'
<1> USE SlotFacts DEF IInv
<1>1. TypeOK'
  BY Zenon DEF TypeOK
<1>2. \A t \in Slot : IF t = s THEN pc'[t] = k ELSE pc'[t] = pc[t]
  BY DEF TypeOK
<1>3. k \notin Forking
  BY DEF Call, Forking
<1>4. OneRunning' /\ InitLives' /\ NoMissedExit'
  BY DEF OneRunning, InitLives, NoMissedExit, Live, Children
<1>5. ForkInv'
  BY <1>2, <1>3 DEF ForkInv, Live
<1>6. StackInv' /\ FamilyInv'
  BY <1>2, <1>3 DEF StackInv, FamilyInv, Forking, Live
<1>7. SleepInv'
  BY <1>2 DEF SleepInv
<1> QED
  BY <1>1, <1>4, <1>5, <1>6, <1>7

\* wakeup by the clock or by the disk.
LEMMA WakeInv ==
  ASSUME IInv, NEW c \in {TicksChan, DiskChan}, state' = Wakeup1(state, c),
         UNCHANGED <<pid, parent, killed, kstack, chan, pc, np, nextpid, panicked>>
  PROVE  IInv'
<1> USE SlotFacts DEF IInv
<1>1. TypeOK'
  BY DEF Wakeup1, TypeOK
<1>2. \A t \in Slot : state'[t] = state[t] \/ (state[t] = "SLEEPING" /\ state'[t] = "RUNNABLE")
  BY DEF Wakeup1
<1>3. OneRunning' /\ InitLives' /\ StackInv' /\ SleepInv' /\ NoMissedExit'
  BY <1>2 DEF OneRunning, InitLives, StackInv, SleepInv, NoMissedExit, Live, Children
<1>4. ForkInv'
  BY <1>2 DEF ForkInv, TypeOK, Live
<1>5. FamilyInv'
  BY <1>2 DEF FamilyInv, TypeOK, Live
<1> QED
  BY <1>1, <1>3, <1>4, <1>5

\* sleep, in wait, in sys_sleep and in exit.
LEMMA SleepsInv ==
  ASSUME IInv, NEW s \in Slot, NEW c \in 0..NPROC + 2, state[s] = "RUNNING",
         state' = [state EXCEPT ![s] = "SLEEPING"], chan' = [chan EXCEPT ![s] = c],
         \/ /\ c = s /\ pc[s] = "wait" /\ ~killed[s] /\ Children(s) # {}
            /\ \A t \in Children(s) : state[t] # "ZOMBIE"
         \/ c = TicksChan /\ pc[s] = "sleep" /\ ~killed[s]
         \/ c = DiskChan /\ pc[s] = "exiting",
         UNCHANGED <<pid, parent, killed, kstack, pc, np, nextpid, panicked>>
  PROVE  IInv'
<1> USE SlotFacts DEF IInv
<1>1. TypeOK'
  BY DEF TypeOK
<1>2. \A t \in Slot : IF t = s THEN state'[t] = "SLEEPING" /\ chan'[t] = c
                               ELSE state'[t] = state[t] /\ chan'[t] = chan[t]
  BY DEF TypeOK
<1>3. OneRunning' /\ InitLives' /\ StackInv' /\ SleepInv'
  BY <1>2 DEF OneRunning, InitLives, StackInv, SleepInv, Live
<1>4. ForkInv'
  BY <1>2 DEF ForkInv, TypeOK, Live
<1>5. FamilyInv'
  BY <1>2 DEF FamilyInv, TypeOK, Live
<1>6. NoMissedExit'
  BY <1>2 DEF NoMissedExit, Children
<1> QED
  BY <1>1, <1>3, <1>4, <1>5, <1>6

\* The steps of a trap other than the clock's: the process moves on.
LEMMA TrapInv == ASSUME IInv, NEW s \in Slot, Fault(s) \/ TrapRet(s) \/ \E call \in Calls : Syscall(s, call)
                 PROVE  IInv'
<1>1. PICK k \in Call \cup {"user", "ret"} : pc' = [pc EXCEPT ![s] = k]
  BY ProcConstants DEF Fault, TrapRet, Syscall, Call
<1>2. killed' \in [Slot -> BOOLEAN] /\ \A t \in Slot \ {s} : killed'[t] = killed[t]
  BY Zenon DEF Fault, TrapRet, Syscall, IInv, TypeOK
<1>3. /\ state[s] = "RUNNING" /\ pc[s] \notin Forking
      /\ UNCHANGED <<state, pid, parent, kstack, chan, np, nextpid, panicked>>
  BY DEF Fault, TrapRet, Syscall, Running, Forking
<1> QED
  BY <1>1, <1>2, <1>3, PcInv, Zenon

\* sys_sleep, wait without a ZOMBIE and exit's disk accesses: give up or sleep.
LEMMA BlockInv == ASSUME IInv, NEW s \in Slot, DiskSleep(s) \/ SysSleep(s) \/ (Wait(s) /\ NoZombie(s))
                  PROVE  IInv'
<1>1. state[s] = "RUNNING" /\ pc[s] \notin Forking
  BY DEF DiskSleep, SysSleep, Wait, Running, Forking
<1>2. CASE pc' = [pc EXCEPT ![s] = "ret"] /\ UNCHANGED <<state, pid, parent, killed,
   kstack, chan, np, nextpid, panicked>>
  BY <1>1, <1>2, PcInv, Zenon DEF IInv, TypeOK
<1>3. ASSUME NEW c \in {s, TicksChan, DiskChan},
             state' = [state EXCEPT ![s] = "SLEEPING"], chan' = [chan EXCEPT ![s] = c],
             \/ /\ c = s /\ pc[s] = "wait" /\ ~killed[s] /\ Children(s) # {}
                /\ \A t \in Children(s) : state[t] # "ZOMBIE"
             \/ c = TicksChan /\ pc[s] = "sleep" /\ ~killed[s]
             \/ c = DiskChan /\ pc[s] = "exiting",
             UNCHANGED <<pid, parent, killed, kstack, pc, np, nextpid, panicked>>
      PROVE  IInv'
  <2>1. c \in 0..NPROC + 2
    BY SlotFacts
  <2> QED
    BY <1>1, <1>3, <2>1, SleepsInv, Zenon
<1>4. CASE DiskSleep(s)
  BY <1>3, <1>4 DEF DiskSleep
<1>5. CASE SysSleep(s)
  BY <1>2, <1>3, <1>5 DEF SysSleep
<1>6. CASE Wait(s) /\ NoZombie(s)
  BY <1>2, <1>3, <1>6 DEF Wait, NoZombie
<1> QED
  BY <1>4, <1>5, <1>6

\* A process taken from the RUNNABLE ones preserves the invariant.
LEMMA PickInv == ASSUME IInv, NEW s \in Slot, Pick(s) PROVE IInv'
<1> USE SlotFacts DEF IInv
<1>1. TypeOK'
  BY DEF Pick, TypeOK
<1>2. OneRunning'
  BY DEF Pick, OneRunning, TypeOK
<1>3. InitLives'
  BY DEF Pick, InitLives, TypeOK, Live
<1>4. ForkInv'
  BY DEF Pick, ForkInv, TypeOK, Live, Forking
<1>5. StackInv'
  BY DEF Pick, StackInv, TypeOK, ForkInv, Forking
<1>6. FamilyInv'
  BY DEF Pick, FamilyInv, TypeOK, ForkInv, Forking, InitLives, Live
<1>7. SleepInv'
  BY DEF Pick, SleepInv, TypeOK, ForkInv, Forking, Live
<1>8. NoMissedExit'
  BY DEF Pick, NoMissedExit, TypeOK, Children, ForkInv, Forking, SleepInv, FamilyInv, Live
<1> QED
  BY <1>1, <1>2, <1>3, <1>4, <1>5, <1>6, <1>7, <1>8

\* A clock tick wakes the sleepers of sys_sleep and may end s's turn.
LEMMA Ticked ==
  ASSUME TypeOK, NEW s \in Slot, TimerTrap(s)
  PROVE  /\ state' \in [Slot -> {"UNUSED", "EMBRYO", "SLEEPING", "RUNNABLE", "RUNNING", "ZOMBIE"}]
         /\ state[s] = "RUNNING" /\ state'[s] \in {"RUNNING", "RUNNABLE"}
         /\ \A t \in Slot \ {s} : \/ state'[t] = state[t]
                                  \/ state[t] = "SLEEPING" /\ chan[t] = TicksChan /\ state'[t] = "RUNNABLE"
<1>1. CASE pc[s] = "user" /\ killed[s]
  BY <1>1 DEF TimerTrap, Running, Wakeup1, TypeOK
<1>2. CASE ~(pc[s] = "user" /\ killed[s])
  <2>1. state' = [Wakeup1(state, TicksChan) EXCEPT ![s] = "RUNNABLE"] /\ state[s] = "RUNNING"
    BY <1>2, Zenon DEF TimerTrap, Running
  <2> QED
    BY <2>1 DEF Wakeup1, TypeOK
<1> QED
  BY <1>1, <1>2

\* A clock tick in a process preserves the invariant.
LEMMA TimerTrapInv == ASSUME IInv, NEW s \in Slot, TimerTrap(s) PROVE IInv'
<1> USE SlotFacts DEF IInv
<1>a. /\ state' \in [Slot -> {"UNUSED", "EMBRYO", "SLEEPING", "RUNNABLE", "RUNNING", "ZOMBIE"}]
      /\ state[s] = "RUNNING" /\ state'[s] \in {"RUNNING", "RUNNABLE"}
      /\ \A t \in Slot \ {s} : \/ state'[t] = state[t]
                               \/ state[t] = "SLEEPING" /\ chan[t] = TicksChan /\ state'[t] = "RUNNABLE"
  BY Ticked
<1>b. /\ pc' \in [Slot -> Call \cup {"user", "kalloc", "copyuvm", "publish", "ret"}]
      /\ \A t \in Slot \ {s} : pc'[t] = pc[t]
      /\ pc'[s] = pc[s] \/ (pc[s] = "user" /\ pc'[s] \in {"exiting", "ret"})
  BY DEF TimerTrap, TypeOK, Call
<1>c. UNCHANGED <<pid, parent, killed, kstack, chan, np, nextpid, panicked>>
  BY DEF TimerTrap
<1>1. TypeOK'
  BY <1>a, <1>b, <1>c DEF TypeOK
<1>2. OneRunning'
  BY <1>a DEF OneRunning
<1>3. InitLives'
  BY <1>a, <1>c DEF InitLives, Live
<1>4. ForkInv'
  BY <1>a, <1>b, <1>c DEF ForkInv, Live, Forking, TypeOK
<1>5. StackInv'
  <2>1. \A t \in Slot : kstack[t] => state'[t] # "UNUSED"
    BY <1>a DEF StackInv
  <2> QED
    BY <1>b, <1>c, <2>1 DEF StackInv
<1>6. FamilyInv'
  BY <1>a, <1>b, <1>c DEF FamilyInv, ForkInv, Forking, Live, TypeOK
<1>7. SleepInv'
  BY <1>a, <1>b, <1>c DEF SleepInv, TypeOK
<1>8. NoMissedExit'
  BY <1>a, <1>c DEF NoMissedExit, Children, TypeOK
<1> QED
  BY <1>1, <1>2, <1>3, <1>4, <1>5, <1>6, <1>7, <1>8

\* allocproc preserves the invariant.
LEMMA AllocProcInv == ASSUME IInv, NEW s \in Slot, AllocProc(s) PROVE IInv'
<1> USE SlotFacts DEF IInv
<1>1. TypeOK'
  BY ProcConstants DEF AllocProc, Running, TypeOK
<1>2. OneRunning'
  BY DEF AllocProc, Running, OneRunning, TypeOK
<1>3. InitLives'
  BY DEF AllocProc, Running, InitLives, TypeOK, Live
<1>4. ForkInv'
  BY SMTT(30) DEF AllocProc, Running, ForkInv, TypeOK, Live, Forking
<1>5. StackInv'
  BY DEF AllocProc, Running, StackInv, TypeOK, ForkInv, Forking
<1>6. FamilyInv'
  BY DEF AllocProc, FamilyInv, TypeOK, Forking, Live
<1>7. SleepInv'
  BY DEF AllocProc, Running, SleepInv, TypeOK, ForkInv, Forking, Live
<1>8. NoMissedExit'
  BY DEF AllocProc, Running, NoMissedExit, TypeOK, Children, ForkInv, Forking, SleepInv, FamilyInv, Live
<1> QED
  BY <1>1, <1>2, <1>3, <1>4, <1>5, <1>6, <1>7, <1>8

\* The kernel stack preserves the invariant.
LEMMA KallocStackInv == ASSUME IInv, NEW s \in Slot, KallocStack(s) PROVE IInv'
<1> USE SlotFacts DEF IInv
<1>1. TypeOK'
  BY Zenon DEF KallocStack, TypeOK
<1>2. OneRunning'
  BY DEF KallocStack, Running, OneRunning, TypeOK
<1>3. InitLives'
  BY DEF KallocStack, Running, InitLives, ForkInv, Forking, TypeOK, Live
<1>4. ForkInv'
  <2>1. np[s] \in Slot /\ state[np[s]] = "EMBRYO" /\ state[s] = "RUNNING" /\ pc[s] = "kalloc"
    BY DEF KallocStack, Running, ForkInv, Forking, TypeOK
  <2>2. CASE pc' = [pc EXCEPT ![s] = "copyuvm"] /\ UNCHANGED <<state, np>>
    BY <2>1, <2>2 DEF ForkInv, TypeOK, Live, Forking
  <2>3. CASE /\ state' = [state EXCEPT ![np[s]] = "UNUSED"]
             /\ pc' = [pc EXCEPT ![s] = "ret"]
             /\ np' = [np EXCEPT ![s] = None]
    BY <2>1, <2>3 DEF ForkInv, TypeOK, Live, Forking
  <2> QED
    BY <2>2, <2>3 DEF KallocStack
<1>5. StackInv'
  BY DEF KallocStack, Running, StackInv, TypeOK, ForkInv
<1>6. FamilyInv'
  BY DEF KallocStack, FamilyInv, TypeOK, ForkInv, InitLives, Live
<1>7. SleepInv'
  BY DEF KallocStack, Running, SleepInv, TypeOK, ForkInv, Forking, Live
<1>8. NoMissedExit'
  BY DEF KallocStack, Running, NoMissedExit, TypeOK, Children, ForkInv, Forking, SleepInv, FamilyInv, Live
<1> QED
  BY <1>1, <1>2, <1>3, <1>4, <1>5, <1>6, <1>7, <1>8

\* fork without memory preserves the invariant.
LEMMA CopyFailInv == ASSUME IInv, NEW s \in Slot, CopyFail(s) PROVE IInv'
<1> USE SlotFacts DEF IInv
<1>1. TypeOK'
  BY Zenon DEF CopyFail, Running, TypeOK
<1>2. OneRunning'
  BY DEF CopyFail, Running, OneRunning, TypeOK
<1>3. InitLives'
  BY DEF CopyFail, Running, InitLives, ForkInv, Forking, TypeOK, Live
<1>4. ForkInv'
  BY DEF CopyFail, Running, ForkInv, TypeOK, Live, Forking
<1>5. StackInv'
  BY DEF CopyFail, Running, StackInv, TypeOK, ForkInv, Forking
<1>6. FamilyInv'
  BY DEF CopyFail, Running, FamilyInv, TypeOK, ForkInv, Forking, InitLives, Live
<1>7. SleepInv'
  BY DEF CopyFail, Running, SleepInv, TypeOK, ForkInv, Forking, Live
<1>8. NoMissedExit'
  BY DEF CopyFail, Running, NoMissedExit, TypeOK, Children, ForkInv, Forking, SleepInv, FamilyInv, Live
<1> QED
  BY <1>1, <1>2, <1>3, <1>4, <1>5, <1>6, <1>7, <1>8

\* fork's copy preserves the invariant.
LEMMA CopyProcInv == ASSUME IInv, NEW s \in Slot, CopyProc(s) PROVE IInv'
<1> USE SlotFacts DEF IInv
<1>1. TypeOK'
  BY Zenon DEF CopyProc, Running, TypeOK
<1>2. OneRunning'
  BY DEF CopyProc, Running, OneRunning, TypeOK
<1>3. InitLives'
  BY DEF CopyProc, Running, InitLives, ForkInv, Forking, TypeOK, Live
<1>4. ForkInv'
  BY DEF CopyProc, Running, ForkInv, TypeOK, Live, Forking
<1>5. StackInv'
  BY DEF CopyProc, Running, StackInv, TypeOK, ForkInv, Forking
<1>6. FamilyInv'
  BY DEF CopyProc, Running, FamilyInv, TypeOK, ForkInv, Forking, Live
<1>7. SleepInv'
  BY DEF CopyProc, Running, SleepInv, TypeOK, ForkInv, Forking, Live
<1>8. NoMissedExit'
  BY DEF CopyProc, Running, NoMissedExit, TypeOK, Children, ForkInv, Forking, SleepInv, FamilyInv, Live
<1> QED
  BY <1>1, <1>2, <1>3, <1>4, <1>5, <1>6, <1>7, <1>8

\* fork's last step preserves the invariant.
LEMMA ForkRunInv == ASSUME IInv, NEW s \in Slot, ForkRun(s) PROVE IInv'
<1> USE SlotFacts DEF IInv
<1>1. TypeOK'
  BY Zenon DEF ForkRun, Running, TypeOK
<1>2. OneRunning'
  BY DEF ForkRun, Running, OneRunning, TypeOK
<1>3. InitLives'
  BY DEF ForkRun, Running, InitLives, TypeOK, Live
<1>4. ForkInv'
  BY DEF ForkRun, ForkInv, TypeOK, Live, Forking
<1>5. StackInv'
  BY DEF ForkRun, Running, StackInv, TypeOK, ForkInv, Forking
<1>6. FamilyInv'
  BY DEF ForkRun, FamilyInv, TypeOK, Forking, Live
<1>7. SleepInv'
  BY DEF ForkRun, Running, SleepInv, TypeOK, ForkInv, Forking, Live
<1>8. NoMissedExit'
  BY DEF ForkRun, NoMissedExit, TypeOK, Children, Live
<1> QED
  BY <1>1, <1>2, <1>3, <1>4, <1>5, <1>6, <1>7, <1>8

\* exit preserves the invariant.
LEMMA ExitInv == ASSUME IInv, NEW s \in Slot, Exit(s) PROVE IInv'
<1> USE SlotFacts DEF IInv
<1>1. TypeOK'
  BY Zenon DEF Exit, Wakeup1, Children, TypeOK
<1>2. OneRunning'
  BY DEF Exit, Running, Wakeup1, Children, OneRunning, TypeOK
<1>3. InitLives'
  BY DEF Exit, Running, Wakeup1, Children, InitLives, TypeOK, Live
<1>4. ForkInv'
  <2>1. /\ pc[s] = "exiting" /\ UNCHANGED <<pc, np>>
        /\ \A t \in Slot : IF t = s THEN state[t] = "RUNNING" /\ state'[t] = "ZOMBIE"
                           ELSE state'[t] = state[t] \/ (state[t] = "SLEEPING" /\ state'[t] = "RUNNABLE")
    BY DEF Exit, Running, Wakeup1, TypeOK
  <2> QED
    BY <2>1 DEF ForkInv, TypeOK, Live, Forking
<1>5. StackInv'
  BY DEF Exit, Running, Wakeup1, Children, StackInv, TypeOK, ForkInv, Forking
<1>6. FamilyInv'
  BY DEF Exit, Running, Wakeup1, FamilyInv, TypeOK, ForkInv, Forking, InitLives, Live
<1>7. SleepInv'
  BY DEF Exit, Running, Wakeup1, Children, SleepInv, TypeOK, ForkInv, Forking, Live
<1>8. NoMissedExit'
  <2> SUFFICES ASSUME NEW q \in Slot, state'[q] = "SLEEPING", chan'[q] = q
               PROVE Children(q)' # {} /\ \A t \in Children(q)' : state'[t] # "ZOMBIE"
    BY DEF NoMissedExit
  <2>1. /\ state[q] = "SLEEPING" /\ chan[q] = q /\ q # s /\ q # parent[s]
        /\ q = initproc => \A t \in Children(s) : state[t] # "ZOMBIE"
    BY DEF Exit, Running, Wakeup1, TypeOK
  <2>2. Children(q) # {} /\ \A t \in Children(q) : state[t] # "ZOMBIE"
    BY <2>1 DEF NoMissedExit
  <2>3. \A t \in Slot : state'[t] = "ZOMBIE" => state[t] = "ZOMBIE" \/ t = s
    BY DEF Exit, Running, Wakeup1, TypeOK
  <2>4. \A t \in Children(q)' : t \in Slot /\ (t \in Children(q) \/ (q = initproc /\ t \in Children(s)))
    BY DEF Exit, Children, TypeOK
  <2>5. Children(q) \subseteq Children(q)'
    BY <2>1 DEF Exit, Children, TypeOK
  <2>6. s \notin Children(q) /\ s \notin Children(s)
    BY <2>1 DEF Children, FamilyInv
  <2> QED
    BY <2>1, <2>2, <2>3, <2>4, <2>5, <2>6
<1> QED
  BY <1>1, <1>2, <1>3, <1>4, <1>5, <1>6, <1>7, <1>8

\* wait finding a ZOMBIE preserves the invariant.
LEMMA ReapInv ==
  ASSUME IInv, NEW s \in Slot, NEW t \in Slot, Running(s), pc[s] = "wait", Reap(s, t)
  PROVE  IInv'
<1> USE SlotFacts DEF IInv
<1>1. TypeOK'
  BY ProcConstants DEF Reap, Running, TypeOK
<1>2. OneRunning'
  BY DEF Reap, Running, OneRunning, TypeOK
<1>3. InitLives'
  BY DEF Reap, Running, InitLives, TypeOK, Live
<1>4. ForkInv'
  BY DEF Reap, Running, ForkInv, TypeOK, Live, Forking
<1>5. StackInv'
  BY DEF Reap, StackInv, TypeOK, Forking
<1>6. FamilyInv'
  BY DEF Reap, FamilyInv, TypeOK, ForkInv, Forking, InitLives, Live
<1>7. SleepInv'
  BY DEF Reap, Running, SleepInv, TypeOK, ForkInv, Forking, Live
<1>8. NoMissedExit'
  BY DEF Reap, NoMissedExit, TypeOK, Children, Live
<1> QED
  BY <1>1, <1>2, <1>3, <1>4, <1>5, <1>6, <1>7, <1>8

\* kill preserves the invariant.
LEMMA KillInv == ASSUME IInv, NEW s \in Slot, NEW p \in 0..MaxPid, Kill(s, p) PROVE IInv'
<1> USE SlotFacts DEF IInv
<1>1. TypeOK'
  <2>1. /\ state' \in [Slot -> {"UNUSED", "EMBRYO", "SLEEPING", "RUNNABLE", "RUNNING", "ZOMBIE"}]
        /\ pc' \in [Slot -> Call \cup {"user", "kalloc", "copyuvm", "publish", "ret"}]
    BY DEF Kill, TypeOK
  <2>2. killed' \in [Slot -> BOOLEAN]
    BY Zenon DEF Kill, TypeOK
  <2>3. UNCHANGED <<pid, parent, kstack, chan, np, nextpid, panicked>>
    BY DEF Kill
  <2> QED
    BY <2>1, <2>2, <2>3, Zenon DEF TypeOK
<1>2. OneRunning'
  BY DEF Kill, Running, OneRunning, TypeOK
<1>3. InitLives'
  BY DEF Kill, Running, InitLives, TypeOK, Live
<1>4. ForkInv'
  BY DEF Kill, ForkInv, TypeOK, Live, Forking
<1>5. StackInv'
  BY DEF Kill, StackInv, TypeOK, ForkInv
<1>6. FamilyInv'
  BY DEF Kill, FamilyInv, TypeOK, InitLives, Live
<1>7. SleepInv'
  BY DEF Kill, SleepInv, TypeOK, Forking, Live
<1>8. NoMissedExit'
  BY DEF Kill, NoMissedExit, TypeOK, Children, Live
<1> QED
  BY <1>1, <1>2, <1>3, <1>4, <1>5, <1>6, <1>7, <1>8

(***************************************************************************)
(* The theorems.                                                           *)
(***************************************************************************)
\* Every step of the table's code preserves the invariant.
LEMMA InvNext == IInv /\ [Next]_vars => IInv'
<1> SUFFICES ASSUME IInv, [Next]_vars PROVE IInv'
  OBVIOUS
<1>1. CASE UNCHANGED vars \/ ExitPanic
  <2>1. /\ UNCHANGED <<state, pid, parent, killed, kstack, chan, pc, np, nextpid>>
        /\ panicked' \in BOOLEAN
    BY <1>1, Zenon DEF vars, ExitPanic, IInv, TypeOK
  <2> QED
    BY <2>1 DEF IInv, TypeOK, OneRunning, InitLives, ForkInv, StackInv, FamilyInv,
       SleepInv, NoMissedExit, Live, Children
<1>2. CASE TimerIdle \/ DiskWakeup
  BY <1>2, WakeInv DEF TimerIdle, DiskWakeup
<1>3. ASSUME NEW s \in Slot, Pick(s) \/ Trap(s) PROVE IInv'
  BY <1>3, PickInv, TimerTrapInv, TrapInv DEF Trap
<1>4. ASSUME NEW s \in Slot, Fork(s) PROVE IInv'
  BY <1>4, AllocProcInv, KallocStackInv, CopyFailInv, CopyProcInv, ForkRunInv DEF Fork
<1>5. ASSUME NEW s \in Slot, DiskSleep(s) \/ Exit(s) \/ SysSleep(s) \/ Wait(s) PROVE IInv'
  BY <1>5, BlockInv, ExitInv, ReapInv DEF Wait
<1>6. ASSUME NEW s \in Slot, NEW p \in 0..MaxPid, Kill(s, p) PROVE IInv'
  BY <1>6, KillInv
<1> QED
  BY <1>1, <1>2, <1>3, <1>4, <1>5, <1>6 DEF Next

\* The inductive invariant holds in every reachable state of the table.
THEOREM ProcInvariant == Spec => []IInv
BY InvInit, InvNext, PTL DEF Spec

\* exit, fork and wait never leave a process without a parent that can wait
\* for it.
THEOREM NoOrphanTheorem == Spec => []NoOrphan
<1>1. IInv => NoOrphan
  BY DEF IInv, FamilyInv, NoOrphan
<1> QED
  BY <1>1, ProcInvariant, PTL

\* A process asleep in wait has a child and no ZOMBIE to collect.
THEOREM NoMissedExitTheorem == Spec => []NoMissedExit
<1>1. IInv => NoMissedExit
  BY DEF IInv
<1> QED
  BY <1>1, ProcInvariant, PTL

\* kill's victim is not left asleep in wait or sys_sleep.
THEOREM KilledAwakeTheorem == Spec => []KilledAwake
<1>1. IInv => KilledAwake
  BY DEF IInv, SleepInv, KilledAwake
<1> QED
  BY <1>1, ProcInvariant, PTL

\* fork gives back what it took on each of its failure paths, and the table
\* is well typed.
THEOREM NoSlotLeakTheorem == Spec => [](TypeOK /\ NoSlotLeak)
<1>1. IInv => TypeOK /\ NoSlotLeak
  BY SlotFacts DEF IInv, ForkInv, StackInv, NoSlotLeak, Forking
<1> QED
  BY <1>1, ProcInvariant, PTL

=============================================================================
