------------------------------ MODULE Barrier -------------------------------
(***************************************************************************)
(* barrier_init and barrier_wait of proc.c as the zhi test uses them: one  *)
(* barrier_init(max_count), then max_count processes call barrier_wait     *)
(* once each.                                                              *)
(*                                                                         *)
(* counter++ and the test of counter run without a lock and with           *)
(* interrupts on, so the timer may preempt a process after each access.    *)
(* The compiler may test the incremented value it still has in a register  *)
(* or load counter again; both are allowed here.  sleep and wakeup run     *)
(* under ptable.lock and are one step each.  kill is included because it   *)
(* too ends a sleep.                                                       *)
(***************************************************************************)
EXTENDS Naturals, FiniteSets

CONSTANTS Proc,      \* the processes that meet at the barrier
          Killable   \* those that another process may kill

ASSUME BarrierConstants == IsFiniteSet(Proc) /\ Proc # {} /\ Killable \subseteq Proc

VARIABLES max_count, counter,   \* the fields of barrier
          pc,                   \* where each process is
          reg,                  \* the counter value each process last loaded
          killed                \* p->killed

vars == <<max_count, counter, pc, reg, killed>>

\* The global barrier before barrier_init, and no process at it yet.
Init == /\ max_count = 0
        /\ counter = 0
        /\ pc = [p \in Proc |-> "start"]
        /\ reg = [p \in Proc |-> 0]
        /\ killed = [p \in Proc |-> FALSE]

\* Mutant: the arrivals of an earlier use are not cleared.
barrier_init_NoReset == /\ \A p \in Proc : pc[p] = "start"
                        /\ max_count' = Cardinality(Proc)
                        /\ \E c \in 0..Cardinality(Proc) : counter' = c
                        /\ pc' = [p \in Proc |-> "before"]
                        /\ UNCHANGED <<reg, killed>>

\* The first process initialises the barrier and forks the others.
barrier_init == /\ \A p \in Proc : pc[p] = "start"
                /\ counter' = 0
                /\ max_count' = Cardinality(Proc)
                /\ pc' = [p \in Proc |-> "before"]
                /\ UNCHANGED <<reg, killed>>

\* barrier.counter++: the load ...
Load(p) == /\ pc[p] = "before"
           /\ reg' = [reg EXCEPT ![p] = counter]
           /\ pc' = [pc EXCEPT ![p] = "loaded"]
           /\ UNCHANGED <<max_count, counter, killed>>

\* ... and the store.
Store(p) == /\ pc[p] = "loaded"
            /\ counter' = reg[p] + 1
            /\ reg' = [reg EXCEPT ![p] = @ + 1]
            /\ pc' = [pc EXCEPT ![p] = "stored"]
            /\ UNCHANGED <<max_count, killed>>

\* Mutant: the comparison is off by one.
Test_OffByOne(p) == /\ pc[p] = "stored"
                    /\ \E c \in {reg[p], counter} :
                         pc' = [pc EXCEPT ![p] = IF c + 1 < max_count THEN "mustsleep" ELSE "broken"]
                    /\ UNCHANGED <<max_count, counter, reg, killed>>

\* if(barrier.counter < barrier.max_count), on the register or on a reload.
Test(p) == /\ pc[p] = "stored"
           /\ \E c \in {reg[p], counter} :
                pc' = [pc EXCEPT ![p] = IF c < max_count THEN "mustsleep" ELSE "broken"]
           /\ UNCHANGED <<max_count, counter, reg, killed>>

\* acquire(&ptable.lock); sleep(&barrier, &ptable.lock)
Sleep(p) == /\ pc[p] = "mustsleep"
            /\ pc' = [pc EXCEPT ![p] = "asleep"]
            /\ UNCHANGED <<max_count, counter, reg, killed>>

\* wakeup(&barrier)
Wakeup(p) == /\ pc[p] = "broken"
             /\ pc' = [q \in Proc |-> IF q = p \/ pc[q] = "asleep" THEN "ret" ELSE pc[q]]
             /\ UNCHANGED <<max_count, counter, reg, killed>>

\* The system call returns to user mode, or trap makes the process exit.
Return(p) == /\ pc[p] = "ret"
             /\ pc' = [pc EXCEPT ![p] = IF killed[p] THEN "exited" ELSE "after"]
             /\ UNCHANGED <<max_count, counter, reg, killed>>

\* kill: the flag is set, and a sleeper made RUNNABLE.  A process in user
\* mode exits at its next trap.
Kill(p) == /\ p \in Killable
           /\ pc[p] \notin {"start", "exited"}
           /\ killed' = [killed EXCEPT ![p] = TRUE]
           /\ pc' = [pc EXCEPT ![p] = CASE @ = "asleep" -> "ret"
                                        [] @ \in {"before", "after"} -> "exited"
                                        [] OTHER -> @]
           /\ UNCHANGED <<max_count, counter, reg>>

barrier_wait(p) == Load(p) \/ Store(p) \/ Test(p) \/ Sleep(p) \/ Wakeup(p) \/ Return(p)

Next == barrier_init \/ \E p \in Proc : barrier_wait(p) \/ Kill(p)

Spec == Init /\ [][Next]_vars

\* Every process that can run does run, and interrupted code is resumed.
FairSpec == Spec /\ WF_vars(barrier_init) /\ \A p \in Proc : WF_vars(barrier_wait(p))

(***************************************************************************)
(* Properties.                                                             *)
(***************************************************************************)
\* The fields of the barrier and of each process hold values of their types.
TypeOK == /\ max_count \in 0..Cardinality(Proc)
          /\ counter \in 0..Cardinality(Proc)
          /\ pc \in [Proc -> {"start", "before", "loaded", "stored", "mustsleep", "asleep",
                              "broken", "ret", "after", "exited"}]
          /\ reg \in [Proc -> 0..Cardinality(Proc)]
          /\ killed \in [Proc -> BOOLEAN]

\* No process is past barrier_wait in user mode unless every process has
\* counted itself in (its register then holds at least 1): neither a lost
\* update of the unlocked counter, nor a sleep that kill cuts short, nor the
\* death of a process that never arrived lets one through.
NoEarlyPass == \A p, q \in Proc :
  pc[p] = "after" => pc[q] \notin {"start", "before", "loaded"} /\ reg[q] > 0

\* Every process gets past the barrier or is killed: every arrival is counted
\* by barrier.counter++, and no sleeper misses the wakeup of the last one.
AllPass == <>(\A p \in Proc : pc[p] \in {"after", "exited"})
=============================================================================
