------------------------------ MODULE ProcTree ------------------------------
(***************************************************************************)
(* What fork, exit and wait promise to user programs, in terms of pids     *)
(* only: no table, no slots, no sleeping.  A process is alive, then a      *)
(* zombie, then gone; each child is reaped once, by its parent, and the    *)
(* children of a process that exits belong to the process Root.            *)
(***************************************************************************)
CONSTANTS Pid, Root, NoPid

VARIABLES alive,    \* pids of the processes that have not exited
          zombie,   \* pids of those that exited and were not waited for
          child,    \* pairs <<c, p>>: c is a child of p
          current   \* pid of the process that has the CPU, or NoPid

vars == <<alive, zombie, child, current>>

Init == alive = {Root} /\ zombie = {} /\ child = {} /\ current = NoPid

Switch(p) == /\ p \in alive \cup {NoPid}
             /\ current' = p
             /\ UNCHANGED <<alive, zombie, child>>

Fork(c) == /\ current \in alive
           /\ c \notin alive \cup zombie
           /\ alive' = alive \cup {c}
           /\ child' = child \cup {<<c, current>>}
           /\ UNCHANGED <<zombie, current>>

Exit == /\ current \in alive \ {Root}
        /\ alive' = alive \ {current}
        /\ zombie' = zombie \cup {current}
        /\ child' = {<<e[1], IF e[2] = current THEN Root ELSE e[2]>> : e \in child}
        /\ current' = NoPid

Wait(c) == /\ current \in alive
           /\ c \in zombie
           /\ <<c, current>> \in child
           /\ zombie' = zombie \ {c}
           /\ child' = child \ {<<c, current>>}
           /\ UNCHANGED <<alive, current>>

Next == \/ \E p \in Pid \cup {NoPid} : Switch(p)
        \/ \E c \in Pid : Fork(c) \/ Wait(c)
        \/ Exit

Spec == Init /\ [][Next]_vars
=============================================================================
