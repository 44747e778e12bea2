------------------------------- MODULE TxDisk -------------------------------
(***************************************************************************)
(* What the logging layer of log.c promises to the file system above it:   *)
(* a disk whose updates become durable in groups, and only when no file    *)
(* system operation is in progress.  A crash throws away exactly what has  *)
(* not been made durable, so an operation is never half on the disk.       *)
(***************************************************************************)
CONSTANTS Proc,      \* the processes that run file system operations
          Block,     \* the disk blocks outside the log
          Value      \* the contents a block can have

VARIABLES durable,   \* the disk a reboot would show
          current,   \* the disk the running kernel shows
          active     \* the processes between begin_op and end_op

vars == <<durable, current, active>>

Init == /\ durable \in [Block -> Value]
        /\ current = durable
        /\ active = {}

\* begin_op returns.
Begin(p) == /\ p \notin active
            /\ active' = active \cup {p}
            /\ UNCHANGED <<durable, current>>

\* An operation changes one block.
Write(p, b, v) == /\ p \in active
                  /\ current' = [current EXCEPT ![b] = v]
                  /\ UNCHANGED <<durable, active>>

\* end_op gives the operation up to the group commit.
End(p) == /\ p \in active
          /\ active' = active \ {p}
          /\ UNCHANGED <<durable, current>>

\* The group commit: every finished operation at once, no unfinished one.
Commit == /\ active = {}
          /\ durable' = current
          /\ UNCHANGED <<current, active>>

\* Power is lost: what was not durable is gone.
Crash == /\ current' = durable
         /\ active' = {}
         /\ UNCHANGED durable

Next == \/ \E p \in Proc : \/ Begin(p)
                           \/ End(p)
                           \/ \E b \in Block, v \in Value : Write(p, b, v)
        \/ Commit
        \/ Crash

Spec == Init /\ [][Next]_vars
=============================================================================
