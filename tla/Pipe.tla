-------------------------------- MODULE Pipe --------------------------------
(***************************************************************************)
(* A pipe: the ring buffer of pipe.c, and the two file structures through  *)
(* which processes share its ends (filedup and fileclose of file.c).       *)
(*                                                                         *)
(* pipewrite and piperead hold p->lock, with interrupts off, until they    *)
(* sleep or return: each such section is one step.  A process may be       *)
(* preempted and killed between the system call's entry and the lock, and  *)
(* between fileclose's ftable.lock section and pipeclose.                  *)
(***************************************************************************)
EXTENDS Naturals, Sequences, FiniteSets

CONSTANTS Proc,      \* the processes
          First,     \* the one that calls sys_pipe
          Killable,  \* those that another process may kill
          Byte,      \* values of a byte
          PIPESIZE,  \* size of the ring
          UintSize,  \* nread and nwrite count modulo this
          MaxN       \* bound on the length of a read or a write

ASSUME PipeConstants == /\ First \in Proc /\ Killable \subseteq Proc /\ Byte # {}
                        /\ PIPESIZE \in Nat \ {0} /\ MaxN \in Nat
                        /\ \E m \in 2..UintSize : UintSize = m * PIPESIZE

VARIABLES
  data, nread, nwrite, readopen, writeopen,   \* struct pipe
  freed,       \* the page of the pipe was given to kfree
  rends, wends,  \* the processes with the read and the write file open
  pc,          \* where each process is
  addr,        \* pipewrite's addr[i..n-1]: the caller's bytes still to be written
  want,        \* piperead's n
  got,         \* what the last piperead copied out
  killed       \* p->killed

pipe == <<data, nread, nwrite, readopen, writeopen, freed>>
vars == <<data, nread, nwrite, readopen, writeopen, freed, rends, wends, pc, addr, want, got, killed>>

Index == 0..PIPESIZE - 1
Smaller(a, b) == IF a < b THEN a ELSE b
Buffer == UNION {[1..n -> Byte] : n \in 0..MaxN}  \* what a caller may write

\* Bytes in the ring: the difference of the counters as unsigned integers.
Count == (nwrite + UintSize - nread) % UintSize
Unread == [i \in 1..Count |-> data[(nread + i - 1) % PIPESIZE]]

\* wakeup(&p->nread) and wakeup(&p->nwrite).
WakeReaders(f) == [p \in Proc |-> IF f[p] = "rsleep" THEN "read" ELSE f[p]]
WakeWriters(f) == [p \in Proc |-> IF f[p] = "wsleep" THEN "write" ELSE f[p]]

\* After pipealloc and sys_pipe; kalloc's page holds arbitrary bytes.
Init == /\ data \in [Index -> Byte]
        /\ nread = 0 /\ nwrite = 0
        /\ readopen = TRUE /\ writeopen = TRUE
        /\ freed = FALSE
        /\ rends = {First} /\ wends = {First}
        /\ pc = [p \in Proc |-> IF p = First THEN "idle" ELSE "unborn"]
        /\ addr = [p \in Proc |-> <<>>]
        /\ want = [p \in Proc |-> 0]
        /\ got = <<>>
        /\ killed = [p \in Proc |-> FALSE]

\* fork: filedup of the ends the parent has open.
Fork(p, q) == /\ pc[p] = "idle" /\ ~killed[p]
              /\ pc[q] = "unborn"
              /\ pc' = [pc EXCEPT ![q] = "idle"]
              /\ rends' = IF p \in rends THEN rends \cup {q} ELSE rends
              /\ wends' = IF p \in wends THEN wends \cup {q} ELSE wends
              /\ UNCHANGED <<pipe, addr, want, got, killed>>

\* kill wakes the process from either sleep.
Kill(p) == /\ p \in Killable
           /\ pc[p] # "unborn" /\ ~killed[p]
           /\ killed' = [killed EXCEPT ![p] = TRUE]
           /\ pc' = [pc EXCEPT ![p] = CASE @ = "rsleep" -> "read" [] @ = "wsleep" -> "write"
                                        [] OTHER -> @]
           /\ UNCHANGED <<pipe, rends, wends, addr, want, got>>

\* The system calls up to acquire(&p->lock): write passes a buffer of the
\* caller's bytes, read the number of bytes it has room for.
CallWrite(p, s) == /\ pc[p] = "idle" /\ ~killed[p] /\ p \in wends
                   /\ pc' = [pc EXCEPT ![p] = "write"]
                   /\ addr' = [addr EXCEPT ![p] = s]
                   /\ UNCHANGED <<pipe, rends, wends, want, got, killed>>

CallRead(p, n) == /\ pc[p] = "idle" /\ ~killed[p] /\ p \in rends
                  /\ pc' = [pc EXCEPT ![p] = "read"]
                  /\ want' = [want EXCEPT ![p] = n]
                  /\ UNCHANGED <<pipe, rends, wends, addr, got, killed>>

\* Mutant: the write index is advanced before it is used.
Put_PreIncrement(s) == /\ data' = [i \in Index |->
                                     IF \E k \in 1..Len(s) : (nwrite + k) % PIPESIZE = i
                                     THEN s[CHOOSE k \in 1..Len(s) : (nwrite + k) % PIPESIZE = i]
                                     ELSE data[i]]
                       /\ nwrite' = (nwrite + Len(s)) % UintSize

\* The bytes s go into the ring one after the other.
Put(s) == /\ data' = [i \in Index |->
                        IF \E k \in 1..Len(s) : (nwrite + k - 1) % PIPESIZE = i
                        THEN s[CHOOSE k \in 1..Len(s) : (nwrite + k - 1) % PIPESIZE = i]
                        ELSE data[i]]
          /\ nwrite' = (nwrite + Len(s)) % UintSize

\* Mutant: the test for a full ring is dropped.
pipewrite_NoFullTest(p) ==
  /\ pc[p] = "write"
  /\ Put(addr[p])
  /\ addr' = [addr EXCEPT ![p] = <<>>]
  /\ pc' = WakeReaders([pc EXCEPT ![p] = "idle"])
  /\ UNCHANGED <<nread, readopen, writeopen, freed, rends, wends, want, got, killed>>

\* pipewrite until it returns n, returns -1, or sleeps on a full ring with
\* the rest of the caller's bytes still to go.
pipewrite(p) ==
  /\ pc[p] = "write"
  /\ LET n == Len(addr[p])
         k == Smaller(n, PIPESIZE - Count)
     IN /\ Put(SubSeq(addr[p], 1, k))
        /\ \/ /\ k = n
              /\ addr' = [addr EXCEPT ![p] = <<>>]
              /\ pc' = WakeReaders([pc EXCEPT ![p] = "idle"])
           \/ /\ k < n
              /\ ~readopen \/ killed[p]
              /\ addr' = [addr EXCEPT ![p] = <<>>]
              /\ pc' = [pc EXCEPT ![p] = "idle"]
           \/ /\ k < n
              /\ readopen /\ ~killed[p]
              /\ addr' = [addr EXCEPT ![p] = SubSeq(@, k + 1, n)]
              /\ pc' = WakeReaders([pc EXCEPT ![p] = "wsleep"])
  /\ UNCHANGED <<nread, readopen, writeopen, freed, rends, wends, want, got, killed>>

\* piperead: sleep on an empty ring, or copy out what there is.
ReadSleep(p) == /\ pc[p] = "read"
                /\ Count = 0 /\ writeopen
                /\ IF killed[p]
                   THEN pc' = [pc EXCEPT ![p] = "idle"] /\ want' = [want EXCEPT ![p] = 0]
                   ELSE pc' = [pc EXCEPT ![p] = "rsleep"] /\ UNCHANGED want
                /\ UNCHANGED <<pipe, rends, wends, addr, got, killed>>

\* Mutant: the writers are not woken.
ReadCopy_NoWakeup(p) == /\ pc[p] = "read"
                        /\ ~(Count = 0 /\ writeopen)
                        /\ LET k == Smaller(want[p], Count)
                           IN /\ got' = [i \in 1..k |-> Unread[i]]
                              /\ nread' = (nread + k) % UintSize
                        /\ want' = [want EXCEPT ![p] = 0]
                        /\ pc' = [pc EXCEPT ![p] = "idle"]
                        /\ UNCHANGED <<data, nwrite, readopen, writeopen, freed, rends, wends, addr, killed>>

ReadCopy(p) == /\ pc[p] = "read"
               /\ ~(Count = 0 /\ writeopen)
               /\ LET k == Smaller(want[p], Count)
                  IN /\ got' = [i \in 1..k |-> Unread[i]]
                     /\ nread' = (nread + k) % UintSize
               /\ want' = [want EXCEPT ![p] = 0]
               /\ pc' = WakeWriters([pc EXCEPT ![p] = "idle"])
               /\ UNCHANGED <<data, nwrite, readopen, writeopen, freed, rends, wends, addr, killed>>

\* fileclose under ftable.lock; the last reference goes on to pipeclose.
CloseWrite(p) == /\ pc[p] = "idle" /\ p \in wends
                 /\ wends' = wends \ {p}
                 /\ pc' = [pc EXCEPT ![p] = IF wends = {p} THEN "closew" ELSE "idle"]
                 /\ UNCHANGED <<pipe, rends, addr, want, got, killed>>

CloseRead(p) == /\ pc[p] = "idle" /\ p \in rends
                /\ rends' = rends \ {p}
                /\ pc' = [pc EXCEPT ![p] = IF rends = {p} THEN "closer" ELSE "idle"]
                /\ UNCHANGED <<pipe, wends, addr, want, got, killed>>

\* Mutant: the last writer leaves without waking the readers.
pipeclose_NoWakeup(p) == /\ \/ /\ pc[p] = "closew"
                               /\ writeopen' = FALSE
                               /\ UNCHANGED readopen
                            \/ /\ pc[p] = "closer"
                               /\ readopen' = FALSE
                               /\ UNCHANGED writeopen
                         /\ pc' = [pc EXCEPT ![p] = IF readopen /\ writeopen THEN "idle" ELSE "free"]
                         /\ UNCHANGED <<data, nread, nwrite, freed, rends, wends, addr, want, got, killed>>

\* Mutant: the first close already frees the pipe.
pipeclose_FreesFirst(p) == /\ \/ /\ pc[p] = "closew"
                                 /\ writeopen' = FALSE
                                 /\ pc' = WakeReaders([pc EXCEPT ![p] = "free"])
                                 /\ UNCHANGED readopen
                              \/ /\ pc[p] = "closer"
                                 /\ readopen' = FALSE
                                 /\ pc' = WakeWriters([pc EXCEPT ![p] = "free"])
                                 /\ UNCHANGED writeopen
                           /\ UNCHANGED <<data, nread, nwrite, freed, rends, wends, addr, want, got, killed>>

\* pipeclose under p->lock: wake the other side; the second close frees.
pipeclose(p) == /\ \/ /\ pc[p] = "closew"
                      /\ writeopen' = FALSE
                      /\ pc' = WakeReaders([pc EXCEPT ![p] = IF readopen THEN "idle" ELSE "free"])
                      /\ UNCHANGED readopen
                   \/ /\ pc[p] = "closer"
                      /\ readopen' = FALSE
                      /\ pc' = WakeWriters([pc EXCEPT ![p] = IF writeopen THEN "idle" ELSE "free"])
                      /\ UNCHANGED writeopen
                /\ UNCHANGED <<data, nread, nwrite, freed, rends, wends, addr, want, got, killed>>

\* kfree, after p->lock was released.
Free(p) == /\ pc[p] = "free"
           /\ freed' = TRUE
           /\ pc' = [pc EXCEPT ![p] = "idle"]
           /\ UNCHANGED <<data, nread, nwrite, readopen, writeopen, rends, wends, addr, want, got, killed>>

Next == \E p \in Proc : \/ \E q \in Proc : Fork(p, q)
                        \/ Kill(p)
                        \/ \E s \in Buffer : CallWrite(p, s)
                        \/ \E n \in 0..MaxN : CallRead(p, n)
                        \/ pipewrite(p) \/ ReadSleep(p) \/ ReadCopy(p)
                        \/ CloseWrite(p) \/ CloseRead(p) \/ pipeclose(p) \/ Free(p)

Spec == Init /\ [][Next]_vars

(***************************************************************************)
(* Properties.                                                             *)
(***************************************************************************)
\* Every field holds a value of its type and the ring holds at most
\* PIPESIZE bytes, also after the counters have wrapped around.
TypeOK == /\ data \in [Index -> Byte]
          /\ nread \in 0..UintSize - 1 /\ nwrite \in 0..UintSize - 1
          /\ Count <= PIPESIZE
          /\ readopen \in BOOLEAN /\ writeopen \in BOOLEAN /\ freed \in BOOLEAN
          /\ rends \subseteq Proc /\ wends \subseteq Proc
          /\ pc \in [Proc -> {"unborn", "idle", "write", "wsleep", "read", "rsleep",
                              "closew", "closer", "free"}]
          /\ addr \in [Proc -> Buffer]
          /\ want \in [Proc -> 0..MaxN]
          /\ killed \in [Proc -> BOOLEAN]

\* A writer sleeps only on a full ring that can still be read, and never
\* once it was killed: a read, the close of the read end and a kill each
\* wake it, and nothing else ends its wait.
NoStuckWriter == \A p \in Proc :
  pc[p] = "wsleep" => Count = PIPESIZE /\ readopen /\ ~killed[p]

\* A reader sleeps only on an empty ring that can still be written, and
\* never once it was killed: piperead sleeps while nread == nwrite and the
\* write end is open, and whoever changes that wakes it.
NoStuckReader == \A p \in Proc :
  pc[p] = "rsleep" => Count = 0 /\ writeopen /\ ~killed[p]

\* After kfree no process is, or gets, inside the code that uses the pipe:
\* the last closer of one end cannot race with that of the other.
NoUseAfterFree == freed => \A p \in Proc : pc[p] \in {"idle", "unborn"} /\ p \notin rends \cup wends

\* The stream a pipe stands for, with the calls in progress at its ends.
Stream == INSTANCE ByteStream WITH
            Client <- Proc, Capacity <- PIPESIZE, stream <- Unread,
            pending <- [p \in {q \in Proc : pc[q] \in {"write", "wsleep"}} |-> addr[p]],
            asked <- [p \in {q \in Proc : pc[q] \in {"read", "rsleep"}} |-> want[p]],
            wopen <- writeopen, ropen <- readopen

\* The ring implements a bounded FIFO stream.  The bytes of each write come
\* out once, unchanged and in order, also when the write slept half way and
\* others wrote in between; a write is cut short only by a kill or the close
\* of the read end.  A read gets all it asked for or all there is, and it
\* gets nothing only at end of file or when it asks for nothing.
ImplementsStream == Stream!Spec
=============================================================================
