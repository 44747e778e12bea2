----------------------------- MODULE ByteStream -----------------------------
(***************************************************************************)
(* What a pipe promises: a bounded FIFO stream of bytes between an open    *)
(* write end and an open read end.  Every byte in transit was taken, in    *)
(* order and once, from the buffer of a write in progress.  A read gets as *)
(* many bytes as it asked for or as there are, oldest first; when there    *)
(* are none it gets nothing, and only after the write end was closed.      *)
(***************************************************************************)
EXTENDS Naturals, Sequences

CONSTANTS Client,    \* who reads and writes
          Byte,
          Capacity,  \* bytes that may be in transit
          MaxN       \* bound on the length of a read or a write

VARIABLES stream,   \* bytes in transit, oldest first
          pending,  \* for each write in progress, the bytes not yet sent
          asked,    \* for each read in progress, the number of bytes asked for
          got,      \* the chunk the last read returned
          killed,   \* whose calls may be cut short
          wopen, ropen

vars == <<stream, pending, asked, got, killed, wopen, ropen>>

Chunk == UNION {[1..k -> Byte] : k \in 0..MaxN}
Idle == Client \ (DOMAIN pending \cup DOMAIN asked)

\* f with x at p, and f without p.
With(f, p, x) == [q \in DOMAIN f \cup {p} |-> IF q = p THEN x ELSE f[q]]
Without(f, p) == [q \in DOMAIN f \ {p} |-> f[q]]

Take(s, k) == SubSeq(s, 1, k)
Drop(s, k) == SubSeq(s, k + 1, Len(s))

Init == /\ stream = <<>> /\ pending = <<>> /\ asked = <<>> /\ got = <<>>
        /\ killed = [p \in Client |-> FALSE]
        /\ wopen = TRUE /\ ropen = TRUE

Write(p, s) == /\ p \in Idle /\ wopen
               /\ pending' = With(pending, p, s)
               /\ UNCHANGED <<stream, asked, got, killed, wopen, ropen>>

\* The next k bytes of p's write enter the stream.  The write is over when
\* all have; it is given up before that only when the stream is full and
\* nobody can read it any more, or p was killed.
Send(p, k) == /\ p \in DOMAIN pending
              /\ k <= Len(pending[p]) /\ Len(stream) + k <= Capacity
              /\ stream' = stream \o Take(pending[p], k)
              /\ \/ /\ k = Len(pending[p])
                    /\ pending' = Without(pending, p)
                 \/ /\ k < Len(pending[p])
                    /\ pending' = With(pending, p, Drop(pending[p], k))
                 \/ /\ k < Len(pending[p]) /\ Len(stream') = Capacity
                    /\ ~ropen \/ killed[p]
                    /\ pending' = Without(pending, p)
              /\ UNCHANGED <<asked, got, killed, wopen, ropen>>

Read(p, n) == /\ p \in Idle /\ ropen
              /\ asked' = With(asked, p, n)
              /\ UNCHANGED <<stream, pending, got, killed, wopen, ropen>>

Recv(p, k) == /\ p \in DOMAIN asked
              /\ stream # <<>> \/ ~wopen
              /\ k \in {asked[p], Len(stream)} /\ k <= asked[p] /\ k <= Len(stream)
              /\ got' = Take(stream, k)
              /\ stream' = Drop(stream, k)
              /\ asked' = Without(asked, p)
              /\ UNCHANGED <<pending, killed, wopen, ropen>>

\* A killed reader does not wait for bytes.
ReadFails(p) == /\ p \in DOMAIN asked /\ killed[p]
                /\ stream = <<>> /\ wopen
                /\ asked' = Without(asked, p)
                /\ UNCHANGED <<stream, pending, got, killed, wopen, ropen>>

Kill(p) == /\ killed' = [killed EXCEPT ![p] = TRUE]
           /\ UNCHANGED <<stream, pending, asked, got, wopen, ropen>>

\* An end is closed when nobody is using it.
CloseWrite == /\ wopen /\ DOMAIN pending = {}
              /\ wopen' = FALSE
              /\ UNCHANGED <<stream, pending, asked, got, killed, ropen>>

CloseRead == /\ ropen /\ DOMAIN asked = {}
             /\ ropen' = FALSE
             /\ UNCHANGED <<stream, pending, asked, got, killed, wopen>>

Next == \/ \E p \in Client : \/ \E s \in Chunk : Write(p, s)
                             \/ \E n \in 0..MaxN : Read(p, n)
                             \/ \E k \in 0..Capacity : Send(p, k) \/ Recv(p, k)
                             \/ ReadFails(p) \/ Kill(p)
        \/ CloseWrite \/ CloseRead

Spec == Init /\ [][Next]_vars
=============================================================================
