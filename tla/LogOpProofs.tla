---------------------------- MODULE LogOpProofs -----------------------------
(***************************************************************************)
(* The inductive invariant of Log, for any number of processes and blocks  *)
(* and any sizes, and its preservation by the steps of an operation:       *)
(* begin_op, bread, log_write, end_op.                                     *)
(*                                                                         *)
(* None of the properties is inductive: what makes a commit safe is what   *)
(* the cache, the log area and the two headers have in common at each      *)
(* stage of commit() and of recovery.  IInv states it stage by stage.      *)
(***************************************************************************)
EXTENDS Log, FiniteSetTheorems, TLAPS

Committer == {p \in Proc : pc[p] \in {"write_log", "install", "done"}}

\* Who is where: one process commits, and only when no operation runs.
CtlInv ==
  /\ outstanding = Cardinality(InOp)
  /\ committing => outstanding = 0
  /\ committing <=> Committer # {}
  /\ \A p, q \in Committer : p = q
  /\ \A p \in Proc : buf[p] # NoBlock <=> pc[p] \in {"check", "append"}
  /\ \A p, q \in Proc : buf[p] # NoBlock /\ buf[p] = buf[q] => p = q

\* Nothing runs between a crash and the end of recovery.
DownInv ==
  /\ \A p \in Proc : pc[p] = "idle" /\ buf[p] = NoBlock
  /\ outstanding = 0
  /\ committing = FALSE
  /\ dirty = {}

\* A header lists a block once.
Distinct(h) == \A i, j \in 1..Len(h) : h[i] = h[j] => i = j

\* Recovery has installed the first tail blocks of the committed transaction.
RecoverInv ==
  /\ lh = head
  /\ tail <= Len(lh)
  /\ \A b \in Block : cache[b] \in {NoBlock, home[b]}
  /\ \A i \in 1..tail : home[lh[i]] = area[i]

\* The cache is newer than the disk only where the transaction knows it.
PinInv == /\ \A b \in Block : View(b) # home[b] => b \in Held \cup dirty
          /\ dirty \subseteq Logged

\* write_log has copied the first tail blocks of the transaction.
Logging == /\ tail <= Len(lh)
           /\ \A i \in 1..tail : area[i] = View(lh[i])

\* The transaction is on the disk and its first tail blocks are at home.
Installing == /\ tail <= Len(lh)
              /\ head = lh
              /\ \A i \in 1..Len(lh) : area[i] = View(lh[i])
              /\ \A i \in 1..tail : home[lh[i]] = area[i]
              /\ \A i \in 1..tail : lh[i] \notin dirty

\* The running kernel, by the stage of its commit.
UpInv == /\ PinInv
         /\ (\A p \in Proc : pc[p] # "install") => head = <<>>
         /\ outstanding = 0 /\ ~committing => lh = <<>>
         /\ \A p \in Proc : /\ pc[p] = "write_log" => Logging
                            /\ pc[p] = "install" => Installing
                            /\ pc[p] = "done" => lh = <<>>

\* What is left of the space reserved for the running operations: one token
\* for each block an operation may still add to the log.
Tokens == {t \in InOp \X (1..OpMax) : t[2] > Cardinality(wrote[t[1]])}

\* begin_op's reservation in force.
SpaceInv ==
  /\ Len(lh) + Cardinality(Tokens) + MAXOPBLOCKS <= LOGSIZE + OpMax
  /\ \A p \in InOp : wrote[p] \subseteq Logged /\ IsFiniteSet(wrote[p])
  /\ \A p \in InOp : buf[p] # NoBlock => Cardinality(wrote[p] \cup {buf[p]}) <= OpMax

IInv ==
  /\ TypeOK
  /\ sys # "panic"
  /\ Len(head) + MAXOPBLOCKS <= LOGSIZE + OpMax /\ Distinct(head)
  /\ Distinct(lh)
  /\ CtlInv
  /\ SpaceInv
  /\ sys = "boot" => DownInv /\ lh = <<>> /\ \A b \in Block : cache[b] = NoBlock
  /\ sys = "recover" => DownInv /\ RecoverInv
  /\ sys = "up" => UpInv

-----------------------------------------------------------------------------
(* Facts used throughout.                                                  *)

\* bread always returns the content of a block.
LEMMA ViewType == ASSUME TypeOK, NEW b \in Block PROVE View(b) \in Value
BY LogConstants DEF TypeOK, View

\* Only finitely many tokens are out.
LEMMA TokensFinite == IsFiniteSet(Tokens) /\ Cardinality(Tokens) \in Nat
<1>1. IsFiniteSet(InOp)
  BY LogConstants, FS_Subset DEF InOp
<1>2. IsFiniteSet(1..OpMax)
  BY LogConstants, FS_Interval
<1>3. IsFiniteSet(InOp \X (1..OpMax))
  BY Zenon, <1>1, <1>2, FS_Product
<1> QED BY <1>3, FS_Subset, FS_CardinalityType DEF Tokens

\* The log blocks the headers speak of exist on the disk.
LEMMA LogSlots ==
  ASSUME LogRoom, IInv
  PROVE  /\ \A i \in 1..Len(lh) : i \in Slot
         /\ \A i \in 1..Len(head) : i \in Slot
         /\ Len(lh) < LOGSIZE /\ Len(lh) < NLOG - 1
<1>1. Len(lh) \in Nat /\ Len(head) \in Nat
  BY DEF IInv, TypeOK
<1>2. Cardinality(Tokens) \in Nat
  BY TokensFinite
<1>3. Len(lh) + MAXOPBLOCKS <= LOGSIZE + OpMax /\ Len(head) + MAXOPBLOCKS <= LOGSIZE + OpMax
  BY <1>1, <1>2, LogConstants DEF IInv, SpaceInv
<1> QED BY <1>1, <1>3, LogConstants DEF LogRoom, Slot

\* A process inside an operation is counted in log.outstanding.
LEMMA Counted ==
  ASSUME IInv, NEW p \in InOp
  PROVE  outstanding >= 1 /\ outstanding \in Nat /\ ~committing
<1>1. IsFiniteSet(InOp)
  BY LogConstants, FS_Subset DEF InOp
<1>2. Cardinality(InOp) \in Nat /\ Cardinality(InOp) # 0
  BY <1>1, FS_CardinalityType, FS_EmptySet
<1> QED BY <1>2 DEF IInv, CtlInv

\* A step that only moves processes among the places outside operations and
\* commits, or that grows no operation, keeps the reservation.
LEMMA SpaceKept ==
  ASSUME TypeOK, SpaceInv, UNCHANGED <<lh, wrote, buf>>, InOp' \subseteq InOp
  PROVE  SpaceInv'
<1>1. Tokens' \subseteq Tokens
  BY DEF Tokens
<1>2. /\ Cardinality(Tokens') <= Cardinality(Tokens)
      /\ Cardinality(Tokens') \in Nat /\ Cardinality(Tokens) \in Nat
  BY <1>1, TokensFinite, FS_Subset, FS_CardinalityType
<1> QED BY <1>2, LogConstants, SMTT(30) DEF SpaceInv, Logged, TypeOK

(* One lemma per action: every step of Log keeps IInv.                  *)

\* What a step of the running kernel that keeps both headers has to show.
LEMMA UpKept ==
  ASSUME IInv, sys' = "up", UNCHANGED <<head, lh>>, TypeOK', CtlInv', SpaceInv', UpInv'
  PROVE  IInv'
<1>1. Len(head) + MAXOPBLOCKS <= LOGSIZE + OpMax /\ Distinct(head) /\ Distinct(lh)
  BY Zenon DEF IInv
<1>2. Len(head') + MAXOPBLOCKS <= LOGSIZE + OpMax /\ Distinct(head)' /\ Distinct(lh)'
  BY <1>1 DEF Distinct
<1> QED BY Zenon, <1>2 DEF IInv

LEMMA InitInv == ASSUME LogRoom, Init PROVE IInv
<1>1. InOp = {} /\ Tokens = {}
  BY DEF Init, InOp, Tokens
<1>2. Cardinality(InOp) = 0 /\ Cardinality(Tokens) = 0
  BY <1>1, FS_EmptySet
<1>3. Len(lh) = 0 /\ Len(head) = 0 /\ lh = <<>> /\ head = <<>>
  BY DEF Init
<1>4. TypeOK
  <2>1. lh \in Seq(Block) /\ head \in Seq(Block)
    BY <1>3
  <2>2. home \in [Block -> Value] /\ area \in [Slot -> Value]
    BY LogConstants DEF Init
  <2>3. cache \in [Block -> Value \cup {NoBlock}] /\ buf \in [Proc -> Block \cup {NoBlock}]
    BY DEF Init
  <2>4. pc \in [Proc -> PC] /\ wrote \in [Proc -> SUBSET Block]
    BY DEF Init, PC
  <2> QED BY Zenon, <2>1, <2>2, <2>3, <2>4 DEF Init, TypeOK
<1>5. SpaceInv
  BY <1>1, <1>2, <1>3, LogConstants DEF SpaceInv, LogRoom
<1>6. CtlInv
  BY <1>2 DEF CtlInv, Init, Committer
<1> QED
  BY <1>1, <1>2, <1>3, <1>4, <1>5, <1>6, LogConstants DEF IInv, Init, DownInv, Distinct, LogRoom

LEMMA BreadInv == ASSUME LogRoom, IInv, NEW b \in Block, Bread(b) PROVE IInv'
<1> USE DEF Bread, disk, log, ctl
<1>1. TypeOK'
  BY DEF IInv, TypeOK
<1>2. CtlInv'
  BY DEF IInv, CtlInv, InOp, Committer
<1>3. SpaceInv'
  BY SpaceKept DEF IInv, InOp
<1>4. \A c \in Block : View(c)' = View(c)
  BY LogConstants DEF IInv, TypeOK, View
<1>5. UpInv'
  BY <1>4, SMTT(30) DEF IInv, UpInv, PinInv, Logging, Installing, Held, Logged, TypeOK
<1> QED BY <1>1, <1>2, <1>3, <1>5 DEF IInv, Distinct

LEMMA RecycleInv == ASSUME LogRoom, IInv, NEW b \in Block, Recycle(b) PROVE IInv'
<1> USE DEF Recycle, disk, log, ctl
<1>1. TypeOK'
  BY DEF IInv, TypeOK
<1>2. CtlInv'
  BY DEF IInv, CtlInv, InOp, Committer
<1>3. SpaceInv'
  BY SMTT(60), SpaceKept DEF IInv, InOp
<1>4. \A c \in Block : View(c)' = View(c)
  BY SMTT(60), LogConstants DEF IInv, TypeOK, View, UpInv, PinInv, Logging, Installing
<1>5. UpInv'
  BY <1>4 DEF IInv, UpInv, PinInv, Logging, Installing, Held, Logged, TypeOK
<1> QED BY <1>1, <1>2, <1>3, <1>5 DEF IInv, Distinct

LEMMA BeginSleepInv == ASSUME LogRoom, IInv, NEW p \in Proc, BeginSleep(p) PROVE IInv'
<1> USE DEF BeginSleep, disk, log, bcache
<1>1. TypeOK'
  BY DEF IInv, TypeOK, PC
<1>2. InOp' = InOp /\ Committer' = Committer
  BY DEF IInv, TypeOK, InOp, Committer
<1>3. CtlInv'
  BY <1>2 DEF IInv, CtlInv, TypeOK
<1>4. SpaceInv'
  BY SMTT(60), <1>2, SpaceKept DEF IInv
<1>5. UpInv'
  BY DEF IInv, UpInv, PinInv, Logging, Installing, Held, Logged, View
<1> QED BY SMTT(60), <1>1, <1>3, <1>4, <1>5 DEF IInv, Distinct

LEMMA KillWakeupInv == ASSUME LogRoom, IInv, NEW p \in Proc, KillWakeup(p) PROVE IInv'
<1> USE DEF KillWakeup, disk, log, bcache
<1>1. TypeOK'
  BY DEF IInv, TypeOK, PC
<1>2. InOp' = InOp /\ Committer' = Committer
  BY DEF IInv, TypeOK, InOp, Committer
<1>3. CtlInv'
  BY <1>2 DEF IInv, CtlInv, TypeOK
<1>4. SpaceInv'
  BY SMTT(60), <1>2, SpaceKept DEF IInv
<1>5. UpInv'
  BY DEF IInv, UpInv, PinInv, Logging, Installing, Held, Logged, TypeOK, View
<1> QED BY SMTT(60), <1>1, <1>3, <1>4, <1>5 DEF IInv, Distinct

\* The reservation itself: begin_op admits an operation only if even a full
\* use of every admitted operation's share fits.
LEMMA BeginOpSpace == ASSUME LogRoom, IInv, NEW p \in Proc, BeginOp(p) PROVE SpaceInv'
<1> USE DEF BeginOp, disk, log, bcache
<1>1. InOp' = InOp \cup {p} /\ p \notin InOp
  BY DEF IInv, TypeOK, InOp
<1>2. IsFiniteSet(InOp) /\ IsFiniteSet(1..OpMax)
  BY LogConstants, FS_Subset, FS_Interval DEF InOp
<1>3. IsFiniteSet(InOp') /\ Cardinality(InOp') = outstanding + 1
  <2>1. outstanding = Cardinality(InOp)
    BY DEF IInv, CtlInv
  <2> HIDE DEF BeginOp
  <2> QED BY SMTT(60), <1>1, <1>2, <2>1, FS_AddElement
<1>4. Cardinality(1..OpMax) = OpMax
  BY LogConstants, FS_Interval
<1>5. IsFiniteSet(InOp' \X (1..OpMax)) /\ Cardinality(InOp' \X (1..OpMax)) = (outstanding + 1) * OpMax
  <2> HIDE DEF BeginOp
  <2> DEFINE S == InOp'
             T == 1..OpMax
  <2>1. IsFiniteSet(S) /\ IsFiniteSet(T)
    BY <1>2, <1>3
  <2> HIDE DEF S, T
  <2>2. IsFiniteSet(S \X T) /\ Cardinality(S \X T) = Cardinality(S) * Cardinality(T)
    BY <2>1, FS_Product
  <2> QED BY <2>2, <1>3, <1>4 DEF S, T
<1>6. Tokens' \subseteq InOp' \X (1..OpMax)
  BY DEF Tokens
<1>7. Cardinality(Tokens') <= (outstanding + 1) * OpMax /\ Cardinality(Tokens') \in Nat
  BY <1>5, <1>6, FS_Subset, FS_CardinalityType
<1>8. Len(lh) + (outstanding + 1) * OpMax + MAXOPBLOCKS <= LOGSIZE + OpMax
  <2>1. Len(lh) + (outstanding + 1) * MAXOPBLOCKS <= LOGSIZE
    BY LogConstants DEF NoRoom, IInv, TypeOK
  <2>2. outstanding * OpMax <= outstanding * MAXOPBLOCKS
    BY LogConstants DEF IInv, TypeOK
  <2>3. /\ (outstanding + 1) * OpMax = outstanding * OpMax + OpMax
        /\ (outstanding + 1) * MAXOPBLOCKS = outstanding * MAXOPBLOCKS + MAXOPBLOCKS
        /\ outstanding * OpMax \in Nat /\ outstanding * MAXOPBLOCKS \in Nat
    BY LogConstants DEF IInv, TypeOK
  <2>4. /\ Len(lh) \in Nat /\ MAXOPBLOCKS \in Nat /\ LOGSIZE \in Nat /\ OpMax \in Nat
    BY LogConstants DEF IInv, TypeOK
  <2> DEFINE x == outstanding * OpMax
             y == outstanding * MAXOPBLOCKS
  <2>5. x <= y /\ x \in Nat /\ y \in Nat /\ Len(lh) + (y + MAXOPBLOCKS) <= LOGSIZE
    BY <2>1, <2>2, <2>3
  <2> HIDE DEF x, y
  <2>6. Len(lh) + (x + OpMax) + MAXOPBLOCKS <= LOGSIZE + OpMax
    BY <2>4, <2>5
  <2> QED BY <2>3, <2>6 DEF x
<1>9. Len(lh)' + Cardinality(Tokens') + MAXOPBLOCKS <= LOGSIZE + OpMax
  BY SMTT(60), <1>7, <1>8, LogConstants DEF IInv, TypeOK
<1>10. \A q \in InOp' : wrote'[q] \subseteq Logged' /\ IsFiniteSet(wrote'[q])
  BY SMTT(60), <1>1, FS_EmptySet DEF IInv, SpaceInv, Logged, TypeOK
<1>11. \A q \in InOp' : buf'[q] # NoBlock => Cardinality(wrote'[q] \cup {buf'[q]}) <= OpMax
  BY <1>1 DEF IInv, SpaceInv, CtlInv
<1> QED BY SMTT(60), <1>9, <1>10, <1>11 DEF SpaceInv

LEMMA BeginOpInv == ASSUME LogRoom, IInv, NEW p \in Proc, BeginOp(p) PROVE IInv'
<1> USE DEF BeginOp, disk, log, bcache
<1>1. TypeOK'
  BY DEF IInv, TypeOK, PC
<1>2. InOp' = InOp \cup {p} /\ p \notin InOp /\ Committer' = Committer
  BY DEF IInv, TypeOK, InOp, Committer
<1>3. Cardinality(InOp') = Cardinality(InOp) + 1
  BY Zenon, <1>2, LogConstants, FS_Subset, FS_AddElement DEF InOp
<1>4. CtlInv'
  BY <1>2, <1>3 DEF IInv, CtlInv, TypeOK
<1>5. SpaceInv'
  BY Zenon, BeginOpSpace
<1>6. UpInv'
  BY DEF IInv, UpInv, PinInv, Logging, Installing, Held, Logged, TypeOK, View
<1> QED BY SMTT(60), <1>1, <1>4, <1>5, <1>6 DEF IInv, Distinct

\* log_write leaves the header listing what it listed, and the new block.
LEMMA LoggedGrows ==
  ASSUME TypeOK, NEW b \in Block, lh' = IF b \in Logged THEN lh ELSE Append(lh, b)
  PROVE  /\ Logged' = Logged \cup {b}
         /\ lh' \in Seq(Block) /\ Len(lh) \in Nat /\ Len(lh') \in Nat
         /\ Len(lh') <= Len(lh) + 1
<1>1. CASE b \in Logged
  BY SMTT(30) DEF Logged, TypeOK
<1>2. CASE b \notin Logged
  <2>1. /\ lh' = Append(lh, b) /\ lh \in Seq(Block) /\ Len(lh) \in Nat
        /\ lh' \in Seq(Block) /\ Len(lh') = Len(lh) + 1
        /\ lh'[Len(lh) + 1] = b /\ \A i \in 1..Len(lh) : lh'[i] = lh[i]
    BY <1>2 DEF TypeOK
  <2>2. \A c : c \in Logged' <=> \E i \in 1..(Len(lh) + 1) : c = lh'[i]
    BY <2>1 DEF Logged
  <2>3. \A c : c \in Logged <=> \E i \in 1..Len(lh) : c = lh[i]
    BY DEF Logged
  <2>4. \A i \in 1..(Len(lh) + 1) : i \in 1..Len(lh) \/ i = Len(lh) + 1
    BY <2>1
  <2>5. \A c : c \in Logged' => c \in Logged \cup {b}
    BY <2>1, <2>2, <2>3, <2>4
  <2>6. \A c : c \in Logged \cup {b} => c \in Logged'
    BY SMTT(60), <2>1, <2>2, <2>3
  <2> QED BY <2>1, <2>5, <2>6
<1> QED BY SMTT(60), <1>1, <1>2

LEMMA ModifyInv ==
  ASSUME LogRoom, IInv, NEW p \in Proc, NEW b \in Block, NEW v \in Value, Modify(p, b, v)
  PROVE  IInv'
<1> USE DEF Modify, disk, log
<1>0. p \in InOp /\ buf[p] = NoBlock /\ b # NoBlock
  BY LogConstants, Zenon DEF InOp, IInv, CtlInv
<1>1. ~committing /\ outstanding >= 1 /\ Committer = {}
  BY <1>0, Counted, Zenon DEF IInv, CtlInv
<1>2. TypeOK'
  BY DEF IInv, TypeOK, PC
<1>3. InOp' = InOp /\ Committer' = Committer
  BY SMTT(60) DEF IInv, TypeOK, InOp, Committer
<1>4. CtlInv'
  BY SMTT(60), <1>0, <1>3 DEF IInv, CtlInv, TypeOK, Held
<1>5. SpaceInv'
  <2>1. Tokens' = Tokens
    BY <1>3 DEF Tokens
  <2>2. \A q \in InOp : buf'[q] # NoBlock => Cardinality(wrote[q] \cup {buf'[q]}) <= OpMax
    BY Zenon DEF IInv, SpaceInv, TypeOK, InOp
  <2>3. Logged' = Logged /\ UNCHANGED <<lh, wrote>>
    BY DEF Logged
  <2> HIDE DEF Modify
  <2> QED BY <1>3, <2>1, <2>2, <2>3, Zenon DEF IInv, SpaceInv
<1>6. Held' = Held \cup {b}
  BY <1>0, SMTT(30) DEF IInv, TypeOK, Held
<1>7. \A c \in Block : c # b => View(c)' = View(c)
  BY Zenon DEF View, IInv, TypeOK
<1>8. UpInv'
  BY <1>1, <1>6, <1>7 DEF IInv, UpInv, PinInv, Installing, Logged, Committer
<1> QED BY SMTT(60), <1>2, <1>4, <1>5, <1>8 DEF IInv, Distinct

LEMMA LogCheckInv == ASSUME LogRoom, IInv, NEW p \in Proc, LogCheck(p) PROVE IInv'
<1> USE DEF LogCheck, disk, log, bcache
<1>1. p \in InOp
  BY DEF InOp
<1>2. /\ pc' = [pc EXCEPT ![p] = "append"]
      /\ UNCHANGED <<disk, bcache, log, buf, wrote, sys>>
  <2>1. outstanding >= 1 /\ outstanding \in Nat
    BY SMTT(60), <1>1, Counted
  <2>2. Len(lh) < LOGSIZE /\ Len(lh) < NLOG - 1 /\ Len(lh) \in Nat
    BY LogSlots DEF TypeOK
  <2> QED BY <2>1, <2>2, LogConstants
<1> HIDE DEF LogCheck
<1>3. TypeOK'
  BY SMTT(60), <1>2 DEF IInv, TypeOK, PC
<1>4. pc[p] = "check" /\ InOp' = InOp /\ Committer' = Committer
  BY <1>2, Zenon DEF IInv, TypeOK, InOp, Committer, LogCheck
<1>5. CtlInv'
  BY <1>2, <1>4 DEF IInv, CtlInv
<1>6. SpaceInv'
  BY ZenonT(40), <1>2, <1>4, SpaceKept DEF IInv
<1>7. sys = "up" /\ UpInv'
  BY <1>2 DEF IInv, UpInv, PinInv, Logging, Installing, Held, Logged, View, LogCheck
<1> QED BY SMTT(60), <1>2, <1>3, <1>5, <1>6, <1>7 DEF IInv, Distinct

\* log_write adds a block to the log only against a token of its operation.
LEMMA LogAppendSpace == ASSUME LogRoom, IInv, NEW p \in Proc, LogAppend(p) PROVE SpaceInv'
<1> USE DEF LogAppend, disk
<1>0. p \in InOp /\ buf[p] \in Block /\ InOp' = InOp /\ buf[p] # NoBlock
  BY Zenon DEF InOp, IInv, CtlInv, TypeOK
<1>1. /\ IsFiniteSet(wrote[p]) /\ wrote[p] \subseteq Logged
      /\ Cardinality(wrote[p] \cup {buf[p]}) <= OpMax
  BY <1>0, Zenon DEF IInv, SpaceInv
<1>2. /\ Logged' = Logged \cup {buf[p]} /\ Len(lh') \in Nat /\ Len(lh) \in Nat
      /\ Len(lh') <= Len(lh) + 1
  BY <1>0, LoggedGrows, Zenon DEF IInv
<1>3. /\ wrote' = [wrote EXCEPT ![p] = @ \cup {buf[p]}] /\ wrote \in [Proc -> SUBSET Block]
      /\ buf' = [buf EXCEPT ![p] = NoBlock] /\ buf \in [Proc -> Block \cup {NoBlock}]
  BY Zenon DEF IInv, TypeOK
<1>4. \A q \in InOp' : wrote'[q] \subseteq Logged' /\ IsFiniteSet(wrote'[q])
  <2>1. IsFiniteSet(wrote[p] \cup {buf[p]})
    BY Zenon, <1>1, FS_AddElement
  <2>2. \A q \in InOp : wrote[q] \subseteq Logged /\ IsFiniteSet(wrote[q])
    BY Zenon DEF IInv, SpaceInv
  <2> HIDE DEF LogAppend
  <2> QED BY <1>0, <1>1, <1>2, <1>3, <2>1, <2>2, Zenon DEF InOp
<1>5. \A q \in InOp' : buf'[q] # NoBlock => Cardinality(wrote'[q] \cup {buf'[q]}) <= OpMax
  BY <1>0, <1>3 DEF IInv, SpaceInv
<1>6. Len(lh') + Cardinality(Tokens') <= Len(lh) + Cardinality(Tokens) /\ Cardinality(Tokens') \in Nat
  <2>1. CASE buf[p] \in wrote[p]
    <3>1. wrote' = wrote /\ lh' = lh
      BY <1>1, <1>3, <2>1
    <3>2. Tokens' = Tokens
      BY Zenon, <1>0, <3>1 DEF Tokens
    <3> HIDE DEF LogAppend
    <3> QED BY SMTT(60), <1>2, <3>1, <3>2, TokensFinite
  <2>2. CASE buf[p] \notin wrote[p]
    <3> DEFINE k == Cardinality(wrote[p])
    <3>1. k \in Nat /\ Cardinality(wrote[p] \cup {buf[p]}) = k + 1 /\ k + 1 <= OpMax
      <4> HIDE DEF LogAppend
      <4>1. Cardinality(wrote[p]) \in Nat
        BY <1>1, FS_CardinalityType
      <4>2. Cardinality(wrote[p] \cup {buf[p]}) = Cardinality(wrote[p]) + 1
        BY Zenon, <1>1, <2>2, FS_AddElement
      <4> QED BY <1>1, <4>1, <4>2
    <3>2. wrote'[p] = wrote[p] \cup {buf[p]} /\ \A q \in InOp : q # p => wrote'[q] = wrote[q]
      BY SMTT(60), <1>3 DEF InOp
    <3>3. <<p, k + 1>> \in Tokens
      BY <1>0, <3>1 DEF Tokens
    <3>4. Tokens' \subseteq Tokens \ {<<p, k + 1>>}
      <4> SUFFICES ASSUME NEW t \in Tokens' PROVE t \in Tokens /\ t # <<p, k + 1>>
        OBVIOUS
      <4>1. /\ t \in InOp \X (1..OpMax) /\ t[1] \in InOp /\ t[2] \in Nat
            /\ t[2] > Cardinality(wrote'[t[1]])
        BY <1>0 DEF Tokens
      <4>2. CASE t[1] = p
        <5>1. t[2] > k + 1
          BY Zenon, <3>1, <3>2, <4>1, <4>2
        <5>2. t[2] > k /\ t[2] # k + 1
          BY <3>1, <4>1, <5>1, SMTT(30)
        <5> QED BY <4>1, <4>2, <5>2 DEF Tokens
      <4>3. CASE t[1] # p
        <5>1. wrote'[t[1]] = wrote[t[1]]
          BY <3>2, <4>1, <4>3, Zenon
        <5> QED BY <4>1, <4>3, <5>1, SMTT(30) DEF Tokens
      <4> QED BY SMTT(60), <4>2, <4>3
    <3> HIDE DEF k
    <3>5. /\ IsFiniteSet(Tokens \ {<<p, k + 1>>})
          /\ Cardinality(Tokens \ {<<p, k + 1>>}) = Cardinality(Tokens) - 1
      BY Zenon, <3>3, TokensFinite, FS_RemoveElement
    <3>6. Cardinality(Tokens') <= Cardinality(Tokens) - 1 /\ Cardinality(Tokens') \in Nat
      BY <3>4, <3>5, FS_Subset, FS_CardinalityType, SMTT(30)
    <3> HIDE DEF LogAppend
    <3> QED BY SMTT(60), <1>2, <3>6, TokensFinite
  <2> QED BY <2>1, <2>2
<1>7. Len(lh') + Cardinality(Tokens') + MAXOPBLOCKS <= LOGSIZE + OpMax
  <2>1. Len(lh) + Cardinality(Tokens) + MAXOPBLOCKS <= LOGSIZE + OpMax
    BY Zenon DEF IInv, SpaceInv
  <2> HIDE DEF LogAppend
  <2> QED BY <1>2, <1>6, <2>1, TokensFinite, LogConstants, SMTT(30)
<1> HIDE DEF LogAppend
<1> QED BY Zenon, <1>4, <1>5, <1>7 DEF SpaceInv

LEMMA LogAppendInv == ASSUME LogRoom, IInv, NEW p \in Proc, LogAppend(p) PROVE IInv'
<1> USE DEF LogAppend, disk
<1>0. p \in InOp /\ buf[p] \in Block /\ buf[p] # NoBlock
  BY ZenonT(40), LogConstants DEF InOp, IInv, CtlInv, TypeOK
<1>1. ~committing /\ outstanding >= 1 /\ Committer = {}
  BY <1>0, Counted, Zenon DEF IInv, CtlInv
<1>2. TypeOK'
  BY SMTT(60), <1>0 DEF IInv, TypeOK, PC
<1>3. InOp' = InOp /\ Committer' = Committer
  BY Zenon DEF IInv, TypeOK, InOp, Committer
<1>4. CtlInv'
  BY <1>0, <1>3 DEF IInv, CtlInv, TypeOK
<1>5. SpaceInv'
  BY Zenon, LogAppendSpace
<1>6. Held \subseteq Held' \cup {buf[p]} /\ Logged' = Logged \cup {buf[p]}
  <2>1. Held \subseteq Held' \cup {buf[p]}
    BY <1>0, Zenon DEF IInv, TypeOK, Held
  <2> QED BY <1>0, <2>1, LoggedGrows, Zenon DEF IInv
<1>7. UpInv'
  BY <1>1, <1>6 DEF IInv, UpInv, PinInv, Committer, View
<1>8. Distinct(lh')
  BY SMTT(30) DEF IInv, TypeOK, Distinct, Logged
<1> QED BY <1>2, <1>4, <1>5, <1>7, <1>8 DEF IInv

\* wakeup(&log) moves sleepers only.
LEMMA WakeupMoves ==
  ASSUME NEW f \in [Proc -> PC]
  PROVE  /\ Wakeup(f) \in [Proc -> PC]
         /\ \A q \in Proc : Wakeup(f)[q] = f[q] \/ (f[q] = "asleep" /\ Wakeup(f)[q] = "begin")
BY DEF Wakeup, PC

LEMMA EndOpInv == ASSUME LogRoom, IInv, NEW p \in Proc, EndOp(p) PROVE IInv'
<1>0. p \in InOp /\ sys = "up" /\ pc[p] = "inop" /\ buf[p] = NoBlock
  BY Zenon DEF EndOp, InOp, IInv, CtlInv
<1>1. ~committing /\ outstanding >= 1 /\ outstanding \in Nat /\ Committer = {}
  BY <1>0, Counted DEF IInv, CtlInv
<1>a. committing' = (outstanding = 1)
  BY <1>1 DEF EndOp
<1>b. committing' \in BOOLEAN /\ (committing' <=> outstanding = 1)
  BY <1>a, Zenon
<1>2. /\ outstanding' = outstanding - 1
      /\ pc' = IF outstanding = 1
               THEN [pc EXCEPT ![p] = IF lh = <<>> THEN "done" ELSE "write_log"]
               ELSE Wakeup([pc EXCEPT ![p] = "idle"])
      /\ tail' = 0
      /\ UNCHANGED <<disk, bcache, lh, buf, wrote, sys>>
  BY <1>1 DEF EndOp
<1>3. /\ pc' \in [Proc -> PC]
      /\ \A q \in Proc : q # p => pc'[q] = pc[q] \/ (pc[q] = "asleep" /\ pc'[q] = "begin")
      /\ outstanding = 1 => pc'[p] = IF lh = <<>> THEN "done" ELSE "write_log"
      /\ outstanding # 1 => pc'[p] = "idle"
  <2>1. [pc EXCEPT ![p] = "idle"] \in [Proc -> PC] /\ pc \in [Proc -> PC]
    BY DEF IInv, TypeOK, PC
  <2>2. CASE outstanding = 1
    BY <1>2, <2>1, <2>2 DEF PC
  <2>3. CASE outstanding # 1
    <3> DEFINE f == [pc EXCEPT ![p] = "idle"]
    <3>1. pc' = Wakeup(f)
      BY Zenon, <1>2, <2>3
    <3>2. f \in [Proc -> PC] /\ f[p] = "idle" /\ \A q \in Proc : q # p => f[q] = pc[q]
      BY Zenon, <2>1
    <3> HIDE DEF f
    <3>3. pc' \in [Proc -> PC] /\ \A q \in Proc : pc'[q] = f[q] \/ (f[q] = "asleep" /\ pc'[q] = "begin")
      BY Zenon, <3>1, <3>2, WakeupMoves
    <3>4. pc'[p] = "idle"
      BY <3>2, <3>3
    <3> QED BY Zenon, <2>3, <3>2, <3>3, <3>4
  <2> QED BY <2>2, <2>3
<1>4. TypeOK'
  <2>1. UNCHANGED <<home, head, area, cache, dirty, lh, buf, wrote, sys>> /\ tail' = 0
    BY <1>2 DEF disk, bcache
  <2>2. outstanding' \in Nat
    BY <1>1, <1>2
  <2> QED BY <1>b, <1>3, <2>1, <2>2 DEF IInv, TypeOK
<1>5. InOp' = InOp \ {p}
  BY <1>0, <1>3 DEF InOp
<1>6. Cardinality(InOp') = outstanding'
  <2>1. IsFiniteSet(InOp)
    BY LogConstants, FS_Subset DEF InOp
  <2>2. Cardinality(InOp) = outstanding
    BY DEF IInv, CtlInv
  <2> QED BY Zenon, <1>0, <1>2, <1>5, <2>1, <2>2, FS_RemoveElement
<1>7. Committer' = IF outstanding = 1 THEN {p} ELSE {}
  <2>1. \A q \in Proc : q # p => pc'[q] \notin {"write_log", "install", "done"}
    BY <1>1, <1>3 DEF Committer
  <2>2. pc'[p] \in {"write_log", "install", "done"} <=> outstanding = 1
    BY <1>3
  <2> QED BY <2>1, <2>2 DEF Committer
<1>8. CtlInv'
  <2>1. \A q \in Proc : buf'[q] # NoBlock <=> pc'[q] \in {"check", "append"}
    BY Zenon, <1>0, <1>2, <1>3 DEF IInv, CtlInv
  <2>2. /\ committing' <=> Committer' # {}
        /\ \A q, r \in Committer' : q = r
        /\ committing' => outstanding' = 0
    BY SMTT(60), <1>1, <1>b, <1>2, <1>7
  <2>3. \A q, r \in Proc : buf'[q] # NoBlock /\ buf'[q] = buf'[r] => q = r
    BY <1>2, Zenon DEF IInv, CtlInv
  <2> QED BY Zenon, <1>6, <2>1, <2>2, <2>3 DEF CtlInv
<1>9. SpaceInv'
  BY SMTT(60), <1>2, <1>5, SpaceKept DEF IInv
<1>10. UpInv'
  <2>1. head = <<>>
    BY <1>0, <1>1 DEF IInv, UpInv, PinInv, Logging, Installing, Committer
  <2>2. \A q \in Proc : pc'[q] \in {"write_log", "install", "done"} => q = p /\ outstanding = 1
    BY SMTT(60), <1>7 DEF Committer
  <2>3. Held' = Held /\ Logged' = Logged /\ \A b \in Block : View(b)' = View(b)
    BY <1>2, Zenon DEF Held, Logged, View, disk, bcache
  <2>4. Len(lh) \in Nat
    BY DEF IInv, TypeOK
  <2>5. UNCHANGED <<home, head, area, dirty, lh>> /\ tail' = 0
    BY SMTT(60), <1>2 DEF disk, bcache
  <2>6. /\ \A b \in Block : View(b) # home[b] => b \in Held \cup dirty
        /\ dirty \subseteq Logged
    BY <1>0, Zenon DEF IInv, UpInv, PinInv, Logging, Installing
  <2>7. ~(outstanding' = 0 /\ ~committing')
    BY <1>1, <1>b, <1>2
  <2>8. pc'[p] = "done" => lh = <<>>
    BY <1>3
  <2>9. \A q \in Proc : pc'[q] # "install" /\ (pc'[q] = "done" => lh = <<>>)
    BY <1>3, <2>2
  <2>10. tail' <= Len(lh') /\ \A i \in 1..tail' : area'[i] = View(lh[i])'
    BY <2>4, <2>5
  <2>11. \A b \in Block : View(b)' # home'[b] => b \in Held' \cup dirty'
    BY <2>3, <2>5, <2>6
  <2>12. outstanding' = 0 /\ ~committing' => lh' = <<>>
    BY <2>7
  <2>13. (\A q \in Proc : pc'[q] # "install") => head' = <<>>
    BY <2>1, <2>5
  <2>14. dirty' \subseteq Logged'
    BY <2>3, <2>5, <2>6
  <2>15. \A q \in Proc : pc'[q] # "install" /\ (pc'[q] = "done" => lh' = <<>>)
    BY <2>5, <2>9
  <2>16. PinInv'
    BY <2>11, <2>14 DEF PinInv
  <2>17. Logging'
    BY <2>10 DEF Logging
  <2> QED BY SMTT(60), <2>12, <2>13, <2>15, <2>16, <2>17 DEF UpInv
<1> QED
  <2>1. sys' = "up" /\ UNCHANGED <<head, lh>>
    BY Zenon, <1>0, <1>2 DEF disk
  <2> QED BY Zenon, <1>4, <1>8, <1>9, <1>10, <2>1, UpKept

=============================================================================
