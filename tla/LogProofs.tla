----------------------------- MODULE LogProofs ------------------------------
(***************************************************************************)
(* What Log guarantees for any number of processes and blocks and any      *)
(* sizes: its invariant, the safety properties that follow from it, and    *)
(* that it implements TxDisk.                                              *)
(***************************************************************************)
EXTENDS LogCommitProofs

-----------------------------------------------------------------------------
\* IInv is inductive: one case for each action of Log.
LEMMA InvNext == ASSUME LogRoom, IInv, [Next]_vars PROVE IInv'
<1>1. CASE UNCHANGED vars
  <2> USE <1>1 DEF vars, disk, bcache, log, ctl
  <2>1. /\ InOp' = InOp /\ Committer' = Committer /\ Tokens' = Tokens
        /\ Held' = Held /\ Logged' = Logged
    BY DEF InOp, Committer, Tokens, Held, Logged
  <2>2. TypeOK' = TypeOK
    BY Zenon DEF TypeOK
  <2>3. CtlInv' = CtlInv /\ SpaceInv' = SpaceInv
    BY ZenonT(40), <2>1 DEF CtlInv, SpaceInv
  <2>4. DownInv' = DownInv /\ RecoverInv' = RecoverInv
    BY DEF DownInv, RecoverInv
  <2>5. Distinct(lh)' = Distinct(lh) /\ Distinct(head)' = Distinct(head)
    BY ZenonT(40) DEF Distinct
  <2>6. UpInv' = UpInv
    BY SMTT(60), <2>1 DEF UpInv, PinInv, Logging, Installing, View
  <2> QED
    BY ZenonT(40), <2>2, <2>3, <2>4, <2>5, <2>6 DEF IInv
<1>2. ASSUME NEW p \in Proc, Step(p) PROVE IInv'
  BY SMTT(60), <1>2, BeginSleepInv, BeginOpInv, KillWakeupInv, ModifyInv, LogCheckInv, LogAppendInv,
     EndOpInv, WriteLogInv, WriteHeadInv, InstallInv, EraseInv, CommitDoneInv DEF Step
<1>3. ASSUME NEW b \in Block, Bread(b) \/ Recycle(b) PROVE IInv'
  BY <1>3, BreadInv, RecycleInv
<1>4. CASE Recover
  BY <1>4, ReadHeadInv, RecoverInstallInv, RecoverEraseInv DEF Recover
<1>5. CASE Crash
  BY <1>5, CrashInv
<1> QED BY Zenon, <1>1, <1>2, <1>3, <1>4, <1>5 DEF Next

\* IInv holds in every reachable state.
THEOREM LogInvariant == ASSUME LogRoom PROVE Spec => []IInv
<1>1. Init => IInv
  BY InitInv
<1>2. IInv /\ [Next]_vars => IInv'
  BY InvNext
<1> QED BY <1>1, <1>2, PTL DEF Spec

\* What IInv says of a state is what the runs check of it.
LEMMA InvSafe ==
  ASSUME LogRoom, IInv
  PROVE  TypeOK /\ NoPanic /\ LogFits /\ QuiescentIsDurable /\ ModifiedIsPinned
<1>1. LogFits
  BY SMTT(60), LogSlots, LogConstants DEF LogFits, IInv, TypeOK
<1>2. ModifiedIsPinned
  BY DEF ModifiedIsPinned, IInv, UpInv, PinInv
<1>3. QuiescentIsDurable
  <2> SUFFICES ASSUME sys = "up", outstanding = 0, ~committing
               PROVE  /\ \A b \in Block : View(b) = home[b]
                      /\ head = <<>> /\ lh = <<>> /\ dirty = {}
    BY DEF QuiescentIsDurable
  <2>1. InOp = {}
    BY SMTT(60), Counted
  <2>2. Held = {}
    BY <2>1 DEF Held, InOp, IInv, CtlInv
  <2>3. head = <<>> /\ lh = <<>>
    BY SMTT(60) DEF IInv, CtlInv, Committer, UpInv
  <2>4. dirty = {}
    BY <2>3 DEF IInv, UpInv, PinInv, Logged
  <2> QED BY <2>2, <2>3, <2>4 DEF IInv, UpInv, PinInv
<1> QED BY Zenon, <1>1, <1>2, <1>3 DEF IInv, NoPanic

\* With operations that leave the log the room it needs, begin_op's
\* reservation keeps log_write and end_op from their panics and the log from
\* overflowing, for any number of processes.
THEOREM NoPanicTheorem == ASSUME LogRoom PROVE Spec => [](NoPanic /\ LogFits)
<1>1. IInv => NoPanic /\ LogFits
  BY InvSafe
<1> QED BY <1>1, LogInvariant, PTL

\* The types hold, a modified buffer stays pinned until it is installed, and
\* a quiescent log leaves nothing to replay.
THEOREM LogSafety ==
  ASSUME LogRoom
  PROVE  Spec => [](TypeOK /\ QuiescentIsDurable /\ ModifiedIsPinned)
<1>1. IInv => TypeOK /\ QuiescentIsDurable /\ ModifiedIsPinned
  BY SMTT(60), InvSafe
<1> QED BY <1>1, LogInvariant, PTL

\* One step of install_trans, in a commit or in recovery, obeys write-ahead.
LEMMA InstallAhead ==
  ASSUME IInv, InstallOne, head = lh, NEW b \in Block, home'[b] # home[b]
  PROVE  \E i \in 1..Len(head) : head[i] = b /\ home'[b] = area[i]
<1>1. b = lh[tail + 1] /\ home'[b] = area[tail + 1]
  BY SMTT(60) DEF InstallOne, IInv, TypeOK
<1>2. tail + 1 \in 1..Len(head)
  BY DEF InstallOne, IInv, TypeOK
<1> QED BY SMTT(60), <1>1, <1>2

\* The write-ahead rule holds of every step: a home block changes only to
\* the content the on-disk log holds for it.
THEOREM WriteAheadTheorem == ASSUME LogRoom PROVE Spec => WriteAhead
<1> DEFINE A == \A b \in Block : home'[b] # home[b] =>
                  \E i \in 1..Len(head) : head[i] = b /\ home'[b] = area[i]
<1>1. ASSUME IInv, [Next]_vars PROVE [A]_vars
  <2>1. CASE home' = home
    BY <2>1
  <2>2. ASSUME NEW p \in Proc, Install(p) PROVE A
    <3>1. head = lh
      BY <1>1, <2>2 DEF Install, IInv, UpInv, Installing
    <3> QED BY ZenonT(40), <1>1, <2>2, <3>1, InstallAhead DEF Install
  <2>3. CASE RecoverInstall
    <3>1. head = lh
      BY Zenon, <1>1, <2>3 DEF RecoverInstall, IInv, RecoverInv
    <3> QED BY Zenon, <1>1, <2>3, <3>1, InstallAhead DEF RecoverInstall
  <2>4. home' = home \/ (\E p \in Proc : Install(p)) \/ RecoverInstall
    BY ZenonT(40), <1>1 DEF Next, Step, Recover, vars, disk, bcache, Bread, Recycle, BeginSleep, BeginOp,
       KillWakeup, Modify, LogCheck, Panic, LogAppend, EndOp, WriteLog, WriteHead, Erase, EraseLog,
       CommitDone, Crash, ReadHead, RecoverErase
  <2> QED BY ZenonT(40), <2>1, <2>2, <2>3, <2>4
<1>2. IInv /\ [Next]_vars => [A]_vars
  BY <1>1
<1> QED BY <1>2, LogInvariant, PTL DEF Spec, WriteAhead

-----------------------------------------------------------------------------
(* The refinement: Log implements TxDisk.                                  *)

\* A committed header hides the home blocks it lists.
LEMMA DurableAt ==
  ASSUME NEW b \in Block
  PROVE  /\ (\A i \in 1..Len(head) : head[i] # b) => Durable[b] = home[b]
         /\ (\E i \in 1..Len(head) : head[i] = b) =>
              \E i \in 1..Len(head) : head[i] = b /\ Durable[b] = area[i]
BY Zenon DEF Durable

\* With an empty header a reboot shows the home blocks.
LEMMA DurableEmpty == ASSUME head = <<>>, NEW b \in Block PROVE Durable[b] = home[b]
<1>1. Len(head) = 0
  OBVIOUS
<1> QED BY <1>1, DurableAt

\* The same facts in the next state.
LEMMA DurableAtNext ==
  ASSUME NEW b \in Block
  PROVE  /\ (\A i \in 1..Len(head') : head'[i] # b) => Durable'[b] = home'[b]
         /\ (\E i \in 1..Len(head') : head'[i] = b) =>
              \E i \in 1..Len(head') : head'[i] = b /\ Durable'[b] = area'[i]
BY Zenon DEF Durable

\* A step that leaves the disk alone leaves what a reboot shows.
LEMMA DurableSame == ASSUME UNCHANGED disk PROVE Durable' = Durable
BY SMTT(60) DEF disk, Durable

\* A step of the running kernel that changes no view changes no current disk.
LEMMA CurrentSame ==
  ASSUME sys = "up", sys' = "up", \A b \in Block : View(b)' = View(b)
  PROVE  Current' = Current
BY DEF Current

\* An install step is invisible: what it overwrites is hidden by the header.
LEMMA InstallHidden ==
  ASSUME LogRoom, IInv, InstallOne, head = lh
  PROVE  Durable' = Durable
<1>1. /\ lh \in Seq(Block) /\ tail \in Nat /\ Len(lh) \in Nat /\ tail + 1 \in 1..Len(lh)
      /\ lh[tail + 1] \in Block
  BY SMTT(60), InstallTypes
<1>2. head' = head /\ area' = area /\ \A b \in Block : b # lh[tail + 1] => home'[b] = home[b]
  BY DEF InstallOne, IInv, TypeOK
<1>3. ASSUME NEW b \in Block, ~ \E i \in 1..Len(head) : head[i] = b PROVE home'[b] = home[b]
  BY ZenonT(40), <1>1, <1>2, <1>3
<1>4. Durable' = [b \in Block |-> IF \E i \in 1..Len(head) : head[i] = b
                                  THEN area[CHOOSE i \in 1..Len(head) : head[i] = b]
                                  ELSE home'[b]]
  BY <1>2 DEF Durable
<1> QED BY ZenonT(40), <1>3, <1>4 DEF Durable

\* Erasing a fully installed transaction is invisible too.
LEMMA EraseHidden ==
  ASSUME IInv, EraseLog, head = lh, \A i \in 1..Len(lh) : home[lh[i]] = area[i]
  PROVE  Durable' = Durable
<1>1. ASSUME NEW b \in Block PROVE Durable'[b] = Durable[b]
  <2>1. home' = home /\ Len(head') = 0
    BY SMTT(60) DEF EraseLog
  <2>2. Durable'[b] = home[b]
    BY <2>1, DurableAtNext
  <2>3. Durable[b] = home[b]
    BY SMTT(60), DurableAt
  <2> QED BY SMTT(60), <2>2, <2>3
<1>2. Durable = [b \in Block |-> Durable[b]] /\ Durable' = [b \in Block |-> Durable'[b]]
  BY DEF Durable
<1> QED BY SMTT(60), <1>1, <1>2

\* write_head is the commit: a reboot now shows what the kernel shows.
LEMMA HeadCommits ==
  ASSUME LogRoom, IInv, NEW p \in Proc, WriteHead(p)
  PROVE  Durable' = Current /\ Current' = Current /\ InOp = {} /\ InOp' = {}
<1>1. Logging /\ PinInv /\ sys = "up" /\ sys' = "up" /\ tail = Len(lh) /\ head' = lh
  BY DEF WriteHead, IInv, UpInv
<1>2. UNCHANGED <<home, area, cache, dirty, lh, buf>>
  BY DEF WriteHead, bcache
<1>3. InOp = {}
  <2>1. committing
    BY DEF WriteHead, IInv, CtlInv, Committer
  <2> QED BY Zenon, <2>1, Counted
<1>4. InOp' = {}
  BY Zenon, <1>3 DEF WriteHead, InOp, IInv, TypeOK
<1>5. Held = {}
  BY SMTT(60), <1>3 DEF Held, InOp, IInv, CtlInv
<1>6. ASSUME NEW b \in Block PROVE Durable'[b] = Current[b]
  <2>1. Current[b] = View(b)
    BY <1>1 DEF Current
  <2>2. CASE \E i \in 1..Len(lh) : lh[i] = b
    <3>1. PICK i \in 1..Len(lh) : lh[i] = b /\ Durable'[b] = area[i]
      BY SMTT(60), <1>1, <1>2, <2>2, DurableAtNext
    <3> QED BY ZenonT(40), <1>1, <2>1, <3>1 DEF Logging
  <2>3. CASE \A i \in 1..Len(lh) : lh[i] # b
    <3>1. Durable'[b] = home[b]
      BY <1>1, <1>2, <2>3, DurableAtNext
    <3>2. View(b) = home[b]
      BY ZenonT(40), <1>1, <1>5, <2>3 DEF PinInv, Logged
    <3> QED BY ZenonT(40), <2>1, <3>1, <3>2
  <2> QED BY SMTT(60), <2>2, <2>3
<1>7. Durable' = [b \in Block |-> Durable'[b]] /\ Current = [b \in Block |-> Current[b]]
  BY SMTT(60) DEF Durable, Current
<1>8. Current' = Current
  BY SMTT(60), <1>1, <1>2, CurrentSame DEF View
<1> QED BY Zenon, <1>3, <1>4, <1>6, <1>7, <1>8

\* A step of TxDisk or a stuttering step of it.
Abstract == [TX!Next]_TX!vars

\* Steps that change neither disk nor view nor the set of operations stutter.
LEMMA Stutters ==
  ASSUME Durable' = Durable, Current' = Current, InOp' = InOp
  PROVE  Abstract
BY DEF Abstract, TX!vars

LEMMA RefInit == ASSUME Init PROVE TX!Init
<1>1. Durable = home
  BY SMTT(60), DurableEmpty DEF Init, Durable
<1>2. Current = Durable
  BY DEF Init, Current, Durable
<1>3. InOp = {}
  BY DEF Init, InOp
<1> QED BY SMTT(60), <1>1, <1>2, <1>3 DEF TX!Init, Init

LEMMA RefCache == ASSUME LogRoom, IInv, NEW b \in Block, Bread(b) \/ Recycle(b) PROVE Abstract
<1>1. sys = "up" /\ sys' = "up" /\ UNCHANGED disk /\ UNCHANGED pc
  BY ZenonT(40) DEF Bread, Recycle, ctl
<1>2. \A c \in Block : View(c)' = View(c)
  BY LogConstants DEF Bread, Recycle, disk, IInv, TypeOK, View, UpInv, PinInv
<1>3. InOp' = InOp
  BY <1>1 DEF InOp
<1> QED BY Zenon, <1>1, <1>2, <1>3, DurableSame, CurrentSame, Stutters

LEMMA RefBegin == ASSUME LogRoom, IInv, NEW p \in Proc, BeginOp(p) PROVE Abstract
<1>1. Durable' = Durable /\ Current' = Current
  BY ZenonT(40), DurableSame, CurrentSame DEF BeginOp, disk, bcache, View
<1>2. p \notin InOp /\ InOp' = InOp \cup {p}
  BY DEF BeginOp, InOp, IInv, TypeOK
<1>3. TX!Begin(p)
  BY <1>1, <1>2 DEF TX!Begin
<1> QED BY Zenon, <1>3 DEF Abstract, TX!Next

LEMMA RefModify ==
  ASSUME LogRoom, IInv, NEW p \in Proc, NEW b \in Block, NEW v \in Value, Modify(p, b, v)
  PROVE  Abstract
<1>1. Durable' = Durable
  BY Zenon, DurableSame DEF Modify
<1>2. p \in InOp /\ InOp' = InOp
  BY Zenon DEF Modify, InOp, IInv, TypeOK
<1>3. Current' = [Current EXCEPT ![b] = v]
  <2>1. sys = "up" /\ sys' = "up" /\ v # NoBlock
    BY LogConstants DEF Modify
  <2>2. \A c \in Block : View(c)' = IF c = b THEN v ELSE View(c)
    BY <2>1 DEF Modify, disk, View, IInv, TypeOK
  <2> QED BY ZenonT(40), <2>1, <2>2 DEF Current
<1>4. TX!Write(p, b, v)
  BY SMTT(60), <1>1, <1>2, <1>3 DEF TX!Write
<1> QED BY <1>4 DEF Abstract, TX!Next

LEMMA RefEnd == ASSUME LogRoom, IInv, NEW p \in Proc, EndOp(p) PROVE Abstract
<1>1. p \in InOp /\ sys = "up" /\ pc[p] = "inop" /\ ~committing
  BY SMTT(60), Counted DEF EndOp, InOp
<1>2. UNCHANGED <<disk, bcache, sys>>
  BY SMTT(60), <1>1 DEF EndOp
<1>3. Durable' = Durable /\ Current' = Current
  BY <1>1, <1>2, DurableSame, CurrentSame DEF disk, bcache, View
<1>4. InOp' = InOp \ {p}
  <2>1. \A q \in Proc : q # p => (pc'[q] = pc[q] \/ (pc[q] = "asleep" /\ pc'[q] = "begin"))
    BY ZenonT(40), <1>1 DEF EndOp, Wakeup, IInv, TypeOK
  <2>2. pc'[p] \in {"idle", "done", "write_log"}
    BY SMTT(60), <1>1 DEF EndOp, Wakeup, IInv, TypeOK
  <2> QED BY Zenon, <1>1, <2>1, <2>2 DEF InOp
<1>5. TX!End(p)
  BY <1>1, <1>3, <1>4 DEF TX!End
<1> QED BY SMTT(60), <1>5 DEF Abstract, TX!Next

\* The steps of a process that TxDisk does not see.
LEMMA RefQuiet ==
  ASSUME LogRoom, IInv, NEW p \in Proc,
         BeginSleep(p) \/ KillWakeup(p) \/ LogCheck(p) \/ LogAppend(p) \/ CommitDone(p)
  PROVE  Abstract
<1>1. sys = "up" /\ UNCHANGED <<home, head, area, cache>>
  BY Zenon DEF BeginSleep, KillWakeup, LogCheck, Panic, LogAppend, CommitDone, disk, bcache
<1>2. sys' \in {"up", "panic"}
  BY Zenon, <1>1 DEF BeginSleep, KillWakeup, LogCheck, Panic, LogAppend, CommitDone
<1>3. Durable' = Durable /\ Current' = Current
  BY ZenonT(40), <1>1, <1>2, DurableSame DEF disk, View, Current
<1>4. InOp' = InOp
  <2>1. CASE BeginSleep(p) \/ KillWakeup(p) \/ LogCheck(p) \/ LogAppend(p)
    BY ZenonT(40), <2>1 DEF BeginSleep, KillWakeup, LogCheck, Panic, LogAppend, ctl, InOp, IInv, TypeOK
  <2>2. CASE CommitDone(p)
    BY <2>2 DEF CommitDone, Wakeup, InOp, IInv, TypeOK
  <2> QED BY Zenon, <2>1, <2>2
<1> QED BY Zenon, <1>3, <1>4, Stutters

\* write_log only writes log blocks no header lists yet.
LEMMA RefWriteLog == ASSUME LogRoom, IInv, NEW p \in Proc, WriteLog(p) PROVE Abstract
<1>1. head = <<>> /\ head' = <<>> /\ home' = home /\ sys = "up" /\ sys' = "up"
  <2>1. sys = "up" /\ pc[p] = "write_log" /\ UNCHANGED <<home, head, sys>>
    BY Zenon DEF WriteLog
  <2>2. UpInv /\ \A q, r \in Committer : q = r
    BY Zenon, <2>1 DEF IInv, CtlInv
  <2>3. \A q \in Proc : pc[q] # "install"
    BY SMT, <2>1, <2>2 DEF Committer
  <2> QED BY Zenon, <2>1, <2>2, <2>3 DEF UpInv
<1>2. Durable' = Durable
  <2>1. Len(head) = 0 /\ Len(head') = 0
    BY Zenon, <1>1
  <2> QED BY <1>1, <2>1 DEF Durable
<1>3. \A c \in Block : View(c)' = View(c)
  <2>1. lh[tail + 1] \in Block
    BY SMTT(60) DEF WriteLog, IInv, TypeOK
  <2> QED BY ZenonT(40), <2>1, ViewType, LogConstants DEF WriteLog, IInv, TypeOK, View
<1>4. InOp' = InOp
  BY DEF WriteLog, ctl, InOp
<1> QED BY ZenonT(40), <1>1, <1>2, <1>3, <1>4, CurrentSame, Stutters

LEMMA RefWriteHead == ASSUME LogRoom, IInv, NEW p \in Proc, WriteHead(p) PROVE Abstract
<1>1. TX!Commit
  BY HeadCommits DEF TX!Commit
<1> QED BY <1>1 DEF Abstract, TX!Next

LEMMA RefInstall == ASSUME LogRoom, IInv, NEW p \in Proc, Install(p) PROVE Abstract
<1>1. Installing /\ InstallOne /\ sys = "up" /\ sys' = "up" /\ InOp' = InOp
  BY Zenon DEF Install, InstallOne, ctl, InOp, IInv, UpInv
<1>2. Durable' = Durable
  BY Zenon, <1>1, InstallHidden DEF Installing
<1>4. \A c \in Block : View(c)' = View(c)
  BY Zenon, <1>1, InstallView DEF Installing
<1> QED BY Zenon, <1>1, <1>2, <1>4, CurrentSame, Stutters

LEMMA RefErase == ASSUME LogRoom, IInv, NEW p \in Proc, Erase(p) PROVE Abstract
<1>1. Installing /\ EraseLog /\ sys = "up" /\ sys' = "up" /\ tail = Len(lh)
  BY Zenon DEF Erase, EraseLog, IInv, UpInv
<1>2. Durable' = Durable
  BY ZenonT(40), <1>1, EraseHidden DEF Installing
<1>3. InOp' = InOp
  BY ZenonT(40) DEF Erase, InOp, IInv, TypeOK
<1>4. \A c \in Block : View(c)' = View(c)
  BY <1>1 DEF EraseLog, bcache, View
<1> QED BY ZenonT(40), <1>1, <1>2, <1>3, <1>4, CurrentSame, Stutters

LEMMA RefRecover == ASSUME LogRoom, IInv, Recover PROVE Abstract
<1>1. CASE ReadHead
  <2>1. Durable' = Durable /\ InOp' = InOp
    BY SMTT(60), <1>1, DurableSame DEF ReadHead, ctl, InOp
  <2>2. Current' = Current
    BY <1>1, <2>1 DEF ReadHead, Current
  <2> QED BY SMTT(60), <2>1, <2>2, Stutters
<1>2. CASE RecoverInstall
  <2>1. Durable' = Durable
    <3>1. InstallOne /\ head = lh
      BY Zenon, <1>2 DEF RecoverInstall, IInv, RecoverInv
    <3> QED BY Zenon, <3>1, InstallHidden
  <2>2. InOp' = InOp /\ sys' = "recover" /\ sys = "recover"
    BY <1>2 DEF RecoverInstall, InstallOne, ctl, InOp
  <2>3. Current' = Current
    BY <2>1, <2>2 DEF Current
  <2> QED BY ZenonT(40), <2>1, <2>2, <2>3, Stutters
<1>3. CASE RecoverErase
  <2>1. sys = "recover" /\ sys' = "up" /\ RecoverInv /\ EraseLog /\ tail = Len(lh)
    BY SMTT(60), <1>3 DEF RecoverErase, EraseLog, IInv
  <2>2. Durable' = Durable
    BY <2>1, EraseHidden DEF RecoverInv
  <2>3. InOp' = InOp
    BY SMTT(60), <1>3 DEF RecoverErase, InOp
  <2>4. \A b \in Block : View(b)' = Durable'[b]
    <3>1. head' = <<>> /\ Len(head') = 0 /\ cache' = cache /\ home' = home
      BY Zenon, <2>1 DEF EraseLog, bcache
    <3>2. \A b \in Block : Durable'[b] = home'[b]
      BY <3>1, DurableAtNext
    <3> QED BY <2>1, <3>1, <3>2 DEF View, RecoverInv
  <2>5. Current' = Current
    BY <2>1, <2>2, <2>4 DEF Current
  <2> QED BY SMTT(60), <2>2, <2>3, <2>5, Stutters
<1> QED BY <1>1, <1>2, <1>3 DEF Recover

LEMMA RefCrash == ASSUME Crash PROVE Abstract
<1>1. Durable' = Durable /\ InOp' = {} /\ sys' = "boot"
  BY Zenon, DurableSame DEF Crash, InOp
<1>2. Current' = Durable
  BY ZenonT(40), <1>1 DEF Current, Durable
<1>3. TX!Crash
  BY <1>1, <1>2 DEF TX!Crash
<1> QED BY <1>3 DEF Abstract, TX!Next

\* Every step of Log is a step of TxDisk or stutters.
LEMMA RefNext == ASSUME LogRoom, IInv, [Next]_vars PROVE Abstract
<1>1. CASE UNCHANGED vars
  <2>1. Durable' = Durable /\ Current' = Current /\ InOp' = InOp
    BY SMTT(60), <1>1, DurableSame DEF vars, disk, bcache, ctl, View, Current, InOp
  <2> QED BY SMTT(60), <2>1, Stutters
<1>2. ASSUME NEW p \in Proc, Step(p) PROVE Abstract
  BY SMTT(60), <1>2, RefBegin, RefModify, RefEnd, RefQuiet, RefWriteLog, RefWriteHead, RefInstall, RefErase
     DEF Step
<1>3. ASSUME NEW b \in Block, Bread(b) \/ Recycle(b) PROVE Abstract
  BY <1>3, RefCache
<1> QED BY SMTT(60), <1>1, <1>2, <1>3, RefRecover, RefCrash DEF Next

\* log.c implements TxDisk: for any processes, blocks and sizes, and with
\* power failures anywhere, groups of whole operations become durable at
\* once and an unfinished operation never does.
THEOREM LogImplementsTxDisk == ASSUME LogRoom PROVE Spec => CrashAtomic
<1>1. Init => TX!Init
  BY RefInit
<1>2. IInv /\ [Next]_vars => [TX!Next]_TX!vars
  BY RefNext DEF Abstract
<1> QED BY <1>1, <1>2, LogInvariant, PTL DEF Spec, CrashAtomic, TX!Spec

=============================================================================
