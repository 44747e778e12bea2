-------------------------- MODULE LogCommitProofs ---------------------------
(***************************************************************************)
(* The invariant of Log is preserved by commit(), by a power failure and   *)
(* by recovery.                                                            *)
(***************************************************************************)
EXTENDS LogOpProofs

LEMMA WriteLogInv == ASSUME LogRoom, IInv, NEW p \in Proc, WriteLog(p) PROVE IInv'
<1> USE DEF WriteLog, ctl
<1>0. /\ lh \in Seq(Block) /\ tail \in Nat /\ Len(lh) \in Nat /\ tail + 1 \in 1..Len(lh)
      /\ tail + 1 \in Slot /\ lh[tail + 1] \in Block /\ View(lh[tail + 1]) \in Value
  BY LogSlots, ViewType DEF IInv, TypeOK
<1>1. TypeOK'
  BY SMTT(60), <1>0 DEF IInv, TypeOK
<1>2. CtlInv'
  BY DEF IInv, CtlInv, InOp, Committer
<1>3. SpaceInv'
  BY Zenon, SpaceKept DEF IInv, InOp
<1>4. \A c \in Block : View(c)' = View(c)
  BY Zenon, <1>0, LogConstants DEF IInv, TypeOK, View
<1>5. \A q \in Proc : pc[q] \in {"write_log", "install", "done"} => q = p
  BY ZenonT(40) DEF IInv, CtlInv, Committer
<1>6. \A i \in 1..(tail + 1) : area'[i] = View(lh[i])'
  <2> SUFFICES ASSUME NEW i \in 1..(tail + 1) PROVE area'[i] = View(lh[i])'
    OBVIOUS
  <2>1. i \in 1..tail \/ i = tail + 1
    BY SMTT(60), <1>0
  <2>2. lh[i] \in Block /\ i \in Slot
    BY <1>0, LogSlots DEF IInv, TypeOK
  <2>3. View(lh[i])' = View(lh[i])
    BY Zenon, <1>4, <2>2
  <2> QED BY SMTT(60), <1>0, <2>1, <2>2, <2>3 DEF IInv, UpInv, PinInv, Logging, Installing, TypeOK
<1>7. UpInv'
  <2>1. Held' = Held /\ Logged' = Logged
    BY DEF Held, Logged
  <2> QED BY SMTT(60), <1>0, <1>4, <1>5, <1>6, <2>1 DEF IInv, UpInv, PinInv, Logging, Installing, TypeOK
<1>8. sys' = "up" /\ UNCHANGED <<head, lh>>
  OBVIOUS
<1> QED BY Zenon, <1>1, <1>2, <1>3, <1>7, <1>8, UpKept

LEMMA WriteHeadInv == ASSUME LogRoom, IInv, NEW p \in Proc, WriteHead(p) PROVE IInv'
<1> USE DEF WriteHead, bcache
<1>1. TypeOK'
  BY DEF IInv, TypeOK, PC
<1>2. InOp' = InOp /\ Committer' = Committer
  BY DEF IInv, TypeOK, InOp, Committer
<1>3. CtlInv'
  BY <1>2 DEF IInv, CtlInv, TypeOK
<1>4. SpaceInv'
  BY <1>2, SpaceKept DEF IInv
<1>5. \A q \in Proc : pc[q] \in {"write_log", "install", "done"} => q = p
  BY ZenonT(40) DEF IInv, CtlInv, Committer
<1>6. UpInv'
  BY SMTT(60), <1>5 DEF IInv, UpInv, PinInv, Logging, Installing, Held, Logged, TypeOK, View
<1>7. Len(head') + MAXOPBLOCKS <= LOGSIZE + OpMax
  BY TokensFinite, LogConstants DEF IInv, SpaceInv, TypeOK
<1> QED BY <1>1, <1>3, <1>4, <1>6, <1>7 DEF IInv, Distinct

\* install_trans writes a block that exists, from a log block that exists.
LEMMA InstallTypes ==
  ASSUME LogRoom, IInv, InstallOne
  PROVE  /\ lh \in Seq(Block) /\ tail \in Nat /\ Len(lh) \in Nat /\ tail + 1 \in 1..Len(lh)
         /\ lh[tail + 1] \in Block /\ area[tail + 1] \in Value
         /\ TypeOK' /\ CtlInv' /\ SpaceInv'
<1>1. /\ lh \in Seq(Block) /\ tail \in Nat /\ Len(lh) \in Nat /\ tail + 1 \in 1..Len(lh)
      /\ lh[tail + 1] \in Block /\ tail + 1 \in Slot
  BY SMTT(60), LogSlots DEF IInv, TypeOK, InstallOne
<1>2. area[tail + 1] \in Value
  BY <1>1 DEF IInv, TypeOK
<1>3. TypeOK'
  BY SMTT(60), <1>1, <1>2 DEF IInv, TypeOK, InstallOne, ctl
<1>4. CtlInv'
  BY DEF IInv, CtlInv, InOp, Committer, InstallOne, ctl
<1>5. SpaceInv'
  BY SpaceKept DEF IInv, InOp, InstallOne, ctl
<1> QED BY SMTT(60), <1>1, <1>2, <1>3, <1>4, <1>5

\* Writing a log block home changes no view when the log holds the view.
LEMMA InstallView ==
  ASSUME LogRoom, IInv, InstallOne, \A i \in 1..Len(lh) : area[i] = View(lh[i])
  PROVE  \A c \in Block : View(c)' = View(c)
<1>1. lh[tail + 1] \in Block /\ tail + 1 \in 1..Len(lh) /\ area[tail + 1] \in Value
  BY Zenon, InstallTypes
<1>2. area[tail + 1] = View(lh[tail + 1]) /\ area[tail + 1] # NoBlock
  BY Zenon, <1>1, LogConstants
<1>3. cache \in [Block -> Value \cup {NoBlock}] /\ home \in [Block -> Value]
  BY Zenon DEF IInv, TypeOK
<1>4. PICK b \in Block : b = lh[tail + 1]
  BY Zenon, <1>1
<1>5. /\ cache'[b] = area[tail + 1]
      /\ \A c \in Block : c # b => cache'[c] = cache[c] /\ home'[c] = home[c]
  BY Zenon, <1>1, <1>3, <1>4 DEF InstallOne
<1>6. View(b)' = View(b)
  BY <1>2, <1>4, <1>5 DEF View
<1>7. ASSUME NEW c \in Block, c # b PROVE View(c)' = View(c)
  BY Zenon, <1>5, <1>7 DEF View
<1> QED BY Zenon, <1>6, <1>7

LEMMA InstallInv == ASSUME LogRoom, IInv, NEW p \in Proc, Install(p) PROVE IInv'
<1> USE DEF Install, InstallOne, ctl
<1>0. /\ lh \in Seq(Block) /\ tail \in Nat /\ Len(lh) \in Nat /\ tail + 1 \in 1..Len(lh)
      /\ lh[tail + 1] \in Block /\ area[tail + 1] \in Value
      /\ TypeOK' /\ CtlInv' /\ SpaceInv'
  BY InstallTypes
<1>1. Installing /\ PinInv
  BY DEF IInv, UpInv
<1>2. \A q \in Proc : pc[q] \in {"write_log", "install", "done"} => q = p
  BY ZenonT(40) DEF IInv, CtlInv, Committer
<1>3. \A c \in Block : View(c)' = View(c)
  BY Zenon, InstallView, <1>1 DEF Installing
<1>4. PinInv'
  <2>1. Held' = Held /\ Logged' = Logged
    BY ZenonT(40) DEF Held, Logged
  <2>2. home'[lh[tail + 1]] = View(lh[tail + 1])
    <3>1. area[tail + 1] = View(lh[tail + 1])
      BY Zenon, <1>0, <1>1 DEF Installing
    <3>2. home \in [Block -> Value]
      BY Zenon DEF IInv, TypeOK
    <3> QED BY Zenon, <1>0, <3>1, <3>2
  <2>3. \A c \in Block : c # lh[tail + 1] => home'[c] = home[c]
    BY SMTT(60) DEF IInv, TypeOK
  <2> QED BY Zenon, <1>0, <1>1, <1>3, <2>1, <2>2, <2>3 DEF PinInv
<1>5. Installing'
  <2>1. \A i \in 1..Len(lh) : lh[i] \in Block
    BY SMTT(60), <1>0
  <2>2. \A i \in 1..Len(lh) : area'[i] = View(lh[i])'
    BY SMTT(60), <1>1, <1>3, <2>1 DEF Installing
  <2>3. \A i \in 1..(tail + 1) : home'[lh[i]] = area'[i] /\ lh[i] \notin dirty'
    <3> SUFFICES ASSUME NEW i \in 1..(tail + 1)
                 PROVE  home'[lh[i]] = area'[i] /\ lh[i] \notin dirty'
      BY Zenon
    <3>1. CASE i = tail + 1
      BY ZenonT(40), <1>0, <3>1 DEF IInv, TypeOK
    <3>2. CASE i # tail + 1
      <4>1. i \in 1..tail /\ i \in 1..Len(lh)
        BY SMTT(60), <1>0, <3>2
      <4>2. lh[i] # lh[tail + 1] /\ lh[i] \in Block
        BY <1>0, <3>2, <4>1 DEF IInv, Distinct
      <4> QED BY SMTT(60), <1>1, <4>1, <4>2 DEF Installing, IInv, TypeOK
    <3> QED BY <3>1, <3>2
  <2> QED BY SMTT(60), <1>0, <1>1, <2>2, <2>3 DEF Installing
<1>6. UpInv'
  BY ZenonT(40), <1>2, <1>4, <1>5 DEF IInv, UpInv
<1>7. sys' = "up" /\ UNCHANGED <<head, lh>>
  OBVIOUS
<1> QED BY Zenon, <1>0, <1>6, <1>7, UpKept

\* Clearing the header frees the reservation when no operation runs.
LEMMA EraseSpace ==
  ASSUME LogRoom, IInv, EraseLog, InOp = {}, InOp' = {}
  PROVE  SpaceInv'
<1>1. Tokens' = {}
  BY DEF Tokens
<1>2. Cardinality(Tokens') = 0
  BY <1>1, FS_EmptySet
<1>3. Len(lh') = 0
  BY SMTT(60) DEF EraseLog
<1> QED BY <1>2, <1>3, LogConstants DEF SpaceInv, LogRoom

LEMMA EraseInv == ASSUME LogRoom, IInv, NEW p \in Proc, Erase(p) PROVE IInv'
<1> USE DEF Erase, EraseLog, bcache
<1>0. /\ InOp = {} /\ InOp' = {} /\ Committer' = Committer /\ p \in Committer
      /\ committing /\ outstanding = 0
  <2>1. p \in Committer /\ committing /\ outstanding = 0
    BY DEF IInv, CtlInv, Committer
  <2>2. InOp = {}
    BY SMTT(60), <2>1, Counted DEF InOp
  <2>3. InOp' = InOp /\ Committer' = Committer
    BY SMTT(60) DEF IInv, TypeOK, InOp, Committer
  <2> QED BY ZenonT(40), <2>1, <2>2, <2>3
<1>1. Installing /\ PinInv
  BY SMTT(60) DEF IInv, UpInv
<1>2. TypeOK'
  BY SMTT(60) DEF IInv, TypeOK, PC
<1>3. CtlInv'
  BY <1>0 DEF IInv, CtlInv, TypeOK
<1>4. SpaceInv'
  BY Zenon, <1>0, EraseSpace
<1>5. \A q \in Proc : pc[q] \in {"write_log", "install", "done"} => q = p
  BY Zenon DEF IInv, CtlInv, Committer
<1>6. dirty = {}
  BY SMTT(60), <1>1 DEF Installing, PinInv, Logged
<1>7. PinInv'
  BY SMTT(60), <1>1, <1>6 DEF PinInv, Held, View
<1>8. UpInv'
  BY SMTT(60), <1>0, <1>5, <1>7 DEF IInv, UpInv, TypeOK
<1>9. Len(head') = 0 /\ Distinct(lh)' /\ Distinct(head)'
  BY SMTT(60) DEF Distinct
<1> QED BY SMTT(60), <1>2, <1>3, <1>4, <1>8, <1>9, LogConstants DEF IInv, LogRoom

LEMMA CommitDoneInv == ASSUME LogRoom, IInv, NEW p \in Proc, CommitDone(p) PROVE IInv'
<1> USE DEF CommitDone, disk, bcache
<1>1. /\ pc' \in [Proc -> PC] /\ pc'[p] = "idle"
      /\ \A q \in Proc : q # p => pc'[q] = pc[q] \/ (pc[q] = "asleep" /\ pc'[q] = "begin")
  <2>1. [pc EXCEPT ![p] = "idle"] \in [Proc -> PC] /\ pc \in [Proc -> PC]
    BY DEF IInv, TypeOK, PC
  <2>2. pc' = Wakeup([pc EXCEPT ![p] = "idle"])
    OBVIOUS
  <2> HIDE DEF CommitDone
  <2> DEFINE f == [pc EXCEPT ![p] = "idle"]
  <2>3. f \in [Proc -> PC] /\ f[p] = "idle" /\ \A q \in Proc : q # p => f[q] = pc[q]
    BY <2>1
  <2>4. pc' = Wakeup(f)
    BY <2>2
  <2> HIDE DEF f
  <2>5. /\ pc' \in [Proc -> PC]
        /\ \A q \in Proc : pc'[q] = f[q] \/ (f[q] = "asleep" /\ pc'[q] = "begin")
    BY SMTT(60), <2>3, <2>4, WakeupMoves
  <2> QED BY SMTT(60), <2>3, <2>5
<1>2. /\ UNCHANGED <<home, head, area, cache, dirty, outstanding, lh, tail, buf, wrote, sys>>
      /\ committing' = FALSE /\ sys = "up" /\ pc[p] = "done"
  OBVIOUS
<1> HIDE DEF CommitDone, disk, bcache
<1>3. TypeOK'
  BY Zenon, <1>1, <1>2 DEF IInv, TypeOK
<1>4. \A q \in Proc : pc[q] \in {"write_log", "install", "done"} => q = p
  BY SMTT(60), <1>2 DEF IInv, CtlInv, Committer
<1>5. InOp' = InOp
  BY <1>1, <1>2 DEF InOp
<1>6. Committer' = {}
  BY Zenon, <1>1, <1>4 DEF Committer
<1>7. CtlInv'
  <2>1. \A q \in Proc : buf'[q] # NoBlock <=> pc'[q] \in {"check", "append"}
    BY <1>1, <1>2 DEF IInv, CtlInv
  <2> QED BY ZenonT(40), <1>2, <1>5, <1>6, <2>1 DEF IInv, CtlInv
<1>8. SpaceInv'
  BY Zenon, <1>2, <1>5, SpaceKept DEF IInv
<1>9. PinInv'
  <2>1. Held' = Held /\ Logged' = Logged /\ \A b \in Block : View(b)' = View(b)
    BY SMTT(60), <1>2 DEF Held, Logged, View
  <2> QED BY ZenonT(40), <1>2, <2>1 DEF IInv, UpInv, PinInv
<1>10. UpInv'
  <2>1. lh = <<>> /\ head = <<>>
    BY <1>2, <1>4 DEF IInv, UpInv
  <2>2. \A q \in Proc : pc'[q] \notin {"write_log", "install", "done"}
    BY ZenonT(40), <1>6 DEF Committer
  <2> QED BY SMTT(60), <1>2, <1>9, <2>1, <2>2 DEF UpInv
<1> QED BY SMTT(60), <1>2, <1>3, <1>7, <1>8, <1>10 DEF IInv, Distinct

LEMMA CrashInv == ASSUME LogRoom, IInv, Crash PROVE IInv'
<1> USE DEF Crash, disk
<1>1. InOp' = {} /\ Committer' = {}
  BY DEF InOp, Committer
<1>2. Tokens' = {}
  BY SMTT(60), <1>1 DEF Tokens
<1>3. Cardinality(InOp') = 0 /\ Cardinality(Tokens') = 0
  BY SMTT(60), <1>1, <1>2, FS_EmptySet
<1>4. Len(lh') = 0 /\ lh' \in Seq(Block) /\ lh' = <<>>
  OBVIOUS
<1>5. TypeOK'
  BY Zenon, <1>4 DEF IInv, TypeOK, PC
<1>6. CtlInv'
  BY SMTT(60), <1>1, <1>3 DEF CtlInv
<1>7. SpaceInv'
  BY SMTT(60), <1>1, <1>3, <1>4, LogConstants DEF SpaceInv, LogRoom
<1> QED BY SMTT(60), <1>4, <1>5, <1>6, <1>7 DEF IInv, Distinct, DownInv

\* No operation runs while the system is down.
LEMMA DownQuiet == ASSUME DownInv PROVE InOp = {} /\ Committer = {} /\ Tokens = {}
BY DEF DownInv, InOp, Committer, Tokens

LEMMA ReadHeadInv == ASSUME LogRoom, IInv, ReadHead PROVE IInv'
<1> USE DEF ReadHead, disk, bcache, ctl
<1>1. DownInv /\ DownInv' /\ (\A b \in Block : cache[b] = NoBlock)
  BY SMTT(60) DEF IInv, DownInv
<1>2. InOp' = {} /\ Committer' = {} /\ Tokens' = {}
  BY SMTT(60), <1>1, DownQuiet DEF InOp, Committer, Tokens
<1>3. Cardinality(InOp') = 0 /\ Cardinality(Tokens') = 0
  BY SMTT(60), <1>2, FS_EmptySet
<1>4. TypeOK'
  BY DEF IInv, TypeOK
<1>5. CtlInv'
  BY Zenon, <1>1, <1>2, <1>3 DEF CtlInv, DownInv
<1>6. SpaceInv'
  BY SMTT(60), <1>2, <1>3, LogConstants DEF SpaceInv, IInv, TypeOK
<1>7. RecoverInv'
  BY SMTT(60), <1>1 DEF RecoverInv, IInv, TypeOK
<1> QED BY ZenonT(40), <1>1, <1>4, <1>5, <1>6, <1>7 DEF IInv, Distinct

LEMMA RecoverInstallInv == ASSUME LogRoom, IInv, RecoverInstall PROVE IInv'
<1> USE DEF RecoverInstall, InstallOne, ctl
<1>0. /\ lh \in Seq(Block) /\ tail \in Nat /\ Len(lh) \in Nat /\ tail + 1 \in 1..Len(lh)
      /\ lh[tail + 1] \in Block /\ area[tail + 1] \in Value
      /\ TypeOK' /\ CtlInv' /\ SpaceInv'
  BY InstallTypes
<1>1. DownInv /\ RecoverInv
  BY Zenon DEF IInv
<1>2. DownInv'
  BY Zenon, <1>1 DEF DownInv
<1>3. \A b \in Block : cache'[b] \in {NoBlock, home'[b]}
  BY <1>0, <1>1 DEF RecoverInv, IInv, TypeOK
<1>4. \A i \in 1..(tail + 1) : home'[lh[i]] = area'[i]
  <2> SUFFICES ASSUME NEW i \in 1..(tail + 1) PROVE home'[lh[i]] = area'[i]
    BY Zenon
  <2>1. CASE i = tail + 1
    BY Zenon, <1>0, <2>1 DEF IInv, TypeOK
  <2>2. CASE i # tail + 1
    <3>1. i \in 1..tail /\ i \in 1..Len(lh)
      BY <1>0, <2>2
    <3>2. lh[i] # lh[tail + 1] /\ lh[i] \in Block
      BY SMTT(60), <1>0, <2>2, <3>1 DEF IInv, Distinct
    <3> QED BY SMTT(60), <1>1, <3>1, <3>2 DEF RecoverInv, IInv, TypeOK
  <2> QED BY <2>1, <2>2
<1>5. RecoverInv'
  BY SMTT(60), <1>0, <1>1, <1>3, <1>4 DEF RecoverInv
<1> QED BY SMTT(60), <1>0, <1>2, <1>5 DEF IInv, Distinct

LEMMA RecoverEraseInv == ASSUME LogRoom, IInv, RecoverErase PROVE IInv'
<1> USE DEF RecoverErase, EraseLog, bcache
<1>1. DownInv /\ RecoverInv
  BY DEF IInv
<1>2. InOp = {} /\ InOp' = {} /\ Committer' = {} /\ Cardinality(InOp') = 0
  BY Zenon, <1>1, DownQuiet, FS_EmptySet DEF InOp, Committer
<1>3. TypeOK'
  BY SMTT(60) DEF IInv, TypeOK
<1>4. CtlInv'
  BY SMTT(60), <1>1, <1>2 DEF CtlInv, DownInv
<1>5. SpaceInv'
  BY SMTT(60), <1>2, EraseSpace
<1>6. PinInv'
  BY SMTT(60), <1>1 DEF PinInv, View, RecoverInv, DownInv
<1>7. UpInv'
  BY <1>1, <1>6 DEF UpInv, DownInv
<1>8. Len(head') = 0 /\ Distinct(lh)' /\ Distinct(head)'
  BY DEF Distinct
<1>9. Len(head') + MAXOPBLOCKS <= LOGSIZE + OpMax
  BY <1>8, LogConstants DEF LogRoom
<1>10. sys' = "up"
  BY DEF RecoverErase
<1> QED BY Zenon, <1>3, <1>4, <1>5, <1>7, <1>8, <1>9, <1>10 DEF IInv

=============================================================================
