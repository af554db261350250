------------------------- MODULE LogRefinementProofs -------------------------
(***************************************************************************)
(* Log.tla implements AtomicDisk.tla: write_head is its commit, a power    *)
(* failure its crash, changes of cached blocks its writes; every other     *)
(* step changes neither what recovery would bring back nor what calls read.*)
(***************************************************************************)
EXTENDS LogProofs

USE DEF disk, bcache, log, procs

\* Recovery finds the one log block of a home block: absorption logs it once.
LEMMA LastAtUnique ==
    ASSUME NEW s \in Seq(Blocks), NEW i \in 1 .. Len(s),
           \A j, k \in 1 .. Len(s) : s[j] = s[k] => j = k
    PROVE  LastAt(s, s[i]) = i
<1>. DEFINE P(k) == s[k] = s[i] /\ \A j \in k + 1 .. Len(s) : s[j] # s[i]
<1>1. P(i)
  <2>1. \A j \in i + 1 .. Len(s) : j \in 1 .. Len(s) /\ j # i
    OBVIOUS
  <2>2. QED
    BY <2>1
<1>2. \A k \in 1 .. Len(s) : P(k) => k = i
  OBVIOUS
<1>3. LastAt(s, s[i]) = CHOOSE k \in 1 .. Len(s) : P(k)
  BY DEF LastAt
<1>. HIDE DEF P
<1>4. QED
  BY <1>1, <1>2, <1>3

\* While the log is empty or installed, recovery would change nothing.
LEMMA RecoveredIsHome ==
    ASSUME TypeOK, LogInv,
           \A i \in 1 .. Len(head) : home[head[i]] = logblk[i]
    PROVE  Recovered = home
<1>1. ASSUME NEW b \in BlocksOf(head)
      PROVE  logblk[LastAt(head, b)] = home[b]
  <2>1. PICK i \in 1 .. Len(head) : head[i] = b
    BY DEF BlocksOf
  <2>2. LastAt(head, b) = i
    BY <2>1, LastAtUnique DEF TypeOK, LogInv
  <2>3. QED
    BY <2>1, <2>2
<1>2. QED
  BY <1>1 DEF Recovered, TypeOK

\* With an empty header recovery changes nothing.
LEMMA EmptyLogRecovered ==
    ASSUME TypeOK, head = <<>>
    PROVE  Recovered = home
BY DEF Recovered, TypeOK, BlocksOf

\* Copies that are neither pinned nor busy equal the disk.
LEMMA CleanContents ==
    ASSUME IInv, ~panicked, \A p \in Procs : buf[p] = Absent, NEW b \in Blocks, b \notin dirty
    PROVE  Contents[b] = home[b]
<1>1. \A p \in Procs : buf[p] # b
  BY AbsentAssumption
<1>2. QED
  BY <1>1 DEF IInv, CacheInv, Contents

\* No buffer is busy in log_write while no call is in progress.
LEMMA NoBusyBuffer ==
    ASSUME IInv, Active = {}
    PROVE  \A p \in Procs : buf[p] = Absent
BY DEF IInv, TypeOK, BufInv, Active, InOp

\* write_head is the atomic commit of AtomicDisk.
LEMMA CommitStep ==
    ASSUME IInv, NEW p \in Procs, WriteHead(p)
    PROVE  Abs!ACommit
<1>. USE DEF IInv, TypeOK
<1>n. ~Recovering
  BY NotRecovering DEF WriteHead, RecoverPCs
<1>c. Active = {} /\ \A q \in Procs \ {p} : pc[q] \notin CommitPCs
  BY DEF WriteHead, CommitInv, CommitExclusive, CommitPCs
<1>0. /\ head' = lh /\ ~panicked
      /\ pc' = [pc EXCEPT ![p] = "install"]
      /\ UNCHANGED <<home, logblk, bcache, lh>>
  BY DEF WriteHead
<1>1. ~Recovering' /\ Active' = Active
  BY <1>0, <1>n DEF WriteHead, Recovering, RecoverPCs, Active, InOp
<1>2. Current' = Current
  BY <1>0, <1>1, <1>n DEF Current, Contents
<1>3. dirty = BlocksOf(lh) /\ \A i \in 1 .. Len(lh) : logblk[i] = cache[lh[i]]
  <2>1. \A q \in Procs : ~Installing(q)
    BY <1>c, <1>n DEF WriteHead, Installing, CommitPCs, RecoverPCs, Recovering
  <2>2. QED
    BY <2>1 DEF WriteHead, CacheInv, CopyInv
<1>4. \A b \in Blocks : Recovered'[b] = Contents[b]
  <2>1. ASSUME NEW b \in BlocksOf(lh)
        PROVE  Recovered'[b] = Contents[b]
    <3>1. PICK i \in 1 .. Len(lh) : lh[i] = b
      BY DEF BlocksOf
    <3>2. LastAt(lh, b) = i
      BY <3>1, LastAtUnique DEF LogInv
    <3>3. Recovered'[b] = logblk[i]
      BY <1>0, <2>1, <3>1, <3>2 DEF Recovered
    <3>4. logblk[i] = cache[b] /\ cache[b] # Absent
      BY <1>3, <2>1, <3>1 DEF CacheInv
    <3>5. QED
      BY <3>1, <3>3, <3>4 DEF Contents
  <2>2. ASSUME NEW b \in Blocks, b \notin BlocksOf(lh)
        PROVE  Recovered'[b] = Contents[b]
    <3>1. Recovered'[b] = home[b]
      BY <1>0, <2>2 DEF Recovered
    <3>2. Contents[b] = home[b]
      BY <1>0, <1>3, <1>c, <2>2, NoBusyBuffer, CleanContents
    <3>3. QED
      BY <3>1, <3>2
  <2>3. QED
    BY <2>1, <2>2
<1>5. Recovered' = Current
  BY <1>4, <1>n DEF Recovered, Current, Contents
<1>6. QED
  BY <1>1, <1>2, <1>5, <1>c DEF Abs!ACommit

\* install_trans is invisible: it changes neither what recovery would bring
\* back nor what calls read.
LEMMA InstallStep ==
    ASSUME IInv, NEW p \in Procs, InstallTrans(p)
    PROVE  UNCHANGED <<Recovered, Current, Active>>
<1>. USE DEF IInv, TypeOK
<1>0. UNCHANGED <<head, logblk, lh>>
  BY DEF InstallTrans
<1>1. Active' = Active
  BY DEF InstallTrans, Active, InOp
<1>2. Recovering' = Recovering
  BY DEF InstallTrans, Recovering, RecoverPCs
<1>h. head = lh /\ Len(lh) < NLog
  BY DEF InstallTrans, LogInv, Installing
<1>3. CASE tail[p] < Len(lh)
  <2>. DEFINE b == lh[tail[p] + 1]
              v == logblk[tail[p] + 1]
  <2>0. home' = [home EXCEPT ![b] = v] /\ cache' = [cache EXCEPT ![b] = v]
    BY <1>3 DEF InstallTrans
  <2>b. /\ tail[p] + 1 \in 1 .. Len(lh)
        /\ b \in BlocksOf(lh) /\ b \in Blocks /\ v \in Values /\ v # Absent
    <3>1. tail[p] + 1 \in 1 .. Len(lh) /\ tail[p] + 1 \in LogBlocks
      BY <1>3, <1>h, SizesAssumption DEF LogBlocks
    <3>2. QED
      BY <3>1, AbsentAssumption DEF BlocksOf
  <2>1. Recovered' = Recovered
    <3>. HIDE DEF b, v
    <3>1. \A c \in Blocks : c \notin BlocksOf(head) => home'[c] = home[c]
      BY <2>0, <2>b, <1>h
    <3>2. QED
      BY <1>0, <3>1 DEF Recovered
  <2>2. CASE Recovering
    BY <1>1, <1>2, <2>1, <2>2 DEF Current
  <2>3. CASE ~Recovering
    <3>1. pc[p] = "install"
      BY <2>3 DEF InstallTrans, Recovering, RecoverPCs
    <3>2. tail[p] + 1 \in tail[p] + 1 .. Len(lh)
      BY <1>3
    <3>3. cache[b] = v /\ cache[b] # Absent
      BY <3>1, <3>2, <2>b DEF CopyInv
    <3>4. Contents' = Contents
      <4>. HIDE DEF b, v
      <4>. QED BY <2>0, <2>b, <3>3 DEF Contents
    <3>5. QED
      BY <1>1, <1>2, <2>1, <2>3, <3>4 DEF Current
  <2>4. QED
    BY <2>2, <2>3
<1>4. CASE ~(tail[p] < Len(lh))
  <2>1. UNCHANGED <<home, cache>>
    BY <1>4 DEF InstallTrans
  <2>2. QED
    BY <1>0, <1>1, <1>2, <2>1 DEF Recovered, Current, Contents
<1>5. QED
  BY <1>3, <1>4

\* Clearing the header of an installed log is invisible.
LEMMA ClearStep ==
    ASSUME IInv, NEW p \in Procs, ClearLog(p) \/ RecoverDone(p)
    PROVE  UNCHANGED <<Recovered, Current, Active>>
<1>. USE DEF IInv, TypeOK
<1>0. head' = <<>> /\ UNCHANGED <<home, logblk, bcache, buf, panicked>>
  BY DEF ClearLog, RecoverDone
<1>h. head = lh
  BY DEF ClearLog, RecoverDone, LogInv, Installing
<1>1. Recovered = home
  BY <1>h, RecoveredIsHome DEF ClearLog, RecoverDone, CopyInv
<1>2. Recovered' = home
  BY <1>0 DEF Recovered, BlocksOf
<1>3. CASE ClearLog(p)
  <2>1. Active' = Active /\ Recovering' = Recovering
    BY <1>3 DEF ClearLog, Active, InOp, Recovering, RecoverPCs
  <2>2. QED
    BY <1>0, <1>1, <1>2, <2>1 DEF Current, Contents
<1>4. CASE RecoverDone(p)
  <2>1. Recovering /\ ~Recovering'
    BY <1>4 DEF RecoverDone, Recovering, RecoverPCs
  <2>2. Active = {} /\ Active' = {} /\ dirty = {} /\ ~panicked
    BY <1>4 DEF RecoverDone, BootInv, RecoverPCs, Active, InOp
  <2>3. Contents = home
    BY <2>2, NoBusyBuffer, CleanContents DEF Contents
  <2>4. QED
    BY <1>0, <1>1, <1>2, <2>1, <2>2, <2>3 DEF Current, Contents
<1>5. QED
  BY <1>3, <1>4

\* Every step of the log is a step of AtomicDisk or changes none of its state.
LEMMA StepRefines ==
    ASSUME IInv, [Next]_vars
    PROVE  [Abs!ANext]_(Abs!avars)
<1>. USE DEF IInv, TypeOK
<1>s. UNCHANGED <<Recovered, Current, Active>> => [Abs!ANext]_(Abs!avars)
  BY DEF Abs!avars
<1>1. ASSUME NEW p \in Procs, BeginOp(p)
      PROVE  [Abs!ANext]_(Abs!avars)
  <2>1. ~Recovering /\ ~Recovering'
    BY <1>1, NotRecovering DEF BeginOp, Recovering, RecoverPCs
  <2>2. UNCHANGED <<Recovered, Current>>
    BY <1>1, <2>1 DEF BeginOp, Recovered, Current, Contents
  <2>3. CASE MustWait
    <3>1. Active' = Active
      BY <1>1, <2>3 DEF BeginOp, Active, InOp
    <3>2. QED
      BY <2>2, <3>1, <1>s
  <2>4. CASE ~MustWait
    <3>1. p \notin Active /\ Active' = Active \cup {p}
      BY <1>1, <2>4 DEF BeginOp, Active, InOp
    <3>2. Abs!ABegin(p)
      BY <2>2, <3>1 DEF Abs!ABegin
    <3>3. QED
      BY <3>2 DEF Abs!ANext
  <2>5. QED
    BY <2>3, <2>4
<1>2. ASSUME NEW p \in Procs, NEW b \in Blocks, NEW v \in Values, Modify(p, b, v)
      PROVE  [Abs!ANext]_(Abs!avars)
  <2>1. ~Recovering /\ ~Recovering' /\ p \in Active /\ Active' = Active
    BY <1>2, NotRecovering DEF Modify, Recovering, RecoverPCs, Active, InOp
  <2>2. Recovered' = Recovered
    BY <1>2 DEF Modify, Recovered
  <2>3. Contents' = [Contents EXCEPT ![b] = v]
    BY <1>2, AbsentAssumption DEF Modify, Contents
  <2>4. Abs!AWrite(p, b, v)
    BY <2>1, <2>2, <2>3 DEF Abs!AWrite, Current
  <2>5. QED
    BY <2>4 DEF Abs!ANext
<1>3. ASSUME NEW p \in Procs, LogAppend(p)
      PROVE  [Abs!ANext]_(Abs!avars)
  <2>1. Recovering' = Recovering /\ Active' = Active
    BY <1>3 DEF LogAppend, Recovering, RecoverPCs, Active, InOp
  <2>2. QED
    BY <1>3, <2>1, <1>s DEF LogAppend, Recovered, Current, Contents
<1>4. ASSUME NEW p \in Procs, EndOp(p)
      PROVE  [Abs!ANext]_(Abs!avars)
  <2>1. ~committing
    BY <1>4 DEF EndOp, CommitInv, CommitExclusive, Active, InOp
  <2>2. ~Recovering /\ ~Recovering'
    BY <1>4, <2>1, NotRecovering DEF EndOp, Woken, Recovering, RecoverPCs
  <2>3. p \in Active /\ Active' = Active \ {p}
    BY <1>4, <2>1 DEF EndOp, Woken, Active, InOp
  <2>4. UNCHANGED <<Recovered, Current>>
    BY <1>4, <2>2 DEF EndOp, Recovered, Current, Contents
  <2>5. Abs!AEnd(p)
    BY <2>3, <2>4 DEF Abs!AEnd
  <2>6. QED
    BY <2>5 DEF Abs!ANext
<1>5. ASSUME NEW p \in Procs, WriteLog(p)
      PROVE  [Abs!ANext]_(Abs!avars)
  <2>1. Recovering' = Recovering /\ Active' = Active
    BY <1>5 DEF WriteLog, Recovering, RecoverPCs, Active, InOp
  <2>2. \A q \in Procs : ~Installing(q) /\ pc[q] # "read_head"
    BY <1>5, NotRecovering DEF WriteLog, CommitInv, CommitExclusive, Installing, CommitPCs, RecoverPCs
  <2>3. head = <<>> /\ UNCHANGED <<head, home, cache>>
    BY <1>5, <2>2 DEF WriteLog, LogInv
  <2>4. QED
    BY <2>1, <2>3, <1>s DEF Recovered, Current, Contents, BlocksOf
<1>6. ASSUME NEW p \in Procs, WriteHead(p)
      PROVE  [Abs!ANext]_(Abs!avars)
  BY <1>6, CommitStep DEF Abs!ANext
<1>7. ASSUME NEW p \in Procs, InstallTrans(p)
      PROVE  [Abs!ANext]_(Abs!avars)
  BY <1>7, InstallStep, <1>s
<1>8. ASSUME NEW p \in Procs, ClearLog(p) \/ RecoverDone(p)
      PROVE  [Abs!ANext]_(Abs!avars)
  BY <1>8, ClearStep, <1>s
<1>9. ASSUME NEW p \in Procs, CommitDone(p)
      PROVE  [Abs!ANext]_(Abs!avars)
  <2>1. Recovering' = Recovering /\ Active' = Active
    BY <1>9 DEF CommitDone, Woken, Recovering, RecoverPCs, Active, InOp
  <2>2. QED
    BY <1>9, <2>1, <1>s DEF CommitDone, Recovered, Current, Contents
<1>10. ASSUME NEW p \in Procs, ReadHead(p)
       PROVE  [Abs!ANext]_(Abs!avars)
  <2>1. Recovering' = Recovering /\ Active' = Active
    BY <1>10 DEF ReadHead, Recovering, RecoverPCs, Active, InOp
  <2>2. QED
    BY <1>10, <2>1, <1>s DEF ReadHead, Recovered, Current, Contents
<1>11. ASSUME NEW b \in Blocks, Recycle(b)
       PROVE  [Abs!ANext]_(Abs!avars)
  <2>1. Recovering' = Recovering /\ Active' = Active /\ Recovered' = Recovered
    BY <1>11 DEF Recycle, Recovering, Active, InOp, Recovered
  <2>2. cache[b] = home[b]
    BY <1>11 DEF Recycle, CacheInv
  <2>3. Contents' = Contents
    BY <1>11, <2>2 DEF Recycle, Contents
  <2>4. QED
    BY <2>1, <2>3, <1>s DEF Current
<1>12. ASSUME Crash
       PROVE  [Abs!ANext]_(Abs!avars)
  <2>1. PICK p \in Procs : pc' = [q \in Procs |-> IF q = p THEN "read_head" ELSE "off"]
    BY <1>12 DEF Crash, BootState
  <2>2. Recovering' /\ Active' = {}
    BY <2>1 DEF Recovering, RecoverPCs, Active, InOp
  <2>3. Recovered' = Recovered
    BY <1>12 DEF Crash, Recovered
  <2>4. Abs!ACrash
    BY <2>2, <2>3 DEF Abs!ACrash, Current
  <2>5. QED
    BY <2>4 DEF Abs!ANext
<1>13. ASSUME UNCHANGED vars
       PROVE  [Abs!ANext]_(Abs!avars)
  BY <1>13, <1>s DEF vars, Recovered, Current, Contents, Recovering, Active, InOp
<1>14. ASSUME NEW p \in Procs, Kill(p)
       PROVE  [Abs!ANext]_(Abs!avars)
  <2>1. Recovering' = Recovering /\ Active' = Active
    BY <1>14 DEF Kill, Recovering, RecoverPCs, Active, InOp
  <2>2. QED
    BY <1>14, <2>1, <1>s DEF Kill, Recovered, Current, Contents
<1>15. QED
  BY <1>1, <1>2, <1>3, <1>4, <1>5, <1>6, <1>7, <1>8, <1>9, <1>10, <1>11, <1>12, <1>13,
     <1>14
  DEF Next

\* The first boot is an initial state of AtomicDisk.
LEMMA InitRefines == Init => Abs!AInit
<1>. SUFFICES ASSUME Init PROVE Abs!AInit
  OBVIOUS
<1>1. Recovered = InitDisk
  BY InitInv, EmptyLogRecovered DEF Init, IInv
<1>2. Recovering /\ Active = {}
  BY DEF Init, Recovering, RecoverPCs, Active, InOp
<1>3. QED
  BY <1>1, <1>2 DEF Abs!AInit, Current

\* Crash safety of log.c, for any number of processes and blocks and any size of
\* log: the log implements a disk that changes only by atomic group commits.
THEOREM LogRefinesAtomicDisk == Spec => RefinesAtomicDisk
<1>1. ASSUME IInv, [Next]_vars
      PROVE  [Abs!ANext]_(Abs!avars)
  BY <1>1, StepRefines
<1>2. QED
  BY <1>1, InitRefines, LogInvariant, PTL DEF Spec, RefinesAtomicDisk, Abs!ASpec
=============================================================================
