--------------------------- MODULE LogCallProofs ----------------------------
(***************************************************************************)
(* Proofs about Log.tla for every number of processes and blocks and every *)
(* size of the log.  IInv of that module is inductive: one lemma per       *)
(* action, and under it one step per conjunct.  This module has the steps  *)
(* of the calls: begin_op, kill, log_write and end_op.                     *)
(***************************************************************************)
EXTENDS Log, FiniteSetTheorems, TLAPS

USE DEF disk, bcache, log, procs

\* Outside recovery (recover_from_log runs alone) nobody is in it.
LEMMA NotRecovering ==
    ASSUME IInv, NEW p \in Procs, pc[p] \notin RecoverPCs \cup {"off"}
    PROVE  ~Recovering /\ \A q \in Procs : pc[q] \notin RecoverPCs \cup {"off"}
BY DEF IInv, BootInv, Recovering

\* log_write's append adds exactly the block it logs.
LEMMA BlocksOfAppend ==
    ASSUME NEW s \in Seq(Blocks), NEW b \in Blocks
    PROVE  BlocksOf(Append(s, b)) = BlocksOf(s) \cup {b}
<1>1. /\ Len(Append(s, b)) = Len(s) + 1
      /\ \A i \in 1 .. Len(s) : Append(s, b)[i] = s[i]
      /\ Append(s, b)[Len(s) + 1] = b
  OBVIOUS
<1>2. QED
  BY <1>1 DEF BlocksOf

\* An empty log names no block.
LEMMA BlocksOfEmpty == BlocksOf(<<>>) = {}
BY DEF BlocksOf

\* Only finitely many calls are in progress.
LEMMA ActiveFinite == IsFiniteSet(Active) /\ IsFiniteSet(Active')
BY ProcsAssumption, FS_Subset DEF Active

\* The loops of commit() and recovery and the steps that rely on their result.
Copying == {"write_log", "write_head", "install", "clear", "r_clear"}

\* While no loop of commit() or recovery is under way nothing is half copied.
LEMMA CopyIdle ==
    ASSUME \A q \in Procs : tail[q] = 0 /\ pc[q] \notin Copying,
           Len(lh) \in Nat
    PROVE  CopyInv
BY DEF CopyInv, Copying

\* The same of the state after a step (of a call, of a crash, of recovery).
LEMMA CopyIdleNext ==
    ASSUME \A q \in Procs : tail'[q] = 0 /\ pc'[q] \notin Copying,
           Len(lh') \in Nat
    PROVE  CopyInv'
BY DEF CopyInv, Copying

\* begin_op sleeps or counts the call; a sleeper has its reason.
LEMMA BeginOpInv ==
    ASSUME IInv, NEW p \in Procs, BeginOp(p)
    PROVE  IInv'
<1>. USE DEF IInv, TypeOK
<1>n. ~Recovering /\ \A q \in Procs : pc[q] \notin RecoverPCs \cup {"off"}
  BY NotRecovering DEF BeginOp, RecoverPCs
<1>1. CASE MustWait
  <2>0. /\ pc' = [pc EXCEPT ![p] = "asleep"]
        /\ UNCHANGED <<outstanding, wrote, disk, bcache, lh, committing, buf, tail, panicked>>
    BY <1>1 DEF BeginOp
  <2>1. TypeOK'
    BY <2>0 DEF PCs
  <2>2. BootInv'
    BY <2>0, <1>n DEF BootInv, Recovering, RecoverPCs
  <2>3. Active' = Active
    BY <2>0 DEF BeginOp, Active, InOp
  <2>4. CountInv'
    BY <2>0, <2>3 DEF CountInv
  <2>5. CommitInv'
    BY <2>0, <2>3 DEF BeginOp, CommitInv, CommitExclusive, CommitPCs
  <2>6. BufInv'
    BY <2>0 DEF BeginOp, BufInv
  <2>7. LogInv'
    BY <2>0, <1>n DEF BeginOp, LogInv, Installing, Recovering, RecoverPCs
  <2>8. CacheInv'
    BY <2>0 DEF BeginOp, CacheInv, Installing
  <2>9. CopyInv'
    BY <2>0 DEF BeginOp, CopyInv
  <2>10. PanicInv'
    BY <2>0, <2>3 DEF PanicInv
  <2>11. SleepersHaveCause'
    <3>1. CASE outstanding > 0 \/ committing
      BY <1>1, <2>0, <3>1 DEF SleepersHaveCause, MustWait
    <3>2. CASE ~(outstanding > 0 \/ committing)
      <4>1. outstanding = 0 /\ lh = <<>>
        BY <3>2, <1>n DEF LogInv
      <4>2. QED
        BY <4>1, <3>2, <1>1, SizesAssumption DEF MustWait
    <3>3. QED
      BY <3>1, <3>2
  <2>12. QED
    BY <2>1, <2>2, <2>4, <2>5, <2>6, <2>7, <2>8, <2>9, <2>10, <2>11
<1>2. CASE ~MustWait
  <2>0. /\ pc' = [pc EXCEPT ![p] = "op"]
        /\ outstanding' = outstanding + 1
        /\ wrote' = [wrote EXCEPT ![p] = {}]
        /\ ~committing
        /\ UNCHANGED <<disk, bcache, lh, committing, buf, tail, panicked>>
    BY <1>2 DEF BeginOp, MustWait
  <2>1. TypeOK'
    BY <2>0 DEF PCs
  <2>2. BootInv'
    BY <2>0, <1>n DEF BootInv, Recovering, RecoverPCs
  <2>3. Active' = Active \cup {p} /\ p \notin Active
    BY <2>0 DEF BeginOp, Active, InOp
  <2>4. CountInv'
    BY <2>0, <2>3, ActiveFinite, FS_AddElement DEF CountInv
  <2>5. CommitInv'
    BY <2>0 DEF BeginOp, CommitInv, CommitExclusive, CommitPCs
  <2>6. BufInv'
    BY <2>0 DEF BeginOp, BufInv
  <2>7. LogInv'
    BY <2>0, <1>n DEF BeginOp, LogInv, Installing, Recovering, RecoverPCs
  <2>8. CacheInv'
    BY <2>0 DEF BeginOp, CacheInv, Installing
  <2>9. CopyInv'
    BY <2>0 DEF BeginOp, CopyInv
  <2>10. PanicInv'
    BY <2>0, <2>3 DEF PanicInv
  <2>11. SleepersHaveCause'
    BY <1>2, <2>0 DEF SleepersHaveCause
  <2>12. QED
    BY <2>1, <2>2, <2>4, <2>5, <2>6, <2>7, <2>8, <2>9, <2>10, <2>11
<1>3. QED
  BY <1>1, <1>2

\* kill makes a sleeper test the conditions of begin_op again.
LEMMA KillInv ==
    ASSUME IInv, NEW p \in Procs, Kill(p)
    PROVE  IInv'
<1>. USE DEF IInv, TypeOK
<1>n. ~Recovering /\ \A q \in Procs : pc[q] \notin RecoverPCs \cup {"off"}
  BY NotRecovering DEF Kill, RecoverPCs
<1>0. /\ pc[p] = "asleep" /\ pc' = [pc EXCEPT ![p] = "woken"]
      /\ UNCHANGED <<disk, bcache, log, buf, tail, wrote, panicked>>
  BY DEF Kill
<1>1. TypeOK'
  BY <1>0 DEF PCs
<1>2. BootInv'
  BY <1>0, <1>n DEF BootInv, Recovering, RecoverPCs
<1>3. Active' = Active
  BY <1>0 DEF Active, InOp
<1>4. CountInv' /\ PanicInv'
  BY <1>0, <1>3 DEF CountInv, PanicInv
<1>5. CommitInv'
  BY <1>0, <1>3 DEF CommitInv, CommitExclusive, CommitPCs
<1>6. BufInv'
  BY <1>0 DEF BufInv
<1>7. LogInv'
  BY <1>0, <1>n DEF LogInv, Installing, Recovering, RecoverPCs
<1>8. CacheInv'
  BY <1>0 DEF CacheInv, Installing
<1>9. CopyInv'
  BY <1>0 DEF CopyInv
<1>10. SleepersHaveCause'
  BY <1>0 DEF SleepersHaveCause, MustWait
<1>11. QED
  BY <1>1, <1>2, <1>4, <1>5, <1>6, <1>7, <1>8, <1>9, <1>10

\* A change of a buffer, with log_write's unlocked test, keeps the invariant.
LEMMA ModifyInv ==
    ASSUME IInv, NEW p \in Procs, NEW b \in Blocks, NEW v \in Values,
           Modify(p, b, v)
    PROVE  IInv'
<1>. USE DEF IInv, TypeOK
<1>n. ~Recovering /\ \A q \in Procs : pc[q] \notin RecoverPCs \cup {"off"}
  BY NotRecovering DEF Modify, RecoverPCs
<1>v. v # Absent /\ b # Absent
  BY AbsentAssumption
<1>c. \A q \in Procs : pc[q] \notin CommitPCs /\ ~Installing(q)
  BY <1>n DEF Modify, CommitInv, CommitExclusive, Active, InOp, CommitPCs, RecoverPCs, Installing
<1>0. /\ cache' = [cache EXCEPT ![b] = v]
      /\ UNCHANGED <<disk, dirty, log, tail>>
  BY DEF Modify
<1>1. CASE LogFull \/ outstanding < 1
  <2>0. panicked' = TRUE /\ UNCHANGED <<pc, buf, wrote>>
    BY <1>1 DEF Modify
  <2>1. TypeOK'
    BY <1>0, <2>0
  <2>2. BootInv'
    BY <1>0, <2>0, <1>n DEF BootInv, Recovering
  <2>3. Active' = Active /\ p \in Active
    BY <2>0 DEF Modify, Active, InOp
  <2>4. CountInv'
    BY <1>0, <2>3 DEF CountInv
  <2>5. CommitInv'
    BY <1>0, <2>0, <2>3 DEF CommitInv, CommitExclusive
  <2>6. BufInv'
    BY <1>0, <2>0, <1>v DEF BufInv
  <2>7. LogInv'
    BY <1>0, <2>0 DEF LogInv, Installing, Recovering
  <2>8. CacheInv'
    BY <1>0, <2>0, <1>v DEF CacheInv, Installing
  <2>9. CopyInv'
    BY <1>0, <2>0, <1>c DEF CopyInv, CommitPCs, Installing
  <2>10. PanicInv'
    BY <2>3 DEF PanicInv
  <2>11. SleepersHaveCause'
    BY <1>0, <2>0 DEF SleepersHaveCause, MustWait
  <2>12. QED
    BY <2>1, <2>2, <2>4, <2>5, <2>6, <2>7, <2>8, <2>9, <2>10, <2>11
<1>2. CASE ~(LogFull \/ outstanding < 1)
  <2>0. /\ pc' = [pc EXCEPT ![p] = "logging"]
        /\ buf' = [buf EXCEPT ![p] = b]
        /\ wrote' = [wrote EXCEPT ![p] = @ \cup {b}]
        /\ UNCHANGED panicked
        /\ \A q \in Procs : buf[q] # b
    BY <1>2 DEF Modify
  <2>1. TypeOK'
    BY <1>0, <2>0 DEF PCs
  <2>2. BootInv'
    BY <1>0, <2>0, <1>n DEF BootInv, Recovering, RecoverPCs
  <2>3. Active' = Active
    BY <2>0 DEF Modify, Active, InOp
  <2>4. CountInv'
    BY <1>0, <2>3 DEF CountInv
  <2>5. CommitInv'
    BY <1>0, <2>0, <2>3 DEF Modify, CommitInv, CommitExclusive, CommitPCs
  <2>6. BufInv'
    BY <1>0, <2>0, <1>v DEF BufInv
  <2>7. LogInv'
    BY <1>0, <2>0, <1>n, <1>c DEF LogInv, Installing, Recovering, RecoverPCs
  <2>8. CacheInv'
    <3>1. buf[p] = Absent
      BY DEF Modify, BufInv
    <3>2. ~panicked' => \A c \in Blocks :
               (c \notin dirty' /\ cache'[c] # Absent /\ \A q \in Procs : buf'[q] # c)
                   => cache'[c] = home'[c]
      <4>1. SUFFICES ASSUME ~panicked', NEW c \in Blocks, c \notin dirty',
                            cache'[c] # Absent, \A q \in Procs : buf'[q] # c
                     PROVE  cache'[c] = home'[c]
        OBVIOUS
      <4>2. c # b
        BY <4>1, <2>0
      <4>3. \A q \in Procs : buf[q] # c
        BY <4>1, <2>0, <3>1, AbsentAssumption
      <4>4. QED
        BY <1>0, <2>0, <4>1, <4>2, <4>3 DEF CacheInv
    <3>3. \A q \in Procs : ~Installing(q)'
      BY <2>0, <1>c DEF Installing
    <3>4. \A c \in dirty' : cache'[c] # Absent
      BY <1>0, <1>v DEF CacheInv
    <3>5. dirty' = BlocksOf(lh')
      BY <1>0, <1>c DEF CacheInv
    <3>6. QED
      BY <3>2, <3>3, <3>4, <3>5 DEF CacheInv, Installing
  <2>9. CopyInv'
    BY <1>0, <2>0, <1>c DEF Modify, CopyInv, CommitPCs, Installing
  <2>10. PanicInv'
    BY <1>0, <2>0, <2>3 DEF PanicInv
  <2>11. SleepersHaveCause'
    BY <1>0, <2>0 DEF SleepersHaveCause, MustWait
  <2>12. QED
    BY <2>1, <2>2, <2>4, <2>5, <2>6, <2>7, <2>8, <2>9, <2>10, <2>11
<1>3. QED
  BY <1>1, <1>2

\* The locked part of log_write records and pins the block.
LEMMA LogAppendInv ==
    ASSUME IInv, NEW p \in Procs, LogAppend(p)
    PROVE  IInv'
<1>. USE DEF IInv, TypeOK
<1>n. ~Recovering /\ \A q \in Procs : pc[q] \notin RecoverPCs \cup {"off"}
  BY NotRecovering DEF LogAppend, RecoverPCs
<1>c. \A q \in Procs : pc[q] \notin CommitPCs /\ ~Installing(q)
  BY <1>n DEF LogAppend, CommitInv, CommitExclusive, Active, InOp, CommitPCs, RecoverPCs, Installing
<1>b. buf[p] \in Blocks /\ cache[buf[p]] # Absent
  BY DEF LogAppend, BufInv
<1>0. /\ dirty' = dirty \cup {buf[p]}
      /\ pc' = [pc EXCEPT ![p] = "op"]
      /\ buf' = [buf EXCEPT ![p] = Absent]
      /\ UNCHANGED <<disk, cache, outstanding, committing, tail, wrote, panicked>>
  BY DEF LogAppend
<1>l. /\ lh' \in Seq(Blocks)
      /\ Len(lh') >= Len(lh)
      /\ BlocksOf(lh') = BlocksOf(lh) \cup {buf[p]}
      /\ \A i, j \in 1 .. Len(lh') : lh'[i] = lh'[j] => i = j
  <2>1. CASE buf[p] \in BlocksOf(lh)
    BY <2>1 DEF LogAppend, Logged, LogInv
  <2>2. CASE buf[p] \notin BlocksOf(lh)
    <3>1. lh' = Append(lh, buf[p])
      BY <2>2 DEF LogAppend, Logged
    <3>2. \A i, j \in 1 .. Len(lh') : lh'[i] = lh'[j] => i = j
      BY <3>1, <2>2, <1>b DEF BlocksOf, LogInv
    <3>3. lh' \in Seq(Blocks) /\ Len(lh') = Len(lh) + 1
      BY <3>1, <1>b
    <3>4. BlocksOf(lh') = BlocksOf(lh) \cup {buf[p]}
      BY <3>1, <1>b, BlocksOfAppend
    <3>5. QED
      BY <3>2, <3>3, <3>4
  <2>3. QED
    BY <2>1, <2>2
<1>1. TypeOK'
  BY <1>0, <1>l, <1>b DEF PCs
<1>2. BootInv'
  BY <1>0, <1>n DEF BootInv, Recovering, RecoverPCs
<1>3. Active' = Active /\ p \in Active
  BY <1>0 DEF LogAppend, Active, InOp
<1>4. CountInv'
  BY <1>0, <1>3 DEF CountInv
<1>5. CommitInv'
  BY <1>0, <1>3 DEF LogAppend, CommitInv, CommitExclusive, CommitPCs
<1>6. BufInv'
  BY <1>0 DEF LogAppend, BufInv
<1>7. LogInv'
  <2>1. outstanding # 0
    BY <1>3, ActiveFinite, FS_EmptySet DEF CountInv
  <2>2. \A q \in Procs : ~Installing(q)'
    BY <1>0, <1>c DEF Installing
  <2>3. \A q \in Procs : pc'[q] \notin {"done", "read_head"}
    BY <1>0, <1>c, <1>n DEF CommitPCs, RecoverPCs
  <2>4. head = <<>>
    BY <1>c, <1>n DEF LogInv, RecoverPCs
  <2>5. QED
    BY <1>0, <1>l, <2>1, <2>2, <2>3, <2>4 DEF LogInv
<1>8. CacheInv'
  <2>1. dirty' = BlocksOf(lh')
    BY <1>0, <1>l, <1>c DEF CacheInv
  <2>2. \A q \in Procs : ~Installing(q)'
    BY <1>0, <1>c DEF Installing
  <2>3. \A c \in Blocks \ dirty' : (\A q \in Procs : buf'[q] # c) => \A q \in Procs : buf[q] # c
    BY <1>0
  <2>4. ~panicked' => \A c \in Blocks :
               (c \notin dirty' /\ cache'[c] # Absent /\ \A q \in Procs : buf'[q] # c)
                   => cache'[c] = home'[c]
    BY <1>0, <2>3 DEF CacheInv
  <2>5. \A c \in dirty' : cache'[c] # Absent
    BY <1>0, <1>b DEF CacheInv
  <2>6. QED
    BY <2>1, <2>2, <2>4, <2>5 DEF CacheInv, Installing
<1>9. CopyInv'
  <2>1. \A q \in Procs : pc[q] \notin Copying \cup {"r_install"}
    BY <1>c DEF Copying, Installing, CommitPCs
  <2>2. \A q \in Procs : tail'[q] = 0 /\ pc'[q] \notin Copying
    BY <1>0, <2>1 DEF CopyInv, Copying
  <2>3. QED
    BY <1>l, <2>2, CopyIdleNext
<1>10. PanicInv'
  BY <1>3 DEF PanicInv
<1>11. SleepersHaveCause'
  <2>1. (\E q \in Procs : pc'[q] = "asleep") => \E q \in Procs : pc[q] = "asleep"
    BY <1>0
  <2>2. MustWait => MustWait'
    <3>. DEFINE r == (outstanding + 1) * MAXOPBLOCKS
    <3>1. r \in Nat
      BY SizesAssumption
    <3>2. Len(lh) + r > LOGSIZE => Len(lh') + r > LOGSIZE
      <4>. HIDE DEF r
      <4>. QED BY <1>l, <3>1, SizesAssumption
    <3>3. QED
      BY <1>0, <3>2 DEF MustWait
  <2>3. QED
    BY <1>0, <2>1, <2>2 DEF SleepersHaveCause
<1>12. QED
  BY <1>1, <1>2, <1>4, <1>5, <1>6, <1>7, <1>8, <1>9, <1>10, <1>11

\* end_op wakes the sleepers, or starts the commit as the last call.
LEMMA EndOpInv ==
    ASSUME IInv, NEW p \in Procs, EndOp(p)
    PROVE  IInv'
<1>. USE DEF IInv, TypeOK
<1>n. ~Recovering /\ \A q \in Procs : pc[q] \notin RecoverPCs \cup {"off"}
  BY NotRecovering DEF EndOp, RecoverPCs
<1>c. ~committing /\ \A q \in Procs : pc[q] \notin CommitPCs /\ ~Installing(q)
  BY <1>n DEF EndOp, CommitInv, CommitExclusive, Active, InOp, CommitPCs, RecoverPCs, Installing
<1>a. p \in Active /\ outstanding \in Nat \ {0}
  <2>1. p \in Active
    BY DEF EndOp, Active, InOp
  <2>2. QED
    BY <2>1, ActiveFinite, FS_EmptySet DEF CountInv
<1>t. \A q \in Procs : tail[q] = 0
  BY <1>c, <1>n DEF CopyInv, CommitPCs, RecoverPCs
<1>h. head = <<>>
  BY <1>c, <1>n DEF LogInv, RecoverPCs
<1>0. /\ outstanding' = outstanding - 1
      /\ wrote' = [wrote EXCEPT ![p] = {}]
      /\ UNCHANGED <<panicked, disk, bcache, lh, buf, tail>>
  BY <1>c DEF EndOp
<1>1. CASE outstanding' = 0
  <2>0. /\ committing' = TRUE
        /\ pc' = [pc EXCEPT ![p] = IF lh = <<>> THEN "done" ELSE "write_log"]
    BY <1>1, <1>c DEF EndOp
  <2>1. TypeOK'
    BY <1>0, <1>1, <2>0 DEF PCs, CommitPCs
  <2>2. BootInv'
    BY <2>0, <1>n DEF BootInv, Recovering, RecoverPCs
  <2>3. Active' = Active \ {p}
    BY <2>0 DEF Active, InOp
  <2>4. CountInv'
    BY <1>0, <1>a, <2>3, ActiveFinite, FS_RemoveElement DEF CountInv
  <2>5. Active' = {}
    BY <2>4, <1>1, ActiveFinite, FS_EmptySet DEF CountInv
  <2>6. CommitInv'
    BY <2>0, <2>5, <1>c DEF CommitInv, CommitExclusive, CommitPCs
  <2>7. BufInv'
    BY <1>0, <2>0 DEF EndOp, BufInv
  <2>8. LogInv'
    BY <1>0, <2>0, <1>c, <1>n, <1>h DEF LogInv, Installing, Recovering, RecoverPCs, CommitPCs
  <2>9. CacheInv'
    <3>1. \A q \in Procs : ~Installing(q)'
      BY <2>0, <1>c DEF Installing
    <3>2. QED
      BY <1>0, <3>1, <1>c DEF CacheInv, Installing
  <2>10. CopyInv'
    <3>1. tail' = tail /\ \A q \in Procs : tail'[q] = 0
      BY <1>0, <1>t
    <3>2. \A q \in Procs : pc'[q] \notin {"write_head", "install", "r_install", "clear", "r_clear"}
      BY <2>0, <1>c, <1>n DEF CommitPCs, RecoverPCs
    <3>3. QED
      BY <1>0, <3>1, <3>2, SizesAssumption DEF CopyInv
  <2>11. PanicInv'
    BY <2>0 DEF PanicInv
  <2>12. SleepersHaveCause'
    BY <2>0 DEF SleepersHaveCause, MustWait
  <2>13. QED
    BY <2>1, <2>2, <2>4, <2>6, <2>7, <2>8, <2>9, <2>10, <2>11, <2>12
<1>2. CASE outstanding' # 0
  <2>0. pc' = Woken([pc EXCEPT ![p] = "idle"]) /\ UNCHANGED committing
    BY <1>2, <1>c DEF EndOp
  <2>p. /\ pc'[p] = "idle"
        /\ \A q \in Procs \ {p} : pc'[q] = IF pc[q] = "asleep" THEN "woken" ELSE pc[q]
        /\ pc' \in [Procs -> PCs]
    BY <2>0 DEF Woken, PCs
  <2>1. TypeOK'
    <3>1. outstanding' \in Nat
      BY <1>0, <1>a
    <3>2. wrote' \in [Procs -> SUBSET Blocks]
      BY <1>0
    <3>3. QED
      BY <1>0, <2>0, <2>p, <3>1, <3>2
  <2>2. BootInv'
    BY <2>p, <1>n DEF BootInv, Recovering, RecoverPCs
  <2>3. Active' = Active \ {p}
    BY <2>p DEF Active, InOp
  <2>4. CountInv'
    BY <1>0, <1>a, <2>3, ActiveFinite, FS_RemoveElement DEF CountInv
  <2>5. \A q \in Procs : pc'[q] \notin CommitPCs \cup RecoverPCs
    BY <2>p, <1>c, <1>n DEF CommitPCs, RecoverPCs
  <2>6. CommitInv'
    BY <2>0, <2>5, <1>c DEF CommitInv, CommitExclusive
  <2>7. BufInv'
    BY <1>0, <2>p DEF EndOp, BufInv
  <2>i. \A q \in Procs : ~Installing(q)'
    BY <2>5 DEF Installing, CommitPCs, RecoverPCs
  <2>8. LogInv'
    BY <1>0, <1>2, <2>5, <2>i, <1>h DEF LogInv, RecoverPCs, CommitPCs
  <2>9. CacheInv'
    BY <1>0, <2>i, <1>c DEF CacheInv, Installing
  <2>10. CopyInv'
    BY <1>0, <1>t, <2>5 DEF CopyInv, CommitPCs, RecoverPCs
  <2>11. PanicInv'
    BY <1>0 DEF EndOp, PanicInv
  <2>12. SleepersHaveCause'
    BY <2>p DEF SleepersHaveCause
  <2>13. QED
    BY <2>1, <2>2, <2>4, <2>6, <2>7, <2>8, <2>9, <2>10, <2>11, <2>12
<1>3. QED
  BY <1>1, <1>2
=============================================================================
