----------------------------- MODULE LogProofs ------------------------------
(***************************************************************************)
(* The steps of commit(), of recover_from_log, of the buffer cache and of  *)
(* a crash preserve IInv of Log.tla; with LogCallProofs that makes IInv an *)
(* invariant, and the safety properties follow from it.                    *)
(***************************************************************************)
EXTENDS LogCallProofs

USE DEF disk, bcache, log, procs

\* What a step must keep of the copies if it touches nothing but the cache.
LEMMA CopyFrame ==
    ASSUME CopyInv, UNCHANGED <<pc, tail, lh, logblk, home>>,
           \A p \in Procs : pc[p] = "write_log" =>
               \A i \in 1 .. tail[p] : logblk[i] = cache'[lh[i]],
           \A p \in Procs : pc[p] = "write_head" =>
               \A i \in 1 .. Len(lh) : logblk[i] = cache'[lh[i]],
           \A p \in Procs : pc[p] = "install" =>
               \A i \in tail[p] + 1 .. Len(lh) : logblk[i] = cache'[lh[i]]
    PROVE  CopyInv'
BY DEF CopyInv

\* install_trans is through: every logged block is home.
LEMMA CopyInstalled ==
    ASSUME NEW p \in Procs,
           \A q \in Procs : tail'[q] = 0,
           pc'[p] \in {"clear", "r_clear"}, Len(lh') \in Nat,
           \A q \in Procs \ {p} : pc'[q] \notin Copying,
           \A i \in 1 .. Len(lh') : home'[lh'[i]] = logblk'[i]
    PROVE  CopyInv'
BY DEF CopyInv, Copying

\* One round of install_trans: block tail[p] + 1 is home, the rest is to come.
LEMMA CopyInstall ==
    ASSUME CopyInv, NEW p \in Procs, tail \in [Procs -> Nat],
           pc[p] \in {"install", "r_install"},
           tail' = [tail EXCEPT ![p] = @ + 1], UNCHANGED <<pc, lh, logblk>>,
           tail'[p] <= Len(lh),
           pc[p] = "install" => \A i \in tail'[p] + 1 .. Len(lh) : logblk[i] = cache'[lh[i]],
           \A i \in 1 .. tail'[p] : home'[lh[i]] = logblk[i],
           \A q \in Procs \ {p} : pc[q] \notin {"write_log", "write_head", "install",
                                                "r_install", "clear", "r_clear"}
    PROVE  CopyInv'
<1>1. \A q \in Procs \ {p} : tail'[q] = tail[q]
  OBVIOUS
<1>2. QED
  BY <1>1 DEF CopyInv

\* What a step must keep of the cached blocks if it touches nothing else.
LEMMA CacheFrame ==
    ASSUME CacheInv, UNCHANGED <<home, dirty, lh, pc, buf, tail, panicked>>,
           \A b \in dirty : cache'[b] # Absent,
           ~panicked =>
               \A b \in Blocks :
                   (b \notin dirty /\ cache'[b] # Absent /\ \A p \in Procs : buf[p] # b)
                       => cache'[b] = home[b]
    PROVE  CacheInv'
<1>1. \A p \in Procs : Installing(p)' <=> Installing(p)
  BY DEF Installing
<1>2. QED
  BY <1>1 DEF CacheInv

\* Each iteration of write_log copies one more pinned block.
LEMMA WriteLogInv ==
    ASSUME IInv, NEW p \in Procs, WriteLog(p)
    PROVE  IInv'
<1>. USE DEF IInv, TypeOK
<1>n. ~Recovering /\ \A q \in Procs : pc[q] \notin RecoverPCs \cup {"off"}
  BY NotRecovering DEF WriteLog, RecoverPCs
<1>c. committing /\ Active = {} /\ \A q \in Procs \ {p} : pc[q] \notin CommitPCs
  BY DEF WriteLog, CommitInv, CommitExclusive, CommitPCs
<1>i. \A q \in Procs : ~Installing(q)
  BY <1>n, <1>c DEF WriteLog, Installing, CommitPCs, RecoverPCs
<1>0. UNCHANGED <<home, head, bcache, log, buf, wrote>>
  BY DEF WriteLog
<1>1. CASE tail[p] < Len(lh) /\ tail[p] + 1 \in LogBlocks
  <2>0. /\ logblk' = [logblk EXCEPT ![tail[p] + 1] = Contents[lh[tail[p] + 1]]]
        /\ tail' = [tail EXCEPT ![p] = @ + 1]
        /\ UNCHANGED <<pc, panicked>>
    BY <1>1 DEF WriteLog
  <2>1. lh[tail[p] + 1] \in Blocks /\ lh[tail[p] + 1] \in dirty
    BY <1>1, <1>i DEF CacheInv, BlocksOf
  <2>2. Contents[lh[tail[p] + 1]] = cache[lh[tail[p] + 1]] /\ cache[lh[tail[p] + 1]] \in Values
    BY <2>1 DEF Contents, CacheInv
  <2>3. TypeOK'
    <3>1. logblk' \in [LogBlocks -> Values]
      BY <2>0, <2>2
    <3>2. tail' \in [Procs -> Nat]
      BY <2>0
    <3>3. QED
      BY <1>0, <2>0, <3>1, <3>2
  <2>4. BootInv' /\ CountInv' /\ CommitInv' /\ BufInv' /\ PanicInv' /\ SleepersHaveCause'
    BY <1>0, <2>0 DEF BootInv, Recovering, CountInv, Active, InOp, CommitInv,
                      CommitExclusive, BufInv, PanicInv, SleepersHaveCause, MustWait
  <2>5. LogInv'
    BY <1>0, <2>0 DEF LogInv, Installing, Recovering
  <2>6. CacheInv'
    BY <1>0, <2>0, <1>i DEF CacheInv, Installing
  <2>7. CopyInv'
    <3>1. \A q \in Procs \ {p} : pc[q] \notin {"write_log", "write_head", "install", "r_install", "clear", "r_clear"}
      BY <1>c, <1>n DEF CommitPCs, RecoverPCs
    <3>2. \A i \in 1 .. tail'[p] : logblk'[i] = cache'[lh'[i]]
      <4>1. SUFFICES ASSUME NEW i \in 1 .. tail[p] + 1
                     PROVE  logblk'[i] = cache[lh[i]]
        BY <1>0, <2>0
      <4>2. CASE i = tail[p] + 1
        BY <4>2, <1>1, <2>0, <2>2
      <4>3. CASE i # tail[p] + 1
        <5>1. i \in 1 .. tail[p]
          BY <4>3
        <5>2. logblk[i] = cache[lh[i]]
          BY <5>1 DEF CopyInv, WriteLog
        <5>3. i \in LogBlocks
          BY <5>1, <1>1, SizesAssumption DEF LogBlocks
        <5>4. QED
          BY <2>0, <4>3, <5>2, <5>3
      <4>4. QED
        BY <4>2, <4>3
    <3>3. tail'[p] <= Len(lh') /\ tail'[p] < NLog
      BY <1>0, <2>0, <1>1, SizesAssumption DEF LogBlocks
    <3>4. QED
      BY <1>0, <2>0, <3>1, <3>2, <3>3 DEF CopyInv, WriteLog
  <2>8. QED
    BY <2>3, <2>4, <2>5, <2>6, <2>7
<1>2. CASE tail[p] < Len(lh) /\ tail[p] + 1 \notin LogBlocks
  <2>0. panicked' = TRUE /\ UNCHANGED <<logblk, tail, pc>>
    BY <1>2 DEF WriteLog
  <2>1. TypeOK' /\ CountInv' /\ CommitInv' /\ BufInv' /\ CopyInv' /\ SleepersHaveCause'
    BY <1>0, <2>0 DEF CountInv, Active, InOp, CommitInv, CommitExclusive, BufInv,
                      CopyInv, SleepersHaveCause, MustWait
  <2>2. BootInv'
    BY <1>0, <2>0, <1>n DEF BootInv, Recovering
  <2>3. LogInv'
    BY <1>0, <2>0 DEF LogInv, Installing, Recovering
  <2>4. CacheInv'
    BY <1>0, <2>0 DEF CacheInv, Installing
  <2>5. PanicInv'
    BY <1>0, <1>c DEF PanicInv
  <2>6. QED
    BY <2>1, <2>2, <2>3, <2>4, <2>5
<1>3. CASE tail[p] >= Len(lh)
  <2>0. /\ pc' = [pc EXCEPT ![p] = "write_head"]
        /\ tail' = [tail EXCEPT ![p] = 0]
        /\ UNCHANGED <<logblk, panicked>>
    BY <1>3 DEF WriteLog
  <2>1. TypeOK'
    BY <1>0, <2>0 DEF PCs, CommitPCs
  <2>2. BootInv'
    BY <1>0, <2>0, <1>n DEF BootInv, Recovering, RecoverPCs
  <2>3. Active' = Active
    BY <2>0 DEF WriteLog, Active, InOp
  <2>4. CountInv' /\ PanicInv'
    BY <1>0, <2>0, <2>3 DEF CountInv, PanicInv
  <2>5. CommitInv'
    BY <1>0, <2>0, <2>3 DEF WriteLog, CommitInv, CommitExclusive, CommitPCs
  <2>6. BufInv'
    BY <1>0, <2>0 DEF WriteLog, BufInv
  <2>7. LogInv'
    BY <1>0, <2>0, <1>n, <1>i DEF WriteLog, LogInv, Installing, Recovering, RecoverPCs
  <2>8. CacheInv'
    <3>1. \A q \in Procs : ~Installing(q)'
      BY <2>0, <1>i DEF Installing
    <3>2. QED
      BY <1>0, <2>0, <3>1, <1>i DEF CacheInv, Installing
  <2>9. CopyInv'
    <3>1. tail[p] = Len(lh) /\ Len(lh) \in Nat
      BY <1>3 DEF CopyInv
    <3>w. pc[p] = "write_log"
      BY DEF WriteLog
    <3>c. tail[p] < NLog /\ \A i \in 1 .. tail[p] : logblk[i] = cache[lh[i]]
      BY <3>w DEF CopyInv
    <3>2. Len(lh) < NLog /\ \A i \in 1 .. Len(lh) : logblk[i] = cache[lh[i]]
      BY <3>1, <3>c
    <3>3. UNCHANGED <<lh, logblk, cache, home>>
      BY <1>0, <2>0
    <3>4. QED
      BY <2>0, <3>1, <3>2, <3>3, SMTT(20) DEF CopyInv
  <2>10. SleepersHaveCause'
    BY <1>0, <2>0 DEF SleepersHaveCause, MustWait
  <2>11. QED
    BY <2>1, <2>2, <2>4, <2>5, <2>6, <2>7, <2>8, <2>9, <2>10
<1>4. QED
  BY <1>1, <1>2, <1>3 DEF WriteLog

\* write_head makes the on-disk header equal to log.lh.
LEMMA WriteHeadInv ==
    ASSUME IInv, NEW p \in Procs, WriteHead(p)
    PROVE  IInv'
<1>. USE DEF IInv, TypeOK
<1>n. ~Recovering /\ \A q \in Procs : pc[q] \notin RecoverPCs \cup {"off"}
  BY NotRecovering DEF WriteHead, RecoverPCs
<1>c. committing /\ Active = {} /\ \A q \in Procs \ {p} : pc[q] \notin CommitPCs
  BY DEF WriteHead, CommitInv, CommitExclusive, CommitPCs
<1>i. \A q \in Procs : ~Installing(q)
  BY <1>n, <1>c DEF WriteHead, Installing, CommitPCs, RecoverPCs
<1>d. dirty = BlocksOf(lh) /\ tail[p] = 0
  BY <1>i DEF WriteHead, CacheInv, CopyInv
<1>0. /\ head' = lh
      /\ pc' = [pc EXCEPT ![p] = "install"]
      /\ UNCHANGED <<home, logblk, bcache, log, buf, tail, wrote, panicked>>
  BY DEF WriteHead
<1>1. TypeOK'
  BY <1>0 DEF PCs, CommitPCs
<1>2. BootInv'
  BY <1>0, <1>n DEF BootInv, Recovering, RecoverPCs
<1>3. Active' = Active
  BY <1>0 DEF WriteHead, Active, InOp
<1>4. CountInv' /\ PanicInv'
  BY <1>0, <1>3 DEF CountInv, PanicInv
<1>5. CommitInv'
  BY <1>0, <1>3 DEF WriteHead, CommitInv, CommitExclusive, CommitPCs
<1>6. BufInv'
  BY <1>0 DEF WriteHead, BufInv
<1>7. \A q \in Procs : Installing(q)' <=> q = p
  BY <1>0, <1>i DEF Installing
<1>8. LogInv'
  <2>1. Len(head') < NLog /\ \A i, j \in 1 .. Len(head') : head'[i] = head'[j] => i = j
    BY <1>0 DEF WriteHead, CopyInv, LogInv
  <2>2. \A q \in Procs : pc'[q] \notin {"read_head"} \/ lh' = <<>>
    BY <1>0, <1>n DEF RecoverPCs
  <2>3. \A q \in Procs : pc'[q] = "done" => lh' = <<>>
    BY <1>0, <1>c DEF CommitPCs
  <2>4. QED
    BY <1>0, <1>c, <1>7, <2>1, <2>2, <2>3 DEF LogInv
<1>9. CacheInv'
  <2>1. \A q \in Procs : pc'[q] # "clear"
    BY <1>0, <1>c DEF CommitPCs
  <2>2. \A i \in 1 .. Len(lh) : lh[i] \in dirty
    BY <1>d DEF BlocksOf
  <2>3. \A b \in dirty : \E i \in 1 .. Len(lh) : lh[i] = b
    BY <1>d DEF BlocksOf
  <2>4. \A q \in Procs : pc'[q] = "install" => q = p
    BY <1>0, <1>c DEF CommitPCs
  <2>5. tail'[p] = 0
    BY <1>0, <1>d
  <2>6. QED
    BY <1>0, <1>7, <2>1, <2>2, <2>3, <2>4, <2>5 DEF CacheInv
<1>10. CopyInv'
  BY <1>0, <1>c, <1>n, <1>d DEF WriteHead, CopyInv, CommitPCs, RecoverPCs
<1>11. SleepersHaveCause'
  BY <1>0 DEF SleepersHaveCause, MustWait
<1>12. QED
  BY <1>1, <1>2, <1>4, <1>5, <1>6, <1>8, <1>9, <1>10, <1>11

\* Each iteration of install_trans writes one block home, in commit and in recovery.
LEMMA InstallTransInv ==
    ASSUME IInv, NEW p \in Procs, InstallTrans(p)
    PROVE  IInv'
<1>. USE DEF IInv, TypeOK
<1>u. /\ \A q \in Procs \ {p} : pc[q] \notin CommitPCs \cup RecoverPCs
      /\ \A q \in Procs : buf[q] = Absent
  <2>1. CASE pc[p] = "install"
    BY <2>1, NotRecovering DEF CommitInv, CommitExclusive, CommitPCs, RecoverPCs,
                               BufInv, Active, InOp
  <2>2. CASE pc[p] = "r_install"
    BY <2>2 DEF BootInv, CommitPCs, RecoverPCs, BufInv
  <2>3. QED
    BY <2>1, <2>2 DEF InstallTrans
<1>i. \A q \in Procs : Installing(q) <=> q = p
  BY <1>u DEF Installing, InstallTrans, CommitPCs, RecoverPCs
<1>h. head = lh /\ Len(lh) < NLog /\ tail[p] <= Len(lh)
  BY <1>i DEF LogInv, CopyInv
<1>0. UNCHANGED <<head, logblk, log, buf, wrote, panicked>>
  BY DEF InstallTrans
<1>1. CASE tail[p] < Len(lh)
  <2>. DEFINE b == lh[tail[p] + 1]
              v == logblk[tail[p] + 1]
  <2>0. /\ home' = [home EXCEPT ![b] = v]
        /\ cache' = [cache EXCEPT ![b] = v]
        /\ dirty' = dirty \ {b}
        /\ tail' = [tail EXCEPT ![p] = @ + 1]
        /\ UNCHANGED pc
    BY <1>1 DEF InstallTrans
  <2>b. b \in Blocks /\ v \in Values /\ v # Absent
    <3>1. tail[p] + 1 \in 1 .. Len(lh) /\ tail[p] + 1 \in LogBlocks
      BY <1>1, <1>h, SizesAssumption DEF LogBlocks
    <3>2. QED
      BY <3>1, AbsentAssumption
  <2>d. \A i \in 1 .. Len(lh) : i # tail[p] + 1 => lh[i] # b
    BY <1>1 DEF LogInv
  <2>. HIDE DEF b, v
  <2>i. \A q \in Procs : Installing(q)' <=> q = p
    BY <2>0, <1>i DEF Installing
  <2>1. TypeOK'
    <3>1. home' \in [Blocks -> Values] /\ cache' \in [Blocks -> Values \cup {Absent}]
      BY <2>0, <2>b
    <3>2. tail' \in [Procs -> Nat]
      BY <2>0
    <3>3. QED
      BY <1>0, <2>0, <3>1, <3>2
  <2>2. BootInv'
    BY <1>0, <2>0 DEF BootInv, Recovering
  <2>3. CountInv' /\ CommitInv' /\ PanicInv' /\ SleepersHaveCause'
    BY <1>0, <2>0 DEF CountInv, Active, InOp, CommitInv, CommitExclusive, PanicInv,
                      SleepersHaveCause, MustWait
  <2>4. BufInv'
    BY <1>0, <2>0, <1>u DEF BufInv
  <2>5. LogInv'
    BY <1>0, <2>0 DEF LogInv, Installing, Recovering
  <2>6. CacheInv'
    <3>1. \A c \in dirty' : cache'[c] # Absent
      BY <2>0, <2>b DEF CacheInv
    <3>2. pc[p] = "install" => \A i \in tail'[p] + 1 .. Len(lh) : lh[i] \in dirty'
      <4>1. SUFFICES ASSUME pc[p] = "install", NEW i \in tail[p] + 2 .. Len(lh)
                     PROVE  lh[i] \in dirty'
        BY <2>0
      <4>2. i \in tail[p] + 1 .. Len(lh) /\ i \in 1 .. Len(lh) /\ i # tail[p] + 1
        BY <4>1
      <4>3. QED
        BY <4>1, <4>2, <2>0, <2>d DEF CacheInv
    <3>3. \A c \in dirty' : \E i \in tail'[p] + 1 .. Len(lh) : lh[i] = c
      <4>1. SUFFICES ASSUME NEW c \in dirty, c # b
                     PROVE  \E i \in tail[p] + 2 .. Len(lh) : lh[i] = c
        BY <2>0
      <4>2. PICK i \in tail[p] + 1 .. Len(lh) : lh[i] = c
        BY <1>i DEF CacheInv
      <4>3. i # tail[p] + 1
        BY <4>1, <4>2 DEF b
      <4>4. i \in tail[p] + 2 .. Len(lh)
        BY <4>3
      <4>5. QED
        BY <4>2, <4>4
    <3>4. ~panicked' => \A c \in Blocks :
               (c \notin dirty' /\ cache'[c] # Absent /\ \A q \in Procs : buf'[q] # c)
                   => cache'[c] = home'[c]
      BY <1>0, <2>0, <2>b DEF CacheInv
    <3>5. pc[p] # "clear"
      BY DEF InstallTrans
    <3>6. \A q \in Procs : pc[q] \in {"install", "clear"} => q = p
      BY <1>i DEF Installing
    <3>7. QED
      BY <1>0, <2>0, <2>i, <3>1, <3>2, <3>3, <3>4, <3>5, <3>6 DEF CacheInv
  <2>7. CopyInv'
    <3>1. pc[p] = "install" =>
              \A i \in tail'[p] + 1 .. Len(lh) : logblk[i] = cache'[lh[i]]
      <4>1. SUFFICES ASSUME pc[p] = "install", NEW i \in tail[p] + 2 .. Len(lh)
                     PROVE  logblk[i] = cache'[lh[i]]
        BY <2>0
      <4>2. i \in tail[p] + 1 .. Len(lh) /\ i \in 1 .. Len(lh) /\ i # tail[p] + 1
        BY <4>1
      <4>3. lh[i] # b /\ lh[i] \in Blocks /\ logblk[i] = cache[lh[i]]
        BY <4>1, <4>2, <2>d DEF CopyInv
      <4>4. QED
        BY <2>0, <4>3
    <3>2. \A i \in 1 .. tail'[p] : home'[lh[i]] = logblk[i]
      <4>1. SUFFICES ASSUME NEW i \in 1 .. tail[p] + 1
                     PROVE  home'[lh[i]] = logblk[i]
        BY <2>0
      <4>2. CASE i = tail[p] + 1
        BY <4>2, <2>0, <2>b DEF b, v
      <4>3. CASE i # tail[p] + 1
        <5>0. tail[p] \in Nat /\ Len(lh) \in Nat
          OBVIOUS
        <5>1. i \in 1 .. tail[p] /\ i \in 1 .. Len(lh)
          BY <5>0, <4>3, <1>1
        <5>2. lh[i] # b /\ lh[i] \in Blocks /\ home[lh[i]] = logblk[i]
          BY <5>1, <4>3, <2>d DEF CopyInv, InstallTrans
        <5>3. QED
          BY <2>0, <5>2
      <4>4. QED
        BY <4>2, <4>3
    <3>3. tail'[p] <= Len(lh)
      BY <2>0, <1>1
    <3>4. \A q \in Procs \ {p} : pc[q] \notin {"write_log", "write_head", "install", "r_install", "clear", "r_clear"}
      BY <1>u DEF CommitPCs, RecoverPCs
    <3>5. QED
      <4>1. pc[p] \in {"install", "r_install"}
        BY DEF InstallTrans
      <4>2. tail' = [tail EXCEPT ![p] = @ + 1] /\ UNCHANGED <<pc, lh, logblk>>
        BY <1>0, <2>0
      <4>3. CopyInv /\ tail \in [Procs -> Nat]
        OBVIOUS
      <4>4. QED
        BY <4>1, <4>2, <4>3, <3>1, <3>2, <3>3, <3>4, CopyInstall
  <2>8. QED
    BY <2>1, <2>2, <2>3, <2>4, <2>5, <2>6, <2>7
<1>2. CASE tail[p] >= Len(lh)
  <2>0. /\ pc' = [pc EXCEPT ![p] = IF @ = "install" THEN "clear" ELSE "r_clear"]
        /\ tail' = [tail EXCEPT ![p] = 0]
        /\ UNCHANGED <<home, bcache>>
    BY <1>2 DEF InstallTrans
  <2>t. tail[p] = Len(lh)
    BY <1>2, <1>h
  <2>i. \A q \in Procs : Installing(q)' <=> q = p
    BY <2>0, <1>i DEF Installing
  <2>1. TypeOK'
    BY <1>0, <2>0 DEF PCs, CommitPCs, RecoverPCs
  <2>2. BootInv'
    <3>1. CASE pc[p] = "install"
      BY <1>0, <2>0, <3>1, NotRecovering DEF BootInv, RecoverPCs
    <3>2. CASE pc[p] = "r_install"
      <4>1. pc'[p] \in RecoverPCs /\ \A q \in Procs \ {p} : pc'[q] = pc[q] /\ pc[q] = "off"
        BY <2>0, <3>2 DEF BootInv, RecoverPCs
      <4>2. outstanding' = 0 /\ ~committing' /\ dirty' = {} /\ ~panicked'
        BY <1>0, <2>0, <3>2 DEF BootInv, RecoverPCs
      <4>3. QED
        BY <4>1, <4>2 DEF BootInv, Recovering, RecoverPCs
    <3>3. QED
      BY <3>1, <3>2 DEF InstallTrans
  <2>3. Active' = Active
    BY <2>0 DEF InstallTrans, Active, InOp
  <2>4. CountInv' /\ PanicInv'
    BY <1>0, <2>0, <2>3 DEF CountInv, PanicInv
  <2>5. CommitInv'
    BY <1>0, <2>0, <2>3, <1>u DEF InstallTrans, CommitInv, CommitExclusive, CommitPCs
  <2>6. BufInv'
    BY <1>0, <2>0, <1>u DEF InstallTrans, BufInv
  <2>7. LogInv'
    BY <1>0, <2>0, <1>u, <2>i, <1>i DEF InstallTrans, LogInv, Recovering, RecoverPCs, CommitPCs
  <2>8. CacheInv'
    <3>1. dirty = {}
      BY <2>t, <1>i DEF CacheInv
    <3>2. \A q \in Procs : pc'[q] # "install"
      BY <2>0, <1>u DEF InstallTrans, CommitPCs
    <3>3. QED
      BY <1>0, <2>0, <2>i, <3>1, <3>2 DEF CacheInv
  <2>9. CopyInv'
    <3>1. pc[p] \in {"install", "r_install"} /\ pc'[p] \in {"clear", "r_clear"}
      BY <2>0 DEF InstallTrans
    <3>2. \A q \in Procs \ {p} : pc'[q] = pc[q] /\ pc[q] \notin Copying \cup {"r_install"}
      BY <2>0, <1>u DEF Copying, CommitPCs, RecoverPCs
    <3>3. \A q \in Procs : tail'[q] = 0
      BY <2>0, <3>2 DEF CopyInv, Copying
    <3>4. \A i \in 1 .. Len(lh) : home[lh[i]] = logblk[i]
      BY <2>t, <3>1 DEF CopyInv
    <3>5. UNCHANGED <<lh, home, logblk>> /\ Len(lh) \in Nat
      BY <1>0, <2>0
    <3>6. QED
      BY <3>1, <3>2, <3>3, <3>4, <3>5, CopyInstalled
  <2>10. SleepersHaveCause'
    BY <1>0, <2>0 DEF SleepersHaveCause, MustWait
  <2>11. QED
    BY <2>1, <2>2, <2>4, <2>5, <2>6, <2>7, <2>8, <2>9, <2>10
<1>3. QED
  BY <1>1, <1>2

\* commit clears the header when everything is installed.
LEMMA ClearLogInv ==
    ASSUME IInv, NEW p \in Procs, ClearLog(p)
    PROVE  IInv'
<1>. USE DEF IInv, TypeOK
<1>n. ~Recovering /\ \A q \in Procs : pc[q] \notin RecoverPCs \cup {"off"}
  BY NotRecovering DEF ClearLog, RecoverPCs
<1>c. committing /\ Active = {} /\ \A q \in Procs \ {p} : pc[q] \notin CommitPCs
  BY DEF ClearLog, CommitInv, CommitExclusive, CommitPCs
<1>0. /\ lh' = <<>> /\ head' = <<>>
      /\ pc' = [pc EXCEPT ![p] = "done"]
      /\ UNCHANGED <<home, logblk, bcache, outstanding, committing, buf, tail,
                     wrote, panicked>>
  BY DEF ClearLog
<1>i. \A q \in Procs : ~Installing(q)'
  BY <1>0, <1>n, <1>c DEF Installing, CommitPCs, RecoverPCs
<1>1. TypeOK'
  BY <1>0 DEF PCs, CommitPCs
<1>2. BootInv'
  BY <1>0, <1>n DEF BootInv, Recovering, RecoverPCs
<1>3. Active' = Active
  BY <1>0 DEF ClearLog, Active, InOp
<1>4. CountInv' /\ PanicInv'
  BY <1>0, <1>3 DEF CountInv, PanicInv
<1>5. CommitInv'
  BY <1>0, <1>3 DEF ClearLog, CommitInv, CommitExclusive, CommitPCs
<1>6. BufInv'
  BY <1>0 DEF ClearLog, BufInv
<1>7. LogInv'
  BY <1>0, <1>i, SizesAssumption DEF LogInv
<1>8. CacheInv'
  <2>1. dirty = {}
    BY DEF ClearLog, CacheInv
  <2>2. BlocksOf(lh') = {}
    BY <1>0 DEF BlocksOf
  <2>3. QED
    BY <1>0, <1>i, <2>1, <2>2 DEF CacheInv, Installing
<1>9. CopyInv'
  <2>1. \A q \in Procs : tail'[q] = 0
    BY <1>0, <1>c, <1>n DEF ClearLog, CopyInv, CommitPCs, RecoverPCs
  <2>2. \A q \in Procs : pc'[q] \notin {"write_log", "write_head", "install", "r_install", "clear", "r_clear"}
    BY <1>0, <1>c, <1>n DEF CommitPCs, RecoverPCs
  <2>3. QED
    BY <1>0, <2>1, <2>2 DEF CopyInv
<1>10. SleepersHaveCause'
  BY <1>0, <1>c DEF SleepersHaveCause, MustWait
<1>11. QED
  BY <1>1, <1>2, <1>4, <1>5, <1>6, <1>7, <1>8, <1>9, <1>10

\* The end of the commit clears log.committing and wakes every sleeper.
LEMMA CommitDoneInv ==
    ASSUME IInv, NEW p \in Procs, CommitDone(p)
    PROVE  IInv'
<1>. USE DEF IInv, TypeOK
<1>n. ~Recovering /\ \A q \in Procs : pc[q] \notin RecoverPCs \cup {"off"}
  BY NotRecovering DEF CommitDone, RecoverPCs
<1>c. committing /\ Active = {} /\ \A q \in Procs \ {p} : pc[q] \notin CommitPCs
  BY DEF CommitDone, CommitInv, CommitExclusive, CommitPCs
<1>0. /\ committing' = FALSE
      /\ UNCHANGED <<disk, bcache, lh, outstanding, buf, tail, wrote, panicked>>
      /\ ~panicked
  BY DEF CommitDone
<1>p. /\ pc'[p] = "idle"
      /\ \A q \in Procs \ {p} : pc'[q] = IF pc[q] = "asleep" THEN "woken" ELSE pc[q]
      /\ pc' \in [Procs -> PCs]
  BY DEF CommitDone, Woken, PCs
<1>l. lh = <<>> /\ head = <<>> /\ \A q \in Procs : ~Installing(q) /\ ~Installing(q)'
  <2>1. \A q \in Procs : ~Installing(q) /\ ~Installing(q)'
    BY <1>p, <1>c, <1>n DEF CommitDone, Installing, CommitPCs, RecoverPCs
  <2>2. QED
    BY <2>1, <1>n DEF CommitDone, LogInv, RecoverPCs
<1>1. TypeOK'
  BY <1>0, <1>p
<1>2. BootInv'
  BY <1>p, <1>n DEF BootInv, Recovering, RecoverPCs
<1>3. Active' = Active
  BY <1>p DEF CommitDone, Active, InOp
<1>4. CountInv' /\ PanicInv'
  BY <1>0, <1>3 DEF CountInv, PanicInv
<1>5. CommitInv'
  BY <1>0, <1>p, <1>c DEF CommitInv, CommitExclusive, CommitPCs
<1>6. BufInv'
  BY <1>0, <1>p DEF CommitDone, BufInv
<1>7. LogInv'
  BY <1>0, <1>l, SizesAssumption DEF LogInv
<1>8. CacheInv'
  BY <1>0, <1>l, BlocksOfEmpty DEF CacheInv, Installing
<1>9. CopyInv'
  <2>1. \A q \in Procs : tail'[q] = 0
    BY <1>0, <1>c, <1>n DEF CommitDone, CopyInv, CommitPCs, RecoverPCs
  <2>2. \A q \in Procs : pc'[q] \notin {"write_log", "write_head", "install", "r_install", "clear", "r_clear"}
    BY <1>p, <1>c, <1>n DEF CommitPCs, RecoverPCs
  <2>3. QED
    BY <1>0, <2>1, <2>2 DEF CopyInv
<1>10. SleepersHaveCause'
  BY <1>p DEF SleepersHaveCause
<1>11. QED
  BY <1>1, <1>2, <1>4, <1>5, <1>6, <1>7, <1>8, <1>9, <1>10

\* Recovery starts from the header that the crash left.
LEMMA ReadHeadInv ==
    ASSUME IInv, NEW p \in Procs, ReadHead(p)
    PROVE  IInv'
<1>. USE DEF IInv, TypeOK
<1>r. /\ \A q \in Procs \ {p} : pc[q] = "off"
      /\ outstanding = 0 /\ ~committing /\ dirty = {} /\ ~panicked
  BY DEF ReadHead, BootInv, RecoverPCs
<1>0. /\ lh' = head
      /\ pc' = [pc EXCEPT ![p] = "r_install"]
      /\ UNCHANGED <<disk, bcache, outstanding, committing, buf, tail, wrote, panicked>>
  BY DEF ReadHead
<1>p. pc'[p] = "r_install" /\ \A q \in Procs \ {p} : pc'[q] = "off"
  BY <1>0, <1>r
<1>i. \A q \in Procs : Installing(q)' <=> q = p
  BY <1>p DEF Installing
<1>1. TypeOK'
  BY <1>0 DEF PCs, RecoverPCs
<1>2. BootInv'
  BY <1>0, <1>p, <1>r DEF BootInv, Recovering, RecoverPCs
<1>3. Active' = Active
  BY <1>0 DEF ReadHead, Active, InOp
<1>4. CountInv' /\ PanicInv'
  BY <1>0, <1>3 DEF CountInv, PanicInv
<1>5. CommitInv'
  BY <1>0, <1>p, <1>r DEF CommitInv, CommitExclusive, CommitPCs
<1>6. BufInv'
  BY <1>0 DEF ReadHead, BufInv
<1>7. LogInv'
  BY <1>0, <1>p, <1>i DEF LogInv, Recovering, RecoverPCs
<1>8. CacheInv'
  BY <1>0, <1>p, <1>i, <1>r DEF CacheInv
<1>9. CopyInv'
  <2>1. \A q \in Procs : tail'[q] = 0
    BY <1>0, <1>r DEF ReadHead, CopyInv
  <2>2. QED
    <3>1. \A q \in Procs : pc'[q] \notin Copying
      BY <1>p DEF Copying
    <3>2. Len(lh') \in Nat
      BY <1>0
    <3>3. QED
      BY <2>1, <3>1, <3>2, CopyIdleNext
<1>10. SleepersHaveCause'
  BY <1>p DEF SleepersHaveCause
<1>11. QED
  BY <1>1, <1>2, <1>4, <1>5, <1>6, <1>7, <1>8, <1>9, <1>10

\* Recovery ends with an empty log, and calls may start.
LEMMA RecoverDoneInv ==
    ASSUME IInv, NEW p \in Procs, RecoverDone(p)
    PROVE  IInv'
<1>. USE DEF IInv, TypeOK
<1>r. /\ \A q \in Procs \ {p} : pc[q] = "off"
      /\ outstanding = 0 /\ ~committing /\ dirty = {} /\ ~panicked
  BY DEF RecoverDone, BootInv, RecoverPCs
<1>0. /\ lh' = <<>> /\ head' = <<>>
      /\ pc' = [q \in Procs |-> "idle"]
      /\ UNCHANGED <<home, logblk, bcache, outstanding, committing, buf, tail,
                     wrote, panicked>>
  BY DEF RecoverDone
<1>p. \A q \in Procs : pc'[q] = "idle"
  BY <1>0
<1>1. TypeOK'
  BY <1>0 DEF PCs
<1>2. BootInv'
  BY <1>p DEF BootInv, RecoverPCs
<1>3. Active' = {}
  BY <1>p DEF Active, InOp
<1>4. CountInv' /\ PanicInv'
  BY <1>0, <1>3, <1>r, FS_EmptySet DEF CountInv, PanicInv
<1>5. CommitInv'
  BY <1>0, <1>p, <1>r DEF CommitInv, CommitExclusive, CommitPCs
<1>6. BufInv'
  <2>1. \A q \in Procs : buf[q] = Absent
    BY <1>r DEF RecoverDone, BufInv
  <2>2. QED
    BY <1>0, <1>p, <2>1 DEF BufInv
<1>7. LogInv'
  BY <1>0, <1>p, SizesAssumption DEF LogInv, Installing
<1>8. CacheInv'
  BY <1>0, <1>p, <1>r, BlocksOfEmpty DEF CacheInv, Installing
<1>9. CopyInv'
  <2>1. \A q \in Procs : tail'[q] = 0
    BY <1>0, <1>r DEF RecoverDone, CopyInv
  <2>2. QED
    <3>1. \A q \in Procs : pc'[q] \notin Copying
      BY <1>p DEF Copying
    <3>2. Len(lh') \in Nat
      BY <1>0
    <3>3. QED
      BY <2>1, <3>1, <3>2, CopyIdleNext
<1>10. SleepersHaveCause'
  BY <1>p DEF SleepersHaveCause
<1>11. QED
  BY <1>1, <1>2, <1>4, <1>5, <1>6, <1>7, <1>8, <1>9, <1>10

\* bget takes away clean copies only.
LEMMA RecycleInv ==
    ASSUME IInv, NEW b \in Blocks, Recycle(b)
    PROVE  IInv'
<1>. USE DEF IInv, TypeOK
<1>0. /\ cache' = [cache EXCEPT ![b] = Absent]
      /\ b \notin dirty /\ \A p \in Procs : buf[p] # b
      /\ UNCHANGED <<disk, dirty, log, procs, panicked>>
  BY DEF Recycle
<1>1. TypeOK'
  BY <1>0
<1>2. BootInv' /\ CountInv' /\ CommitInv' /\ PanicInv' /\ SleepersHaveCause'
  BY <1>0 DEF BootInv, Recovering, CountInv, Active, InOp, CommitInv, CommitExclusive,
              PanicInv, SleepersHaveCause, MustWait
<1>3. BufInv'
  BY <1>0 DEF BufInv
<1>4. LogInv'
  BY <1>0 DEF LogInv, Installing, Recovering
<1>5. CacheInv'
  <2>1. CacheInv
    OBVIOUS
  <2>2. \A c \in dirty : cache'[c] # Absent
    BY <1>0 DEF CacheInv
  <2>3. \A c \in Blocks : cache'[c] # Absent => c # b /\ cache'[c] = cache[c]
    BY <1>0
  <2>4. ~panicked =>
            \A c \in Blocks :
                (c \notin dirty /\ cache'[c] # Absent /\ \A p \in Procs : buf[p] # c)
                    => cache'[c] = home[c]
    BY <2>3 DEF CacheInv
  <2>5. UNCHANGED <<home, dirty, lh, pc, buf, tail, panicked>>
    BY <1>0
  <2>6. QED
    BY <2>1, <2>2, <2>4, <2>5, CacheFrame
<1>6. CopyInv'
  <2>1. \A p \in Procs : pc[p] \in {"write_log", "write_head"} =>
            \A i \in 1 .. Len(lh) : cache'[lh[i]] = cache[lh[i]]
    <3>1. SUFFICES ASSUME NEW p \in Procs, pc[p] \in {"write_log", "write_head"},
                          NEW i \in 1 .. Len(lh)
                   PROVE  cache'[lh[i]] = cache[lh[i]]
      OBVIOUS
    <3>2. \A q \in Procs : ~Installing(q)
      BY <3>1, NotRecovering DEF Installing, CommitInv, CommitExclusive, CommitPCs, RecoverPCs
    <3>3. QED
      <4>1. lh[i] \in BlocksOf(lh)
        BY DEF BlocksOf
      <4>2. dirty = BlocksOf(lh)
        BY <3>2 DEF CacheInv
      <4>3. lh[i] # b /\ lh[i] \in Blocks
        BY <1>0, <4>1, <4>2
      <4>4. QED
        BY <1>0, <4>3
  <2>2. \A p \in Procs : pc[p] = "install" =>
            \A i \in tail[p] + 1 .. Len(lh) : cache'[lh[i]] = cache[lh[i]]
    <3>1. SUFFICES ASSUME NEW p \in Procs, pc[p] = "install", NEW i \in tail[p] + 1 .. Len(lh)
                   PROVE  cache'[lh[i]] = cache[lh[i]]
      OBVIOUS
    <3>2. lh[i] \in dirty
      BY <3>1 DEF CacheInv
    <3>3. QED
      BY <1>0, <3>2
  <2>3. \A p \in Procs : 1 .. tail[p] \subseteq 1 .. Len(lh)
    BY DEF CopyInv
  <2>4. \A p \in Procs : pc[p] = "write_log" =>
            \A i \in 1 .. tail[p] : logblk[i] = cache'[lh[i]]
    BY <2>1, <2>3 DEF CopyInv
  <2>5. \A p \in Procs : pc[p] = "write_head" =>
            \A i \in 1 .. Len(lh) : logblk[i] = cache'[lh[i]]
    BY <2>1 DEF CopyInv
  <2>6. \A p \in Procs : pc[p] = "install" =>
            \A i \in tail[p] + 1 .. Len(lh) : logblk[i] = cache'[lh[i]]
    BY <2>2 DEF CopyInv
  <2>7. UNCHANGED <<pc, tail, lh, logblk, home>>
    BY <1>0
  <2>8. QED
    BY <2>4, <2>5, <2>6, <2>7, CopyFrame
<1>7. QED
  BY <1>1, <1>2, <1>3, <1>4, <1>5, <1>6

\* A power failure in any state leaves a disk that recovery can start from.
LEMMA CrashInv ==
    ASSUME IInv, Crash
    PROVE  IInv'
<1>. USE DEF IInv, TypeOK
<1>1. PICK p \in Procs : BootState(p)
  BY DEF Crash
<1>0. /\ UNCHANGED disk
      /\ cache' = [b \in Blocks |-> Absent] /\ dirty' = {} /\ lh' = <<>>
      /\ outstanding' = 0 /\ committing' = FALSE
      /\ pc' = [q \in Procs |-> IF q = p THEN "read_head" ELSE "off"]
      /\ buf' = [q \in Procs |-> Absent] /\ tail' = [q \in Procs |-> 0]
      /\ wrote' = [q \in Procs |-> {}] /\ panicked' = FALSE
  BY <1>1 DEF Crash, BootState
<1>2. TypeOK'
  <2>1. pc' \in [Procs -> PCs]
    BY <1>0 DEF PCs, RecoverPCs
  <2>2. lh' \in Seq(Blocks) /\ outstanding' \in Nat
    BY <1>0
  <2>b. committing' \in BOOLEAN /\ panicked' \in BOOLEAN
    BY <1>0
  <2>3. cache' \in [Blocks -> Values \cup {Absent}] /\ buf' \in [Procs -> Blocks \cup {Absent}]
    BY <1>0
  <2>4. tail' \in [Procs -> Nat] /\ wrote' \in [Procs -> SUBSET Blocks] /\ dirty' \subseteq Blocks
    BY <1>0
  <2>5. QED
    BY <1>0, <2>1, <2>2, <2>b, <2>3, <2>4
<1>3. BootInv'
  BY <1>0 DEF BootInv, Recovering, RecoverPCs
<1>4. Active' = {}
  BY <1>0 DEF Active, InOp
<1>5. CountInv' /\ PanicInv'
  BY <1>0, <1>4, FS_EmptySet DEF CountInv, PanicInv
<1>6. CommitInv' /\ BufInv' /\ SleepersHaveCause'
  BY <1>0 DEF CommitInv, CommitExclusive, CommitPCs, BufInv, SleepersHaveCause
<1>7. LogInv'
  BY <1>0 DEF LogInv, Installing, Recovering, RecoverPCs
<1>i. \A q \in Procs : ~Installing(q)' /\ pc'[q] \in {"read_head", "off"} /\ tail'[q] = 0
  BY <1>0 DEF Installing
<1>8. CacheInv'
  BY <1>0, <1>i, BlocksOfEmpty DEF CacheInv
<1>9. CopyInv'
  <2>1. Len(lh') \in Nat
    BY <1>0
  <2>2. QED
    BY <1>i, <2>1, CopyIdleNext DEF Copying
<1>10. QED
  BY <1>2, <1>3, <1>5, <1>6, <1>7, <1>8, <1>9

\* The first boot on a disk made by mkfs establishes the invariant.
LEMMA InitInv == Init => IInv
<1>. SUFFICES ASSUME Init PROVE IInv
  OBVIOUS
<1>1. PICK p \in Procs : pc = [q \in Procs |-> IF q = p THEN "read_head" ELSE "off"]
  BY DEF Init
<1>2. TypeOK
  <2>1. pc \in [Procs -> PCs]
    BY <1>1 DEF PCs, RecoverPCs
  <2>2. head \in Seq(Blocks) /\ lh \in Seq(Blocks) /\ outstanding \in Nat
    BY DEF Init
  <2>3. cache \in [Blocks -> Values \cup {Absent}] /\ buf \in [Procs -> Blocks \cup {Absent}]
    BY DEF Init
  <2>4. tail \in [Procs -> Nat] /\ wrote \in [Procs -> SUBSET Blocks] /\ dirty \subseteq Blocks
    BY DEF Init
  <2>5. home \in [Blocks -> Values] /\ logblk \in [LogBlocks -> Values]
    BY MkfsAssumption DEF Init, LogBlocks
  <2>6. committing \in BOOLEAN /\ panicked \in BOOLEAN
    BY DEF Init
  <2>7. QED
    BY <2>1, <2>2, <2>3, <2>4, <2>5, <2>6 DEF TypeOK
<1>3. BootInv
  BY <1>1 DEF Init, BootInv, Recovering, RecoverPCs
<1>4. Active = {}
  BY <1>1 DEF Active, InOp
<1>5. CountInv /\ PanicInv
  BY <1>4, FS_EmptySet DEF Init, CountInv, PanicInv
<1>6. CommitInv /\ BufInv /\ SleepersHaveCause
  BY <1>1 DEF Init, CommitInv, CommitExclusive, CommitPCs, BufInv, SleepersHaveCause
<1>7. LogInv
  BY <1>1, SizesAssumption DEF Init, LogInv, Installing, Recovering, RecoverPCs
<1>i. \A q \in Procs : ~Installing(q) /\ pc[q] \in {"read_head", "off"} /\ tail[q] = 0
  BY <1>1 DEF Init, Installing
<1>8. CacheInv
  BY <1>i, BlocksOfEmpty DEF Init, CacheInv
<1>9. CopyInv
  <2>1. Len(lh) \in Nat
    BY DEF Init
  <2>2. QED
    BY <1>i, <2>1, CopyIdle DEF Copying
<1>10. QED
  BY <1>2, <1>3, <1>5, <1>6, <1>7, <1>8, <1>9 DEF IInv

\* A step that changes nothing preserves the invariant.
LEMMA StutterInv ==
    ASSUME IInv, UNCHANGED vars
    PROVE  IInv'
<1>. USE DEF IInv, vars
<1>1. TypeOK' /\ BufInv'
  BY DEF TypeOK, BufInv
<1>2. BootInv' /\ CountInv' /\ CommitInv' /\ PanicInv' /\ SleepersHaveCause'
  BY DEF BootInv, Recovering, CountInv, Active, InOp, CommitInv, CommitExclusive,
         PanicInv, SleepersHaveCause, MustWait
<1>3. LogInv'
  BY DEF LogInv, Installing, Recovering
<1>4. CacheInv'
  BY DEF CacheInv, Installing
<1>5. CopyInv'
  BY CopyFrame DEF CopyInv
<1>6. QED
  BY <1>1, <1>2, <1>3, <1>4, <1>5

\* The inductive invariant holds in every reachable state of the log, crashes
\* and repeated recoveries included.
THEOREM LogInvariant == Spec => []IInv
<1>1. ASSUME IInv, [Next]_vars
      PROVE  IInv'
  BY <1>1, BeginOpInv, KillInv, ModifyInv, LogAppendInv, EndOpInv, WriteLogInv, WriteHeadInv,
     InstallTransInv, ClearLogInv, CommitDoneInv, ReadHeadInv, RecoverDoneInv,
     RecycleInv, CrashInv, StutterInv DEF Next
<1>2. QED
  BY InitInv, <1>1, PTL DEF Spec

\* The variables of the log have their types.
THEOREM LogTypeCorrect == Spec => []TypeOK
<1>1. IInv => TypeOK
  BY DEF IInv
<1>2. QED
  BY <1>1, LogInvariant, PTL

\* log.committing makes commit() exclusive, although it runs without the lock.
THEOREM LogCommitExclusive == Spec => []CommitExclusive
<1>1. IInv => CommitExclusive
  BY DEF IInv, CommitInv
<1>2. QED
  BY <1>1, LogInvariant, PTL

\* No wakeup on &log is lost: who sleeps in begin_op has a reason to, and
\* somebody is left to wake it.
THEOREM LogSleepersHaveCause == Spec => []SleepersHaveCause
<1>1. IInv => SleepersHaveCause
  BY DEF IInv
<1>2. QED
  BY <1>1, LogInvariant, PTL

\* When no call and no commit is in progress, everything written is durable.
THEOREM LogDurableWhenIdle == Spec => []DurableWhenIdle
<1>1. IInv => DurableWhenIdle
  <2>1. SUFFICES ASSUME IInv, ~committing, Active = {}, ~Recovering
                 PROVE  Recovered = Contents
    BY DEF DurableWhenIdle
  <2>2. lh = <<>> /\ ~panicked
    BY <2>1, FS_EmptySet DEF IInv, CountInv, LogInv, PanicInv
  <2>3. \A p \in Procs : ~Installing(p) /\ pc[p] # "read_head"
    BY <2>1 DEF IInv, CommitInv, CommitExclusive, CommitPCs, Installing, Recovering, RecoverPCs
  <2>4. head = <<>> /\ dirty = {}
    <3>1. BlocksOf(lh) = {}
      BY <2>2 DEF BlocksOf
    <3>2. QED
      BY <2>1, <2>3, <3>1 DEF IInv, LogInv, CacheInv
  <2>5. \A p \in Procs : buf[p] = Absent
    BY <2>1 DEF IInv, TypeOK, BufInv, Active, InOp
  <2>6. \A b \in Blocks : cache[b] # Absent => cache[b] = home[b]
    <3>1. \A b \in Blocks, p \in Procs : buf[p] # b
      BY <2>5, AbsentAssumption
    <3>2. QED
      BY <2>1, <2>2, <2>4, <3>1 DEF IInv, CacheInv
  <2>7. QED
    BY <2>4, <2>6, BlocksOfEmpty DEF Recovered, Contents
<1>2. QED
  BY <1>1, LogInvariant, PTL
=============================================================================
