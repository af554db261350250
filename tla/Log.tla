-------------------------------- MODULE Log ---------------------------------
(***************************************************************************)
(* The write-ahead log of the file system (log.c), together with what it   *)
(* needs of the buffer cache below it, power failures and recovery.        *)
(*                                                                         *)
(* On disk: the home blocks, the log header (the block numbers of a        *)
(* committed transaction) and the log's data blocks.  In memory: struct    *)
(* log, the cached copies of blocks, and for each process where it is in   *)
(* begin_op(), log_write(), end_op()/commit() or recover_from_log().       *)
(*                                                                         *)
(* One disk write is one atomic step: BSIZE is one sector.  A crash may    *)
(* come between any two steps, during recovery too.                        *)
(***************************************************************************)
EXTENDS Integers, Sequences, FiniteSets

CONSTANTS
    Procs,        \* processes that make file system calls
    Blocks,       \* home block numbers
    Values,       \* block contents
    Absent,       \* "no cached copy of this block"
    InitDisk,     \* the home blocks as mkfs leaves them
    InitLog,      \* the log's data blocks as mkfs leaves them
    MAXOPBLOCKS,  \* begin_op's reservation per call
    LOGSIZE,      \* capacity of log.lh.block[]
    NLog,         \* sb.nlog: blocks of the on-disk log, header included
    OpLimit       \* bound: distinct blocks one call may write

ASSUME ProcsAssumption == IsFiniteSet(Procs)
ASSUME AbsentAssumption == Absent \notin Values \cup Blocks
ASSUME SizesAssumption ==
    /\ MAXOPBLOCKS \in Nat \ {0}
    /\ LOGSIZE \in Nat
    /\ NLog \in Nat \ {0}
    /\ OpLimit \in Nat
    /\ MAXOPBLOCKS <= LOGSIZE
ASSUME MkfsAssumption ==
    /\ InitDisk \in [Blocks -> Values]
    /\ InitLog \in [1 .. NLog - 1 -> Values]

VARIABLES
    home,         \* disk: contents of the home blocks
    head,         \* disk: block[0..n-1] of the log header
    logblk,       \* disk: contents of the log's data blocks
    cache,        \* buffer cache: contents, or Absent
    dirty,        \* buffer cache: blocks with B_DIRTY
    lh,           \* log.lh.block[0..n-1]
    outstanding,  \* log.outstanding
    committing,   \* log.committing
    pc,           \* where each process is
    buf,          \* the B_BUSY buffer a process holds in log_write
    tail,         \* loop variable of write_log and install_trans
    wrote,        \* history: the blocks a call has logged so far
    panicked      \* panic() was called: the machine has stopped

disk == <<home, head, logblk>>
bcache == <<cache, dirty>>
log == <<lh, outstanding, committing>>
procs == <<pc, buf, tail, wrote>>
vars == <<home, head, logblk, cache, dirty, lh, outstanding, committing,
          pc, buf, tail, wrote, panicked>>

-----------------------------------------------------------------------------
\* The blocks a sequence of block numbers names.
BlocksOf(s) == {s[i] : i \in 1 .. Len(s)}

\* log.start + 1 .. log.start + log.size - 1
LogBlocks == 1 .. NLog - 1

\* What bread(b) returns: the cached copy or else the disk's.
Contents == [b \in Blocks |-> IF cache[b] = Absent THEN home[b] ELSE cache[b]]

InOp(p) == pc[p] \in {"op", "logging"}
Active == {p \in Procs : InOp(p)}

CommitPCs == {"write_log", "write_head", "install", "clear", "done"}
RecoverPCs == {"read_head", "r_install", "r_clear"}
PCs == {"off", "idle", "asleep", "woken", "op", "logging"}
           \cup CommitPCs \cup RecoverPCs

Recovering == \E p \in Procs : pc[p] \in RecoverPCs

-----------------------------------------------------------------------------
(* Boot.  forkret() makes the first process run initlog() before it returns
   to user space, so no other process exists until recovery has finished. *)

BootState(p) ==
    /\ cache' = [b \in Blocks |-> Absent]
    /\ dirty' = {}
    /\ lh' = <<>>
    /\ outstanding' = 0
    /\ committing' = FALSE
    /\ pc' = [q \in Procs |-> IF q = p THEN "read_head" ELSE "off"]
    /\ buf' = [q \in Procs |-> Absent]
    /\ tail' = [q \in Procs |-> 0]
    /\ wrote' = [q \in Procs |-> {}]
    /\ panicked' = FALSE

Init ==
    /\ home = InitDisk
    /\ head = <<>>
    /\ logblk = InitLog
    /\ cache = [b \in Blocks |-> Absent]
    /\ dirty = {}
    /\ lh = <<>>
    /\ outstanding = 0
    /\ committing = FALSE
    /\ \E p \in Procs :
           pc = [q \in Procs |-> IF q = p THEN "read_head" ELSE "off"]
    /\ buf = [q \in Procs |-> Absent]
    /\ tail = [q \in Procs |-> 0]
    /\ wrote = [q \in Procs |-> {}]
    /\ panicked = FALSE

\* Power failure, or the reboot after a panic: the disk is all that is left.
Crash ==
    /\ \E p \in Procs : BootState(p)
    /\ UNCHANGED disk

-----------------------------------------------------------------------------
(* begin_op *)

\* Mutant: begin_op does not look at log.committing.
MutMustWaitSpaceOnly == Len(lh) + (outstanding + 1) * MAXOPBLOCKS > LOGSIZE


\* The two reasons for which begin_op sleeps on &log.
MustWait ==
    \/ committing
    \/ Len(lh) + (outstanding + 1) * MAXOPBLOCKS > LOGSIZE

\* Mutant: the call is not counted in log.outstanding.
MutBeginOpUncounted(p) ==
    /\ ~panicked
    /\ pc[p] \in {"idle", "woken"}
    /\ ~MustWait
    /\ pc' = [pc EXCEPT ![p] = "op"]
    /\ wrote' = [wrote EXCEPT ![p] = {}]
    /\ UNCHANGED <<disk, bcache, log, buf, tail, panicked>>

BeginOp(p) ==
    /\ ~panicked
    /\ pc[p] \in {"idle", "woken"}
    /\ \/ /\ MustWait
          /\ pc' = [pc EXCEPT ![p] = "asleep"]
          /\ UNCHANGED <<outstanding, wrote>>
       \/ /\ ~MustWait
          /\ outstanding' = outstanding + 1
          /\ pc' = [pc EXCEPT ![p] = "op"]
          /\ wrote' = [wrote EXCEPT ![p] = {}]
    /\ UNCHANGED <<disk, bcache, lh, committing, buf, tail, panicked>>

\* kill() makes a sleeper runnable; begin_op tests its conditions again.
Kill(p) ==
    /\ ~panicked
    /\ pc[p] = "asleep"
    /\ pc' = [pc EXCEPT ![p] = "woken"]
    /\ UNCHANGED <<disk, bcache, log, buf, tail, wrote, panicked>>

-----------------------------------------------------------------------------
(* A call changes a block: bread, modify, log_write, brelse.  log_write tests
   the log's size before it takes log.lock, so the test and the append are two
   steps; the buffer stays B_BUSY from bread to brelse. *)

LogFull == Len(lh) >= LOGSIZE \/ Len(lh) >= NLog - 1

Modify(p, b, v) ==
    /\ ~panicked
    /\ pc[p] = "op"
    /\ \A q \in Procs : buf[q] # b
    /\ Cardinality(wrote[p] \cup {b}) <= OpLimit
    /\ cache' = [cache EXCEPT ![b] = v]
    /\ IF LogFull \/ outstanding < 1
       THEN /\ panicked' = TRUE
            /\ UNCHANGED <<pc, buf, wrote>>
       ELSE /\ pc' = [pc EXCEPT ![p] = "logging"]
            /\ buf' = [buf EXCEPT ![p] = b]
            /\ wrote' = [wrote EXCEPT ![p] = @ \cup {b}]
            /\ UNCHANGED panicked
    /\ UNCHANGED <<disk, dirty, log, tail>>

\* Mutant: absorption does not compare the block numbers.
MutLoggedAny(b) == IF lh # <<>> THEN lh ELSE Append(lh, b)

\* log.lh after block b is recorded: a block that is already there is absorbed.
Logged(b) == IF b \in BlocksOf(lh) THEN lh ELSE Append(lh, b)

\* Mutant: the buffer is not pinned with B_DIRTY.
MutLogAppendUnpinned(p) ==
    /\ ~panicked
    /\ pc[p] = "logging"
    /\ lh' = Logged(buf[p])
    /\ pc' = [pc EXCEPT ![p] = "op"]
    /\ buf' = [buf EXCEPT ![p] = Absent]
    /\ UNCHANGED <<disk, bcache, outstanding, committing, tail, wrote, panicked>>

LogAppend(p) ==
    /\ ~panicked
    /\ pc[p] = "logging"
    /\ lh' = Logged(buf[p])
    /\ dirty' = dirty \cup {buf[p]}
    /\ pc' = [pc EXCEPT ![p] = "op"]
    /\ buf' = [buf EXCEPT ![p] = Absent]
    /\ UNCHANGED <<disk, cache, outstanding, committing, tail, wrote, panicked>>

-----------------------------------------------------------------------------
(* end_op and commit *)

\* Mutant: wakeup makes only one sleeper runnable.
MutWokenOne(f) ==
    IF \E q \in Procs : f[q] = "asleep"
    THEN [f EXCEPT ![CHOOSE q \in Procs : f[q] = "asleep"] = "woken"]
    ELSE f

\* wakeup(&log) applied to the control states f.
Woken(f) == [q \in Procs |-> IF f[q] = "asleep" THEN "woken" ELSE f[q]]

EndOp(p) ==
    /\ ~panicked
    /\ pc[p] = "op"
    /\ outstanding' = outstanding - 1
    /\ IF committing
       THEN /\ panicked' = TRUE
            /\ UNCHANGED <<committing, pc, wrote>>
       ELSE /\ wrote' = [wrote EXCEPT ![p] = {}]
            /\ UNCHANGED panicked
            /\ \/ /\ outstanding' = 0
                  /\ committing' = TRUE
                  /\ pc' = [pc EXCEPT ![p] = IF lh = <<>> THEN "done" ELSE "write_log"]
               \/ /\ outstanding' # 0
                  /\ pc' = Woken([pc EXCEPT ![p] = "idle"])
                  /\ UNCHANGED committing
    /\ UNCHANGED <<disk, bcache, lh, buf, tail>>

\* One iteration of write_log, or the end of its loop.  A log block beyond the
\* log's region is a block beyond the disk: idestart panics.
WriteLog(p) ==
    /\ ~panicked
    /\ pc[p] = "write_log"
    /\ \/ /\ tail[p] < Len(lh)
          /\ tail[p] + 1 \in LogBlocks
          /\ logblk' = [logblk EXCEPT ![tail[p] + 1] = Contents[lh[tail[p] + 1]]]
          /\ tail' = [tail EXCEPT ![p] = @ + 1]
          /\ UNCHANGED <<pc, panicked>>
       \/ /\ tail[p] < Len(lh)
          /\ tail[p] + 1 \notin LogBlocks
          /\ panicked' = TRUE
          /\ UNCHANGED <<logblk, tail, pc>>
       \/ /\ tail[p] >= Len(lh)
          /\ pc' = [pc EXCEPT ![p] = "write_head"]
          /\ tail' = [tail EXCEPT ![p] = 0]
          /\ UNCHANGED <<logblk, panicked>>
    /\ UNCHANGED <<home, head, bcache, log, buf, wrote>>

\* The commit point.
WriteHead(p) ==
    /\ ~panicked
    /\ pc[p] = "write_head"
    /\ head' = lh
    /\ pc' = [pc EXCEPT ![p] = "install"]
    /\ UNCHANGED <<home, logblk, bcache, log, buf, tail, wrote, panicked>>

\* Mutant: the loop variable is not incremented.
MutInstallTransStuck(p) ==
    /\ ~panicked
    /\ pc[p] \in {"install", "r_install"}
    /\ \/ /\ tail[p] < Len(lh)
          /\ home' = [home EXCEPT ![lh[tail[p] + 1]] = logblk[tail[p] + 1]]
          /\ UNCHANGED <<bcache, tail, pc>>
       \/ /\ tail[p] >= Len(lh)
          /\ pc' = [pc EXCEPT ![p] = IF @ = "install" THEN "clear" ELSE "r_clear"]
          /\ tail' = [tail EXCEPT ![p] = 0]
          /\ UNCHANGED <<home, bcache>>
    /\ UNCHANGED <<head, logblk, log, buf, wrote, panicked>>

\* One iteration of install_trans, called by commit and by recover_from_log:
\* the home block is overwritten in the cache and on disk, bwrite leaves the
\* buffer valid and clean.
InstallTrans(p) ==
    /\ ~panicked
    /\ pc[p] \in {"install", "r_install"}
    /\ \/ LET b == lh[tail[p] + 1]
              v == logblk[tail[p] + 1]
          IN  /\ tail[p] < Len(lh)
              /\ home' = [home EXCEPT ![b] = v]
              /\ cache' = [cache EXCEPT ![b] = v]
              /\ dirty' = dirty \ {b}
              /\ tail' = [tail EXCEPT ![p] = @ + 1]
              /\ UNCHANGED pc
       \/ /\ tail[p] >= Len(lh)
          /\ pc' = [pc EXCEPT ![p] = IF @ = "install" THEN "clear" ELSE "r_clear"]
          /\ tail' = [tail EXCEPT ![p] = 0]
          /\ UNCHANGED <<home, bcache>>
    /\ UNCHANGED <<head, logblk, log, buf, wrote, panicked>>

\* log.lh.n = 0; write_head()
ClearLog(p) ==
    /\ ~panicked
    /\ pc[p] = "clear"
    /\ lh' = <<>>
    /\ head' = <<>>
    /\ pc' = [pc EXCEPT ![p] = "done"]
    /\ UNCHANGED <<home, logblk, bcache, outstanding, committing, buf, tail,
                   wrote, panicked>>

\* Mutant: end_op does not call wakeup after the commit.
MutCommitDoneSilent(p) ==
    /\ ~panicked
    /\ pc[p] = "done"
    /\ committing' = FALSE
    /\ pc' = [pc EXCEPT ![p] = "idle"]
    /\ UNCHANGED <<disk, bcache, lh, outstanding, buf, tail, wrote, panicked>>

CommitDone(p) ==
    /\ ~panicked
    /\ pc[p] = "done"
    /\ committing' = FALSE
    /\ pc' = Woken([pc EXCEPT ![p] = "idle"])
    /\ UNCHANGED <<disk, bcache, lh, outstanding, buf, tail, wrote, panicked>>

-----------------------------------------------------------------------------
(* recover_from_log *)

ReadHead(p) ==
    /\ ~panicked
    /\ pc[p] = "read_head"
    /\ lh' = head
    /\ pc' = [pc EXCEPT ![p] = "r_install"]
    /\ UNCHANGED <<disk, bcache, outstanding, committing, buf, tail, wrote,
                   panicked>>

\* The log is cleared, the first process goes on and the others can be forked.
RecoverDone(p) ==
    /\ ~panicked
    /\ pc[p] = "r_clear"
    /\ lh' = <<>>
    /\ head' = <<>>
    /\ pc' = [q \in Procs |-> "idle"]
    /\ UNCHANGED <<home, logblk, bcache, outstanding, committing, buf, tail,
                   wrote, panicked>>

-----------------------------------------------------------------------------
(* The cache below: bget recycles any buffer that is neither busy nor dirty. *)
Recycle(b) ==
    /\ ~panicked
    /\ cache[b] # Absent
    /\ b \notin dirty
    /\ \A p \in Procs : buf[p] # b
    /\ cache' = [cache EXCEPT ![b] = Absent]
    /\ UNCHANGED <<disk, dirty, log, procs, panicked>>

-----------------------------------------------------------------------------
Next ==
    \/ \E p \in Procs :
           \/ BeginOp(p) \/ Kill(p) \/ LogAppend(p) \/ EndOp(p)
           \/ WriteLog(p) \/ WriteHead(p) \/ InstallTrans(p) \/ ClearLog(p)
           \/ CommitDone(p) \/ ReadHead(p) \/ RecoverDone(p)
           \/ \E b \in Blocks, v \in Values : Modify(p, b, v)
    \/ \E b \in Blocks : Recycle(b)
    \/ Crash

Spec == Init /\ [][Next]_vars

\* The scheduler runs every runnable process and the disk answers, so code that
\* is not waiting goes on; a file system call makes finitely many log_writes and
\* then calls end_op.  Nothing is assumed of BeginOp by an idle process, of the
\* recycling of buffers or of crashes.
Progress(p) ==
    \/ LogAppend(p) \/ WriteLog(p) \/ WriteHead(p) \/ InstallTrans(p)
    \/ ClearLog(p) \/ CommitDone(p) \/ ReadHead(p) \/ RecoverDone(p)

Fairness ==
    \A p \in Procs : /\ WF_vars(Progress(p))
                     /\ SF_vars(EndOp(p))

FairSpec == Spec /\ Fairness

-----------------------------------------------------------------------------
(* Properties *)

\* The variables have their types; log.outstanding never falls below zero.
TypeOK ==
    /\ home \in [Blocks -> Values]
    /\ head \in Seq(Blocks)
    /\ logblk \in [LogBlocks -> Values]
    /\ cache \in [Blocks -> Values \cup {Absent}]
    /\ dirty \subseteq Blocks
    /\ lh \in Seq(Blocks)
    /\ outstanding \in Nat
    /\ committing \in BOOLEAN
    /\ pc \in [Procs -> PCs]
    /\ buf \in [Procs -> Blocks \cup {Absent}]
    /\ tail \in [Procs -> Nat]
    /\ wrote \in [Procs -> SUBSET Blocks]
    /\ panicked \in BOOLEAN

\* The home blocks as recover_from_log would leave them if the power failed now.
LastAt(s, b) ==
    CHOOSE i \in 1 .. Len(s) : s[i] = b /\ \A j \in i + 1 .. Len(s) : s[j] # b

Recovered ==
    [b \in Blocks |->
        IF b \in BlocksOf(head) THEN logblk[LastAt(head, b)] ELSE home[b]]

Current == IF Recovering THEN Recovered ELSE Contents

\* Crash safety: what a reboot brings back changes only in the step that writes
\* the log header, which makes all updates of finished calls durable at once
\* while no call is in progress; installing, clearing the log, recycling buffers
\* and repeated crashes during recovery change neither it nor what calls read.
Abs == INSTANCE AtomicDisk WITH
           durable <- Recovered, current <- Current, active <- Active
RefinesAtomicDisk == Abs!ASpec

\* end_op by the last call returns (committing is clear, nobody is in a call)
\* only after everything that calls have written would survive a power failure.
DurableWhenIdle ==
    (~committing /\ Active = {} /\ ~Recovering) => Recovered = Contents

\* No lost wakeup on &log: a process is asleep in begin_op only while one of the
\* two conditions it waits on still holds, and only while somebody is left who
\* will call wakeup(&log).
SleepersHaveCause ==
    (\E p \in Procs : pc[p] = "asleep") =>
        MustWait /\ (outstanding > 0 \/ committing)


\* commit() runs without the lock; log.committing makes it exclusive: while it
\* runs no call is in progress and no second process is in commit().
CommitExclusive ==
    \A p \in Procs : pc[p] \in CommitPCs =>
        committing /\ Active = {} /\ \A q \in Procs \ {p} : pc[q] \notin CommitPCs

\* A process that sleeps in begin_op is woken: the calls in progress end and the
\* commit, if one runs, completes and wakes it.
SleeperWakes ==
    \A p \in Procs : pc[p] = "asleep" ~> (pc[p] # "asleep" \/ panicked)

\* What param.h says of LOGSIZE and MAXOPBLOCKS and begin_op relies on: calls
\* that write at most MAXOPBLOCKS blocks never exhaust the log.
ReservationSuffices == ~panicked

\* If crashes cease, recovery of whatever they left in the log completes, and
\* from then on file system calls can run.
BootCompletes == <>[][~Crash]_vars => <>[](~Recovering)

-----------------------------------------------------------------------------
(* The inductive invariant behind the proofs of LogProofs.tla. *)

Installing(p) == pc[p] \in {"install", "clear", "r_install", "r_clear"}

\* Recovery runs alone, before any call.
BootInv ==
    /\ \A p \in Procs : pc[p] \in RecoverPCs =>
           /\ \A q \in Procs \ {p} : pc[q] = "off"
           /\ outstanding = 0 /\ ~committing /\ dirty = {} /\ ~panicked
    /\ \A p \in Procs : pc[p] = "off" => Recovering

\* log.outstanding counts the calls in progress.
CountInv == outstanding = Cardinality(Active)

\* At most one process is in commit(), and log.committing says so.
CommitInv ==
    /\ CommitExclusive
    /\ committing => \E p \in Procs : pc[p] \in CommitPCs

\* A process holds a busy buffer exactly while it is inside log_write.
BufInv ==
    /\ \A p \in Procs : (pc[p] = "logging") <=> (buf[p] # Absent)
    /\ \A p \in Procs : buf[p] # Absent => cache[buf[p]] # Absent
    /\ \A p, q \in Procs : (p # q /\ buf[p] # Absent) => buf[p] # buf[q]

\* No block is logged twice; the on-disk header is a committed lh that fits.
LogInv ==
    /\ \A i, j \in 1 .. Len(lh) : lh[i] = lh[j] => i = j
    /\ \A i, j \in 1 .. Len(head) : head[i] = head[j] => i = j
    /\ Len(head) < NLog
    /\ \A p \in Procs : Installing(p) => head = lh
    /\ head # <<>> => \E p \in Procs : Installing(p) \/ pc[p] = "read_head"
    /\ (outstanding = 0 /\ ~committing /\ ~Recovering) => lh = <<>>
    /\ \A p \in Procs : pc[p] \in {"done", "read_head"} => lh = <<>>

\* Until they are installed, logged blocks are pinned; unpinned copies are clean.
CacheInv ==
    /\ \A b \in dirty : cache[b] # Absent
    /\ (\A p \in Procs : ~Installing(p)) => dirty = BlocksOf(lh)
    /\ \A p \in Procs : pc[p] = "install" =>
           \A i \in tail[p] + 1 .. Len(lh) : lh[i] \in dirty
    /\ \A p \in Procs : Installing(p) =>
           \A b \in dirty : \E i \in tail[p] + 1 .. Len(lh) : lh[i] = b
    /\ \A p \in Procs : pc[p] = "clear" => dirty = {}
    /\ ~panicked =>
           \A b \in Blocks :
               (b \notin dirty /\ cache[b] # Absent /\ \A p \in Procs : buf[p] # b)
                   => cache[b] = home[b]

\* How far write_log and install_trans have come.
CopyInv ==
    /\ \A p \in Procs : tail[p] <= Len(lh)
    /\ \A p \in Procs : pc[p] \notin {"write_log", "install", "r_install"} => tail[p] = 0
    /\ \A p \in Procs : pc[p] = "write_log" =>
           tail[p] < NLog /\ \A i \in 1 .. tail[p] : logblk[i] = cache[lh[i]]
    /\ \A p \in Procs : pc[p] = "write_head" =>
           Len(lh) < NLog /\ \A i \in 1 .. Len(lh) : logblk[i] = cache[lh[i]]
    /\ \A p \in Procs : pc[p] = "install" =>
           \A i \in tail[p] + 1 .. Len(lh) : logblk[i] = cache[lh[i]]
    /\ \A p \in Procs : pc[p] \in {"install", "r_install"} =>
           \A i \in 1 .. tail[p] : home[lh[i]] = logblk[i]
    /\ \A p \in Procs : pc[p] \in {"clear", "r_clear"} =>
           \A i \in 1 .. Len(lh) : home[lh[i]] = logblk[i]

\* A panic happens inside a call or inside commit().
PanicInv == panicked => (Active # {} \/ committing)

IInv ==
    /\ TypeOK /\ BootInv /\ CountInv /\ CommitInv /\ BufInv /\ LogInv
    /\ CacheInv /\ CopyInv /\ PanicInv /\ SleepersHaveCause
=============================================================================
