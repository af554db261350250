------------------------------ MODULE BufCache ------------------------------
(***************************************************************************)
(* The buffer cache (bio.c) over the IDE driver (ide.c): NBUF buffers on a *)
(* list ordered by release, a hash table with one buffer per slot, the     *)
(* flags B_BUSY, B_VALID and B_DIRTY, the queue of disk requests and the   *)
(* disk interrupt.                                                         *)
(*                                                                         *)
(* A process uses one buffer at a time: bread, any number of log_writes    *)
(* and bwrites, brelse.  A caller that holds two buffers (write_log,       *)
(* install_trans, bmap) behaves like two such processes.  There is one     *)
(* device; a buffer that binit left with dev == -1 holds block Null.       *)
(***************************************************************************)
EXTENDS Integers, Sequences, FiniteSets

CONSTANTS
    Procs,      \* processes that use the cache
    Bufs,       \* bcache.buf[]
    Values,     \* block contents
    Null,       \* no buffer, no block
    FSSIZE,     \* blocks of the disk
    HASHSIZE,   \* slots of the hash table
    InitDisk,   \* contents of the disk at boot
    InitData,   \* contents of a buffer that was never read
    PinLimit,   \* bound: buffers the log may keep pinned
    ReadErrors  \* TRUE if the drive may report an error for a read

BlockNos == 0 .. FSSIZE - 1

ASSUME ProcsAssumption == IsFiniteSet(Procs)
ASSUME BufsAssumption == IsFiniteSet(Bufs) /\ Null \notin Bufs
ASSUME BlocksAssumption == FSSIZE \in Nat /\ Null \notin BlockNos
ASSUME HashAssumption == HASHSIZE \in Nat /\ HASHSIZE >= FSSIZE /\ HASHSIZE > 0
ASSUME ContentsAssumption ==
    InitDisk \in [BlockNos -> Values] /\ InitData \in Values
ASSUME BoundsAssumption == PinLimit \in Nat /\ ReadErrors \in BOOLEAN

VARIABLES
    blockno,    \* b->blockno, Null for dev == -1
    busy,       \* buffers with B_BUSY
    valid,      \* buffers with B_VALID
    dirty,      \* buffers with B_DIRTY
    data,       \* b->data
    lru,        \* the list from bcache.head.next on
    htable,     \* hash_t.htable
    idequeue,   \* idequeue, linked by qnext
    xfer,       \* what idestart sent to the drive with a write command
    disk,       \* contents of the disk
    pc,         \* where each process is
    want,       \* the block number a process called bread with
    held,       \* the buffer a process holds or sleeps on
    latest,     \* history: what was last stored in each block's buffer
    panicked    \* panic() was called; nothing runs any more

flags == <<busy, valid, dirty>>
procs == <<pc, want, held>>
vars == <<blockno, busy, valid, dirty, data, lru, htable, idequeue, xfer, disk,
          pc, want, held, latest, panicked>>

-----------------------------------------------------------------------------
\* The lists on which every buffer appears (exactly once).
Lists == {s \in [1 .. Cardinality(Bufs) -> Bufs] :
              \A b \in Bufs : \E i \in 1 .. Cardinality(Bufs) : s[i] = b}

\* Mutant: the table is half as large as its array.
MutHashFuncHalf(n) == n % ((HASHSIZE + 1) \div 2)

hash_func(n) == n % HASHSIZE

\* The buffer that blookup finds, or Null.
blookup(n) ==
    LET b == htable[hash_func(n)]
    IN  IF b # Null /\ blockno[b] = n THEN b ELSE Null

\* Mutant: bget may recycle a pinned buffer.
MutRecyclableDirty(b) == b \notin busy

\* What bget may recycle.
Recyclable(b) == b \notin busy /\ b \notin dirty

\* The first buffer on the list that bget may recycle.
Victim ==
    LET i == CHOOSE i \in 1 .. Len(lru) :
                 /\ Recyclable(lru[i])
                 /\ \A j \in 1 .. i - 1 : ~Recyclable(lru[j])
    IN  lru[i]

\* Mutant: b is linked in before it is unlinked.
MutMovedToFrontLoses(b) ==
    LET k == CHOOSE k \in 1 .. Len(lru) : lru[k] = b
    IN  [i \in 1 .. Len(lru) |->
            IF i = 1 THEN b ELSE IF i < k THEN lru[i - 1] ELSE lru[i]]

\* The list after b is unlinked and linked in again behind the head.
MovedToFront(b) ==
    LET k == CHOOSE k \in 1 .. Len(lru) : lru[k] = b
    IN  [i \in 1 .. Len(lru) |->
            IF i = 1 THEN b ELSE IF i <= k THEN lru[i - 1] ELSE lru[i]]

\* Mutant: wakeup reaches only the process that waits for the disk.
MutWokenIo(f, b) ==
    [p \in Procs |-> IF held[p] = b /\ f[p] = "io" THEN "io_woken" ELSE f[p]]

\* Mutant: wakeup reaches only the processes that wait for the buffer.
MutWokenBget(f, b) ==
    [p \in Procs |-> IF held[p] = b /\ f[p] = "bsleep" THEN "bget" ELSE f[p]]

\* wakeup(b) applied to the control states f: bget and iderw sleep on the same
\* channel, the buffer; both test their condition again.
Woken(f, b) ==
    [p \in Procs |->
        IF held[p] # b THEN f[p]
        ELSE IF f[p] = "bsleep" THEN "bget"
        ELSE IF f[p] = "io" THEN "io_woken"
        ELSE f[p]]

\* The processes that wakeup(b) took out of bget's sleep hold nothing.
HeldAfterWakeup(b) ==
    [p \in Procs |-> IF pc[p] = "bsleep" /\ held[p] = b THEN Null ELSE held[p]]

-----------------------------------------------------------------------------
(* binit: the last buffer that was linked in comes first. *)
Init ==
    /\ blockno = [b \in Bufs |-> Null]
    /\ busy = {} /\ valid = {} /\ dirty = {}
    /\ data = [b \in Bufs |-> InitData]
    /\ lru \in Lists
    /\ htable = [h \in 0 .. HASHSIZE - 1 |-> Null]
    /\ idequeue = <<>>
    /\ xfer = InitData
    /\ disk = InitDisk
    /\ pc = [p \in Procs |-> "idle"]
    /\ want = [p \in Procs |-> Null]
    /\ held = [p \in Procs |-> Null]
    /\ latest = InitDisk
    /\ panicked = FALSE

-----------------------------------------------------------------------------
(* bread: bget, and iderw if the buffer is not valid *)

Bread(p, n) ==
    /\ ~panicked
    /\ pc[p] = "idle"
    /\ pc' = [pc EXCEPT ![p] = "bget"]
    /\ want' = [want EXCEPT ![p] = n]
    /\ UNCHANGED <<blockno, flags, data, lru, htable, idequeue, xfer, disk, held,
                   latest, panicked>>

\* Mutant: B_BUSY is not tested.
MutBgetHitBusy(p) ==
    LET b == blookup(want[p])
    IN  /\ ~panicked
        /\ pc[p] = "bget"
        /\ b # Null
        /\ busy' = busy \cup {b}
        /\ held' = [held EXCEPT ![p] = b]
        /\ pc' = [pc EXCEPT ![p] = IF b \in valid THEN "hold" ELSE "iderw"]
        /\ UNCHANGED <<blockno, valid, dirty, data, lru, htable, idequeue, xfer,
                       disk, want, latest, panicked>>

\* The block is cached and the buffer is free.
BgetHit(p) ==
    LET b == blookup(want[p])
    IN  /\ ~panicked
        /\ pc[p] = "bget"
        /\ b # Null
        /\ b \notin busy
        /\ busy' = busy \cup {b}
        /\ held' = [held EXCEPT ![p] = b]
        /\ pc' = [pc EXCEPT ![p] = IF b \in valid THEN "hold" ELSE "iderw"]
        /\ UNCHANGED <<blockno, valid, dirty, data, lru, htable, idequeue, xfer,
                       disk, want, latest, panicked>>

\* The block is cached and in use: sleep on the buffer, then look it up again.
BgetSleep(p) ==
    LET b == blookup(want[p])
    IN  /\ ~panicked
        /\ pc[p] = "bget"
        /\ b # Null
        /\ b \in busy
        /\ held' = [held EXCEPT ![p] = b]
        /\ pc' = [pc EXCEPT ![p] = "bsleep"]
        /\ UNCHANGED <<blockno, flags, data, lru, htable, idequeue, xfer, disk,
                       want, latest, panicked>>

\* Mutant: B_VALID of the block that was in the buffer before is kept.
MutBgetRecycleValid(p) ==
    /\ ~panicked
    /\ pc[p] = "bget"
    /\ blookup(want[p]) = Null
    /\ \E b \in Bufs : Recyclable(b)
    /\ LET b == Victim
       IN  /\ blockno' = [blockno EXCEPT ![b] = want[p]]
           /\ busy' = busy \cup {b}
           /\ htable' = [htable EXCEPT ![hash_func(want[p])] = b]
           /\ held' = [held EXCEPT ![p] = b]
           /\ pc' = [pc EXCEPT ![p] = IF b \in valid THEN "hold" ELSE "iderw"]
    /\ UNCHANGED <<valid, dirty, data, lru, idequeue, xfer, disk, want, latest,
                   panicked>>

\* The block is not cached: recycle a buffer, or panic when there is none.
BgetRecycle(p) ==
    /\ ~panicked
    /\ pc[p] = "bget"
    /\ blookup(want[p]) = Null
    /\ IF \E b \in Bufs : Recyclable(b)
       THEN LET b == Victim
            IN  /\ blockno' = [blockno EXCEPT ![b] = want[p]]
                /\ busy' = busy \cup {b}
                /\ valid' = valid \ {b}
                /\ dirty' = dirty \ {b}
                /\ htable' = [htable EXCEPT ![hash_func(want[p])] = b]
                /\ held' = [held EXCEPT ![p] = b]
                /\ pc' = [pc EXCEPT ![p] = "iderw"]
                /\ UNCHANGED panicked
       ELSE /\ panicked' = TRUE
            /\ UNCHANGED <<blockno, flags, htable, held, pc>>
    /\ UNCHANGED <<data, lru, idequeue, xfer, disk, want, latest>>

-----------------------------------------------------------------------------
(* What a process does with the buffer it holds *)

\* Change the contents and log_write: the buffer is pinned until it is written.
Pinned == {b \in Bufs : b \in dirty /\ \A p \in Procs :
               held[p] = b => pc[p] \notin {"iderw", "io", "io_woken"}}

LogWrite(p, v) ==
    /\ ~panicked
    /\ pc[p] = "hold"
    /\ Cardinality(Pinned \cup {held[p]}) <= PinLimit
    /\ data' = [data EXCEPT ![held[p]] = v]
    /\ dirty' = dirty \cup {held[p]}
    /\ latest' = [latest EXCEPT ![want[p]] = v]
    /\ UNCHANGED <<blockno, busy, valid, lru, htable, idequeue, xfer, disk, procs,
                   panicked>>

\* Change the contents (or not) and bwrite.
Bwrite(p, v) ==
    /\ ~panicked
    /\ pc[p] = "hold"
    /\ data' = [data EXCEPT ![held[p]] = v]
    /\ dirty' = dirty \cup {held[p]}
    /\ latest' = [latest EXCEPT ![want[p]] = v]
    /\ pc' = [pc EXCEPT ![p] = "iderw"]
    /\ panicked' = (held[p] \notin busy)
    /\ UNCHANGED <<blockno, busy, valid, lru, htable, idequeue, xfer, disk, want,
                   held>>

\* Mutant: the sleepers are not woken.
MutBrelseSilent(p) ==
    /\ ~panicked
    /\ pc[p] = "hold"
    /\ lru' = MovedToFront(held[p])
    /\ busy' = busy \ {held[p]}
    /\ pc' = [pc EXCEPT ![p] = "idle"]
    /\ want' = [want EXCEPT ![p] = Null]
    /\ held' = [held EXCEPT ![p] = Null]
    /\ UNCHANGED <<blockno, valid, dirty, data, htable, idequeue, xfer, disk,
                   latest, panicked>>

Brelse(p) ==
    /\ ~panicked
    /\ pc[p] = "hold"
    /\ lru' = MovedToFront(held[p])
    /\ busy' = busy \ {held[p]}
    /\ pc' = Woken([pc EXCEPT ![p] = "idle"], held[p])
    /\ want' = [want EXCEPT ![p] = Null]
    /\ held' = [HeldAfterWakeup(held[p]) EXCEPT ![p] = Null]
    /\ panicked' = (held[p] \notin busy)
    /\ UNCHANGED <<blockno, valid, dirty, data, htable, idequeue, xfer, disk,
                   latest>>

-----------------------------------------------------------------------------
(* ide.c *)

\* iderw appends the buffer to the queue, starts the drive if the queue was
\* empty, and sleeps until the buffer is valid and clean.  A write command
\* carries the data at the time it starts.
Iderw(p) ==
    /\ ~panicked
    /\ pc[p] = "iderw"
    /\ idequeue' = Append(idequeue, held[p])
    /\ xfer' = IF idequeue = <<>> THEN data[held[p]] ELSE xfer
    /\ pc' = [pc EXCEPT ![p] = "io"]
    /\ panicked' = (held[p] \notin busy \/ held[p] \in valid \ dirty)
    /\ UNCHANGED <<blockno, flags, data, lru, htable, disk, want, held, latest>>

\* Mutant: iderw waits only for B_VALID.
MutIderwCheckValid(p) ==
    /\ ~panicked
    /\ \/ pc[p] = "io_woken"
       \/ pc[p] = "io" /\ held[p] \in valid
    /\ pc' = [pc EXCEPT ![p] = IF held[p] \in valid THEN "hold" ELSE "io"]
    /\ UNCHANGED <<blockno, flags, data, lru, htable, idequeue, xfer, disk, want,
                   held, latest, panicked>>

IderwCheck(p) ==
    /\ ~panicked
    /\ pc[p] = "io_woken"
    /\ pc' = [pc EXCEPT ![p] =
                 IF held[p] \in valid /\ held[p] \notin dirty THEN "hold" ELSE "io"]
    /\ UNCHANGED <<blockno, flags, data, lru, htable, idequeue, xfer, disk, want,
                   held, latest, panicked>>

\* The drive has finished the first request of the queue.  A failed read leaves
\* the data alone.
ideintr ==
    /\ ~panicked
    /\ idequeue # <<>>
    /\ LET b == Head(idequeue)
       IN  /\ IF b \in dirty
              THEN /\ disk' = [disk EXCEPT ![blockno[b]] = xfer]
                   /\ UNCHANGED data
              ELSE /\ UNCHANGED disk
                   /\ \/ data' = [data EXCEPT ![b] = disk[blockno[b]]]
                      \/ ReadErrors /\ UNCHANGED data
           /\ valid' = valid \cup {b}
           /\ dirty' = dirty \ {b}
           /\ pc' = Woken(pc, b)
           /\ held' = HeldAfterWakeup(b)
    /\ idequeue' = Tail(idequeue)
    /\ xfer' = IF Tail(idequeue) = <<>> THEN xfer ELSE data[Head(Tail(idequeue))]
    /\ UNCHANGED <<blockno, busy, lru, htable, want, latest, panicked>>

-----------------------------------------------------------------------------
\* kill() makes a sleeper runnable: bget looks the block up again, iderw tests
\* the flags again.
Kill(p) ==
    /\ ~panicked
    /\ \/ pc[p] = "bsleep" /\ held' = [held EXCEPT ![p] = Null]
       \/ pc[p] = "io" /\ UNCHANGED held
    /\ pc' = [pc EXCEPT ![p] = IF @ = "bsleep" THEN "bget" ELSE "io_woken"]
    /\ UNCHANGED <<blockno, flags, data, lru, htable, idequeue, xfer, disk, want,
                   latest, panicked>>

-----------------------------------------------------------------------------
Next ==
    \/ \E p \in Procs :
           \/ \E n \in BlockNos : Bread(p, n)
           \/ \E v \in Values : LogWrite(p, v) \/ Bwrite(p, v)
           \/ BgetHit(p) \/ BgetSleep(p) \/ BgetRecycle(p)
           \/ Brelse(p) \/ Iderw(p) \/ IderwCheck(p) \/ Kill(p)
    \/ ideintr

Spec == Init /\ [][Next]_vars

\* Runnable processes run, the drive answers every request, and a process that
\* holds a buffer releases it after finitely many changes.
Fairness ==
    /\ WF_vars(ideintr)
    /\ \A p \in Procs :
           /\ WF_vars(BgetHit(p) \/ BgetSleep(p) \/ BgetRecycle(p))
           /\ WF_vars(Iderw(p) \/ IderwCheck(p))
           /\ SF_vars(Brelse(p))

FairSpec == Spec /\ Fairness

-----------------------------------------------------------------------------
(* Properties *)

PCs == {"idle", "bget", "bsleep", "iderw", "io", "io_woken", "hold"}

\* The processes between bget's return and brelse, and those inside iderw.
InIderw(p) == pc[p] \in {"iderw", "io", "io_woken"}
Holds(p, b) == held[p] = b /\ (InIderw(p) \/ pc[p] = "hold")

\* The variables have their types; brelse keeps every buffer on the list.
TypeOK ==
    /\ blockno \in [Bufs -> BlockNos \cup {Null}]
    /\ busy \subseteq Bufs /\ valid \subseteq Bufs /\ dirty \subseteq Bufs
    /\ data \in [Bufs -> Values]
    /\ lru \in Lists
    /\ htable \in [0 .. HASHSIZE - 1 -> Bufs \cup {Null}]
    /\ idequeue \in Seq(Bufs)
    /\ xfer \in Values
    /\ disk \in [BlockNos -> Values]
    /\ pc \in [Procs -> PCs]
    /\ want \in [Procs -> BlockNos \cup {Null}]
    /\ held \in [Procs -> Bufs \cup {Null}]
    /\ latest \in [BlockNos -> Values]
    /\ panicked \in BOOLEAN

\* A block is cached in at most one buffer, although blookup looks at a single
\* slot, never resolves a collision, and bget never removes the entry of the
\* block that a recycled buffer held before.
UniqueBuffer ==
    \A b, c \in Bufs : (b # c /\ blockno[b] # Null) => blockno[b] # blockno[c]

\* "Only one process at a time can use a buffer": B_BUSY is set exactly while
\* one process is between bread and brelse of the buffer.
OneHolder ==
    \A b \in Bufs :
        /\ b \in busy <=> \E p \in Procs : Holds(p, b)
        /\ \A p, q \in Procs : (Holds(p, b) /\ Holds(q, b)) => p = q

\* bread returns the block that was asked for, with the contents that were last
\* stored in it by any process, wherever they are.
ReadsLatest ==
    \A p \in Procs : pc[p] = "hold" =>
        /\ blockno[held[p]] = want[p]
        /\ data[held[p]] = latest[want[p]]

\* "B_VALID: the buffer data has been read from the disk" (bio.c): a valid buffer
\* has the contents of its block.
ValidMeansRead ==
    \A b \in valid : data[b] = latest[blockno[b]]

\* The last contents of a block are on the disk or in a dirty buffer of that
\* block, which bget does not recycle.
NoLostUpdate ==
    \A n \in BlockNos :
        \/ disk[n] = latest[n]
        \/ \E b \in dirty : blockno[b] = n /\ data[b] = latest[n]

\* No lost wakeup: who sleeps in bget sleeps on a buffer that somebody will
\* release, and who sleeps in iderw waits for a request that is on the queue.
SleepersHaveWaker ==
    \A p \in Procs :
        /\ pc[p] = "bsleep" => held[p] \in busy
        /\ pc[p] = "io" => \E i \in 1 .. Len(idequeue) : idequeue[i] = held[p]

\* None of the panics of bget, bwrite, brelse and iderw is reached as long as the
\* log pins so few buffers that every process can have one more.
NoBuffersPanic ==
    (PinLimit + Cardinality(Procs) <= Cardinality(Bufs)) => ~panicked

\* A process inside iderw gets its buffer back.
IoCompletes == \A p \in Procs : InIderw(p) ~> pc[p] = "hold"

\* A process that found its block in use is woken when it is released.
BgetWakes == \A p \in Procs : pc[p] = "bsleep" ~> pc[p] # "bsleep"

\* "LRU cache list" (buf.h): when bget evicts a block, no buffer that it may
\* recycle was released longer ago.
RecyclesLeastRecent ==
    [][\A i, j \in 1 .. Len(lru) :
           (blockno'[lru[i]] # blockno[lru[i]] /\ blockno[lru[i]] # Null /\ Recyclable(lru[j]))
               => j <= i]_vars

-----------------------------------------------------------------------------
(* The inductive invariant *)

\* The table leads to every buffer that holds a block.
HashInv ==
    \A b \in Bufs : blockno[b] # Null => htable[hash_func(blockno[b])] = b

\* What the control state of a process says of the buffer it holds.
HolderInv ==
    \A p \in Procs :
        /\ pc[p] \in {"idle", "bget"} => held[p] = Null
        /\ pc[p] # "idle" => want[p] \in BlockNos
        /\ pc[p] = "bsleep" => held[p] \in busy
        /\ InIderw(p) \/ pc[p] = "hold" =>
               held[p] \in busy /\ blockno[held[p]] = want[p]
        /\ pc[p] \in {"iderw", "io"} => held[p] \notin valid \ dirty
        /\ pc[p] = "hold" => held[p] \in valid

\* The queue holds the buffers of the processes that wait in iderw, once each,
\* and the drive has the data of the first.
Waits(p) == pc[p] \in {"io", "io_woken"} /\ held[p] \notin valid \ dirty

QueueInv ==
    /\ \A p \in Procs :
           Waits(p) => \E i \in 1 .. Len(idequeue) : idequeue[i] = held[p]
    /\ \A i \in 1 .. Len(idequeue) :
           \E p \in Procs : Waits(p) /\ held[p] = idequeue[i]
    /\ \A i, j \in 1 .. Len(idequeue) : idequeue[i] = idequeue[j] => i = j
    /\ idequeue # <<>> => xfer = data[Head(idequeue)]

\* Flags are set for buffers that hold a block only.
FlagsInv == \A b \in busy \cup valid \cup dirty : blockno[b] # Null

\* Valid and dirty buffers have the last contents of their block; the disk has
\* them if no dirty buffer does.
DataInv ==
    ~ReadErrors =>
        /\ \A b \in valid \cup dirty : data[b] = latest[blockno[b]]
        /\ \A n \in BlockNos : disk[n] = latest[n] \/ \E b \in dirty : blockno[b] = n

\* The log keeps its bound.
PinInv == Cardinality(Pinned) <= PinLimit

IInv ==
    /\ TypeOK /\ UniqueBuffer /\ OneHolder /\ NoBuffersPanic
    /\ HashInv /\ HolderInv /\ QueueInv /\ FlagsInv /\ DataInv /\ PinInv
=============================================================================
