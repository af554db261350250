--------------------------- MODULE BufCacheProofs ---------------------------
(***************************************************************************)
(* Proofs about BufCache.tla for every number of processes, buffers and    *)
(* blocks.  IInv of that module is inductive: one lemma per action.        *)
(***************************************************************************)
EXTENDS BufCache, FiniteSetTheorems, WellFoundedInduction, TLAPS

USE DEF flags, procs

-----------------------------------------------------------------------------
(* Facts about the operators *)

\* hash_func gives every block of the disk a slot of its own, because the table
\* is at least as large as the disk.
LEMMA HashFunc ==
    ASSUME NEW n \in BlockNos
    PROVE  hash_func(n) = n /\ n \in 0 .. HASHSIZE - 1
<1>1. n \in Nat /\ n < HASHSIZE /\ HASHSIZE \in Nat
  BY BlocksAssumption, HashAssumption DEF BlockNos
<1>2. n % HASHSIZE = n
  BY <1>1, Z3
<1>3. QED
  BY <1>1, <1>2 DEF hash_func

\* A block that blookup does not find is in no buffer.
LEMMA BlookupNull ==
    ASSUME TypeOK, HashInv, NEW n \in BlockNos, blookup(n) = Null, NEW b \in Bufs
    PROVE  blockno[b] # n
<1>1. SUFFICES ASSUME blockno[b] = n PROVE FALSE
  OBVIOUS
<1>2. n # Null
  BY BlocksAssumption
<1>3. htable[hash_func(n)] = b
  BY <1>1, <1>2 DEF HashInv
<1>4. QED
  BY <1>1, <1>3, BufsAssumption DEF blookup

\* What blookup finds is a buffer of that block.
LEMMA BlookupFound ==
    ASSUME TypeOK, NEW n \in BlockNos, blookup(n) # Null
    PROVE  blookup(n) \in Bufs /\ blockno[blookup(n)] = n
<1>1. hash_func(n) \in 0 .. HASHSIZE - 1
  BY HashFunc
<1>2. htable[hash_func(n)] \in Bufs \cup {Null}
  BY <1>1 DEF TypeOK
<1>3. QED
  BY <1>2 DEF blookup

\* A non-empty set of natural numbers has a least element.
LEMMA LeastNat ==
    ASSUME NEW T, T \subseteq Nat, T # {}
    PROVE  \E x \in T : \A y \in T : x <= y
<1>1. PICK x \in T : \A y \in T : ~(<<y, x>> \in OpToRel(<, Nat))
  BY WFMin, NatLessThanWellFounded
<1>2. \A y \in T : ~(y < x)
  BY <1>1 DEF OpToRel
<1>3. QED
  BY <1>2

\* bget's scan of the list ends at a buffer it may recycle if there is one.
LEMMA VictimRecyclable ==
    ASSUME TypeOK, \E b \in Bufs : Recyclable(b)
    PROVE  Victim \in Bufs /\ Recyclable(Victim)
<1>. DEFINE n == Cardinality(Bufs)
            T == {i \in 1 .. n : Recyclable(lru[i])}
<1>0. n \in Nat
  BY BufsAssumption, FS_CardinalityType
<1>1. lru \in [1 .. n -> Bufs] /\ \A b \in Bufs : \E i \in 1 .. n : lru[i] = b
  BY DEF TypeOK, Lists
<1>2. Len(lru) = n
  BY <1>0, <1>1
<1>3. T # {} /\ T \subseteq Nat
  BY <1>0, <1>1
<1>4. PICK i \in T : \A j \in T : i <= j
  BY <1>3, LeastNat
<1>5. Recyclable(lru[i]) /\ \A j \in 1 .. i - 1 : ~Recyclable(lru[j])
  BY <1>4, <1>0
<1>. DEFINE P(k) == Recyclable(lru[k]) /\ \A j \in 1 .. k - 1 : ~Recyclable(lru[j])
            c == CHOOSE k \in 1 .. Len(lru) : P(k)
<1>6. c \in 1 .. n /\ P(c)
  BY <1>2, <1>5
<1>7. Victim = lru[c]
  BY DEF Victim
<1>. HIDE DEF c
<1>8. QED
  BY <1>1, <1>6, <1>7

\* brelse keeps every buffer on the list.
LEMMA MovedToFrontList ==
    ASSUME TypeOK, NEW b \in Bufs
    PROVE  MovedToFront(b) \in Lists
<1>. DEFINE n == Cardinality(Bufs)
            k == CHOOSE k \in 1 .. Len(lru) : lru[k] = b
            m == MovedToFront(b)
<1>0. n \in Nat
  BY BufsAssumption, FS_CardinalityType
<1>1. lru \in [1 .. n -> Bufs] /\ \A c \in Bufs : \E i \in 1 .. n : lru[i] = c
  BY DEF TypeOK, Lists
<1>2. Len(lru) = n
  BY <1>0, <1>1
<1>3. k \in 1 .. n /\ lru[k] = b
  BY <1>1, <1>2
<1>4. m = [i \in 1 .. n |-> IF i = 1 THEN b ELSE IF i <= k THEN lru[i - 1] ELSE lru[i]]
  BY <1>2 DEF MovedToFront
<1>. HIDE DEF k, m, n
<1>5. m \in [1 .. n -> Bufs]
  BY <1>0, <1>1, <1>3, <1>4
<1>6. ASSUME NEW c \in Bufs PROVE \E i \in 1 .. n : m[i] = c
  <2>1. PICK i \in 1 .. n : lru[i] = c
    BY <1>1
  <2>2. CASE c = b
    BY <2>2, <1>0, <1>3, <1>4
  <2>3. CASE c # b /\ i < k
    <3>1. m[i + 1] = c /\ i + 1 \in 1 .. n
      BY <2>1, <2>3, <1>0, <1>3, <1>4
    <3>2. QED
      BY <3>1
  <2>4. CASE c # b /\ i > k
    BY <2>1, <2>4, <1>0, <1>3, <1>4
  <2>5. QED
    BY <2>1, <2>2, <2>3, <2>4, <1>0, <1>3
<1>7. QED
  BY <1>5, <1>6 DEF Lists, n, m

\* Two processes do not hold the same buffer.
LEMMA HolderUnique ==
    ASSUME TypeOK, OneHolder, HolderInv, NEW p \in Procs, InIderw(p) \/ pc[p] = "hold"
    PROVE  /\ held[p] \in Bufs /\ held[p] \in busy /\ blockno[held[p]] = want[p]
           /\ want[p] \in BlockNos
           /\ \A q \in Procs : (q # p /\ (InIderw(q) \/ pc[q] = "hold")) => held[q] # held[p]
<1>1. held[p] \in busy /\ blockno[held[p]] = want[p] /\ want[p] \in BlockNos
  BY DEF HolderInv, InIderw
<1>2. held[p] \in Bufs
  BY <1>1 DEF TypeOK
<1>3. QED
  BY <1>1, <1>2 DEF OneHolder, Holds

\* The log's bound holds as long as no buffer becomes pinned.
LEMMA PinSubset ==
    ASSUME PinInv, Pinned' \subseteq Pinned
    PROVE  PinInv'
<1>1. IsFiniteSet(Pinned)
  BY BufsAssumption, FS_Subset DEF Pinned
<1>2. IsFiniteSet(Pinned') /\ Cardinality(Pinned') <= Cardinality(Pinned)
  BY <1>1, FS_Subset
<1>3. Cardinality(Pinned) \in Nat /\ Cardinality(Pinned') \in Nat
  BY <1>1, <1>2, FS_CardinalityType
<1>4. QED
  BY <1>2, <1>3, BoundsAssumption DEF PinInv

-----------------------------------------------------------------------------
(* Every action preserves the invariant *)

\* A call of bread changes nothing but the caller's own state.
LEMMA BreadInv ==
    ASSUME IInv, NEW p \in Procs, NEW n \in BlockNos, Bread(p, n)
    PROVE  IInv'
<1>. USE DEF IInv
<1>1. TypeOK'
  BY DEF TypeOK, Bread, PCs
<1>2. UniqueBuffer' /\ NoBuffersPanic'
  BY DEF UniqueBuffer, NoBuffersPanic, Bread
<1>3. OneHolder'
  BY SMTT(15) DEF TypeOK, OneHolder, Holds, InIderw, Bread
<1>4. HashInv'
  BY DEF HashInv, Bread, hash_func
<1>5. HolderInv'
  BY DEF TypeOK, HolderInv, InIderw, Bread
<1>6. QueueInv'
  <2>1. \A q \in Procs : (Waits(q)' <=> Waits(q)) /\ held'[q] = held[q]
    BY DEF TypeOK, Waits, Bread
  <2>2. QED
    BY <2>1 DEF QueueInv, Bread
<1>7. FlagsInv' /\ DataInv'
  BY DEF FlagsInv, DataInv, Bread
<1>8. Pinned' \subseteq Pinned
  BY DEF TypeOK, Pinned, Bread
<1>9. QED
  BY <1>1, <1>2, <1>3, <1>4, <1>5, <1>6, <1>7, <1>8, PinSubset

\* bget takes a free buffer that holds the block.
LEMMA BgetHitInv ==
    ASSUME IInv, NEW p \in Procs, BgetHit(p)
    PROVE  IInv'
<1>. USE DEF IInv
<1>. DEFINE b == blookup(want[p])
<1>0. /\ pc[p] = "bget" /\ want[p] \in BlockNos
      /\ b \in Bufs /\ blockno[b] = want[p] /\ b \notin busy
      /\ busy' = busy \cup {b}
      /\ held' = [held EXCEPT ![p] = b]
      /\ pc' = [pc EXCEPT ![p] = IF b \in valid THEN "hold" ELSE "iderw"]
      /\ UNCHANGED <<blockno, valid, dirty, data, lru, htable, idequeue, xfer, disk, want,
                     latest, panicked>>
  BY BlookupFound DEF BgetHit, HolderInv
<1>. HIDE DEF b
<1>1. TypeOK'
  BY <1>0 DEF TypeOK, PCs
<1>2. UniqueBuffer' /\ NoBuffersPanic'
  BY <1>0 DEF UniqueBuffer, NoBuffersPanic
<1>3. OneHolder'
  <2>1. \A q \in Procs : q # p => \A c \in Bufs : Holds(q, c)' <=> Holds(q, c)
    BY <1>0 DEF TypeOK, Holds, InIderw
  <2>2. \A c \in Bufs : Holds(p, c)' <=> c = b
    BY <1>0 DEF TypeOK, Holds, InIderw
  <2>3. \A q \in Procs : ~Holds(q, b)
    BY <1>0 DEF OneHolder
  <2>4. \A c \in Bufs : ~Holds(p, c)
    BY <1>0 DEF Holds, InIderw
  <2>5. QED
    BY <1>0, <2>1, <2>2, <2>3, <2>4 DEF OneHolder
<1>4. HashInv'
  BY <1>0 DEF HashInv, hash_func
<1>5. HolderInv'
  BY <1>0 DEF TypeOK, HolderInv, InIderw
<1>6. QueueInv'
  <2>1. \A q \in Procs : (Waits(q)' <=> Waits(q)) /\ (Waits(q) => held'[q] = held[q])
    BY <1>0 DEF TypeOK, Waits
  <2>2. QED
    BY <1>0, <2>1 DEF QueueInv
<1>7. FlagsInv' /\ DataInv'
  BY <1>0, BlocksAssumption DEF FlagsInv, DataInv
<1>8. Pinned' \subseteq Pinned
  BY <1>0 DEF TypeOK, Pinned
<1>9. QED
  BY <1>1, <1>2, <1>3, <1>4, <1>5, <1>6, <1>7, <1>8, PinSubset

\* bget goes to sleep on a buffer that is in use.
LEMMA BgetSleepInv ==
    ASSUME IInv, NEW p \in Procs, BgetSleep(p)
    PROVE  IInv'
<1>. USE DEF IInv
<1>. DEFINE b == blookup(want[p])
<1>0. /\ pc[p] = "bget" /\ want[p] \in BlockNos
      /\ b \in Bufs /\ b \in busy
      /\ held' = [held EXCEPT ![p] = b]
      /\ pc' = [pc EXCEPT ![p] = "bsleep"]
      /\ UNCHANGED <<blockno, flags, data, lru, htable, idequeue, xfer, disk, want,
                     latest, panicked>>
  BY BlookupFound DEF BgetSleep, HolderInv
<1>. HIDE DEF b
<1>1. TypeOK'
  BY <1>0 DEF TypeOK, PCs
<1>2. UniqueBuffer' /\ NoBuffersPanic'
  BY <1>0 DEF UniqueBuffer, NoBuffersPanic
<1>3. OneHolder'
  <2>1. \A q \in Procs, c \in Bufs : Holds(q, c)' <=> Holds(q, c)
    BY <1>0 DEF TypeOK, Holds, InIderw
  <2>2. QED
    BY <1>0, <2>1 DEF OneHolder
<1>4. HashInv'
  BY <1>0 DEF HashInv, hash_func
<1>5. HolderInv'
  BY <1>0 DEF TypeOK, HolderInv, InIderw
<1>6. QueueInv'
  <2>1. \A q \in Procs : (Waits(q)' <=> Waits(q)) /\ (Waits(q) => held'[q] = held[q])
    BY <1>0 DEF TypeOK, Waits
  <2>2. QED
    BY <1>0, <2>1 DEF QueueInv
<1>7. FlagsInv' /\ DataInv'
  BY <1>0 DEF FlagsInv, DataInv
<1>8. Pinned' \subseteq Pinned
  BY <1>0 DEF TypeOK, Pinned
<1>9. QED
  BY <1>1, <1>2, <1>3, <1>4, <1>5, <1>6, <1>7, <1>8, PinSubset

\* The buffers in use are fewer than the processes while one process looks for
\* a buffer.
LEMMA BusyBound ==
    ASSUME TypeOK, OneHolder, NEW p \in Procs, pc[p] = "bget"
    PROVE  IsFiniteSet(busy) /\ Cardinality(busy) < Cardinality(Procs)
<1>. DEFINE S == Procs \ {p}
            f == [b \in busy |-> CHOOSE q \in S : Holds(q, b)]
<1>1. \A q \in Procs, b \in busy : Holds(q, b) => q \in S
  BY DEF Holds, InIderw
<1>2. \A b \in busy : \E q \in S : Holds(q, b)
  BY <1>1 DEF OneHolder, TypeOK
<1>3. \A b \in busy : f[b] \in S /\ Holds(f[b], b)
  BY <1>2
<1>. HIDE DEF f
<1>4. \A b, c \in busy : f[b] = f[c] => b = c
  BY <1>3 DEF Holds
<1>5. f \in Injection(busy, S)
  <2>1. f \in [busy -> S]
    BY <1>3 DEF f
  <2>2. QED
    BY <2>1, <1>4 DEF Injection, IsInjective
<1>6. /\ IsFiniteSet(S) /\ Cardinality(S) = Cardinality(Procs) - 1
      /\ Cardinality(Procs) \in Nat
  BY ProcsAssumption, FS_RemoveElement, FS_CardinalityType
<1>7. IsFiniteSet(busy) /\ Cardinality(busy) <= Cardinality(S)
  BY <1>5, <1>6, FS_Injection
<1>8. Cardinality(busy) \in Nat
  BY <1>7, FS_CardinalityType
<1>9. QED
  BY <1>6, <1>7, <1>8

\* bget recycles a buffer, or panics when every buffer is in use or pinned.
LEMMA BgetRecycleInv ==
    ASSUME IInv, NEW p \in Procs, BgetRecycle(p)
    PROVE  IInv'
<1>. USE DEF IInv
<1>n. want[p] \in BlockNos /\ pc[p] = "bget" /\ want[p] # Null
  BY BlocksAssumption DEF HolderInv, BgetRecycle
<1>1. CASE \E b \in Bufs : Recyclable(b)
  <2>. DEFINE b == Victim
  <2>0. /\ b \in Bufs /\ b \notin busy /\ b \notin dirty
        /\ blockno' = [blockno EXCEPT ![b] = want[p]]
        /\ busy' = busy \cup {b}
        /\ valid' = valid \ {b}
        /\ dirty' = dirty
        /\ htable' = [htable EXCEPT ![hash_func(want[p])] = b]
        /\ held' = [held EXCEPT ![p] = b]
        /\ pc' = [pc EXCEPT ![p] = "iderw"]
        /\ UNCHANGED <<panicked, data, lru, idequeue, xfer, disk, want, latest>>
    BY <1>1, VictimRecyclable DEF BgetRecycle, Recyclable
  <2>n. \A c \in Bufs : blockno[c] # want[p]
    BY <1>n, BlookupNull DEF BgetRecycle
  <2>. HIDE DEF b
  <2>1. TypeOK'
    BY <1>n, <2>0 DEF TypeOK, PCs
  <2>2. UniqueBuffer' /\ NoBuffersPanic'
    BY <2>0, <2>n DEF UniqueBuffer, NoBuffersPanic, TypeOK
  <2>3. OneHolder'
    <3>1. \A q \in Procs : q # p => \A c \in Bufs : Holds(q, c)' <=> Holds(q, c)
      BY <2>0 DEF TypeOK, Holds, InIderw
    <3>2. \A c \in Bufs : Holds(p, c)' <=> c = b
      BY <2>0 DEF TypeOK, Holds, InIderw
    <3>3. \A q \in Procs : ~Holds(q, b)
      BY <2>0 DEF OneHolder
    <3>4. \A c \in Bufs : ~Holds(p, c)
      BY <1>n DEF Holds, InIderw
    <3>5. QED
      BY <2>0, <3>1, <3>2, <3>3, <3>4 DEF OneHolder
  <2>4. HashInv'
    <3>1. SUFFICES ASSUME NEW c \in Bufs, blockno'[c] # Null
                   PROVE  htable'[hash_func(blockno'[c])] = c
      BY DEF HashInv, hash_func
    <3>2. hash_func(want[p]) = want[p] /\ want[p] \in 0 .. HASHSIZE - 1
      BY <1>n, HashFunc
    <3>3. CASE c = b
      BY <2>0, <3>2, <3>3 DEF TypeOK
    <3>4. CASE c # b
      <4>1. blockno'[c] = blockno[c] /\ blockno[c] \in BlockNos /\ blockno[c] # want[p]
        BY <2>0, <2>n, <3>1, <3>4 DEF TypeOK
      <4>2. hash_func(blockno[c]) = blockno[c]
        BY <4>1, HashFunc
      <4>3. htable[hash_func(blockno[c])] = c
        BY <4>1, <3>1 DEF HashInv
      <4>4. QED
        BY <2>0, <3>2, <4>1, <4>2, <4>3 DEF TypeOK
    <3>5. QED
      BY <3>3, <3>4
  <2>5. HolderInv'
    <3>1. \A q \in Procs : (q # p /\ (InIderw(q) \/ pc[q] = "hold")) => held[q] # b
      BY <2>0 DEF HolderInv
    <3>2. SUFFICES ASSUME NEW q \in Procs
                   PROVE  /\ pc'[q] \in {"idle", "bget"} => held'[q] = Null
                          /\ pc'[q] # "idle" => want'[q] \in BlockNos
                          /\ pc'[q] = "bsleep" => held'[q] \in busy'
                          /\ InIderw(q)' \/ pc'[q] = "hold" =>
                                 held'[q] \in busy' /\ blockno'[held'[q]] = want'[q]
                          /\ pc'[q] \in {"iderw", "io"} => held'[q] \notin valid' \ dirty'
                          /\ pc'[q] = "hold" => held'[q] \in valid'
      BY DEF HolderInv
    <3>3. CASE q = p
      BY <3>3, <1>n, <2>0 DEF TypeOK, HolderInv, InIderw
    <3>4. CASE q # p
      BY <3>1, <3>4, <1>n, <2>0 DEF TypeOK, HolderInv, InIderw
    <3>5. QED
      BY <3>3, <3>4
  <2>6. QueueInv'
    <3>1. \A q \in Procs : pc[q] \in {"io", "io_woken"} => held[q] # b
      BY <2>0 DEF HolderInv, InIderw
    <3>2. \A q \in Procs : (Waits(q)' <=> Waits(q)) /\ (Waits(q) => held'[q] = held[q])
      BY <1>n, <2>0, <3>1 DEF TypeOK, Waits
    <3>3. QED
      BY <2>0, <3>2 DEF QueueInv
  <2>7. FlagsInv'
    BY <1>n, <2>0 DEF FlagsInv, TypeOK
  <2>8. DataInv'
    BY <1>n, <2>0, <2>n DEF DataInv, TypeOK
  <2>9. Pinned' \subseteq Pinned
    BY <1>n, <2>0 DEF TypeOK, Pinned
  <2>10. QED
    BY <2>1, <2>2, <2>3, <2>4, <2>5, <2>6, <2>7, <2>8, <2>9, PinSubset
<1>2. CASE ~\E b \in Bufs : Recyclable(b)
  <2>0. /\ panicked' = TRUE
        /\ UNCHANGED <<blockno, flags, htable, held, pc>>
        /\ UNCHANGED <<data, lru, idequeue, xfer, disk, want, latest>>
    BY <1>2 DEF BgetRecycle
  <2>1. Bufs = busy \cup Pinned
    <3>1. \A b \in Bufs : b \in busy \/ b \in dirty
      BY <1>2 DEF Recyclable
    <3>2. \A b \in Bufs : b \notin busy => b \in Pinned
      BY <3>1 DEF Pinned, HolderInv, InIderw
    <3>3. QED
      BY <3>2 DEF Pinned, TypeOK
  <2>2. IsFiniteSet(busy) /\ Cardinality(busy) < Cardinality(Procs)
    BY <1>n, BusyBound
  <2>3. IsFiniteSet(Pinned)
    BY BufsAssumption, FS_Subset DEF Pinned
  <2>4. Cardinality(Bufs) =
            Cardinality(busy) + Cardinality(Pinned) - Cardinality(busy \cap Pinned)
    BY <2>1, <2>2, <2>3, FS_Union
  <2>5. IsFiniteSet(busy \cap Pinned)
    BY <2>2, FS_Subset
  <2>6. /\ Cardinality(busy) \in Nat /\ Cardinality(Pinned) \in Nat
        /\ Cardinality(busy \cap Pinned) \in Nat /\ Cardinality(Procs) \in Nat
    BY <2>2, <2>3, <2>5, ProcsAssumption, FS_CardinalityType
  <2>7. ~(PinLimit + Cardinality(Procs) <= Cardinality(Bufs))
    BY <2>2, <2>4, <2>6, BoundsAssumption DEF PinInv
  <2>8. NoBuffersPanic'
    BY <2>7 DEF NoBuffersPanic
  <2>9. TypeOK'
    BY <2>0 DEF TypeOK
  <2>q. OneHolder' /\ QueueInv'
    BY <2>0, SMTT(15) DEF OneHolder, QueueInv, InIderw, Holds, Waits
  <2>10. UniqueBuffer' /\ HashInv' /\ HolderInv' /\ FlagsInv' /\ DataInv'
    BY <2>0 DEF UniqueBuffer, HashInv, HolderInv, FlagsInv, DataInv, InIderw, hash_func
  <2>11. Pinned' \subseteq Pinned
    BY <2>0 DEF Pinned
  <2>12. QED
    BY <2>8, <2>9, <2>q, <2>10, <2>11, PinSubset
<1>3. QED
  BY <1>1, <1>2

\* log_write pins the buffer; the data goes to the buffer only.
LEMMA LogWriteInv ==
    ASSUME IInv, NEW p \in Procs, NEW v \in Values, LogWrite(p, v)
    PROVE  IInv'
<1>. USE DEF IInv
<1>. DEFINE b == held[p]
<1>0. /\ pc[p] = "hold"
      /\ Cardinality(Pinned \cup {b}) <= PinLimit
      /\ data' = [data EXCEPT ![b] = v]
      /\ dirty' = dirty \cup {b}
      /\ latest' = [latest EXCEPT ![want[p]] = v]
      /\ UNCHANGED <<blockno, busy, valid, lru, htable, idequeue, xfer, disk, procs, panicked>>
  BY DEF LogWrite
<1>n. /\ b \in Bufs /\ b \in busy /\ blockno[b] = want[p] /\ want[p] \in BlockNos
      /\ \A q \in Procs : (q # p /\ (InIderw(q) \/ pc[q] = "hold")) => held[q] # b
  BY <1>0, HolderUnique
<1>. HIDE DEF b
<1>1. TypeOK'
  BY <1>0, <1>n DEF TypeOK
<1>2. UniqueBuffer' /\ NoBuffersPanic'
  BY <1>0 DEF UniqueBuffer, NoBuffersPanic
<1>3. OneHolder'
  BY <1>0, SMTT(15) DEF OneHolder, Holds, InIderw
<1>4. HashInv'
  BY <1>0 DEF HashInv, hash_func
<1>5. HolderInv'
  BY <1>0, <1>n DEF HolderInv, InIderw
<1>6. QueueInv'
  <2>1. idequeue # <<>> => data'[Head(idequeue)] = data[Head(idequeue)]
    <3>1. SUFFICES ASSUME idequeue # <<>> PROVE Head(idequeue) # b
      BY <1>0 DEF TypeOK
    <3>2. Head(idequeue) = idequeue[1] /\ 1 \in 1 .. Len(idequeue)
      BY <3>1 DEF TypeOK
    <3>3. PICK q \in Procs : Waits(q) /\ held[q] = idequeue[1]
      BY <3>2 DEF QueueInv
    <3>4. QED
      BY <1>0, <1>n, <3>2, <3>3 DEF InIderw, Waits
  <2>2. \A q \in Procs : Waits(q)' <=> Waits(q)
    BY <1>0, <1>n DEF Waits, InIderw
  <2>3. QED
    BY <1>0, <2>1, <2>2 DEF QueueInv
<1>7. FlagsInv'
  BY <1>0, <1>n, BlocksAssumption DEF FlagsInv
<1>8. DataInv'
  <2>1. SUFFICES ASSUME ~ReadErrors
                 PROVE  /\ \A c \in valid' \cup dirty' : data'[c] = latest'[blockno'[c]]
                        /\ \A n \in BlockNos : disk'[n] = latest'[n]
                                                  \/ \E c \in dirty' : blockno'[c] = n
    BY DEF DataInv
  <2>2. \A c \in Bufs : c # b => blockno[c] # want[p]
    BY <1>n, BlocksAssumption DEF UniqueBuffer
  <2>3. ASSUME NEW c \in valid' \cup dirty' PROVE data'[c] = latest'[blockno'[c]]
    <3>1. CASE c = b
      BY <3>1, <1>0, <1>n DEF TypeOK
    <3>2. CASE c # b
      <4>1. c \in valid \cup dirty /\ c \in Bufs /\ blockno[c] \in BlockNos
        BY <3>2, <2>3, <1>0 DEF TypeOK, FlagsInv
      <4>2. QED
        BY <3>2, <4>1, <2>1, <2>2, <1>0, <1>n DEF TypeOK, DataInv
    <3>3. QED
      BY <3>1, <3>2
  <2>4. ASSUME NEW n \in BlockNos
        PROVE  disk'[n] = latest'[n] \/ \E c \in dirty' : blockno'[c] = n
    BY <2>1, <1>0, <1>n DEF TypeOK, DataInv
  <2>5. QED
    BY <2>3, <2>4
<1>9. PinInv'
  <2>1. Pinned' \subseteq Pinned \cup {b}
    BY <1>0 DEF Pinned
  <2>2. IsFiniteSet(Pinned)
    BY BufsAssumption, FS_Subset DEF Pinned
  <2>3. IsFiniteSet(Pinned \cup {b})
    BY <2>2, FS_AddElement
  <2>4. IsFiniteSet(Pinned') /\ Cardinality(Pinned') <= Cardinality(Pinned \cup {b})
    BY <2>1, <2>3, FS_Subset
  <2>5. Cardinality(Pinned \cup {b}) \in Nat /\ Cardinality(Pinned') \in Nat
    BY <2>3, <2>4, FS_CardinalityType
  <2>6. Cardinality(Pinned \cup {b}) <= PinLimit
    BY <1>0
  <2>7. QED
    BY <2>4, <2>5, <2>6, BoundsAssumption DEF PinInv
<1>10. QED
  BY <1>1, <1>2, <1>3, <1>4, <1>5, <1>6, <1>7, <1>8, <1>9

\* bwrite marks the buffer dirty and goes on to iderw.
LEMMA BwriteInv ==
    ASSUME IInv, NEW p \in Procs, NEW v \in Values, Bwrite(p, v)
    PROVE  IInv'
<1>. USE DEF IInv
<1>. DEFINE b == held[p]
<1>n. /\ b \in Bufs /\ b \in busy /\ blockno[b] = want[p] /\ want[p] \in BlockNos
      /\ \A q \in Procs : (q # p /\ (InIderw(q) \/ pc[q] = "hold")) => held[q] # b
  BY HolderUnique DEF Bwrite
<1>0. /\ pc[p] = "hold" /\ ~panicked /\ ~panicked'
      /\ data' = [data EXCEPT ![b] = v]
      /\ dirty' = dirty \cup {b}
      /\ latest' = [latest EXCEPT ![want[p]] = v]
      /\ pc' = [pc EXCEPT ![p] = "iderw"]
      /\ UNCHANGED <<blockno, busy, valid, lru, htable, idequeue, xfer, disk, want, held>>
      /\ panicked' \in BOOLEAN
  BY <1>n DEF Bwrite
<1>b. held[p] = b
  OBVIOUS
<1>. HIDE DEF b
<1>1. TypeOK'
  BY <1>0, <1>n DEF TypeOK, PCs
<1>2. UniqueBuffer' /\ NoBuffersPanic'
  BY <1>0 DEF UniqueBuffer, NoBuffersPanic
<1>3. OneHolder'
  <2>1. \A q \in Procs, c \in Bufs : Holds(q, c)' <=> Holds(q, c)
    BY <1>0 DEF TypeOK, Holds, InIderw
  <2>2. QED
    BY <1>0, <2>1 DEF OneHolder
<1>4. HashInv'
  BY <1>0 DEF HashInv, hash_func
<1>5. HolderInv'
  BY <1>0, <1>b, <1>n DEF TypeOK, HolderInv, InIderw
<1>6. QueueInv'
  <2>1. idequeue # <<>> => data'[Head(idequeue)] = data[Head(idequeue)]
    <3>1. SUFFICES ASSUME idequeue # <<>> PROVE Head(idequeue) # b
      BY <1>0 DEF TypeOK
    <3>2. Head(idequeue) = idequeue[1] /\ 1 \in 1 .. Len(idequeue)
      BY <3>1 DEF TypeOK
    <3>3. PICK q \in Procs : Waits(q) /\ held[q] = idequeue[1]
      BY <3>2 DEF QueueInv
    <3>4. QED
      BY <1>0, <1>n, <3>2, <3>3 DEF InIderw, Waits
  <2>2. \A q \in Procs : Waits(q)' <=> Waits(q)
    BY <1>0, <1>n DEF TypeOK, Waits, InIderw
  <2>3. QED
    BY <1>0, <2>1, <2>2 DEF QueueInv
<1>7. FlagsInv'
  BY <1>0, <1>n, BlocksAssumption DEF FlagsInv
<1>8. DataInv'
  <2>1. SUFFICES ASSUME ~ReadErrors
                 PROVE  /\ \A c \in valid' \cup dirty' : data'[c] = latest'[blockno'[c]]
                        /\ \A n \in BlockNos : disk'[n] = latest'[n]
                                                  \/ \E c \in dirty' : blockno'[c] = n
    BY DEF DataInv
  <2>2. \A c \in Bufs : c # b => blockno[c] # want[p]
    BY <1>n, BlocksAssumption DEF UniqueBuffer
  <2>3. ASSUME NEW c \in valid' \cup dirty' PROVE data'[c] = latest'[blockno'[c]]
    <3>1. CASE c = b
      BY <3>1, <1>0, <1>n DEF TypeOK
    <3>2. CASE c # b
      <4>1. c \in valid \cup dirty /\ c \in Bufs /\ blockno[c] \in BlockNos
        BY <3>2, <2>3, <1>0 DEF TypeOK, FlagsInv
      <4>2. QED
        BY <3>2, <4>1, <2>1, <2>2, <1>0, <1>n DEF TypeOK, DataInv
    <3>3. QED
      BY <3>1, <3>2
  <2>4. ASSUME NEW n \in BlockNos
        PROVE  disk'[n] = latest'[n] \/ \E c \in dirty' : blockno'[c] = n
    BY <2>1, <1>0, <1>n DEF TypeOK, DataInv
  <2>5. QED
    BY <2>3, <2>4
<1>9. Pinned' \subseteq Pinned
  BY <1>0, <1>b DEF TypeOK, Pinned
<1>10. QED
  BY <1>1, <1>2, <1>3, <1>4, <1>5, <1>6, <1>7, <1>8, <1>9, PinSubset

\* brelse frees the buffer and wakes the processes that sleep on it in bget.
LEMMA BrelseInv ==
    ASSUME IInv, NEW p \in Procs, Brelse(p)
    PROVE  IInv'
<1>. USE DEF IInv
<1>. DEFINE b == held[p]
<1>n. /\ b \in Bufs /\ b \in busy /\ blockno[b] = want[p] /\ want[p] \in BlockNos
      /\ \A q \in Procs : (q # p /\ (InIderw(q) \/ pc[q] = "hold")) => held[q] # b
      /\ pc[p] = "hold"
  BY HolderUnique DEF Brelse
<1>0. /\ ~panicked /\ ~panicked' /\ panicked' \in BOOLEAN
      /\ lru' = MovedToFront(b)
      /\ busy' = busy \ {b}
      /\ want' = [want EXCEPT ![p] = Null]
      /\ UNCHANGED <<blockno, valid, dirty, data, htable, idequeue, xfer, disk, latest>>
  BY <1>n DEF Brelse
<1>p. /\ pc' \in [Procs -> PCs] /\ held' \in [Procs -> Bufs \cup {Null}]
      /\ pc'[p] = "idle" /\ held'[p] = Null
      /\ \A q \in Procs \ {p} :
             IF pc[q] = "bsleep" /\ held[q] = b
             THEN pc'[q] = "bget" /\ held'[q] = Null
             ELSE pc'[q] = pc[q] /\ held'[q] = held[q]
  <2>1. /\ pc' = Woken([pc EXCEPT ![p] = "idle"], b)
        /\ held' = [HeldAfterWakeup(b) EXCEPT ![p] = Null]
    BY DEF Brelse
  <2>2. pc \in [Procs -> PCs] /\ held \in [Procs -> Bufs \cup {Null}]
    BY DEF TypeOK
  <2>3. \A q \in Procs : q # p /\ pc[q] \in {"io", "io_woken"} => held[q] # b
    BY <1>n DEF InIderw
  <2>. HIDE DEF b
  <2>4. held' \in [Procs -> Bufs \cup {Null}]
    BY <2>1, <2>2 DEF HeldAfterWakeup
  <2>5. pc' \in [Procs -> PCs]
    BY <2>1, <2>2 DEF Woken, PCs
  <2>6. QED
    BY <2>1, <2>2, <2>3, <2>4, <2>5 DEF Woken, HeldAfterWakeup
<1>b. held[p] = b
  OBVIOUS
<1>. HIDE DEF b
<1>1. TypeOK'
  <2>1. lru' \in Lists'
    BY <1>0, <1>n, MovedToFrontList DEF Lists
  <2>2. want' \in [Procs -> BlockNos \cup {Null}]
    BY <1>0 DEF TypeOK
  <2>3. QED
    BY <1>0, <1>p, <2>1, <2>2 DEF TypeOK
<1>2. UniqueBuffer' /\ NoBuffersPanic'
  BY <1>0 DEF UniqueBuffer, NoBuffersPanic
<1>3. OneHolder'
  <2>1. \A q \in Procs \ {p}, c \in Bufs : Holds(q, c)' <=> Holds(q, c)
    BY <1>p, BufsAssumption DEF Holds, InIderw
  <2>2. \A c \in Bufs : ~Holds(p, c)' /\ (Holds(p, c) <=> c = b)
    BY <1>p, <1>n, <1>b DEF Holds, InIderw
  <2>3. \A q \in Procs \ {p} : ~Holds(q, b)
    BY <1>n DEF Holds
  <2>4. QED
    BY <1>0, <2>1, <2>2, <2>3 DEF OneHolder
<1>4. HashInv'
  BY <1>0 DEF HashInv, hash_func
<1>5. HolderInv'
  <2>1. SUFFICES ASSUME NEW q \in Procs
                 PROVE  /\ pc'[q] \in {"idle", "bget"} => held'[q] = Null
                        /\ pc'[q] # "idle" => want'[q] \in BlockNos
                        /\ pc'[q] = "bsleep" => held'[q] \in busy'
                        /\ InIderw(q)' \/ pc'[q] = "hold" =>
                               held'[q] \in busy' /\ blockno'[held'[q]] = want'[q]
                        /\ pc'[q] \in {"iderw", "io"} => held'[q] \notin valid' \ dirty'
                        /\ pc'[q] = "hold" => held'[q] \in valid'
    BY DEF HolderInv
  <2>2. CASE q = p
    BY <2>2, <1>p DEF InIderw
  <2>3. CASE q # p
    <3>1. want'[q] = want[q]
      BY <2>3, <1>0 DEF TypeOK
    <3>2. QED
      BY <2>3, <3>1, <1>0, <1>p, <1>n DEF HolderInv, InIderw
  <2>4. QED
    BY <2>2, <2>3
<1>6. QueueInv'
  <2>1. \A q \in Procs : (Waits(q)' <=> Waits(q)) /\ (Waits(q) => held'[q] = held[q])
    BY <1>0, <1>p, <1>n DEF Waits
  <2>2. QED
    BY <1>0, <2>1 DEF QueueInv
<1>7. FlagsInv' /\ DataInv'
  BY <1>0 DEF FlagsInv, DataInv
<1>8. Pinned' \subseteq Pinned
  <2>1. \A q \in Procs : InIderw(q) => (InIderw(q)' /\ held'[q] = held[q])
    BY <1>p, <1>n DEF InIderw
  <2>2. QED
    BY <1>0, <2>1 DEF Pinned, InIderw
<1>9. QED
  BY <1>1, <1>2, <1>3, <1>4, <1>5, <1>6, <1>7, <1>8, PinSubset

\* iderw appends the buffer to the queue; it has something to do.
LEMMA IderwInv ==
    ASSUME IInv, NEW p \in Procs, Iderw(p)
    PROVE  IInv'
<1>. USE DEF IInv
<1>. DEFINE b == held[p]
            n == Len(idequeue)
<1>n. /\ b \in Bufs /\ b \in busy /\ blockno[b] = want[p] /\ want[p] \in BlockNos
      /\ \A q \in Procs : (q # p /\ (InIderw(q) \/ pc[q] = "hold")) => held[q] # b
      /\ pc[p] = "iderw" /\ ~(b \in valid \ dirty)
  BY HolderUnique DEF Iderw, InIderw, HolderInv
<1>0. /\ ~panicked /\ ~panicked' /\ panicked' \in BOOLEAN
      /\ idequeue' = Append(idequeue, b)
      /\ xfer' = IF idequeue = <<>> THEN data[b] ELSE xfer
      /\ pc' = [pc EXCEPT ![p] = "io"]
      /\ UNCHANGED <<blockno, flags, data, lru, htable, disk, want, held, latest>>
  BY <1>n DEF Iderw
<1>b. held[p] = b
  OBVIOUS
<1>. HIDE DEF b
<1>q. /\ idequeue' \in Seq(Bufs) /\ n \in Nat /\ Len(idequeue') = n + 1
      /\ \A i \in 1 .. n : idequeue'[i] = idequeue[i]
      /\ idequeue'[n + 1] = b
  BY <1>0, <1>n, SMTT(15) DEF TypeOK
<1>1. TypeOK'
  BY <1>0, <1>n, <1>q DEF TypeOK, PCs
<1>2. UniqueBuffer' /\ NoBuffersPanic'
  BY <1>0 DEF UniqueBuffer, NoBuffersPanic
<1>3. OneHolder'
  <2>1. \A q \in Procs, c \in Bufs : Holds(q, c)' <=> Holds(q, c)
    BY <1>0, <1>n DEF TypeOK, Holds, InIderw
  <2>2. QED
    BY <1>0, <2>1 DEF OneHolder
<1>4. HashInv'
  BY <1>0 DEF HashInv, hash_func
<1>5. HolderInv'
  BY <1>0, <1>b, <1>n DEF TypeOK, HolderInv, InIderw
<1>6. QueueInv'
  <2>1. \A q \in Procs : Waits(q)' <=> (Waits(q) \/ q = p)
    BY <1>0, <1>n, <1>b DEF TypeOK, Waits
  <2>2. \A q \in Procs : held'[q] = held[q]
    BY <1>0
  <2>3. \A i \in 1 .. n : idequeue[i] # b
    <3>1. SUFFICES ASSUME NEW i \in 1 .. n PROVE idequeue[i] # b
      OBVIOUS
    <3>2. PICK q \in Procs : Waits(q) /\ held[q] = idequeue[i]
      BY <3>1 DEF QueueInv
    <3>3. QED
      BY <3>2, <1>n DEF InIderw, Waits
  <2>. HIDE DEF n
  <2>4. \A q \in Procs : Waits(q)' =>
            \E i \in 1 .. Len(idequeue') : idequeue'[i] = held'[q]
    <3>1. SUFFICES ASSUME NEW q \in Procs, Waits(q)'
                   PROVE  \E i \in 1 .. n + 1 : idequeue'[i] = held[q]
      BY <1>q, <2>2
    <3>2. CASE q = p
      BY <3>2, <1>q, <1>b
    <3>3. CASE q # p
      <4>1. PICK i \in 1 .. n : idequeue[i] = held[q]
        BY <3>1, <3>3, <2>1 DEF QueueInv, n
      <4>2. QED
        BY <4>1, <1>q
    <3>4. QED
      BY <3>2, <3>3
  <2>5. \A i \in 1 .. Len(idequeue') :
            \E q \in Procs : Waits(q)' /\ held'[q] = idequeue'[i]
    <3>1. SUFFICES ASSUME NEW i \in 1 .. n + 1
                   PROVE  \E q \in Procs : Waits(q)' /\ held'[q] = idequeue'[i]
      BY <1>q
    <3>2. CASE i = n + 1
      BY <3>2, <1>q, <1>b, <2>1, <2>2
    <3>3. CASE i \in 1 .. n
      BY <3>3, <1>q, <2>1, <2>2, SMTT(15) DEF QueueInv, n
    <3>4. QED
      BY <3>2, <3>3, <1>q
  <2>6. \A i, j \in 1 .. Len(idequeue') : idequeue'[i] = idequeue'[j] => i = j
    <3>1. \A i, j \in 1 .. n : idequeue[i] = idequeue[j] => i = j
      BY DEF QueueInv, n
    <3>2. QED
      BY <3>1, <1>q, <2>3
  <2>7. idequeue' # <<>> => xfer' = data'[Head(idequeue')]
    <3>1. CASE idequeue = <<>>
      <4>1. Head(idequeue') = b
        BY <3>1, <1>0, <1>n
      <4>2. QED
        BY <3>1, <4>1, <1>0
    <3>2. CASE idequeue # <<>>
      <4>1. Head(idequeue') = Head(idequeue)
        BY <3>2, <1>0, <1>n DEF TypeOK
      <4>2. QED
        BY <3>2, <4>1, <1>0 DEF QueueInv
    <3>3. QED
      BY <3>1, <3>2
  <2>8. QED
    BY <2>4, <2>5, <2>6, <2>7 DEF QueueInv
<1>7. FlagsInv' /\ DataInv'
  BY <1>0 DEF FlagsInv, DataInv
<1>8. Pinned' \subseteq Pinned
  BY <1>0, <1>n DEF TypeOK, Pinned
<1>9. QED
  BY <1>1, <1>2, <1>3, <1>4, <1>5, <1>6, <1>7, <1>8, PinSubset

\* A process that was woken in iderw returns if its buffer is valid and clean,
\* and sleeps again if kill woke it.
LEMMA IderwCheckInv ==
    ASSUME IInv, NEW p \in Procs, IderwCheck(p)
    PROVE  IInv'
<1>. USE DEF IInv
<1>0. /\ pc[p] = "io_woken"
      /\ pc' = [pc EXCEPT ![p] = IF held[p] \in valid \ dirty THEN "hold" ELSE "io"]
      /\ UNCHANGED <<blockno, flags, data, lru, htable, idequeue, xfer, disk, want, held,
                     latest, panicked>>
  BY DEF IderwCheck
<1>1. TypeOK'
  BY <1>0 DEF TypeOK, PCs
<1>2. UniqueBuffer' /\ NoBuffersPanic'
  BY <1>0 DEF UniqueBuffer, NoBuffersPanic
<1>3. OneHolder'
  <2>1. \A q \in Procs, c \in Bufs : Holds(q, c)' <=> Holds(q, c)
    BY <1>0 DEF TypeOK, Holds, InIderw
  <2>2. QED
    BY <1>0, <2>1 DEF OneHolder
<1>4. HashInv'
  BY <1>0 DEF HashInv, hash_func
<1>5. HolderInv'
  BY <1>0 DEF TypeOK, HolderInv, InIderw
<1>6. QueueInv'
  <2>1. \A q \in Procs : Waits(q)' <=> Waits(q)
    BY <1>0 DEF TypeOK, Waits
  <2>2. QED
    BY <1>0, <2>1 DEF QueueInv
<1>7. FlagsInv' /\ DataInv'
  BY <1>0 DEF FlagsInv, DataInv
<1>8. Pinned' \subseteq Pinned
  BY <1>0 DEF TypeOK, Pinned
<1>9. QED
  BY <1>1, <1>2, <1>3, <1>4, <1>5, <1>6, <1>7, <1>8, PinSubset

\* kill makes a sleeper test its condition again.
LEMMA KillInv ==
    ASSUME IInv, NEW p \in Procs, Kill(p)
    PROVE  IInv'
<1>. USE DEF IInv
<1>0. /\ UNCHANGED <<blockno, flags, data, lru, htable, idequeue, xfer, disk, want,
                     latest, panicked>>
      /\ \/ /\ pc[p] = "bsleep" /\ pc' = [pc EXCEPT ![p] = "bget"]
            /\ held' = [held EXCEPT ![p] = Null]
         \/ pc[p] = "io" /\ pc' = [pc EXCEPT ![p] = "io_woken"] /\ held' = held
  BY DEF Kill
<1>1. TypeOK'
  BY <1>0 DEF TypeOK, PCs
<1>2. UniqueBuffer' /\ NoBuffersPanic'
  BY <1>0 DEF UniqueBuffer, NoBuffersPanic
<1>3. OneHolder'
  <2>1. \A q \in Procs, c \in Bufs : Holds(q, c)' <=> Holds(q, c)
    BY <1>0 DEF TypeOK, Holds, InIderw
  <2>2. QED
    BY <1>0, <2>1 DEF OneHolder
<1>4. HashInv'
  BY <1>0 DEF HashInv, hash_func
<1>5. HolderInv'
  BY <1>0 DEF TypeOK, HolderInv, InIderw
<1>6. QueueInv'
  <2>1. \A q \in Procs : (Waits(q)' <=> Waits(q)) /\ (Waits(q) => held'[q] = held[q])
    BY <1>0 DEF TypeOK, Waits
  <2>2. QED
    BY <1>0, <2>1 DEF QueueInv
<1>7. FlagsInv' /\ DataInv'
  BY <1>0 DEF FlagsInv, DataInv
<1>8. Pinned' \subseteq Pinned
  BY <1>0 DEF TypeOK, Pinned
<1>9. QED
  BY <1>1, <1>2, <1>3, <1>4, <1>5, <1>6, <1>7, <1>8, PinSubset

\* The interrupt completes the request of the one process that waits for it.
LEMMA ideintrInv ==
    ASSUME IInv, ideintr
    PROVE  IInv'
<1>. USE DEF IInv
<1>. DEFINE b == Head(idequeue)
            n == Len(idequeue)
<1>q. /\ n \in Nat /\ n > 0 /\ b = idequeue[1] /\ b \in Bufs
      /\ idequeue' \in Seq(Bufs) /\ Len(idequeue') = n - 1
      /\ \A i \in 1 .. n - 1 : idequeue'[i] = idequeue[i + 1]
      /\ idequeue' = Tail(idequeue)
  BY SMTT(15) DEF ideintr, TypeOK
<1>r. PICK r \in Procs : Waits(r) /\ held[r] = b
  BY <1>q DEF QueueInv
<1>w. pc[r] \in {"io", "io_woken"} /\ b \notin valid \ dirty
  BY <1>r DEF Waits
<1>n. /\ b \in busy /\ blockno[b] = want[r] /\ want[r] \in BlockNos
      /\ \A q \in Procs : (q # r /\ (InIderw(q) \/ pc[q] = "hold")) => held[q] # b
      /\ b \notin valid \/ b \in dirty
  <2>1. InIderw(r)
    BY <1>w DEF InIderw
  <2>2. b \notin valid \/ b \in dirty
    BY <1>w
  <2>3. QED
    BY <1>r, <2>1, <2>2, HolderUnique
<1>0. /\ IF b \in dirty
         THEN disk' = [disk EXCEPT ![blockno[b]] = xfer] /\ UNCHANGED data
         ELSE /\ UNCHANGED disk
              /\ \/ data' = [data EXCEPT ![b] = disk[blockno[b]]]
                 \/ ReadErrors /\ UNCHANGED data
      /\ valid' = valid \cup {b}
      /\ dirty' = dirty \ {b}
      /\ xfer' = IF Tail(idequeue) = <<>> THEN xfer ELSE data[Head(Tail(idequeue))]
      /\ UNCHANGED <<blockno, busy, lru, htable, want, latest, panicked>>
  BY DEF ideintr
<1>p. /\ pc' \in [Procs -> PCs] /\ held' \in [Procs -> Bufs \cup {Null}]
      /\ pc'[r] = "io_woken" /\ held'[r] = b
      /\ \A q \in Procs \ {r} :
             IF pc[q] = "bsleep" /\ held[q] = b
             THEN pc'[q] = "bget" /\ held'[q] = Null
             ELSE pc'[q] = pc[q] /\ held'[q] = held[q]
  <2>1. pc' = Woken(pc, b) /\ held' = HeldAfterWakeup(b)
    BY DEF ideintr
  <2>2. pc \in [Procs -> PCs] /\ held \in [Procs -> Bufs \cup {Null}]
    BY DEF TypeOK
  <2>3. \A q \in Procs \ {r} : pc[q] = "io" => held[q] # b
    BY <1>n DEF InIderw
  <2>. HIDE DEF b
  <2>4. held' \in [Procs -> Bufs \cup {Null}]
    BY <2>1, <2>2 DEF HeldAfterWakeup
  <2>5. pc' \in [Procs -> PCs]
    BY <2>1, <2>2 DEF Woken, PCs
  <2>6. QED
    BY <1>r, <1>w, <2>1, <2>2, <2>3, <2>4, <2>5 DEF Woken, HeldAfterWakeup
<1>. HIDE DEF b
<1>d. data' \in [Bufs -> Values] /\ disk' \in [BlockNos -> Values] /\ xfer' \in Values
      /\ \A c \in Bufs \ {b} : data'[c] = data[c]
  <2>1. blockno[b] \in BlockNos
    BY <1>n
  <2>2. Tail(idequeue) # <<>> => Head(Tail(idequeue)) \in Bufs
    BY <1>q
  <2>3. xfer \in Values /\ data \in [Bufs -> Values] /\ disk \in [BlockNos -> Values]
    BY DEF TypeOK
  <2>4. xfer' \in Values
    BY <1>0, <2>2, <2>3
  <2>5. CASE b \in dirty
    BY <2>1, <2>3, <2>4, <2>5, <1>0
  <2>6. CASE b \notin dirty
    <3>1. disk' = disk
      BY <2>6, <1>0
    <3>2. data' = [data EXCEPT ![b] = disk[blockno[b]]] \/ data' = data
      BY <2>6, <1>0
    <3>3. data' \in [Bufs -> Values] /\ \A c \in Bufs \ {b} : data'[c] = data[c]
      BY <3>2, <2>1, <2>3, <1>q
    <3>4. QED
      BY <3>1, <3>3, <2>3, <2>4
  <2>7. QED
    BY <2>5, <2>6
<1>1. TypeOK'
  BY <1>0, <1>p, <1>d, <1>q DEF TypeOK
<1>2. UniqueBuffer' /\ NoBuffersPanic'
  BY <1>0 DEF UniqueBuffer, NoBuffersPanic
<1>3. OneHolder'
  <2>1. \A q \in Procs \ {r}, c \in Bufs : Holds(q, c)' <=> Holds(q, c)
    BY <1>p, BufsAssumption DEF Holds, InIderw
  <2>2. \A c \in Bufs : Holds(r, c)' <=> Holds(r, c)
    BY <1>p, <1>r, <1>w DEF Holds, InIderw
  <2>3. QED
    BY <1>0, <2>1, <2>2 DEF OneHolder
<1>4. HashInv'
  BY <1>0 DEF HashInv, hash_func
<1>5. HolderInv'
  <2>1. SUFFICES ASSUME NEW q \in Procs
                 PROVE  /\ pc'[q] \in {"idle", "bget"} => held'[q] = Null
                        /\ pc'[q] # "idle" => want'[q] \in BlockNos
                        /\ pc'[q] = "bsleep" => held'[q] \in busy'
                        /\ InIderw(q)' \/ pc'[q] = "hold" =>
                               held'[q] \in busy' /\ blockno'[held'[q]] = want'[q]
                        /\ pc'[q] \in {"iderw", "io"} => held'[q] \notin valid' \ dirty'
                        /\ pc'[q] = "hold" => held'[q] \in valid'
    BY DEF HolderInv
  <2>2. CASE q = r
    BY <2>2, <1>0, <1>p, <1>n, <1>w DEF HolderInv, InIderw
  <2>3. CASE q # r
    BY <2>3, <1>0, <1>p, <1>n DEF HolderInv, InIderw
  <2>4. QED
    BY <2>2, <2>3
<1>6. QueueInv'
  <2>1. \A q \in Procs : Waits(q)' => (Waits(q) /\ held'[q] = held[q] /\ held[q] # b)
    <3>1. SUFFICES ASSUME NEW q \in Procs, Waits(q)'
                   PROVE  Waits(q) /\ held'[q] = held[q] /\ held[q] # b
      OBVIOUS
    <3>2. q # r
      BY <3>1, <1>0, <1>p DEF Waits
    <3>3. pc[q] \in {"io", "io_woken"} /\ held'[q] = held[q] /\ pc'[q] = pc[q]
      BY <3>1, <3>2, <1>p DEF Waits
    <3>4. held[q] # b
      BY <3>2, <3>3, <1>n DEF InIderw
    <3>5. QED
      BY <3>1, <3>3, <3>4, <1>0 DEF Waits
  <2>2. \A q \in Procs : (Waits(q) /\ held[q] # b) => (Waits(q)' /\ held'[q] = held[q])
    BY <1>0, <1>p, <1>r DEF Waits
  <2>u. \A i, j \in 1 .. n : idequeue[i] = idequeue[j] => i = j
    BY DEF QueueInv
  <2>3. \A q \in Procs : Waits(q)' =>
            \E i \in 1 .. Len(idequeue') : idequeue'[i] = held'[q]
    <3>1. SUFFICES ASSUME NEW q \in Procs, Waits(q)'
                   PROVE  \E i \in 1 .. n - 1 : idequeue'[i] = held'[q]
      BY <1>q
    <3>2. PICK j \in 1 .. n : idequeue[j] = held[q]
      BY <3>1, <2>1 DEF QueueInv
    <3>3. j # 1 /\ j - 1 \in 1 .. n - 1
      BY <3>1, <3>2, <2>1, <1>q
    <3>4. idequeue'[j - 1] = held'[q]
      BY <3>1, <3>2, <3>3, <2>1, <1>q, SMTT(15)
    <3>5. QED
      BY <3>3, <3>4
  <2>4. \A i \in 1 .. Len(idequeue') :
            \E q \in Procs : Waits(q)' /\ held'[q] = idequeue'[i]
    <3>1. SUFFICES ASSUME NEW i \in 1 .. n - 1
                   PROVE  \E q \in Procs : Waits(q)' /\ held'[q] = idequeue'[i]
      BY <1>q
    <3>2. i + 1 \in 1 .. n /\ 1 \in 1 .. n /\ i + 1 # 1
      BY <1>q
    <3>3. PICK q \in Procs : Waits(q) /\ held[q] = idequeue[i + 1]
      BY <3>2 DEF QueueInv
    <3>4. idequeue[i + 1] # b
      BY <3>2, <2>u, <1>q
    <3>5. QED
      BY <3>3, <3>4, <2>2, <1>q
  <2>5. \A i, j \in 1 .. Len(idequeue') : idequeue'[i] = idequeue'[j] => i = j
    <3>1. SUFFICES ASSUME NEW i \in 1 .. n - 1, NEW j \in 1 .. n - 1,
                          idequeue'[i] = idequeue'[j]
                   PROVE  i = j
      BY <1>q
    <3>2. i + 1 \in 1 .. n /\ j + 1 \in 1 .. n /\ idequeue[i + 1] = idequeue[j + 1]
      BY <3>1, <1>q
    <3>3. QED
      BY <3>2, <2>u
  <2>6. idequeue' # <<>> => xfer' = data'[Head(idequeue')]
    <3>1. SUFFICES ASSUME idequeue' # <<>> PROVE xfer' = data'[Head(idequeue')]
      OBVIOUS
    <3>2. Head(idequeue') = idequeue'[1] /\ Len(idequeue') > 0
      BY <3>1, <1>q
    <3>3. Head(idequeue') = idequeue[2] /\ 2 \in 1 .. n /\ 1 \in 1 .. n
      BY <3>2, <1>q
    <3>4. Head(idequeue') # b /\ Head(idequeue') \in Bufs
      BY <3>1, <3>3, <2>u, <1>q
    <3>5. QED
      BY <3>1, <3>4, <1>0, <1>d, <1>q
  <2>7. QED
    BY <2>3, <2>4, <2>5, <2>6 DEF QueueInv
<1>7. FlagsInv'
  BY <1>0, <1>n, BlocksAssumption DEF FlagsInv
<1>8. DataInv'
  <2>1. SUFFICES ASSUME ~ReadErrors
                 PROVE  /\ \A c \in valid' \cup dirty' : data'[c] = latest'[blockno'[c]]
                        /\ \A m \in BlockNos : disk'[m] = latest'[m]
                                                  \/ \E c \in dirty' : blockno'[c] = m
    BY DEF DataInv
  <2>2. \A c \in Bufs : c # b => blockno[c] # blockno[b]
    BY <1>n, <1>q, BlocksAssumption DEF UniqueBuffer
  <2>3. data'[b] = latest[blockno[b]]
    <3>1. CASE b \in dirty
      BY <3>1, <2>1, <1>0 DEF DataInv
    <3>2. CASE b \notin dirty
      <4>1. \A c \in dirty : blockno[c] # blockno[b]
        BY <3>2, <2>2 DEF TypeOK
      <4>2. disk[blockno[b]] = latest[blockno[b]]
        BY <4>1, <2>1, <1>n DEF DataInv
      <4>3. QED
        BY <3>2, <4>2, <2>1, <1>0, <1>q DEF TypeOK
    <3>3. QED
      BY <3>1, <3>2
  <2>4. ASSUME NEW c \in valid' \cup dirty' PROVE data'[c] = latest'[blockno'[c]]
    <3>1. CASE c = b
      BY <3>1, <2>3, <1>0
    <3>2. CASE c # b
      <4>1. c \in valid \cup dirty /\ c \in Bufs
        BY <2>4, <3>2, <1>0 DEF TypeOK
      <4>2. QED
        BY <2>1, <3>2, <4>1, <1>0, <1>d DEF DataInv
    <3>3. QED
      BY <3>1, <3>2
  <2>5. ASSUME NEW m \in BlockNos
        PROVE  disk'[m] = latest'[m] \/ \E c \in dirty' : blockno'[c] = m
    <3>1. CASE m = blockno[b]
      <4>1. CASE b \in dirty
        <5>1. xfer = data[b]
          BY <1>q DEF QueueInv, b
        <5>2. disk'[m] = xfer
          BY <3>1, <4>1, <1>0 DEF TypeOK
        <5>3. data[b] = latest[blockno[b]]
          BY <4>1, <2>1 DEF DataInv
        <5>4. QED
          BY <5>1, <5>2, <5>3, <3>1, <1>0
      <4>2. CASE b \notin dirty
        BY <4>2, <2>1, <2>5, <1>0 DEF DataInv
      <4>3. QED
        BY <4>1, <4>2
    <3>2. CASE m # blockno[b]
      BY <3>2, <2>1, <2>5, <1>0 DEF DataInv, TypeOK
    <3>3. QED
      BY <3>1, <3>2
  <2>6. QED
    BY <2>4, <2>5
<1>9. Pinned' \subseteq Pinned
  <2>1. \A q \in Procs : InIderw(q) => (InIderw(q)' /\ held'[q] = held[q])
    BY <1>p, <1>r, <1>w DEF InIderw
  <2>2. QED
    BY <1>0, <2>1 DEF Pinned, InIderw
<1>10. QED
  BY <1>1, <1>2, <1>3, <1>4, <1>5, <1>6, <1>7, <1>8, <1>9, PinSubset

-----------------------------------------------------------------------------
(* The theorems *)

\* binit establishes the invariant.
LEMMA InitInv == Init => IInv
<1>1. SUFFICES ASSUME Init PROVE IInv
  OBVIOUS
<1>. USE <1>1 DEF Init
<1>2. TypeOK
  <2>1. idequeue \in Seq(Bufs)
    OBVIOUS
  <2>2. pc \in [Procs -> PCs] /\ want \in [Procs -> BlockNos \cup {Null}]
    BY DEF PCs
  <2>3. held \in [Procs -> Bufs \cup {Null}] /\ blockno \in [Bufs -> BlockNos \cup {Null}]
    OBVIOUS
  <2>4. htable \in [0 .. HASHSIZE - 1 -> Bufs \cup {Null}]
    OBVIOUS
  <2>5. /\ data \in [Bufs -> Values] /\ xfer \in Values
        /\ disk \in [BlockNos -> Values] /\ latest \in [BlockNos -> Values]
    BY ContentsAssumption
  <2>6. busy \subseteq Bufs /\ valid \subseteq Bufs /\ dirty \subseteq Bufs /\ panicked \in BOOLEAN
    OBVIOUS
  <2>7. QED
    BY <2>1, <2>2, <2>3, <2>4, <2>5, <2>6 DEF TypeOK
<1>3. UniqueBuffer /\ OneHolder /\ NoBuffersPanic /\ HashInv /\ HolderInv /\ FlagsInv
  BY DEF UniqueBuffer, OneHolder, NoBuffersPanic, HashInv, HolderInv, FlagsInv, Holds, InIderw
<1>4. QueueInv
  BY DEF QueueInv, Waits
<1>5. DataInv
  BY DEF DataInv
<1>6. Pinned = {}
  BY DEF Pinned
<1>7. PinInv
  BY <1>6, FS_EmptySet, BoundsAssumption DEF PinInv
<1>8. QED
  BY <1>2, <1>3, <1>4, <1>5, <1>7 DEF IInv

\* Who holds a buffer depends on the control states and B_BUSY only.
LEMMA HolderFrame ==
    ASSUME OneHolder, UNCHANGED <<busy, pc, held>>
    PROVE  OneHolder'
<1>1. \A p \in Procs, b \in Bufs : Holds(p, b)' <=> Holds(p, b)
  BY DEF Holds, InIderw
<1>2. QED
  BY <1>1 DEF OneHolder

\* A step that changes nothing preserves the invariant.
LEMMA StutterInv ==
    ASSUME IInv, UNCHANGED vars
    PROVE  IInv'
<1>. USE DEF IInv, vars
<1>1. TypeOK'
  BY DEF TypeOK
<1>2. UniqueBuffer' /\ NoBuffersPanic'
  BY DEF UniqueBuffer, NoBuffersPanic
<1>h. OneHolder'
  BY HolderFrame
<1>3. HashInv' /\ FlagsInv'
  BY DEF HashInv, FlagsInv
<1>4. HolderInv'
  BY DEF HolderInv, Holds, InIderw
<1>5. QueueInv'
  BY DEF QueueInv, Waits
<1>6. DataInv'
  BY DEF DataInv
<1>7. PinInv'
  BY DEF PinInv, Pinned
<1>8. QED
  BY <1>1, <1>2, <1>h, <1>3, <1>4, <1>5, <1>6, <1>7

\* The conjuncts of IInv hold in every reachable state of the cache.
THEOREM CacheInvariant == Spec => []IInv
<1>1. IInv /\ [Next]_vars => IInv'
  <2>1. SUFFICES ASSUME IInv, [Next]_vars PROVE IInv'
    OBVIOUS
  <2>2. CASE UNCHANGED vars
    BY <2>1, <2>2, StutterInv
  <2>3. CASE ideintr
    BY <2>1, <2>3, ideintrInv
  <2>4. ASSUME NEW p \in Procs, NEW n \in BlockNos, Bread(p, n) PROVE IInv'
    BY <2>1, <2>4, BreadInv
  <2>5. ASSUME NEW p \in Procs, NEW v \in Values, LogWrite(p, v) \/ Bwrite(p, v) PROVE IInv'
    BY <2>1, <2>5, LogWriteInv, BwriteInv
  <2>6. ASSUME NEW p \in Procs, BgetHit(p) \/ BgetSleep(p) \/ BgetRecycle(p) PROVE IInv'
    BY <2>1, <2>6, BgetHitInv, BgetSleepInv, BgetRecycleInv
  <2>7. ASSUME NEW p \in Procs, Brelse(p) \/ Iderw(p) \/ IderwCheck(p) \/ Kill(p)
        PROVE  IInv'
    BY <2>1, <2>7, BrelseInv, IderwInv, IderwCheckInv, KillInv
  <2>8. QED
    BY <2>1, <2>2, <2>3, <2>4, <2>5, <2>6, <2>7 DEF Next
<1>2. QED
  BY InitInv, <1>1, PTL DEF Spec

\* The variables have their types and brelse keeps every buffer on the list.
THEOREM CacheTypeCorrect == Spec => []TypeOK
<1>1. IInv => TypeOK
  BY DEF IInv
<1>2. QED
  BY CacheInvariant, <1>1, PTL

\* A block is never in two buffers, whatever the order in which processes look
\* up and recycle, as long as the table is as large as the disk.
THEOREM CacheUniqueBuffer == Spec => []UniqueBuffer
<1>1. IInv => UniqueBuffer
  BY DEF IInv
<1>2. QED
  BY CacheInvariant, <1>1, PTL

\* B_BUSY is a lock: a buffer has it exactly while one process holds it.
THEOREM CacheOneHolder == Spec => []OneHolder
<1>1. IInv => OneHolder
  BY DEF IInv
<1>2. QED
  BY CacheInvariant, <1>1, PTL

\* No process sleeps without somebody who will wake it.
THEOREM CacheSleepersHaveWaker == Spec => []SleepersHaveWaker
<1>1. IInv => SleepersHaveWaker
  BY DEF IInv, HolderInv, QueueInv, Waits, SleepersHaveWaker
<1>2. QED
  BY CacheInvariant, <1>1, PTL

\* The panics of the cache and of iderw are out of reach while the log pins at
\* most as many buffers as leave one for every process.
THEOREM CacheNoBuffersPanic == Spec => []NoBuffersPanic
<1>1. IInv => NoBuffersPanic
  BY DEF IInv
<1>2. QED
  BY CacheInvariant, <1>1, PTL

\* If reads do not fail, who holds a buffer sees the last contents of the block
\* it asked for.
THEOREM CacheReadsLatest == ASSUME ~ReadErrors PROVE Spec => []ReadsLatest
<1>1. IInv => ReadsLatest
  BY DEF IInv, HolderInv, DataInv, ReadsLatest
<1>2. QED
  BY CacheInvariant, <1>1, PTL

\* If reads do not fail, the last contents of a block are on the disk or in a
\* dirty buffer.
THEOREM CacheNoLostUpdate == ASSUME ~ReadErrors PROVE Spec => []NoLostUpdate
<1>1. IInv => NoLostUpdate
  BY DEF IInv, DataInv, NoLostUpdate
<1>2. QED
  BY CacheInvariant, <1>1, PTL
=============================================================================
