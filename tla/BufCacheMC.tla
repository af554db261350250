----------------------------- MODULE BufCacheMC -----------------------------
(* Small instances of BufCache.tla for TLC. *)
EXTENDS BufCache, TLC

ZeroDisk == [n \in BlockNos |-> 0]

Symmetry == Permutations(Procs) \cup Permutations(Bufs)
=============================================================================
