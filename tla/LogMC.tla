------------------------------- MODULE LogMC --------------------------------
(* Small instances of Log.tla for TLC. *)
EXTENDS Log, TLC

\* mkfs writes zeroes to every block.
ZeroDisk == [b \in Blocks |-> 0]
ZeroLog == [i \in 1 .. NLog - 1 |-> 0]

Symmetry == Permutations(Procs) \cup Permutations(Blocks)
=============================================================================
