------------------------------- MODULE MCHeap -------------------------------
(* Small instances of Heap for TLC.                                         *)
EXTENDS Heap, TLC

LocksAndPools == {[lock |-> "own", paged |-> TRUE],
                         [lock |-> "user", paged |-> TRUE],
                         [lock |-> "none", paged |-> FALSE]}
OnlyPlain == {}

Symmetry == Permutations(Threads) \cup Permutations(Heaps) \cup Permutations(Entries)
=============================================================================
