------------------------ MODULE MCFiberLocalStorage ------------------------
(* Small instances of FiberLocalStorage for TLC.                            *)
EXTENDS FiberLocalStorage, TLC

Symmetry == Permutations(Threads) \cup Permutations(Values)
                                  \cup Permutations(Blocks)
=============================================================================
