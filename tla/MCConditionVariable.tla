------------------------ MODULE MCConditionVariable ------------------------
(* Small instances of ConditionVariable for TLC.                            *)
EXTENDS ConditionVariable, TLC

MinusEight == -8

(* Wakes of one without the lock, or both wakes with the lock held.         *)
WakesOne == [kinds |-> {"one"}, locked |-> FALSE]
WakesAll == [kinds |-> {"one", "all"}, locked |-> TRUE]

OneUse   == {WakesOne}
BothUses == {WakesOne, WakesAll}

Symmetry == Permutations(Threads)
=============================================================================
