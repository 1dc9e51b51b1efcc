--------------------- MODULE MCThreadEnvironmentBlock ---------------------
(* Small instances of ThreadEnvironmentBlock for TLC.                       *)
EXTENDS ThreadEnvironmentBlock, TLC

(* Every way to load and use the library; and without notifications, with   *)
(* callbacks that leave the library alone.                                  *)
AllConfigs  == [notify : BOOLEAN, driver : BOOLEAN, callbacks : BOOLEAN]
NotNotified == [notify : {FALSE}, driver : {TRUE}, callbacks : {FALSE}]

Symmetry == Permutations(Tids) \cup Permutations(Pids) \cup Permutations(Blocks)
=============================================================================
