--------------------------- MODULE MCLoadedModules ---------------------------
(* Two threads and two modules; one name and one path match both modules,  *)
(* the others only the first.                                              *)
EXTENDS LoadedModules, TLC

CONSTANTS t1, t2, m1, m2

MCNames == {{m1}, {m1, m2}}
MCPaths == {{m1}}
Alike == Permutations(Threads)
=============================================================================
