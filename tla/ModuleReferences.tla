-------------------------- MODULE ModuleReferences --------------------------
(***************************************************************************)
(* What a client of the loader relies on: a module it holds a reference    *)
(* to, or has pinned, stays loaded.  Nothing is said of load counts.  The  *)
(* promise is made to careful clients only; LoadedModules says which these *)
(* are.                                                                    *)
(***************************************************************************)
EXTENDS Naturals

CONSTANT Modules

VARIABLES careful,      \* whether the clients keep to the rules
          loaded,       \* the modules that are loaded
          references,   \* for each module, the references clients hold
          pinned        \* the modules pinned for good

vars == <<careful, loaded, references, pinned>>

Init ==
    /\ careful \in BOOLEAN
    /\ loaded \in SUBSET Modules
    /\ references = [m \in Modules |-> 0]
    /\ pinned = {}

(* A client gets a reference to a loaded module, gives one back, or pins   *)
(* a loaded module.                                                        *)
Get(m) ==
    /\ m \in loaded
    /\ references' = [references EXCEPT ![m] = @ + 1]
    /\ UNCHANGED <<loaded, pinned>>

Put(m) ==
    /\ references[m] > 0
    /\ references' = [references EXCEPT ![m] = @ - 1]
    /\ UNCHANGED <<loaded, pinned>>

Pin(m) ==
    /\ m \in loaded
    /\ pinned' = pinned \cup {m}
    /\ UNCHANGED <<loaded, references>>

(* The system loads a module, or unloads one that no client needs.         *)
Load(m) ==
    /\ loaded' = loaded \cup {m}
    /\ UNCHANGED <<references, pinned>>

Unload(m) ==
    /\ careful => references[m] = 0 /\ m \notin pinned
    /\ loaded' = loaded \ {m}
    /\ UNCHANGED <<references, pinned>>

Next ==
    /\ \E m \in Modules : Get(m) \/ Put(m) \/ Pin(m) \/ Load(m) \/ Unload(m)
    /\ UNCHANGED careful

Spec == Init /\ [][Next]_vars
=============================================================================
