----------------------------- MODULE SharedHeaps -----------------------------
(***************************************************************************)
(* What the heaps of a process promise to its threads: heaps come and go at *)
(* once, a block belongs to one heap, and an enumeration is shown each heap *)
(* at most once, while none comes or goes.  Nothing is said of arrays,      *)
(* indices, locks and of memory on its way in or out; nor of anything after *)
(* memory was touched that was not what it was taken for.                   *)
(***************************************************************************)
CONSTANTS Threads, Heaps, Entries

VARIABLES listed,   \* the heaps there are
          blocks,   \* for each heap, the blocks allocated from it
          dying,    \* heaps that were emptied to be removed
          shown,    \* what the enumeration of each thread was shown so far
          broken    \* whether memory was touched wrongly

vars == <<listed, blocks, dying, shown, broken>>

Init ==
    /\ listed = {}
    /\ blocks = [h \in Heaps |-> {}]
    /\ dying = {}
    /\ shown = [t \in Threads |-> {}]
    /\ broken = FALSE

NobodyLooks == \A t \in Threads : shown[t] = {}

Create(h) ==
    /\ h \notin listed
    /\ NobodyLooks
    /\ listed' = listed \cup {h}
    /\ UNCHANGED <<blocks, dying, shown>>

(* A heap loses all its blocks at once, then it goes.                       *)
Destroy(h) ==
    /\ h \in listed \ dying
    /\ blocks' = [blocks EXCEPT ![h] = {}]
    /\ dying' = dying \cup {h}
    /\ UNCHANGED <<listed, shown>>

Remove(h) ==
    /\ h \in dying /\ blocks[h] = {}
    /\ NobodyLooks
    /\ listed' = listed \ {h}
    /\ dying' = dying \ {h}
    /\ UNCHANGED <<blocks, shown>>

Allocate(h, b) ==
    /\ h \in listed \ dying
    /\ \A g \in Heaps : b \notin blocks[g]
    /\ blocks' = [blocks EXCEPT ![h] = @ \cup {b}]
    /\ UNCHANGED <<listed, dying, shown>>

Free(h, b) ==
    /\ h \in listed \ dying
    /\ b \in blocks[h]
    /\ blocks' = [blocks EXCEPT ![h] = @ \ {b}]
    /\ UNCHANGED <<listed, dying, shown>>

Show(t, h) ==
    /\ h \in listed \ shown[t]
    /\ shown' = [shown EXCEPT ![t] = @ \cup {h}]
    /\ UNCHANGED <<listed, blocks, dying>>

EndShow(t) ==
    /\ shown' = [shown EXCEPT ![t] = {}]
    /\ UNCHANGED <<listed, blocks, dying>>

Sound ==
    \/ \E h \in Heaps :
         \/ Create(h) \/ Destroy(h) \/ Remove(h)
         \/ \E b \in Entries : Allocate(h, b) \/ Free(h, b)
         \/ \E t \in Threads : Show(t, h)
    \/ \E t \in Threads : EndShow(t)

(* Once broken, always broken, and anything may happen.                     *)
Next == broken' \/ (~broken' /\ Sound)

Spec == Init /\ [][Next]_vars
=============================================================================
