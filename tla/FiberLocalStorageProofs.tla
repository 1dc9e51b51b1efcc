----------------------- MODULE FiberLocalStorageProofs -----------------------
(* Theorems about FiberLocalStorage, for every value of its constants.      *)
EXTENDS FiberLocalStorage, TLAPS

(* What a thread's locals are good for while it is inside a call.           *)
LocalsOK ==
    \A t \in Threads :
      /\ pc[t] \in FreeSteps => /\ FlsCallback # NULL
                                /\ FlsIndex[t] \in Indices
                                /\ Entry[t] \in Entries
      /\ pc[t] \in {"Call", "Resume"} \cup CleanupSteps => Entry[t] \in Blocks
      /\ pc[t] \in {"Insert", "Store"} => /\ FlsData[t] \in Blocks
                                          /\ FlsIndex[t] \in Indices
      /\ pc[t] \in {"Slot", "Clear"} => FlsCallback # NULL

(* Which threads can be inside a call in which phase.                       *)
PhaseOK ==
    /\ phase = "up" => \A t \in Threads : pc[t] # "Next"
    /\ phase = "cleanup" => \A t, u \in Threads :
                              pc[t] # "Idle" /\ pc[u] # "Idle" => t = u
    /\ phase = "cleanup" => \A t \in Threads :
                              pc[t] \in {"Idle", "Next"} \cup CleanupSteps
    /\ phase = "down" => \A t \in Threads : pc[t] = "Idle"

TypeInv == TypeOK /\ LocalsOK /\ PhaseOK

-----------------------------------------------------------------------------
(* Type correctness.                                                        *)

(* The state after FlsCreate has its types, and no thread is inside a       *)
(* call.                                                                    *)
LEMMA TypeInit == Init => TypeInv
BY FlsAssumption DEF Init, TypeInv, TypeOK, LocalsOK, PhaseOK, NoSlots, Indices,
                     Entries, FreeSteps, CleanupSteps

(* Every step of every call keeps the types, and what the locals of a       *)
(* call mean at each of its points.                                         *)
LEMMA TypeStep == TypeInv /\ [Next]_vars => TypeInv'
<1> SUFFICES ASSUME TypeInv, [Next]_vars PROVE TypeInv'
  OBVIOUS
<1> USE FlsAssumption DEF Entries, FreeSteps, CleanupSteps
<1>0. TypeOK /\ LocalsOK /\ PhaseOK /\ 0 \in Indices /\ Indices \subseteq Nat
  BY DEF TypeInv, Indices
<1>1. ASSUME NEW t \in Threads, NEW c \in Callbacks \cup {NULL}, RtlFlsAlloc(t, c) PROVE TypeInv'
  <2>1. TypeOK'
    BY <1>0, <1>1 DEF TypeOK, LocalsOK, RtlFlsAlloc, NewHighIndex, Start, NoCallbacks, fls, list, locals, ghosts
  <2>2. LocalsOK'
    <3>1. CASE c = NULL
      BY <1>0, <1>1, <3>1 DEF LocalsOK, RtlFlsAlloc, locals
    <3>2. CASE c # NULL
      <4>1. FlsCallback' \in [Indices -> Callbacks \cup {NULL}]
        BY <1>0, <1>1, <3>2 DEF TypeOK, RtlFlsAlloc, NoCallbacks
      <4>2. FlsCallback' # NULL
        BY <4>1
      <4> QED BY <1>0, <1>1, <4>2 DEF LocalsOK, RtlFlsAlloc, locals
    <3> QED BY <3>1, <3>2
  <2>3. PhaseOK'
    BY <1>0, <1>1 DEF TypeOK, PhaseOK, RtlFlsAlloc, NewHighIndex, Start, NoCallbacks, fls, list, locals, ghosts
  <2> QED BY <2>1, <2>2, <2>3 DEF TypeInv
<1>2. ASSUME NEW t \in Threads, NEW i \in Usable, RtlFlsFree(t, i) PROVE TypeInv'
  <2>1. TypeOK'
    <3>1. CASE FlsCallback = NULL
      BY <1>0, <1>2, <3>1 DEF TypeOK, RtlFlsFree, list, locals, fls
    <3>2. CASE FlsCallback # NULL
      <4>1. /\ Lock' = t
            /\ pc' = [pc EXCEPT ![t] = "Scan"]
            /\ FlsIndex' = [FlsIndex EXCEPT ![t] = i]
            /\ Entry' = [Entry EXCEPT ![t] = Flink[Head]]
            /\ UNCHANGED <<Callback, NewValue, HighIndex>>
        BY <1>2, <3>2 DEF RtlFlsFree, FirstEntry
      <4>2. i \in Indices
        BY DEF Usable
      <4> QED BY <1>0, <1>2, <4>1, <4>2 DEF TypeOK, RtlFlsFree, list
    <3> QED BY <3>1, <3>2
  <2>2. LocalsOK'
    BY <1>0, <1>2 DEF TypeOK, LocalsOK, PhaseOK, RtlFlsFree, Usable, Start, Alone, FirstEntry, fls, list, locals, ghosts
  <2>3. PhaseOK'
    BY <1>0, <1>2 DEF TypeOK, PhaseOK, RtlFlsFree, Usable, Start, Alone, FirstEntry, fls, list, locals, ghosts
  <2> QED BY <2>1, <2>2, <2>3 DEF TypeInv
<1>3. ASSUME NEW t \in Threads, RtlFlsFreeScan(t) PROVE TypeInv'
  <2>1. phase # "cleanup" /\ phase # "down"
    BY <1>0, <1>3 DEF PhaseOK, RtlFlsFreeScan
  <2>2. /\ Entry[t] \in Entries
        /\ FlsIndex[t] \in Indices
        /\ FlsCallback \in [Indices -> Callbacks \cup {NULL}]
    BY <1>0, <1>3 DEF TypeOK, LocalsOK, RtlFlsFreeScan
  <2>3. CASE Entry[t] = Head
    <3>1. /\ Lock' = NULL
          /\ pc' = [pc EXCEPT ![t] = "Idle"]
          /\ FlsIndex' = [FlsIndex EXCEPT ![t] = 0]
          /\ Entry' = [Entry EXCEPT ![t] = NULL]
          /\ UNCHANGED <<Slots, Callback>>
      BY <1>3, <2>3 DEF RtlFlsFreeScan, ReleaseLock, Return
    <3>2. TypeOK'
      BY <1>0, <1>3, <3>1 DEF TypeOK, RtlFlsFreeScan, list, ghosts
    <3> QED BY <1>0, <1>3, <2>1, <3>1, <3>2 DEF TypeInv, TypeOK, LocalsOK, PhaseOK,
                                                RtlFlsFreeScan
  <2>4. CASE Entry[t] # Head /\ FlsCallback[FlsIndex[t]] # NULL
                             /\ Slots[Entry[t]][FlsIndex[t]] # NULL
    <3>1. /\ Lock' = NULL
          /\ pc' = [pc EXCEPT ![t] = "Call"]
          /\ Callback' = [Callback EXCEPT ![t] = FlsCallback[FlsIndex[t]]]
          /\ UNCHANGED <<Slots, FlsIndex, Entry>>
      BY <1>3, <2>4 DEF RtlFlsFreeScan
    <3>2. TypeOK'
      BY <1>0, <1>3, <2>2, <3>1 DEF TypeOK, RtlFlsFreeScan, list, ghosts
    <3> QED BY <1>0, <1>3, <2>1, <2>2, <2>4, <3>1, <3>2
            DEF TypeInv, TypeOK, LocalsOK, PhaseOK, RtlFlsFreeScan
  <2>5. CASE Entry[t] # Head /\ (\/ FlsCallback[FlsIndex[t]] = NULL
                                \/ Slots[Entry[t]][FlsIndex[t]] = NULL)
    <3>1. /\ Slots' = [Slots EXCEPT ![Entry[t]][FlsIndex[t]] = NULL]
          /\ Entry' = [Entry EXCEPT ![t] = Flink[Entry[t]]]
          /\ UNCHANGED <<Lock, pc, FlsIndex, Callback>>
      BY <1>3, <2>5 DEF RtlFlsFreeScan, ClearSlot, NextEntry
    <3>2. TypeOK'
      BY <1>0, <1>3, <2>2, <3>1 DEF TypeOK, RtlFlsFreeScan, list, ghosts
    <3> QED BY <1>0, <1>3, <2>1, <2>2, <3>1, <3>2
            DEF TypeInv, TypeOK, LocalsOK, PhaseOK, RtlFlsFreeScan
  <2> QED BY <2>3, <2>4, <2>5
<1>4. ASSUME NEW t \in Threads, RtlFlsFreeCall(t) PROVE TypeInv'
  <2>1. TypeOK'
    <3> DEFINE r == [val |-> Slots[Entry[t]][FlsIndex[t]], cb |-> Callback[t],
                     idx |-> FlsIndex[t]]
    <3>1. r \in Calls
      BY <1>0, <1>4 DEF TypeOK, LocalsOK, RtlFlsFreeCall, Calls
    <3> HIDE DEF r
    <3>2. running' = [running EXCEPT ![t] = r]
      BY <1>4 DEF RtlFlsFreeCall, r
    <3> QED BY <1>0, <1>4, <3>1, <3>2 DEF TypeOK, RtlFlsFreeCall, fls, list
  <2>2. LocalsOK'
    BY <1>0, <1>4 DEF TypeOK, LocalsOK, PhaseOK, RtlFlsFreeCall, fls, list, locals, ghosts
  <2>3. PhaseOK'
    BY <1>0, <1>4 DEF TypeOK, PhaseOK, RtlFlsFreeCall, fls, list, locals, ghosts
  <2> QED BY <2>1, <2>2, <2>3 DEF TypeInv
<1>5. ASSUME NEW t \in Threads, RtlFlsFreeResume(t) PROVE TypeInv'
  <2>1. TypeOK'
    BY <1>0, <1>5 DEF TypeOK, LocalsOK, RtlFlsFreeResume, ClearSlot, NextEntry, fls, list, locals, ghosts
  <2>2. LocalsOK'
    BY <1>0, <1>5 DEF TypeOK, LocalsOK, PhaseOK, RtlFlsFreeResume, ClearSlot, NextEntry, fls, list, locals, ghosts
  <2>3. PhaseOK'
    BY <1>0, <1>5 DEF TypeOK, PhaseOK, RtlFlsFreeResume, ClearSlot, NextEntry, fls, list, locals, ghosts
  <2> QED BY <2>1, <2>2, <2>3 DEF TypeInv
<1>6. ASSUME NEW t \in Threads, NEW i \in Usable, NEW v \in FreshValues \cup {NULL},
             RtlFlsSetValue(t, i, v)
      PROVE  TypeInv'
  <2>1. v \in Values \cup {NULL} /\ i \in Indices
    BY DEF FreshValues, Usable
  <2>2. phase = "up" /\ pc[t] = "Idle" /\ pc' \in {[pc EXCEPT ![t] = "Store"],
                                                 [pc EXCEPT ![t] = "Insert"]}
    BY <1>6 DEF RtlFlsSetValue, Start
  <2>3. CASE FlsData[t] # NULL
    <3>1. TypeOK'
      BY <1>0, <1>6, <2>1, <2>3 DEF TypeOK, RtlFlsSetValue, fls, list, ghosts
    <3>2. LocalsOK'
      BY <1>0, <1>6, <2>1, <2>3 DEF TypeOK, LocalsOK, RtlFlsSetValue, fls
    <3> QED BY <1>0, <1>6, <2>2, <3>1, <3>2 DEF TypeInv, TypeOK, PhaseOK, RtlFlsSetValue
  <2>4. CASE FlsData[t] = NULL
    <3>1. PICK d \in Blocks : /\ live' = live \cup {d}
                              /\ Slots' = [Slots EXCEPT ![d] = NoSlots]
                              /\ FlsData' = [FlsData EXCEPT ![t] = d]
      BY <1>6, <2>4 DEF RtlFlsSetValue, NewBlock
    <3>2. pc' = [pc EXCEPT ![t] = "Insert"]
      BY <1>6, <2>4 DEF RtlFlsSetValue
    <3>3. NoSlots \in [Indices -> Values \cup {NULL}]
      BY DEF NoSlots
    <3>4. TypeOK'
      BY <1>0, <1>6, <2>1, <3>1, <3>2, <3>3 DEF TypeOK, RtlFlsSetValue, fls, list, ghosts
    <3>5. LocalsOK'
      BY <1>0, <1>6, <2>1, <3>1, <3>2 DEF TypeOK, LocalsOK, RtlFlsSetValue, fls
    <3> QED BY <1>0, <1>6, <2>2, <3>2, <3>4, <3>5
            DEF TypeInv, TypeOK, PhaseOK, RtlFlsSetValue
  <2> QED BY <2>3, <2>4
<1>7. ASSUME NEW t \in Threads, RtlFlsSetInsert(t) PROVE TypeInv'
  <2>1. TypeOK'
    BY <1>0, <1>7 DEF TypeOK, LocalsOK, RtlFlsSetInsert, InsertTailList, fls, list, locals, ghosts
  <2>2. LocalsOK'
    BY <1>0, <1>7 DEF TypeOK, LocalsOK, PhaseOK, RtlFlsSetInsert, InsertTailList, fls, list, locals, ghosts
  <2>3. PhaseOK'
    BY <1>0, <1>7 DEF TypeOK, PhaseOK, RtlFlsSetInsert, InsertTailList, fls, list, locals, ghosts
  <2> QED BY <2>1, <2>2, <2>3 DEF TypeInv
<1>8. ASSUME NEW t \in Threads, RtlFlsSetStore(t) PROVE TypeInv'
  <2>1. TypeOK'
    <3>1. Due(NewValue[t], FlsIndex[t]) \subseteq Calls
      BY <1>0, <1>8 DEF TypeOK, LocalsOK, RtlFlsSetStore, Due, Calls
    <3>2. owed' \subseteq Calls
      BY <1>0, <1>8, <3>1 DEF TypeOK, RtlFlsSetStore
    <3> QED BY <1>0, <1>8, <3>2 DEF TypeOK, LocalsOK, RtlFlsSetStore, Return, fls, list
  <2>2. LocalsOK'
    BY <1>0, <1>8 DEF TypeOK, LocalsOK, PhaseOK, RtlFlsSetStore, Return, Due, fls, list, locals, ghosts
  <2>3. PhaseOK'
    BY <1>0, <1>8 DEF TypeOK, PhaseOK, RtlFlsSetStore, Return, Due, fls, list, locals, ghosts
  <2> QED BY <2>1, <2>2, <2>3 DEF TypeInv
<1>9. ASSUME NEW t \in Threads, ThreadExit(t) PROVE TypeInv'
  <2>1. TypeOK'
    BY <1>0, <1>9 DEF TypeOK, LocalsOK, ThreadExit, Start, DeletedTeb, NoSlots, fls, list, locals, ghosts
  <2>2. LocalsOK'
    BY <1>0, <1>9 DEF TypeOK, LocalsOK, PhaseOK, ThreadExit, Start, DeletedTeb, NoSlots, fls, list, locals, ghosts
  <2>3. PhaseOK'
    BY <1>0, <1>9 DEF TypeOK, PhaseOK, ThreadExit, Start, DeletedTeb, NoSlots, fls, list, locals, ghosts
  <2> QED BY <2>1, <2>2, <2>3 DEF TypeInv
<1>10. ASSUME NEW t \in Threads, FlsDataCleanup(t) PROVE TypeInv'
  <2>1. TypeOK'
    BY <1>0, <1>10 DEF TypeOK, LocalsOK, FlsDataCleanup, FirstSlot, fls, list, locals, ghosts
  <2>2. LocalsOK'
    BY <1>0, <1>10 DEF TypeOK, LocalsOK, PhaseOK, FlsDataCleanup, FirstSlot, fls, list, locals, ghosts
  <2>3. PhaseOK'
    BY <1>0, <1>10 DEF TypeOK, PhaseOK, FlsDataCleanup, FirstSlot, fls, list, locals, ghosts
  <2> QED BY <2>1, <2>2, <2>3 DEF TypeInv
<1>11. ASSUME NEW t \in Threads, FlsDataCleanupSlot(t) PROVE TypeInv'
  <2>1. /\ Entry[t] \in Blocks
        /\ FlsCallback \in [Indices -> Callbacks \cup {NULL}]
        /\ FlsIndex[t] \in Nat
        /\ pc[t] = "Slot"
    BY <1>0, <1>11 DEF TypeOK, LocalsOK, FlsDataCleanupSlot
  <2> DEFINE r == [val |-> Slots[Entry[t]][FlsIndex[t]],
                   cb |-> FlsCallback[FlsIndex[t]], idx |-> FlsIndex[t]]
  <2>2. \/ /\ pc' = [pc EXCEPT ![t] = "Unlink"]
           /\ UNCHANGED <<Slots, FlsIndex, running>>
        \/ /\ FlsIndex[t] < HighIndex[t]
           /\ running' = [running EXCEPT ![t] = r]
           /\ pc' = [pc EXCEPT ![t] = "Clear"]
           /\ UNCHANGED <<Slots, FlsIndex>>
        \/ /\ Slots' = [Slots EXCEPT ![Entry[t]][FlsIndex[t]] = NULL]
           /\ FlsIndex' = [FlsIndex EXCEPT ![t] = FlsIndex[t] + 1]
           /\ UNCHANGED <<pc, running>>
    BY <1>11 DEF FlsDataCleanupSlot, ClearSlot
  <2>3. FlsIndex[t] < HighIndex[t] => r \in Calls
    <3>1. HighIndex[t] \in Indices
      BY <1>0 DEF TypeOK
    <3>2. FlsIndex[t] < HighIndex[t] => FlsIndex[t] \in Indices
      BY <2>1, <3>1 DEF Indices
    <3> QED BY <1>0, <2>1, <3>2 DEF TypeOK, Calls
  <2> HIDE DEF r
  <2>4. /\ pc' \in {pc, [pc EXCEPT ![t] = "Unlink"], [pc EXCEPT ![t] = "Clear"]}
        /\ running' \in {running, [running EXCEPT ![t] = r]}
        /\ r \in Calls \/ UNCHANGED running
        /\ FlsIndex' \in {FlsIndex, [FlsIndex EXCEPT ![t] = FlsIndex[t] + 1]}
        /\ Slots' \in {Slots, [Slots EXCEPT ![Entry[t]][FlsIndex[t]] = NULL]}
        /\ UNCHANGED <<Lock, FlsBitmap, FlsCallback, FlsHighIndex, Flink, Blink, linked,
                       live, FlsData, phase, restarts, Entry, Callback, NewValue,
                       HighIndex, held, registered, mine, owed, lost>>
    BY <1>11, <2>2, <2>3 DEF FlsDataCleanupSlot, fls, list
  <2>5. /\ pc' \in [Threads -> {"Idle", "Insert", "Store", "Next"}
                                  \cup FreeSteps \cup CleanupSteps]
        /\ running' \in [Threads -> Calls \cup {NULL}]
        /\ FlsIndex' \in [Threads -> Nat]
        /\ Slots' \in [Blocks -> [Indices -> Values \cup {NULL}]]
    <3>1. /\ pc \in [Threads -> {"Idle", "Insert", "Store", "Next"}
                                   \cup FreeSteps \cup CleanupSteps]
          /\ running \in [Threads -> Calls \cup {NULL}]
          /\ FlsIndex \in [Threads -> Nat]
          /\ Slots \in [Blocks -> [Indices -> Values \cup {NULL}]]
      BY <1>0 DEF TypeOK
    <3>2. pc' \in [Threads -> {"Idle", "Insert", "Store", "Next"}
                                 \cup FreeSteps \cup CleanupSteps]
      BY <2>4, <3>1
    <3>3. running' \in [Threads -> Calls \cup {NULL}]
      BY <2>4, <3>1
    <3>4. FlsIndex' \in [Threads -> Nat]
      BY <2>1, <2>4, <3>1
    <3>5. Slots' \in [Blocks -> [Indices -> Values \cup {NULL}]]
      BY <2>4, <3>1
    <3> QED BY <3>2, <3>3, <3>4, <3>5
  <2>6. TypeOK'
    BY <1>0, <2>4, <2>5 DEF TypeOK
  <2>7. LocalsOK'
    BY <1>0, <2>1, <2>4 DEF TypeOK, LocalsOK
  <2>8. PhaseOK'
    <3>1. pc \in [Threads -> {"Idle", "Insert", "Store", "Next"}
                                \cup FreeSteps \cup CleanupSteps]
      BY <1>0 DEF TypeOK
    <3>2. phase' = phase /\ phase # "down"
      BY <1>0, <2>1, <2>4 DEF PhaseOK
    <3>3. CASE pc' = pc
      BY <1>0, <3>2, <3>3 DEF PhaseOK
    <3>4. CASE pc' = [pc EXCEPT ![t] = "Unlink"] \/ pc' = [pc EXCEPT ![t] = "Clear"]
      BY <1>0, <2>1, <3>1, <3>2, <3>4 DEF PhaseOK
    <3> QED BY <2>4, <3>3, <3>4
  <2> QED BY <2>6, <2>7, <2>8 DEF TypeInv
<1>12. ASSUME NEW t \in Threads, FlsDataCleanupClear(t) PROVE TypeInv'
  <2>1. TypeOK'
    <3>1. /\ Slots' = [Slots EXCEPT ![Entry[t]][FlsIndex[t]] = NULL]
          /\ FlsIndex' = [FlsIndex EXCEPT ![t] = FlsIndex[t] + 1]
          /\ running' = [running EXCEPT ![t] = NULL]
          /\ pc' = [pc EXCEPT ![t] = "Slot"]
      BY <1>12 DEF FlsDataCleanupClear, ClearSlot
    <3>2. /\ Slots' \in [Blocks -> [Indices -> Values \cup {NULL}]]
          /\ FlsIndex' \in [Threads -> Nat]
          /\ running' \in [Threads -> Calls \cup {NULL}]
          /\ owed' \subseteq Calls
      <4>1. /\ Slots \in [Blocks -> [Indices -> Values \cup {NULL}]]
            /\ FlsIndex \in [Threads -> Nat]
            /\ running \in [Threads -> Calls \cup {NULL}]
            /\ owed \subseteq Calls
        BY <1>0 DEF TypeOK
      <4>2. owed' \subseteq owed
        BY <1>12 DEF FlsDataCleanupClear
      <4>3. FlsIndex[t] + 1 \in Nat
        BY <4>1
      <4>4. Slots' \in [Blocks -> [Indices -> Values \cup {NULL}]]
        BY <3>1, <4>1
      <4> QED BY <3>1, <4>1, <4>2, <4>3, <4>4
    <3> QED BY <1>0, <1>12, <3>1, <3>2 DEF TypeOK, FlsDataCleanupClear, fls, list
  <2>2. LocalsOK'
    BY <1>0, <1>12 DEF TypeOK, LocalsOK, PhaseOK, FlsDataCleanupClear, ClearSlot, fls, list, locals, ghosts
  <2>3. PhaseOK'
    BY <1>0, <1>12 DEF TypeOK, PhaseOK, FlsDataCleanupClear, ClearSlot, fls, list, locals, ghosts
  <2> QED BY <2>1, <2>2, <2>3 DEF TypeInv
<1>13. ASSUME NEW t \in Threads, FlsDataCleanupUnlink(t) PROVE TypeInv'
  <2>1. TypeOK'
    BY <1>0, <1>13 DEF TypeOK, LocalsOK, FlsDataCleanupUnlink, RemoveEntryListUnsafe, fls, list, locals, ghosts
  <2>2. LocalsOK'
    BY <1>0, <1>13 DEF TypeOK, LocalsOK, PhaseOK, FlsDataCleanupUnlink, RemoveEntryListUnsafe, fls, list, locals, ghosts
  <2>3. PhaseOK'
    BY <1>0, <1>13 DEF TypeOK, PhaseOK, FlsDataCleanupUnlink, RemoveEntryListUnsafe, fls, list, locals, ghosts
  <2> QED BY <2>1, <2>2, <2>3 DEF TypeInv
<1>14. ASSUME NEW t \in Threads, FlsDataCleanupFree(t) PROVE TypeInv'
  <2>1. TypeOK'
    <3>1. /\ lost' \subseteq Losses
          /\ owed' \subseteq Calls
      BY <1>0, <1>14 DEF TypeOK, FlsDataCleanupFree, Calls, Losses
    <3> QED BY <1>0, <1>14, <3>1 DEF TypeOK, FlsDataCleanupFree, fls, list
  <2>2. LocalsOK'
    BY <1>0, <1>14 DEF TypeOK, LocalsOK, PhaseOK, FlsDataCleanupFree, fls, list, locals, ghosts
  <2>3. PhaseOK'
    BY <1>0, <1>14 DEF TypeOK, PhaseOK, FlsDataCleanupFree, fls, list, locals, ghosts
  <2> QED BY <2>1, <2>2, <2>3 DEF TypeInv
<1>15. ASSUME NEW t \in Threads, FlsCleanup(t) PROVE TypeInv'
  <2>1. TypeOK'
    BY <1>0, <1>15 DEF TypeOK, LocalsOK, FlsCleanup, fls, list, locals, ghosts
  <2>2. LocalsOK'
    BY <1>0, <1>15 DEF TypeOK, LocalsOK, PhaseOK, FlsCleanup, fls, list, locals, ghosts
  <2>3. PhaseOK'
    BY <1>0, <1>15 DEF TypeOK, PhaseOK, FlsCleanup, fls, list, locals, ghosts
  <2> QED BY <2>1, <2>2, <2>3 DEF TypeInv
<1>16. ASSUME NEW t \in Threads, FlsCleanupNext(t) PROVE TypeInv'
  <2>1. TypeOK'
    BY <1>0, <1>16 DEF TypeOK, LocalsOK, FlsCleanupNext, fls, list, locals, ghosts
  <2>2. LocalsOK'
    BY <1>0, <1>16 DEF TypeOK, LocalsOK, PhaseOK, FlsCleanupNext, fls, list, locals, ghosts
  <2>3. PhaseOK'
    BY <1>0, <1>16 DEF TypeOK, PhaseOK, FlsCleanupNext, fls, list, locals, ghosts
  <2> QED BY <2>1, <2>2, <2>3 DEF TypeInv
<1>17. ASSUME NEW t \in Threads, FlsCleanupEnd(t) PROVE TypeInv'
  <2>1. TypeOK'
    BY <1>0, <1>17 DEF TypeOK, LocalsOK, FlsCleanupEnd, Return, NoSlots, fls, list, locals, ghosts
  <2>2. LocalsOK'
    BY <1>0, <1>17 DEF TypeOK, LocalsOK, PhaseOK, FlsCleanupEnd, Return, NoSlots, fls, list, locals, ghosts
  <2>3. PhaseOK'
    BY <1>0, <1>17 DEF TypeOK, PhaseOK, FlsCleanupEnd, Return, NoSlots, fls, list, locals, ghosts
  <2> QED BY <2>1, <2>2, <2>3 DEF TypeInv
<1>18. ASSUME FlsCreate PROVE TypeInv'
  BY <1>0, <1>18 DEF TypeInv, TypeOK, LocalsOK, PhaseOK, FlsCreate, fls, list, locals,
                     ghosts
<1>19. CASE UNCHANGED vars
  BY <1>0, <1>19 DEF TypeInv, TypeOK, LocalsOK, PhaseOK, vars, fls, list, locals, ghosts
<1>20. QED
  BY <1>1, <1>2, <1>3, <1>4, <1>5, <1>6, <1>7, <1>8, <1>9, <1>10, <1>11, <1>12, <1>13, <1>14, <1>15, <1>16, <1>17, <1>18, <1>19 DEF Next, ThreadStep, ClientCall

(* Every state of every behaviour has the types the model declares.         *)
THEOREM TypeCorrect == Spec => []TypeOK
<1>1. Spec => []TypeInv
  BY TypeInit, TypeStep, PTL DEF Spec
<1>2. QED
  BY <1>1, PTL DEF TypeInv

-----------------------------------------------------------------------------
(* The list of blocks and who owns them.                                    *)

(* A thread's own block, by how far the thread is with it.  Insert and Free *)
(* are the two windows in which an owned block is not on the list.          *)
OwnerOK(t) ==
    /\ pc[t] = "Insert" => FlsData[t] \in live \ linked
    /\ pc[t] \in CleanupSteps => FlsData[t] = NULL
    /\ pc[t] \in CleanupSteps \ {"Free"} => Entry[t] \in linked
    /\ pc[t] = "Free" => Entry[t] \in live \ linked
    /\ pc[t] \notin CleanupSteps \cup {"Insert"} =>
         FlsData[t] \in linked \cup {NULL}

Distinct == \A t, u \in Threads : t # u /\ Owns(t) # NULL => Owns(t) # Owns(u)

Owned == \A d \in linked : \E t \in Threads :
            Owns(t) = d /\ pc[t] \notin {"Insert", "Free"}

(* While FlsCleanup processes a block it has taken off the head of the list *)
(* already, the links of the block still mirror those of the head: the      *)
(* second removal, in FlsDataCleanup, writes what is there.                 *)
Removed(d) ==
    /\ d \notin linked
    /\ Blink[d] = Head
    /\ Flink[Head] = Flink[d]
    /\ Blink[Flink[d]] = Head

ListInv ==
    /\ ListWellFormed
    /\ linked \subseteq live
    /\ phase = "up" => Distinct /\ Owned /\ \A t \in Threads : OwnerOK(t)
    /\ phase = "cleanup" => \A t \in Threads :
         /\ pc[t] \in CleanupSteps \ {"Free"} => Removed(Entry[t])
         /\ pc[t] = "Free" => Entry[t] \notin linked
    /\ phase = "down" => \A t \in Threads : FlsData[t] = NULL

(* The two clauses of ListWellFormed.                                       *)
Linking ==
    \A e \in linked \cup {Head} :
      /\ Flink[e] \in linked \cup {Head}
      /\ Blink[Flink[e]] = e
      /\ Blink[e] \in linked \cup {Head}
      /\ Flink[Blink[e]] = e

NoSubring == \A S \in SUBSET linked : (\A d \in S : Flink[d] \in S) => S = {}

(* A ring is inverse links between the linked blocks and the head, with     *)
(* no group of blocks closed off.                                           *)
LEMMA RingParts == ListWellFormed <=> Linking /\ NoSubring
BY DEF ListWellFormed, Linking, NoSubring

(* InsertTailList of a block that is not linked keeps the ring              *)
(* (RtlFlsSetValue).                                                        *)
LEMMA InsertKeepsRing ==
  ASSUME TypeOK, ListWellFormed, NEW d \in Blocks \ linked, InsertTailList(d)
  PROVE  ListWellFormed'
<1> DEFINE p == Blink[Head]
<1>1. /\ Flink \in [Entries -> Entries] /\ Blink \in [Entries -> Entries]
      /\ linked \subseteq Blocks /\ Head \notin Blocks
      /\ Entries = Blocks \cup {Head}
  BY FlsAssumption DEF TypeOK, Entries
<1>2. Linking /\ NoSubring
  BY RingParts
<1>3. p \in linked \cup {Head} /\ Flink[p] = Head /\ p # d /\ d # Head
  BY <1>1, <1>2 DEF Linking
<1>4. /\ Flink' = [Flink EXCEPT ![d] = Head, ![p] = d]
      /\ Blink' = [Blink EXCEPT ![d] = p, ![Head] = d]
      /\ linked' = linked \cup {d}
  BY DEF InsertTailList
<1>5. /\ Flink'[d] = Head /\ Flink'[p] = d
      /\ Blink'[d] = p /\ Blink'[Head] = d
      /\ \A e \in Entries : e # d /\ e # p => Flink'[e] = Flink[e]
      /\ \A e \in Entries : e # d /\ e # Head => Blink'[e] = Blink[e]
  BY <1>1, <1>3, <1>4
<1> HIDE DEF p
<1>6. Linking'
  <2> SUFFICES ASSUME NEW e \in linked' \cup {Head}
               PROVE  /\ Flink'[e] \in linked' \cup {Head}
                      /\ Blink'[Flink'[e]] = e
                      /\ Blink'[e] \in linked' \cup {Head}
                      /\ Flink'[Blink'[e]] = e
    BY DEF Linking
  <2>1. Flink'[e] \in linked' \cup {Head} /\ Blink'[Flink'[e]] = e
    <3>1. CASE e = d \/ e = p
      BY <1>1, <1>3, <1>4, <1>5, <3>1
    <3>2. CASE e # d /\ e # p
      <4>1. e \in linked \cup {Head} /\ Flink'[e] = Flink[e]
        BY <1>1, <1>4, <1>5, <3>2
      <4>2. Flink[e] \in linked
        BY <1>2, <4>1, <3>2 DEF Linking, p
      <4> QED BY <1>1, <1>2, <1>4, <1>5, <4>1, <4>2 DEF Linking
    <3> QED BY <3>1, <3>2
  <2>2. Blink'[e] \in linked' \cup {Head} /\ Flink'[Blink'[e]] = e
    <3>1. CASE e = d \/ e = Head
      BY <1>1, <1>3, <1>4, <1>5, <3>1
    <3>2. CASE e # d /\ e # Head
      <4>1. e \in linked /\ Blink'[e] = Blink[e]
        BY <1>1, <1>4, <1>5, <3>2
      <4>2. Blink[e] \in linked \cup {Head} /\ Flink[Blink[e]] = e
        BY <1>2, <4>1 DEF Linking
      <4>3. Blink[e] # p /\ Blink[e] # d
        BY <1>1, <1>3, <4>1, <4>2
      <4> QED BY <1>1, <1>4, <1>5, <4>1, <4>2, <4>3
    <3> QED BY <3>1, <3>2
  <2> QED BY <2>1, <2>2
<1>7. NoSubring'
  <2> SUFFICES ASSUME NEW S \in SUBSET linked', \A e \in S : Flink'[e] \in S
               PROVE  S = {}
    BY DEF NoSubring
  <2>1. Head \notin S
    BY <1>1, <1>4
  <2>2. d \notin S /\ p \notin S
    BY <1>5, <2>1
  <2>3. S \in SUBSET linked /\ \A e \in S : Flink[e] \in S
    BY <1>1, <1>4, <1>5, <2>2
  <2> QED BY <1>2, <2>3 DEF NoSubring
<1> QED BY <1>6, <1>7, RingParts DEF ListWellFormed, Linking, NoSubring

(* In a ring no block is linked to itself.                                  *)
LEMMA NoSelfLink ==
  ASSUME ListWellFormed, NEW d \in linked
  PROVE  Flink[d] # d /\ Blink[d] # d
<1>1. Flink[d] # d
  <2> SUFFICES ASSUME Flink[d] = d PROVE FALSE
    OBVIOUS
  <2> QED BY RingParts, {d} \in SUBSET linked DEF NoSubring
<1> QED BY <1>1, RingParts DEF Linking

(* Unlinking a linked block keeps the ring (FlsDataCleanup, and             *)
(* RemoveHeadList in FlsCleanup).                                           *)
LEMMA RemoveKeepsRing ==
  ASSUME TypeOK, ListWellFormed, NEW d \in linked, RemoveEntryListUnsafe(d)
  PROVE  ListWellFormed'
<1> DEFINE p == Blink[d]
           n == Flink[d]
<1>1. /\ Flink \in [Entries -> Entries] /\ Blink \in [Entries -> Entries]
      /\ linked \subseteq Blocks /\ Head \notin Blocks
      /\ Entries = Blocks \cup {Head}
  BY FlsAssumption DEF TypeOK, Entries
<1>2. Linking /\ NoSubring
  BY RingParts
<1>3. /\ p \in linked \cup {Head} /\ Flink[p] = d /\ p # d
      /\ n \in linked \cup {Head} /\ Blink[n] = d /\ n # d
      /\ d # Head
  BY <1>1, <1>2, NoSelfLink DEF Linking
<1>4. /\ Flink' = [Flink EXCEPT ![p] = n]
      /\ Blink' = [Blink EXCEPT ![n] = p]
      /\ linked' = linked \ {d}
  BY DEF RemoveEntryListUnsafe
<1>5. /\ Flink'[p] = n /\ Blink'[n] = p
      /\ \A e \in Entries : e # p => Flink'[e] = Flink[e]
      /\ \A e \in Entries : e # n => Blink'[e] = Blink[e]
  BY <1>1, <1>3, <1>4
<1>6. Flink[d] = n /\ Blink[d] = p
  OBVIOUS
<1> HIDE DEF p, n
<1>7. Linking'
  <2> SUFFICES ASSUME NEW e \in linked' \cup {Head}
               PROVE  /\ Flink'[e] \in linked' \cup {Head}
                      /\ Blink'[Flink'[e]] = e
                      /\ Blink'[e] \in linked' \cup {Head}
                      /\ Flink'[Blink'[e]] = e
    BY DEF Linking
  <2>1. e \in linked \cup {Head} /\ e \in Entries /\ e # d
    BY <1>1, <1>3, <1>4
  <2>2. Flink'[e] \in linked' \cup {Head} /\ Blink'[Flink'[e]] = e
    <3>1. CASE e = p
      BY <1>3, <1>4, <1>5, <3>1
    <3>2. CASE e # p
      <4>1. Flink'[e] = Flink[e] /\ Flink[e] \in linked \cup {Head} /\ Blink[Flink[e]] = e
        BY <1>2, <1>5, <2>1, <3>2 DEF Linking
      <4>2. Flink[e] # d /\ Flink[e] # n
        BY <1>3, <1>6, <2>1, <3>2, <4>1
      <4> QED BY <1>1, <1>4, <1>5, <4>1, <4>2
    <3> QED BY <3>1, <3>2
  <2>3. Blink'[e] \in linked' \cup {Head} /\ Flink'[Blink'[e]] = e
    <3>1. CASE e = n
      BY <1>3, <1>4, <1>5, <3>1
    <3>2. CASE e # n
      <4>1. Blink'[e] = Blink[e] /\ Blink[e] \in linked \cup {Head} /\ Flink[Blink[e]] = e
        BY <1>2, <1>5, <2>1, <3>2 DEF Linking
      <4>2. Blink[e] # d /\ Blink[e] # p
        BY <1>3, <1>6, <2>1, <3>2, <4>1
      <4> QED BY <1>1, <1>4, <1>5, <4>1, <4>2
    <3> QED BY <3>1, <3>2
  <2> QED BY <2>2, <2>3
<1>8. NoSubring'
  <2> SUFFICES ASSUME NEW S \in SUBSET linked', \A e \in S : Flink'[e] \in S
               PROVE  S = {}
    BY DEF NoSubring
  <2>1. CASE p \notin S
    <3>1. S \in SUBSET linked /\ \A e \in S : Flink[e] \in S
      BY <1>1, <1>4, <1>5, <2>1
    <3> QED BY <1>2, <3>1 DEF NoSubring
  <2>2. CASE p \in S
    <3>1. n \in S
      BY <1>5, <2>2
    <3>2. \A e \in S \cup {d} : Flink[e] \in S \cup {d}
      BY <1>1, <1>3, <1>4, <1>5, <1>6, <3>1
    <3>3. S \cup {d} \in SUBSET linked
      BY <1>4
    <3> QED BY <1>2, <3>2, <3>3 DEF NoSubring
  <2> QED BY <2>1, <2>2
<1> QED BY <1>7, <1>8, RingParts DEF ListWellFormed, Linking, NoSubring

(* FlsCleanup unlinks a block that FlsDataCleanup unlinks again.            *)
LEMMA SecondRemoval ==
  ASSUME TypeOK, NEW d \in Blocks, Removed(d), RemoveEntryListUnsafe(d)
  PROVE  UNCHANGED list
<1>1. Flink \in [Entries -> Entries] /\ Blink \in [Entries -> Entries]
  BY DEF TypeOK
<1>2. /\ Flink' = [Flink EXCEPT ![Head] = Flink[Head]]
      /\ Blink' = [Blink EXCEPT ![Flink[d]] = Blink[Flink[d]]]
      /\ linked' = linked
  BY DEF Removed, RemoveEntryListUnsafe
<1> QED BY <1>1, <1>2 DEF list

(* A step that moves no thread from one role to another and touches no link *)
(* and no ownership changes nothing the list invariant talks about.         *)
SameRoles ==
    /\ UNCHANGED <<list, live, FlsData, phase>>
    /\ \A t \in Threads :
         /\ pc'[t] \in CleanupSteps <=> pc[t] \in CleanupSteps
         /\ pc'[t] = "Insert" <=> pc[t] = "Insert"
         /\ pc'[t] = "Free" <=> pc[t] = "Free"
         /\ pc[t] \in CleanupSteps => Entry'[t] = Entry[t]

(* A step that changes neither the links nor who owns which block keeps     *)
(* the list invariant.                                                      *)
LEMMA NeutralStep == ListInv /\ SameRoles => ListInv'
<1> SUFFICES ASSUME ListInv, SameRoles PROVE ListInv'
  OBVIOUS
<1>1. ListWellFormed' /\ (linked \subseteq live)'
  BY DEF ListInv, SameRoles, list, ListWellFormed
<1>2. phase' = "up" => Distinct' /\ Owned' /\ \A t \in Threads : OwnerOK(t)'
  <2>1. \A t \in Threads : Owns(t)' = Owns(t)
    BY DEF SameRoles, Owns
  <2>2. \A t \in Threads : OwnerOK(t) => OwnerOK(t)'
    BY DEF SameRoles, OwnerOK, list, CleanupSteps
  <2> QED BY <2>1, <2>2 DEF ListInv, SameRoles, Distinct, Owned, list
<1>3. phase' = "cleanup" => \A t \in Threads :
         /\ pc'[t] \in CleanupSteps \ {"Free"} => Removed(Entry[t])'
         /\ pc'[t] = "Free" => Entry'[t] \notin linked'
  BY DEF ListInv, SameRoles, Removed, CleanupSteps, list
<1>4. phase' = "down" => \A t \in Threads : FlsData'[t] = NULL
  BY DEF ListInv, SameRoles
<1> QED BY <1>1, <1>2, <1>3, <1>4 DEF ListInv

(* The list is empty and nobody owns a block at first.                      *)
LEMMA ListInit == Init => ListInv
BY FlsAssumption DEF Init, ListInv, ListWellFormed, Distinct, Owned, OwnerOK, Owns,
                     CleanupSteps, Entries

(* Every step keeps the list invariant: the ring, one owner for each        *)
(* linked block, and the links a removed block still holds.                 *)
LEMMA ListStep == TypeInv /\ ListInv /\ [Next]_vars => ListInv'
<1> SUFFICES ASSUME TypeInv, ListInv, [Next]_vars PROVE ListInv'
  OBVIOUS
<1>0. /\ TypeOK /\ LocalsOK /\ PhaseOK
      /\ pc \in [Threads -> {"Idle", "Insert", "Store", "Next"}
                               \cup FreeSteps \cup CleanupSteps]
      /\ Entry \in [Threads -> Entries \cup {NULL}]
      /\ FlsData \in [Threads -> Blocks \cup {NULL}]
      /\ linked \subseteq Blocks /\ live \subseteq Blocks /\ NULL \notin Blocks
      /\ phase \in {"up", "cleanup", "down"}
  BY FlsAssumption DEF TypeInv, TypeOK
<1> USE DEF FreeSteps, CleanupSteps
<1>1. ASSUME NEW t \in Threads, NEW c \in Callbacks \cup {NULL}, RtlFlsAlloc(t, c) PROVE ListInv'
  BY <1>0, <1>1, NeutralStep DEF SameRoles, RtlFlsAlloc, list, locals, fls
<1>2. ASSUME NEW t \in Threads, NEW i \in Usable, RtlFlsFree(t, i) PROVE ListInv'
  BY <1>0, <1>2, NeutralStep DEF SameRoles, Start, RtlFlsFree, list, locals, fls
<1>3. ASSUME NEW t \in Threads, RtlFlsFreeScan(t) PROVE ListInv'
  BY <1>0, <1>3, NeutralStep DEF SameRoles, Return, RtlFlsFreeScan, list, locals, fls
<1>4. ASSUME NEW t \in Threads, RtlFlsFreeCall(t) PROVE ListInv'
  BY <1>0, <1>4, NeutralStep DEF SameRoles, RtlFlsFreeCall, list, locals, fls
<1>5. ASSUME NEW t \in Threads, RtlFlsFreeResume(t) PROVE ListInv'
  BY <1>0, <1>5, NeutralStep DEF SameRoles, RtlFlsFreeResume, list, locals, fls
<1>6. ASSUME NEW t \in Threads, RtlFlsSetStore(t) PROVE ListInv'
  BY <1>0, <1>6, NeutralStep DEF SameRoles, Return, RtlFlsSetStore, list, locals, fls
<1>7. ASSUME NEW t \in Threads, FlsDataCleanup(t) PROVE ListInv'
  BY <1>0, <1>7, NeutralStep DEF SameRoles, FlsDataCleanup, list, locals, fls
<1>8. ASSUME NEW t \in Threads, FlsDataCleanupSlot(t) PROVE ListInv'
  BY <1>0, <1>8, NeutralStep DEF SameRoles, FlsDataCleanupSlot, list, locals, fls
<1>9. ASSUME NEW t \in Threads, FlsDataCleanupClear(t) PROVE ListInv'
  BY <1>0, <1>9, NeutralStep DEF SameRoles, FlsDataCleanupClear, list, locals, fls
<1>10. ASSUME NEW t \in Threads, NEW i \in Usable, NEW v \in FreshValues \cup {NULL},
              RtlFlsSetValue(t, i, v)
       PROVE  ListInv'
  <2>1. phase = "up" /\ phase' = "up" /\ pc[t] = "Idle" /\ UNCHANGED <<list, Entry>>
    BY <1>10 DEF RtlFlsSetValue, Start
  <2>2. CASE FlsData[t] # NULL
    BY <1>0, <1>10, <2>1, <2>2, NeutralStep DEF SameRoles, RtlFlsSetValue
  <2>3. CASE FlsData[t] = NULL
    <3>1. PICK d \in Blocks \ live : /\ live' = live \cup {d}
                                     /\ FlsData' = [FlsData EXCEPT ![t] = d]
                                     /\ pc' = [pc EXCEPT ![t] = "Insert"]
      BY <1>10, <2>3 DEF RtlFlsSetValue
    <3>2. ListWellFormed' /\ (linked \subseteq live)' /\ linked' = linked
      BY <2>1, <3>1 DEF ListInv, list, ListWellFormed
    <3>3. Owns(t) = NULL /\ Owns(t)' = d
      BY <1>0, <2>1, <2>3, <3>1 DEF Owns
    <3>4. \A u \in Threads \ {t} : /\ Owns(u)' = Owns(u) /\ pc'[u] = pc[u]
                                  /\ Owns(u) \in live \cup {NULL}
      BY <1>0, <2>1, <3>1 DEF Owns, ListInv, OwnerOK
    <3>5. Distinct'
      BY <1>0, <2>1, <3>1, <3>3, <3>4 DEF ListInv, Distinct
    <3>6. Owned'
      BY <1>0, <2>1, <3>2, <3>3, <3>4 DEF ListInv, Owned
    <3>7. \A u \in Threads : OwnerOK(u)'
      BY <1>0, <2>1, <3>1, <3>2 DEF ListInv, OwnerOK
    <3> QED BY <2>1, <3>2, <3>5, <3>6, <3>7 DEF ListInv
  <2> QED BY <2>2, <2>3
<1>11. ASSUME NEW t \in Threads, RtlFlsSetInsert(t) PROVE ListInv'
  <2>1. /\ phase = "up" /\ phase' = "up" /\ pc[t] = "Insert"
        /\ pc' = [pc EXCEPT ![t] = "Store"]
        /\ UNCHANGED <<live, FlsData, Entry>>
        /\ InsertTailList(FlsData[t]) /\ linked' = linked \cup {FlsData[t]}
    BY <1>0, <1>11 DEF RtlFlsSetInsert, InsertTailList, PhaseOK
  <2>2. FlsData[t] \in live \ linked
    BY <2>1 DEF ListInv, OwnerOK
  <2>3. ListWellFormed'
    BY <1>0, <2>1, <2>2, InsertKeepsRing DEF ListInv
  <2>4. \A u \in Threads : Owns(u)' = Owns(u) /\ (u # t => pc'[u] = pc[u])
    BY <1>0, <2>1 DEF Owns
  <2>5. Owns(t) = FlsData[t] /\ pc'[t] = "Store"
    BY <1>0, <2>1 DEF Owns
  <2>6. Distinct'
    BY <2>1, <2>4 DEF ListInv, Distinct
  <2>7. Owned'
    BY <2>1, <2>4, <2>5 DEF ListInv, Owned
  <2>8. ASSUME NEW u \in Threads PROVE OwnerOK(u)'
    <3>1. CASE u = t
      BY <2>1, <2>5, <3>1 DEF OwnerOK
    <3>2. CASE u # t
      <4>1. OwnerOK(u) /\ FlsData[t] # Owns(u) /\ pc'[u] = pc[u]
        BY <1>0, <2>1, <2>2, <2>4, <2>5, <3>2 DEF ListInv, Distinct
      <4> QED BY <2>1, <4>1 DEF OwnerOK, Owns
    <3> QED BY <3>1, <3>2
  <2> QED BY <2>1, <2>2, <2>3, <2>6, <2>7, <2>8 DEF ListInv
<1>12. ASSUME NEW t \in Threads, ThreadExit(t) PROVE ListInv'
  <2>1. /\ phase = "up" /\ phase' = "up" /\ pc[t] = "Idle"
        /\ pc' = [pc EXCEPT ![t] = "Begin"]
        /\ Entry' = [Entry EXCEPT ![t] = FlsData[t]]
        /\ FlsData' = [FlsData EXCEPT ![t] = NULL]
        /\ FlsData[t] # NULL
        /\ UNCHANGED <<Flink, Blink, linked, live>>
    BY <1>12 DEF ThreadExit, Start, DeletedTeb, list
  <2>2. ListWellFormed' /\ (linked \subseteq live)'
    BY <2>1 DEF ListInv, ListWellFormed
  <2>3. \A u \in Threads : Owns(u)' = Owns(u) /\ (u # t => pc'[u] = pc[u])
    BY <1>0, <2>1 DEF Owns
  <2>4. Distinct' /\ Owned'
    BY <1>0, <2>1, <2>3 DEF ListInv, Distinct, Owned
  <2>5. \A u \in Threads : OwnerOK(u)'
    BY <1>0, <2>1 DEF ListInv, OwnerOK
  <2> QED BY <2>1, <2>2, <2>4, <2>5 DEF ListInv
<1>13. ASSUME NEW t \in Threads, FlsDataCleanupUnlink(t) PROVE ListInv'
  <2>1. /\ pc[t] = "Unlink" /\ pc' = [pc EXCEPT ![t] = "Free"]
        /\ RemoveEntryListUnsafe(Entry[t]) /\ linked' = linked \ {Entry[t]}
        /\ UNCHANGED <<live, FlsData, phase, Entry>>
        /\ Entry[t] \in Blocks
        /\ phase # "down"
    BY <1>0, <1>13 DEF FlsDataCleanupUnlink, RemoveEntryListUnsafe, LocalsOK, PhaseOK
  <2>2. CASE phase = "up"
    <3>1. Entry[t] \in linked
      BY <2>1, <2>2 DEF ListInv, OwnerOK
    <3>2. ListWellFormed' /\ (linked \subseteq live)'
      BY <1>0, <2>1, <3>1, RemoveKeepsRing DEF ListInv
    <3>3. \A u \in Threads : Owns(u)' = Owns(u) /\ (u # t => pc'[u] = pc[u])
      BY <1>0, <2>1 DEF Owns
    <3>4. Owns(t) = Entry[t]
      BY <2>1 DEF Owns
    <3>5. Distinct'
      BY <2>2, <3>3 DEF ListInv, Distinct
    <3>6. Owned'
      BY <2>1, <2>2, <3>3, <3>4 DEF ListInv, Owned
    <3>7. ASSUME NEW u \in Threads PROVE OwnerOK(u)'
      <4>1. CASE u = t
        BY <1>0, <2>1, <2>2, <3>1, <4>1 DEF ListInv, OwnerOK
      <4>2. CASE u # t
        <5>1. OwnerOK(u) /\ Entry[t] # Owns(u) /\ pc'[u] = pc[u]
          BY <1>0, <2>1, <2>2, <3>3, <3>4, <4>2 DEF ListInv, Distinct
        <5> QED BY <2>1, <5>1 DEF OwnerOK, Owns
      <4> QED BY <4>1, <4>2
    <3> QED BY <2>1, <2>2, <3>2, <3>5, <3>6, <3>7 DEF ListInv
  <2>3. CASE phase = "cleanup"
    <3>1. Removed(Entry[t])
      BY <2>1, <2>3 DEF ListInv
    <3>2. UNCHANGED <<Flink, Blink, linked>>
      BY <1>0, <2>1, <3>1, SecondRemoval DEF list
    <3>3. \A u \in Threads \ {t} : pc[u] = "Idle"
      BY <1>0, <2>1, <2>3 DEF PhaseOK
    <3>4. ListWellFormed'
      BY <3>2 DEF ListInv, ListWellFormed
    <3> QED BY <1>0, <2>1, <2>3, <3>1, <3>2, <3>3, <3>4 DEF ListInv, Removed
  <2> QED BY <1>0, <2>1, <2>2, <2>3
<1>14. ASSUME NEW t \in Threads, FlsDataCleanupFree(t) PROVE ListInv'
  <2>1. /\ pc[t] = "Free"
        /\ pc' = [pc EXCEPT ![t] = IF phase = "cleanup" THEN "Next" ELSE "Idle"]
        /\ Entry' = [Entry EXCEPT ![t] = NULL]
        /\ live' = live \ {Entry[t]}
        /\ UNCHANGED <<Flink, Blink, linked, FlsData, phase>>
        /\ phase # "down"
    BY <1>0, <1>14 DEF FlsDataCleanupFree, list, PhaseOK
  <2>2. Entry[t] \notin linked
    BY <1>0, <2>1 DEF ListInv, OwnerOK
  <2>3. ListWellFormed' /\ (linked \subseteq live)'
    BY <2>1, <2>2 DEF ListInv, ListWellFormed
  <2>4. CASE phase = "up"
    <3>1. \A u \in Threads : u # t => Owns(u)' = Owns(u) /\ pc'[u] = pc[u]
      BY <1>0, <2>1 DEF Owns
    <3>2. Owns(t) = Entry[t] /\ Owns(t)' = NULL /\ pc'[t] = "Idle" /\ FlsData[t] = NULL
      BY <1>0, <2>1, <2>4 DEF Owns, ListInv, OwnerOK
    <3>3. Distinct'
      BY <2>1, <2>4, <3>1, <3>2 DEF ListInv, Distinct
    <3>4. Owned'
      BY <2>1, <2>2, <2>4, <3>1, <3>2 DEF ListInv, Owned
    <3>5. ASSUME NEW u \in Threads PROVE OwnerOK(u)'
      <4>1. CASE u = t
        BY <2>1, <3>2, <4>1 DEF OwnerOK
      <4>2. CASE u # t
        <5>1. OwnerOK(u) /\ Entry'[u] = Entry[u] /\ pc'[u] = pc[u]
          BY <1>0, <2>1, <2>4, <4>2 DEF ListInv
        <5>2. Owns(u) # NULL => Entry[t] # Owns(u)
          BY <2>4, <3>2, <4>2 DEF ListInv, Distinct
        <5> QED BY <1>0, <2>1, <5>1, <5>2 DEF OwnerOK, Owns
      <4> QED BY <4>1, <4>2
    <3> QED BY <2>1, <2>3, <2>4, <3>3, <3>4, <3>5 DEF ListInv
  <2>5. CASE phase = "cleanup"
    <3>1. \A u \in Threads : pc'[u] \in {"Idle", "Next"}
      BY <1>0, <2>1, <2>5 DEF PhaseOK
    <3> QED BY <2>1, <2>3, <2>5, <3>1 DEF ListInv
  <2> QED BY <1>0, <2>1, <2>4, <2>5
<1>15. ASSUME NEW t \in Threads, FlsCleanup(t) PROVE ListInv'
  <2>1. /\ \A u \in Threads : pc'[u] \in {"Idle", "Next"}
        /\ phase' = "cleanup"
        /\ UNCHANGED <<Flink, Blink, linked, live>>
    BY <1>0, <1>15 DEF FlsCleanup, list
  <2> QED BY <2>1 DEF ListInv, ListWellFormed
<1>16. ASSUME NEW t \in Threads, FlsCleanupNext(t) PROVE ListInv'
  <2>0. PICK d \in Entries : d = Flink[Head]
    BY <1>0 DEF TypeOK, Entries
  <2>1. /\ pc[t] = "Next" /\ pc' = [pc EXCEPT ![t] = "Begin"]
        /\ d # Head
        /\ Entry' = [Entry EXCEPT ![t] = d]
        /\ Flink' = [Flink EXCEPT ![Head] = Flink[d]]
        /\ Blink' = [Blink EXCEPT ![Flink[d]] = Head]
        /\ linked' = linked \ {d}
        /\ phase = "cleanup"
        /\ UNCHANGED <<live, phase>>
    BY <1>0, <1>16, <2>0 DEF FlsCleanupNext, PhaseOK
  <2>2. d \in linked /\ Blink[d] = Head
    BY <2>0, <2>1, RingParts DEF ListInv, Linking
  <2>3. RemoveEntryListUnsafe(d)
    BY <2>0, <2>1, <2>2 DEF RemoveEntryListUnsafe
  <2>4. ListWellFormed' /\ (linked \subseteq live)'
    BY <1>0, <2>1, <2>2, <2>3, RemoveKeepsRing DEF ListInv
  <2>5. Removed(d)'
    <3>1. Flink[d] # d /\ Flink[d] \in linked \cup {Head}
      BY <2>2, NoSelfLink, RingParts DEF ListInv, Linking
    <3>2. Flink \in [Entries -> Entries] /\ Blink \in [Entries -> Entries]
      BY <1>0 DEF TypeOK
    <3>3. d # Head /\ d \in Entries /\ Flink[d] \in Entries
      BY <1>0, <2>1, <2>2, <3>1 DEF Entries
    <3>4. Flink'[Head] = Flink[d] /\ Flink'[d] = Flink[d]
      BY <2>1, <3>2, <3>3 DEF Entries
    <3>5. Blink'[d] = Head /\ Blink'[Flink[d]] = Head
      BY <2>1, <2>2, <3>1, <3>2, <3>3
    <3> QED BY <2>1, <3>4, <3>5 DEF Removed
  <2>6. \A u \in Threads \ {t} : pc'[u] = "Idle"
    BY <1>0, <2>1 DEF PhaseOK
  <2>7. Entry'[t] = d /\ pc'[t] = "Begin"
    BY <1>0, <2>1
  <2>8. \A u \in Threads :
          /\ pc'[u] \in CleanupSteps \ {"Free"} => Removed(Entry[u])'
          /\ pc'[u] = "Free" => Entry'[u] \notin linked'
    <3>1. \A u \in Threads : pc'[u] \in CleanupSteps => u = t
      BY <2>6
    <3>2. Removed(Entry[t])'
      BY <2>5, <2>7 DEF Removed
    <3> QED BY <2>7, <3>1, <3>2
  <2> QED BY <2>1, <2>4, <2>8 DEF ListInv
<1>17. ASSUME NEW t \in Threads, FlsCleanupEnd(t) PROVE ListInv'
  <2>1. /\ \A u \in Threads : FlsData'[u] = NULL
        /\ phase' = "down"
        /\ UNCHANGED <<Flink, Blink, linked, live>>
    BY <1>17 DEF FlsCleanupEnd, list
  <2> QED BY <2>1 DEF ListInv, ListWellFormed
<1>18. ASSUME FlsCreate PROVE ListInv'
  <2>1. /\ phase = "down" /\ phase' = "up"
        /\ Flink' = [Flink EXCEPT ![Head] = Head]
        /\ Blink' = [Blink EXCEPT ![Head] = Head]
        /\ linked' = {}
        /\ UNCHANGED <<live, FlsData, pc, Entry>>
    BY <1>18 DEF FlsCreate, locals
  <2>2. \A u \in Threads : pc[u] = "Idle" /\ FlsData[u] = NULL
    BY <1>0, <2>1 DEF PhaseOK, ListInv
  <2>3. Flink'[Head] = Head /\ Blink'[Head] = Head
    BY <1>0, <2>1 DEF TypeOK, Entries
  <2>4. ListWellFormed'
    BY <2>1, <2>3 DEF ListWellFormed
  <2>5. \A u \in Threads : Owns(u)' = NULL /\ OwnerOK(u)'
    BY <2>1, <2>2 DEF Owns, OwnerOK
  <2> QED BY <2>1, <2>4, <2>5 DEF ListInv, Distinct, Owned
<1>19. CASE UNCHANGED vars
  BY <1>19, NeutralStep DEF SameRoles, vars, list, locals
<1>20. QED
  BY <1>1, <1>2, <1>3, <1>4, <1>5, <1>6, <1>7, <1>8, <1>9, <1>10, <1>11, <1>12, <1>13, <1>14, <1>15, <1>16, <1>17, <1>18, <1>19 DEF Next, ThreadStep, ClientCall

(* The FLS list stays one ring through the list head and exactly the linked *)
(* blocks, whatever clients do: also while RtlFlsFree runs callbacks with   *)
(* the lock dropped, while threads exit, and through the double removal of  *)
(* FlsCleanup.                                                              *)
THEOREM ListIsARing == Spec => []ListWellFormed
<1>1. Spec => [](TypeInv /\ ListInv)
  BY TypeInit, TypeStep, ListInit, ListStep, PTL DEF Spec
<1>2. QED
  BY <1>1, PTL DEF ListInv

(* While FLS is up the list holds exactly the blocks that threads own, no   *)
(* block has two owners, and no freed block is linked.                      *)
THEOREM OwnershipHolds == Spec => []ListHoldsOwnedBlocks
<1>1. Spec => [](TypeInv /\ ListInv)
  BY TypeInit, TypeStep, ListInit, ListStep, PTL DEF Spec
<1>2. TypeInv /\ ListInv => ListHoldsOwnedBlocks
  <2> SUFFICES ASSUME TypeInv, ListInv, phase = "up" PROVE ListHoldsOwnedBlocks
    BY DEF ListHoldsOwnedBlocks
  <2>1. /\ linked \subseteq live /\ Distinct /\ Owned
        /\ linked \subseteq Blocks /\ NULL \notin Blocks
        /\ \A t \in Threads : OwnerOK(t)
    BY FlsAssumption DEF ListInv, TypeInv, TypeOK
  <2> DEFINE W == {t \in Threads : pc[t] \notin {"Insert", "Free"}}
  <2>2. linked \subseteq {Owns(t) : t \in W} \ {NULL}
    BY <2>1 DEF Owned
  <2>3. {Owns(t) : t \in W} \ {NULL} \subseteq linked
    BY <2>1 DEF OwnerOK, Owns, CleanupSteps
  <2> QED BY <2>1, <2>2, <2>3 DEF ListHoldsOwnedBlocks, Distinct
<1>3. QED
  BY <1>1, <1>2, PTL

-----------------------------------------------------------------------------
(* The walk of RtlFlsFree under the client contract.                        *)

WalkInv ==
    \A t \in Threads : pc[t] \in FreeSteps =>
      /\ Entry[t] \in linked \cup {Head}
      /\ \A u \in Threads \ {t} : pc[u] = "Idle"

(* Every step keeps the cursor of a walk on the list when frees run         *)
(* alone.                                                                   *)
LEMMA WalkStep ==
  ASSUME FreeAlone, TypeInv, ListInv, WalkInv, [Next]_vars
  PROVE  WalkInv'
<1>0. /\ TypeOK /\ PhaseOK /\ Linking
      /\ pc \in [Threads -> {"Idle", "Insert", "Store", "Next"}
                               \cup FreeSteps \cup CleanupSteps]
      /\ Entry \in [Threads -> Entries \cup {NULL}]
      /\ Head \notin linked
  BY FlsAssumption, RingParts DEF TypeInv, TypeOK, ListInv
<1> USE DEF FreeSteps, CleanupSteps
<1>1. ASSUME NEW t \in Threads, NEW i \in Usable, RtlFlsFree(t, i) PROVE WalkInv'
  <2>1. \A u \in Threads \ {t} : pc[u] = "Idle" /\ pc'[u] = "Idle"
    BY <1>0, <1>1 DEF RtlFlsFree, Alone, locals
  <2>2. CASE pc'[t] \notin FreeSteps
    BY <2>1, <2>2 DEF WalkInv
  <2>3. CASE pc'[t] \in FreeSteps
    <3>1. Entry'[t] = Flink[Head] /\ linked' = linked
      BY <1>0, <1>1, <2>3 DEF RtlFlsFree, Start, FirstEntry, locals, list
    <3> QED BY <1>0, <2>1, <3>1 DEF WalkInv, Linking
  <2> QED BY <2>2, <2>3
<1>2. ASSUME NEW t \in Threads,
             RtlFlsFreeScan(t) \/ RtlFlsFreeCall(t) \/ RtlFlsFreeResume(t)
      PROVE  WalkInv'
  <2>1. /\ pc[t] \in FreeSteps
        /\ UNCHANGED linked
        /\ \A u \in Threads \ {t} : pc'[u] = pc[u]
    BY <1>0, <1>2 DEF RtlFlsFreeScan, RtlFlsFreeCall, RtlFlsFreeResume, Return, list
  <2>2. Entry[t] \in linked \cup {Head} /\ \A u \in Threads \ {t} : pc[u] = "Idle"
    BY <2>1 DEF WalkInv
  <2>3. pc'[t] \in FreeSteps => Entry'[t] \in {Entry[t], Flink[Entry[t]]}
    BY <1>0, <1>2 DEF RtlFlsFreeScan, RtlFlsFreeCall, RtlFlsFreeResume, Return, NextEntry
  <2> QED BY <1>0, <2>1, <2>2, <2>3 DEF WalkInv, Linking
<1>3. ASSUME NEW t \in Threads,
             \/ \E c \in Callbacks \cup {NULL} : RtlFlsAlloc(t, c)
             \/ \E i \in Usable, v \in FreshValues \cup {NULL} : RtlFlsSetValue(t, i, v)
             \/ ThreadExit(t) \/ FlsCleanup(t)
             \/ RtlFlsSetInsert(t) \/ RtlFlsSetStore(t)
             \/ FlsDataCleanup(t) \/ FlsDataCleanupSlot(t) \/ FlsDataCleanupClear(t)
             \/ FlsDataCleanupUnlink(t) \/ FlsDataCleanupFree(t)
             \/ FlsCleanupNext(t) \/ FlsCleanupEnd(t)
      PROVE  WalkInv'
  <2>1. \A u \in Threads : pc[u] \notin FreeSteps
    <3>1. CASE pc[t] = "Idle"
      BY <1>0, <1>3, <3>1 DEF RtlFlsAlloc, RtlFlsSetValue, ThreadExit, FlsCleanup, Start,
           RtlFlsSetInsert, RtlFlsSetStore, FlsDataCleanup, FlsDataCleanupSlot,
           FlsDataCleanupClear, FlsDataCleanupUnlink, FlsDataCleanupFree, FlsCleanupNext,
           FlsCleanupEnd
    <3>2. CASE pc[t] # "Idle"
      <4>1. pc[t] \notin FreeSteps
        BY <1>0, <1>3, <3>2 DEF RtlFlsAlloc, RtlFlsSetValue, ThreadExit, FlsCleanup, Start,
             RtlFlsSetInsert, RtlFlsSetStore, FlsDataCleanup, FlsDataCleanupSlot,
             FlsDataCleanupClear, FlsDataCleanupUnlink, FlsDataCleanupFree, FlsCleanupNext,
             FlsCleanupEnd
      <4> QED BY <3>2, <4>1 DEF WalkInv
    <3> QED BY <3>1, <3>2
  <2>2. \A u \in Threads : pc'[u] \in FreeSteps => pc'[u] = pc[u]
    BY <1>0, <1>3 DEF RtlFlsAlloc, RtlFlsSetValue, ThreadExit, FlsCleanup, Return, locals,
         RtlFlsSetInsert, RtlFlsSetStore, FlsDataCleanup, FlsDataCleanupSlot,
         FlsDataCleanupClear, FlsDataCleanupUnlink, FlsDataCleanupFree, FlsCleanupNext,
         FlsCleanupEnd
  <2> QED BY <2>1, <2>2 DEF WalkInv
<1>4. ASSUME FlsCreate PROVE WalkInv'
  BY <1>0, <1>4 DEF FlsCreate, locals, PhaseOK, WalkInv
<1>5. CASE UNCHANGED vars
  BY <1>5 DEF vars, locals, list, WalkInv
<1> QED
  BY <1>1, <1>2, <1>3, <1>4, <1>5 DEF Next, ThreadStep, ClientCall

-----------------------------------------------------------------------------
(* The walk of RtlFlsFree beside any other call.                            *)

LockOK == \A t \in Threads : pc[t] = "Scan" => Lock = t

(* A thread that looks at the list holds the spin lock.                     *)
LEMMA LockStep == ASSUME TypeInv, LockOK, [Next]_vars PROVE LockOK'
<1>0. /\ PhaseOK
      /\ NULL \notin Threads
      /\ pc \in [Threads -> {"Idle", "Insert", "Store", "Next"}
                               \cup FreeSteps \cup CleanupSteps]
  BY FlsAssumption DEF TypeInv, TypeOK
<1> USE DEF LockOK
<1>1. ASSUME NEW u \in Threads, ThreadStep(u) \/ ClientCall(u) PROVE LockOK'
  <2>1. ASSUME RtlFlsFreeScan(u) \/ RtlFlsFreeResume(u)
                 \/ \E i \in Usable : RtlFlsFree(u, i)
        PROVE  LockOK'
    BY <1>0, <2>1 DEF RtlFlsFreeScan, RtlFlsFreeResume, RtlFlsFree, Start, Return,
                      ReleaseLock, locals
  <2>2. ASSUME \/ RtlFlsFreeCall(u) \/ RtlFlsSetInsert(u) \/ RtlFlsSetStore(u)
               \/ FlsDataCleanup(u) \/ FlsDataCleanupSlot(u)
               \/ FlsDataCleanupClear(u) \/ FlsDataCleanupUnlink(u)
               \/ FlsDataCleanupFree(u) \/ FlsCleanupNext(u) \/ FlsCleanupEnd(u)
               \/ \E c \in Callbacks \cup {NULL} : RtlFlsAlloc(u, c)
               \/ \E i \in Usable, v \in FreshValues \cup {NULL} :
                    RtlFlsSetValue(u, i, v)
               \/ ThreadExit(u) \/ FlsCleanup(u)
        PROVE  LockOK'
    <3>1. UNCHANGED Lock
      BY <2>2 DEF RtlFlsFreeCall, RtlFlsSetInsert, RtlFlsSetStore, FlsDataCleanup,
           FlsDataCleanupSlot, FlsDataCleanupClear, FlsDataCleanupUnlink,
           FlsDataCleanupFree, FlsCleanupNext, FlsCleanupEnd, RtlFlsAlloc,
           RtlFlsSetValue, ThreadExit, FlsCleanup, fls
    <3>2. \A t \in Threads : pc'[t] = "Scan" => pc[t] = "Scan"
      BY <1>0, <2>2 DEF RtlFlsFreeCall, RtlFlsSetInsert, RtlFlsSetStore, FlsDataCleanup,
           FlsDataCleanupSlot, FlsDataCleanupClear, FlsDataCleanupUnlink,
           FlsDataCleanupFree, FlsCleanupNext, FlsCleanupEnd, RtlFlsAlloc,
           RtlFlsSetValue, ThreadExit, FlsCleanup, Return, locals
    <3> QED BY <3>1, <3>2
  <2> QED BY <1>1, <2>1, <2>2 DEF ThreadStep, ClientCall
<1>2. ASSUME FlsCreate PROVE LockOK'
  BY <1>0, <1>2 DEF FlsCreate, PhaseOK, locals
<1>3. CASE UNCHANGED vars
  BY <1>3 DEF vars, locals, fls
<1> QED BY <1>1, <1>2, <1>3 DEF Next

(* A step that takes a walk off the list is the removal of the block it     *)
(* stands on, by the exit of another thread, while the lock is dropped.     *)
LEMMA LeaveStep ==
  ASSUME TypeInv, ListInv, LockOK, [Next]_vars,
         NEW t \in Threads, ~ Astray(t), Astray(t)'
  PROVE  /\ pc[t] \in {"Call", "Resume"}
         /\ \E u \in Threads \ {t} : Entry[u] = Entry[t] /\ FlsDataCleanupUnlink(u)
<1>0. /\ PhaseOK /\ Linking
      /\ phase \in {"up", "cleanup", "down"}
      /\ NULL \notin Threads
      /\ pc \in [Threads -> {"Idle", "Insert", "Store", "Next"}
                               \cup FreeSteps \cup CleanupSteps]
      /\ Entry \in [Threads -> Entries \cup {NULL}]
      /\ pc'[t] \in FreeSteps
      /\ Entry'[t] \notin linked' \cup {Head}
      /\ pc[t] \in FreeSteps => Entry[t] \in linked \cup {Head}
  BY FlsAssumption, RingParts DEF TypeInv, TypeOK, ListInv, Astray
<1> USE DEF FreeSteps, CleanupSteps
<1>1. ASSUME NEW u \in Threads, NEW i \in Usable, RtlFlsFree(u, i) PROVE FALSE
  BY <1>0, <1>1 DEF RtlFlsFree, Start, FirstEntry, Linking, locals, list
<1>2. ASSUME NEW u \in Threads,
             RtlFlsFreeScan(u) \/ RtlFlsFreeCall(u) \/ RtlFlsFreeResume(u)
      PROVE  FALSE
  <2>1. /\ pc[u] \in FreeSteps
        /\ UNCHANGED linked
        /\ t # u => pc'[t] = pc[t] /\ Entry'[t] = Entry[t]
    BY <1>0, <1>2 DEF RtlFlsFreeScan, RtlFlsFreeCall, RtlFlsFreeResume, Return, list
  <2>2. t = u => Entry'[t] \in {Entry[t], Flink[Entry[t]]}
    BY <1>0, <1>2 DEF RtlFlsFreeScan, RtlFlsFreeCall, RtlFlsFreeResume, Return, NextEntry
  <2> QED BY <1>0, <2>1, <2>2 DEF Linking
<1>3. ASSUME NEW u \in Threads, FlsDataCleanupUnlink(u)
      PROVE  /\ pc[t] \in {"Call", "Resume"}
             /\ u # t /\ Entry[u] = Entry[t]
  <2>1. /\ Lock = NULL
        /\ linked' = linked \ {Entry[u]}
        /\ Entry' = Entry
        /\ pc' = [pc EXCEPT ![u] = "Free"]
    BY <1>3 DEF FlsDataCleanupUnlink, RemoveEntryListUnsafe
  <2>2. u # t /\ pc[t] = pc'[t]
    BY <1>0, <2>1
  <2>3. pc[t] # "Scan"
    BY <1>0, <2>1 DEF LockOK
  <2> QED BY <1>0, <2>1, <2>2, <2>3
<1>4. ASSUME NEW u \in Threads, FlsCleanupNext(u) \/ FlsCleanupEnd(u) PROVE FALSE
  <2>1. phase = "cleanup"
    BY <1>0, <1>4 DEF FlsCleanupNext, FlsCleanupEnd, PhaseOK
  <2>2. pc[t] \notin FreeSteps
    BY <1>0, <2>1 DEF PhaseOK
  <2> QED BY <1>0, <1>4, <2>2 DEF FlsCleanupNext, FlsCleanupEnd, Return
<1>5. ASSUME NEW u \in Threads, RtlFlsSetInsert(u) PROVE FALSE
  <2>1. linked \subseteq linked' /\ Entry' = Entry
    BY <1>5 DEF RtlFlsSetInsert, InsertTailList
  <2>2. pc[t] = pc'[t]
    BY <1>0, <1>5 DEF RtlFlsSetInsert
  <2> QED BY <1>0, <2>1, <2>2
<1>6. ASSUME NEW u \in Threads,
             \/ RtlFlsSetStore(u) \/ FlsDataCleanup(u) \/ FlsDataCleanupSlot(u)
             \/ FlsDataCleanupClear(u) \/ FlsDataCleanupFree(u)
             \/ \E c \in Callbacks \cup {NULL} : RtlFlsAlloc(u, c)
             \/ \E i \in Usable, v \in FreshValues \cup {NULL} :
                  RtlFlsSetValue(u, i, v)
             \/ ThreadExit(u) \/ FlsCleanup(u)
      PROVE  FALSE
  <2>1. UNCHANGED linked
    BY <1>6 DEF RtlFlsSetStore, FlsDataCleanup, FlsDataCleanupSlot, FlsDataCleanupClear,
         FlsDataCleanupFree, RtlFlsAlloc, RtlFlsSetValue, ThreadExit, FlsCleanup, list
  <2>2. pc[t] = pc'[t] /\ Entry[t] = Entry'[t]
    BY <1>0, <1>6 DEF RtlFlsSetStore, FlsDataCleanup, FlsDataCleanupSlot,
         FlsDataCleanupClear, FlsDataCleanupFree, RtlFlsAlloc, RtlFlsSetValue,
         ThreadExit, FlsCleanup, Return, locals
  <2> QED BY <1>0, <2>1, <2>2
<1>7. ASSUME FlsCreate PROVE FALSE
  BY <1>0, <1>7 DEF FlsCreate, PhaseOK, locals
<1>8. ASSUME UNCHANGED vars PROVE FALSE
  BY <1>0, <1>8 DEF vars, locals, list
<1> QED
  BY <1>1, <1>2, <1>3, <1>4, <1>5, <1>6, <1>7, <1>8 DEF Next, ThreadStep, ClientCall

(* A walk of RtlFlsFree starts on the FLS list and leaves it in one way     *)
(* only, whatever clients do: the thread that owns the block the walk       *)
(* stands on exits and unlinks it while the lock is dropped for a callback. *)
(* (That it can, the run fls_walk_race shows.)                              *)
THEOREM WalkLeaves == Spec => WalkLeavesOnlyByExit
<1>1. Init => LockOK
  BY DEF Init, LockOK
<1>2. TypeInv /\ LockOK /\ [Next]_vars => LockOK'
  BY LockStep
<1>3. ASSUME TypeInv, ListInv, LockOK, [Next]_vars
      PROVE  \A t \in Threads : ~ Astray(t) /\ Astray(t)' =>
               /\ pc[t] \in {"Call", "Resume"}
               /\ \E u \in Threads \ {t} :
                    Entry[u] = Entry[t] /\ FlsDataCleanupUnlink(u)
  BY <1>3, LeaveStep
<1>4. QED
  BY TypeInit, TypeStep, ListInit, ListStep, <1>1, <1>2, <1>3, PTL
     DEF Spec, WalkLeavesOnlyByExit

-----------------------------------------------------------------------------
(* The blocks that are allocated, and what is owed for their contents.      *)

(* An allocated block is on the list or in the hands of one thread that is  *)
(* about to link it or is processing it.                                    *)
LiveInv ==
    /\ \A d \in live \ linked : \E t \in Threads :
         Owns(t) = d /\ pc[t] \in {"Insert"} \cup CleanupSteps
    /\ \A t \in Threads : pc[t] \in CleanupSteps => Entry[t] \in live
    /\ phase = "down" => live = {}

(* A step that changes no role, link or owner keeps it.                     *)
LEMMA NeutralLive == TypeInv /\ LiveInv /\ SameRoles => LiveInv'
<1> SUFFICES ASSUME TypeInv, LiveInv, SameRoles PROVE LiveInv'
  OBVIOUS
<1>1. \A t \in Threads : Owns(t)' = Owns(t)
  BY DEF SameRoles, Owns
<1> QED  BY <1>1 DEF SameRoles, LiveInv, list, CleanupSteps

(* Every step keeps the account of the blocks.                              *)
LEMMA LiveStep == TypeInv /\ ListInv /\ LiveInv /\ [Next]_vars => LiveInv'
<1> SUFFICES ASSUME TypeInv, ListInv, LiveInv, [Next]_vars PROVE LiveInv'
  OBVIOUS
<1>0. /\ TypeOK /\ LocalsOK /\ PhaseOK
      /\ pc \in [Threads -> {"Idle", "Insert", "Store", "Next"}
                               \cup FreeSteps \cup CleanupSteps]
      /\ Entry \in [Threads -> Entries \cup {NULL}]
      /\ FlsData \in [Threads -> Blocks \cup {NULL}]
      /\ linked \subseteq Blocks /\ live \subseteq Blocks /\ NULL \notin Blocks
      /\ phase \in {"up", "cleanup", "down"}
  BY FlsAssumption DEF TypeInv, TypeOK
<1> USE DEF FreeSteps, CleanupSteps
<1>1. ASSUME NEW t \in Threads,
             \/ \E c \in Callbacks \cup {NULL} : RtlFlsAlloc(t, c)
             \/ \E i \in Usable : RtlFlsFree(t, i)
             \/ RtlFlsFreeScan(t) \/ RtlFlsFreeCall(t) \/ RtlFlsFreeResume(t)
      PROVE  LiveInv'
  <2>1. SameRoles
    BY <1>0, <1>1 DEF SameRoles, RtlFlsAlloc, RtlFlsFree, RtlFlsFreeScan, RtlFlsFreeCall,
         RtlFlsFreeResume, Start, Return, list, locals, fls
  <2> QED  BY <2>1, NeutralLive
<1>2. ASSUME NEW t \in Threads,
             \/ RtlFlsSetStore(t) \/ FlsDataCleanup(t)
             \/ FlsDataCleanupSlot(t) \/ FlsDataCleanupClear(t)
      PROVE  LiveInv'
  <2>1. SameRoles
    BY <1>0, <1>2 DEF SameRoles, RtlFlsSetStore, FlsDataCleanup, FlsDataCleanupSlot,
         FlsDataCleanupClear, Return, list, locals, fls
  <2> QED  BY <2>1, NeutralLive
<1>3. ASSUME NEW t \in Threads, NEW i \in Usable, NEW v \in FreshValues \cup {NULL},
             RtlFlsSetValue(t, i, v)
      PROVE  LiveInv'
  <2>1. phase = "up" /\ phase' = "up" /\ pc[t] = "Idle" /\ UNCHANGED <<list, Entry>>
    BY <1>3 DEF RtlFlsSetValue, Start
  <2>2. CASE FlsData[t] # NULL
    <3>1. SameRoles
      BY <1>0, <1>3, <2>1, <2>2 DEF SameRoles, RtlFlsSetValue
    <3> QED  BY <3>1, NeutralLive
  <2>3. CASE FlsData[t] = NULL
    <3>1. PICK d \in Blocks \ live : /\ live' = live \cup {d}
                                     /\ FlsData' = [FlsData EXCEPT ![t] = d]
                                     /\ pc' = [pc EXCEPT ![t] = "Insert"]
      BY <1>3, <2>3 DEF RtlFlsSetValue
    <3>2. Owns(t)' = d /\ pc'[t] = "Insert"
      BY <1>0, <3>1 DEF Owns
    <3>3. \A u \in Threads \ {t} : Owns(u)' = Owns(u) /\ pc'[u] = pc[u]
      BY <1>0, <2>1, <3>1 DEF Owns
    <3>4. \A e \in live : \A u \in Threads :
             Owns(u) = e /\ pc[u] \in {"Insert"} \cup CleanupSteps => u # t
      BY <2>1
    <3>5. Entry' = Entry /\ linked' = linked
      BY <2>1 DEF list
    <3> QED  BY <1>0, <2>1, <3>1, <3>2, <3>3, <3>4, <3>5 DEF LiveInv
  <2> QED  BY <2>2, <2>3
<1>4. ASSUME NEW t \in Threads, RtlFlsSetInsert(t) PROVE LiveInv'
  <2>1. /\ pc[t] = "Insert" /\ pc' = [pc EXCEPT ![t] = "Store"]
        /\ UNCHANGED <<live, FlsData, Entry, phase>>
        /\ linked' = linked \cup {FlsData[t]}
    BY <1>0, <1>4 DEF RtlFlsSetInsert, InsertTailList
  <2>2. \A u \in Threads : Owns(u)' = Owns(u) /\ (u # t => pc'[u] = pc[u])
    BY <1>0, <2>1 DEF Owns
  <2>3. Owns(t) = FlsData[t] /\ pc'[t] = "Store"
    BY <1>0, <2>1 DEF Owns
  <2> QED  BY <2>1, <2>2, <2>3 DEF LiveInv
<1>5. ASSUME NEW t \in Threads, ThreadExit(t) PROVE LiveInv'
  <2>1. /\ phase = "up" /\ phase' = "up" /\ pc[t] = "Idle"
        /\ pc' = [pc EXCEPT ![t] = "Begin"]
        /\ Entry' = [Entry EXCEPT ![t] = FlsData[t]]
        /\ FlsData' = [FlsData EXCEPT ![t] = NULL]
        /\ FlsData[t] # NULL /\ UNCHANGED <<linked, live>>
    BY <1>5 DEF ThreadExit, Start, DeletedTeb, list
  <2>2. \A u \in Threads : Owns(u)' = Owns(u) /\ (u # t => pc'[u] = pc[u])
    BY <1>0, <2>1 DEF Owns
  <2>3. FlsData[t] \in linked /\ linked \subseteq live
    BY <2>1 DEF ListInv, OwnerOK
  <2>4. \A u \in Threads : pc'[u] \in CleanupSteps => Entry'[u] \in live'
    BY <1>0, <2>1, <2>3 DEF LiveInv
  <2>5. \A d \in live \ linked : \E u \in Threads :
           Owns(u) = d /\ pc'[u] \in {"Insert"} \cup CleanupSteps
    <3>1. \A u \in Threads : pc[u] \in {"Insert"} \cup CleanupSteps => pc'[u] = pc[u]
      BY <2>1, <2>2
    <3> QED  BY <3>1 DEF LiveInv
  <2> QED  BY <2>1, <2>2, <2>4, <2>5 DEF LiveInv
<1>6. ASSUME NEW t \in Threads, FlsDataCleanupUnlink(t) PROVE LiveInv'
  <2>1. /\ pc[t] = "Unlink" /\ pc' = [pc EXCEPT ![t] = "Free"]
        /\ linked' = linked \ {Entry[t]}
        /\ UNCHANGED <<live, FlsData, phase, Entry>>
    BY <1>0, <1>6 DEF FlsDataCleanupUnlink, RemoveEntryListUnsafe
  <2>2. \A u \in Threads : Owns(u)' = Owns(u) /\ (u # t => pc'[u] = pc[u])
    BY <1>0, <2>1 DEF Owns
  <2>3. Owns(t) = Entry[t] /\ pc'[t] = "Free"
    BY <1>0, <2>1 DEF Owns
  <2>4. \A u \in Threads : pc[u] \in {"Insert"} \cup CleanupSteps
                              <=> pc'[u] \in {"Insert"} \cup CleanupSteps
    BY <2>1, <2>2, <2>3
  <2>5. \A u \in Threads : pc[u] \in CleanupSteps <=> pc'[u] \in CleanupSteps
    BY <2>1, <2>2, <2>3
  <2> QED  BY <2>1, <2>2, <2>3, <2>4, <2>5 DEF LiveInv
<1>7. ASSUME NEW t \in Threads, FlsDataCleanupFree(t) PROVE LiveInv'
  <2>1. /\ pc[t] = "Free"
        /\ pc' = [pc EXCEPT ![t] = IF phase = "cleanup" THEN "Next" ELSE "Idle"]
        /\ Entry' = [Entry EXCEPT ![t] = NULL]
        /\ live' = live \ {Entry[t]}
        /\ UNCHANGED <<linked, FlsData, phase>>
        /\ phase # "down"
    BY <1>0, <1>7 DEF FlsDataCleanupFree, list, PhaseOK
  <2>2. \A u \in Threads \ {t} : /\ Owns(u)' = Owns(u) /\ pc'[u] = pc[u]
                                /\ Entry'[u] = Entry[u]
    BY <1>0, <2>1 DEF Owns
  <2>3. Owns(t) = Entry[t]
    BY <2>1 DEF Owns
  <2>4. \A u \in Threads \ {t} : pc[u] \in CleanupSteps => Entry[u] # Entry[t]
    <3>1. CASE phase = "up"
      <4>1. ASSUME NEW u \in Threads \ {t}, pc[u] \in CleanupSteps PROVE Entry[u] # Entry[t]
        <5>1. Owns(u) = Entry[u] /\ Entry[u] # NULL
          BY <1>0, <4>1 DEF Owns, LocalsOK
        <5> QED  BY <2>3, <3>1, <5>1 DEF ListInv, Distinct
      <4> QED  BY <4>1
    <3>2. CASE phase = "cleanup"
      BY <2>1, <3>2, <1>0 DEF PhaseOK
    <3> QED  BY <1>0, <2>1, <3>1, <3>2
  <2>5. pc'[t] \notin CleanupSteps
    BY <1>0, <2>1
  <2> QED  BY <2>1, <2>2, <2>3, <2>4, <2>5 DEF LiveInv
<1>8. ASSUME NEW t \in Threads, FlsCleanup(t) PROVE LiveInv'
  <2>1. /\ \A u \in Threads : pc[u] = "Idle" /\ pc'[u] \in {"Idle", "Next"}
        /\ phase' = "cleanup" /\ UNCHANGED <<linked, live>>
    BY <1>0, <1>8 DEF FlsCleanup, list
  <2> QED  BY <2>1 DEF LiveInv
<1>9. ASSUME NEW t \in Threads, FlsCleanupNext(t) PROVE LiveInv'
  <2>1. /\ pc[t] = "Next" /\ pc' = [pc EXCEPT ![t] = "Begin"]
        /\ Flink[Head] # Head
        /\ Entry' = [Entry EXCEPT ![t] = Flink[Head]]
        /\ linked' = linked \ {Flink[Head]}
        /\ phase = "cleanup" /\ UNCHANGED <<live, phase, FlsData>>
    BY <1>0, <1>9 DEF FlsCleanupNext, PhaseOK
  <2>2. Flink[Head] \in linked /\ linked \subseteq live
    BY <2>1, RingParts DEF ListInv, Linking
  <2>3. \A u \in Threads \ {t} : pc[u] = "Idle" /\ pc'[u] = "Idle"
    BY <1>0, <2>1 DEF PhaseOK
  <2>4. pc'[t] = "Begin" /\ Owns(t)' = Flink[Head] /\ Entry'[t] = Flink[Head]
    BY <1>0, <2>1 DEF Owns
  <2>5. live \subseteq linked
    BY <2>1, <2>3 DEF LiveInv
  <2>6. \A u \in Threads : pc'[u] \in CleanupSteps => Entry'[u] \in live'
    BY <2>1, <2>2, <2>3, <2>4
  <2> QED  BY <2>1, <2>4, <2>5, <2>6 DEF LiveInv
<1>10. ASSUME NEW t \in Threads, FlsCleanupEnd(t) PROVE LiveInv'
  <2>1. /\ pc[t] = "Next" /\ Flink[Head] = Head /\ phase' = "down"
        /\ pc' = [pc EXCEPT ![t] = "Idle"] /\ phase = "cleanup"
        /\ UNCHANGED <<linked, live>>
    BY <1>0, <1>10 DEF FlsCleanupEnd, Return, list, PhaseOK
  <2>2. \A u \in Threads \ {t} : pc[u] = "Idle" /\ pc'[u] = "Idle"
    BY <1>0, <2>1 DEF PhaseOK
  <2>3. linked = {}
    <3>1. Linking /\ NoSubring /\ Head \notin linked
      BY <1>0, RingParts, FlsAssumption DEF ListInv
    <3>2. \A d \in linked : Flink[d] \in linked
      BY <2>1, <3>1 DEF Linking
    <3> QED  BY <3>1, <3>2 DEF NoSubring
  <2>4. live = {}
    BY <2>1, <2>2, <2>3 DEF LiveInv
  <2>5. \A u \in Threads : pc'[u] = "Idle"
    BY <1>0, <2>1, <2>2
  <2> QED  BY <2>1, <2>4, <2>5 DEF LiveInv
<1>11. ASSUME FlsCreate PROVE LiveInv'
  <2>1. phase = "down" /\ phase' = "up" /\ UNCHANGED <<live, pc>>
    BY <1>11 DEF FlsCreate, locals
  <2>2. live = {} /\ \A t \in Threads : pc[t] = "Idle"
    BY <1>0, <2>1 DEF LiveInv, PhaseOK
  <2> QED  BY <2>1, <2>2 DEF LiveInv
<1>12. CASE UNCHANGED vars
  <2>1. SameRoles
    BY <1>12 DEF SameRoles, vars, list, locals
  <2> QED  BY <2>1, NeutralLive
<1> QED
  BY <1>1, <1>2, <1>3, <1>4, <1>5, <1>6, <1>7, <1>8, <1>9, <1>10, <1>11, <1>12
     DEF Next, ThreadStep, ClientCall

LEMMA LiveInit == Init => LiveInv
  BY DEF Init, LiveInv, CleanupSteps
-----------------------------------------------------------------------------
(* What the processing of a block leaves undone, for any client.            *)

InSlot(d, o) == Slots[d][o.idx] = o.val

OwedOK == \A o \in owed : o.val # NULL

(* A value on its way into a slot is in no slot and owed to nobody.         *)
PendingOK ==
    \A t \in Threads : NewValue[t] # NULL =>
      /\ \A d \in live, i \in Indices : Slots[d][i] # NewValue[t]
      /\ \A o \in owed : o.val # NewValue[t]
      /\ \A u \in Threads \ {t} : NewValue[u] # NewValue[t]

(* Without an array no index in use has a callback, and nothing that is     *)
(* still owed, from before an unload, is in a slot.                         *)
NoArrayOK ==
    FlsCallback = NULL =>
      /\ \A o \in owed, d \in live : ~ InSlot(d, o)
      /\ phase # "down" =>
           /\ \A i \in held : registered[i] = NULL
           /\ \A t \in Threads : pc[t] \in {"Insert", "Store"} => registered[FlsIndex[t]] = NULL

(* FlsDataCleanup leaves nothing that is owed in the slots it has passed.   *)
LeftOK ==
    \A t \in Threads :
      /\ pc[t] \in {"Slot", "Clear"} =>
           \A o \in owed : InSlot(Entry[t], o) => o.idx >= FlsIndex[t]
      /\ pc[t] \in {"Unlink", "Free"} =>
           \A o \in owed : InSlot(Entry[t], o) => o.idx >= HighIndex[t]

LostInv == OwedOK /\ PendingOK /\ NoArrayOK /\ LeftOK /\ LostOnlyAtHighIndex

LEMMA LostInit == Init => LostInv
  BY DEF Init, LostInv, OwedOK, PendingOK, NoArrayOK, LeftOK, LostOnlyAtHighIndex

(* Slots that are cleared and accounts that are closed put nothing in a     *)
(* slot that was not there.                                                 *)
OnlyCleared ==
    /\ owed' \subseteq owed
    /\ \A t \in Threads : NewValue'[t] \in {NewValue[t], NULL}
    /\ \A d \in live', i \in Indices :
         Slots'[d][i] = NULL \/ (d \in live /\ Slots'[d][i] = Slots[d][i])

LEMMA ClearedKeeps ==
  ASSUME TypeInv, LostInv, OnlyCleared
  PROVE  /\ OwedOK' /\ PendingOK'
         /\ \A o \in owed', d \in live' : InSlot(d, o)' => d \in live /\ InSlot(d, o)
<1>1. owed' \subseteq owed /\ owed \subseteq Calls /\ \A o \in Calls : o.idx \in Indices
  BY DEF OnlyCleared, TypeInv, TypeOK, Calls
<1>2. OwedOK'
  BY <1>1 DEF LostInv, OwedOK
<1>3. PendingOK'
  <2>1. ASSUME NEW t \in Threads, NewValue'[t] # NULL
        PROVE  /\ \A d \in live', i \in Indices : Slots'[d][i] # NewValue'[t]
               /\ \A o \in owed' : o.val # NewValue'[t]
               /\ \A u \in Threads \ {t} : NewValue'[u] # NewValue'[t]
    <3>1. NewValue'[t] = NewValue[t] /\ NewValue[t] # NULL
      BY <2>1 DEF OnlyCleared
    <3>2. \A u \in Threads \ {t} : NewValue'[u] # NewValue'[t]
      BY <2>1, <3>1 DEF OnlyCleared, LostInv, PendingOK
    <3>3. \A d \in live', i \in Indices : Slots'[d][i] # NewValue'[t]
      BY <2>1, <3>1 DEF OnlyCleared, LostInv, PendingOK
    <3> QED  BY <1>1, <3>1, <3>2, <3>3 DEF LostInv, PendingOK
  <2> QED  BY <2>1 DEF PendingOK
<1>4. ASSUME NEW o \in owed', NEW d \in live', InSlot(d, o)' PROVE d \in live /\ InSlot(d, o)
  <2>1. o \in owed /\ o.val # NULL /\ o.idx \in Indices
    BY <1>1 DEF LostInv, OwedOK
  <2> QED  BY <1>4, <2>1 DEF OnlyCleared, InSlot
<1> QED  BY <1>2, <1>3, <1>4

(* A step that clears at most, and is no step of an exiting thread nor one  *)
(* of the array's.                                                          *)
LEMMA BystanderLost ==
  ASSUME TypeInv, LiveInv', LostInv, OnlyCleared,
         UNCHANGED <<FlsCallback, held, registered, phase, lost>>,
         \A t \in Threads :
           /\ pc'[t] \in {"Insert", "Store", "Slot", "Clear", "Unlink", "Free"} =>
                pc'[t] = pc[t] /\ FlsIndex'[t] = FlsIndex[t]
           /\ pc'[t] \in {"Slot", "Clear", "Unlink", "Free"} =>
                Entry'[t] = Entry[t] /\ HighIndex'[t] = HighIndex[t]
  PROVE  LostInv'
<1>1. /\ OwedOK' /\ PendingOK'
      /\ \A o \in owed', d \in live' : InSlot(d, o)' => d \in live /\ InSlot(d, o)
  BY ClearedKeeps
<1>2. NoArrayOK'
  <2>1. owed' \subseteq owed
    BY DEF OnlyCleared
  <2> QED  BY <1>1, <2>1 DEF LostInv, NoArrayOK
<1>3. LeftOK'
  <2>1. ASSUME NEW t \in Threads, pc'[t] \in {"Slot", "Clear", "Unlink", "Free"},
               NEW o \in owed', InSlot(Entry[t], o)'
        PROVE  /\ pc'[t] \in {"Slot", "Clear"} => o.idx >= FlsIndex'[t]
               /\ pc'[t] \in {"Unlink", "Free"} => o.idx >= HighIndex'[t]
    <3>1. /\ pc'[t] = pc[t] /\ Entry'[t] = Entry[t]
          /\ FlsIndex'[t] = FlsIndex[t] /\ HighIndex'[t] = HighIndex[t]
      BY <2>1
    <3>2. Entry[t] \in live'
      BY <2>1, <3>1 DEF LiveInv, CleanupSteps
    <3>3. InSlot(Entry[t], o) /\ o \in owed
      BY <1>1, <2>1, <3>1, <3>2 DEF OnlyCleared, InSlot
    <3> QED  BY <2>1, <3>1, <3>3 DEF LostInv, LeftOK
  <2>2. ASSUME NEW t \in Threads, pc'[t] \in {"Slot", "Clear", "Unlink", "Free"}
        PROVE  Entry'[t] = Entry[t]
    BY <2>2
  <2> QED  BY <2>1, <2>2 DEF LeftOK, InSlot
<1>4. LostOnlyAtHighIndex'
  BY DEF LostInv, LostOnlyAtHighIndex
<1> QED  BY <1>1, <1>2, <1>3, <1>4 DEF LostInv

LEMMA ClearedSlot ==
  ASSUME TypeOK, NEW d, NEW i, ClearSlot(d, i) \/ UNCHANGED Slots
  PROVE  \A e \in Blocks, j \in Indices : Slots'[e][j] \in {NULL, Slots[e][j]}
  BY DEF TypeOK, ClearSlot

LEMMA SlotIsCleared ==
  ASSUME TypeOK, NEW d \in Blocks, NEW i, ClearSlot(d, i)
  PROVE  i \in Indices => Slots'[d][i] = NULL
  BY DEF TypeOK, ClearSlot

(* Every step keeps the account of what exits leave undone.                 *)
LEMMA LostStep ==
  ASSUME TypeInv, ListInv, LiveInv, LostInv, TypeInv', LiveInv', [Next]_vars
  PROVE  LostInv'
<1>0. /\ TypeOK /\ LocalsOK /\ PhaseOK
      /\ pc \in [Threads -> {"Idle", "Insert", "Store", "Next"}
                               \cup FreeSteps \cup CleanupSteps]
      /\ Entry \in [Threads -> Entries \cup {NULL}]
      /\ FlsData \in [Threads -> Blocks \cup {NULL}]
      /\ FlsIndex \in [Threads -> Nat]
      /\ HighIndex \in [Threads -> Indices]
      /\ NewValue \in [Threads -> Values \cup {NULL}]
      /\ Slots \in [Blocks -> [Indices -> Values \cup {NULL}]]
      /\ registered \in [Indices -> Callbacks \cup {NULL}]
      /\ owed \subseteq Calls /\ \A o \in Calls : o.idx \in Indices
      /\ linked \subseteq Blocks /\ live \subseteq Blocks /\ NULL \notin Blocks
      /\ phase \in {"up", "cleanup", "down"}
      /\ Indices \subseteq Nat /\ held \subseteq Indices
  <2>1. \A o \in Calls : o.idx \in Indices
    BY DEF Calls
  <2>2. Indices \subseteq Nat
    BY FlsAssumption DEF Indices
  <2> QED  BY <2>1, <2>2, FlsAssumption DEF TypeInv, TypeOK
<1> USE DEF FreeSteps, CleanupSteps
<1>1. ASSUME NEW t \in Threads, NEW c \in Callbacks \cup {NULL}, RtlFlsAlloc(t, c) PROVE LostInv'
  <2>1. /\ UNCHANGED <<Slots, live, owed, lost, NewValue, pc, FlsIndex, Entry, HighIndex, phase>>
    BY <1>1 DEF RtlFlsAlloc, locals
  <2>2. OnlyCleared
    BY <1>0, <2>1 DEF OnlyCleared
  <2>3. OwedOK' /\ PendingOK'
    BY <2>2, ClearedKeeps
  <2>4. LeftOK' /\ LostOnlyAtHighIndex'
    BY <2>1 DEF LostInv, LeftOK, InSlot, LostOnlyAtHighIndex
  <2>5. NoArrayOK'
    <3>1. CASE c = NULL
      <4>1. PICK i \in Indices : /\ held' = held \cup {i}
                                 /\ registered' = [registered EXCEPT ![i] = NULL]
        BY <1>1, <3>1 DEF RtlFlsAlloc
      <4>2. FlsCallback' = FlsCallback
        BY <1>1, <3>1 DEF RtlFlsAlloc
      <4>3. \A j \in Indices : registered[j] = NULL => registered'[j] = NULL
        BY <1>0, <4>1
      <4>4. registered'[i] = NULL
        BY <1>0, <4>1
      <4>5. \A u \in Threads : pc[u] \in {"Insert", "Store"} => FlsIndex[u] \in Indices
        BY <1>0 DEF LocalsOK
      <4> QED  BY <1>0, <2>1, <4>1, <4>2, <4>3, <4>4, <4>5 DEF LostInv, NoArrayOK, InSlot
    <3>2. CASE c # NULL
      <4>1. FlsCallback' \in [Indices -> Callbacks \cup {NULL}]
        BY <1>0, <1>1, <3>2 DEF TypeOK, RtlFlsAlloc, NoCallbacks
      <4> QED  BY <4>1, FlsAssumption DEF NoArrayOK
    <3> QED  BY <3>1, <3>2
  <2> QED  BY <2>3, <2>4, <2>5 DEF LostInv
<1>2. ASSUME NEW t \in Threads, NEW i \in Usable, RtlFlsFree(t, i) PROVE LostInv'
  <2>1. /\ UNCHANGED <<Slots, live, owed, lost, NewValue, HighIndex, phase, FlsCallback, registered>>
        /\ held' \subseteq held
    BY <1>2 DEF RtlFlsFree, locals
  <2>2. /\ pc[t] = "Idle" /\ pc'[t] \in {"Idle", "Scan"}
        /\ \A u \in Threads \ {t} : pc'[u] = pc[u] /\ FlsIndex'[u] = FlsIndex[u] /\ Entry'[u] = Entry[u]
    BY <1>0, <1>2 DEF RtlFlsFree, Start, locals
  <2>3. OnlyCleared
    BY <1>0, <2>1 DEF OnlyCleared
  <2>4. OwedOK' /\ PendingOK'
    BY <2>3, ClearedKeeps
  <2>5. LeftOK' /\ LostOnlyAtHighIndex'
    BY <2>1, <2>2 DEF LostInv, LeftOK, InSlot, LostOnlyAtHighIndex
  <2>6. NoArrayOK'
    BY <2>1, <2>2 DEF LostInv, NoArrayOK, InSlot
  <2> QED  BY <2>4, <2>5, <2>6 DEF LostInv
<1>3. ASSUME NEW t \in Threads,
             RtlFlsFreeScan(t) \/ RtlFlsFreeCall(t) \/ RtlFlsFreeResume(t)
      PROVE  LostInv'
  <2>1. /\ UNCHANGED <<FlsCallback, held, registered, phase, lost, live, NewValue, HighIndex>>
        /\ owed' \subseteq owed
        /\ ClearSlot(Entry[t], FlsIndex[t]) \/ UNCHANGED Slots
    <3>1. CASE RtlFlsFreeScan(t)
      BY <3>1 DEF RtlFlsFreeScan, ghosts
    <3>2. CASE RtlFlsFreeCall(t)
      BY <3>2 DEF RtlFlsFreeCall, fls
    <3>3. CASE RtlFlsFreeResume(t)
      BY <3>3 DEF RtlFlsFreeResume
    <3> QED  BY <1>3, <3>1, <3>2, <3>3
  <2>2. \A e \in Blocks, j \in Indices : Slots'[e][j] \in {NULL, Slots[e][j]}
    BY <1>0, <2>1, ClearedSlot
  <2>3. OnlyCleared
    BY <1>0, <2>1, <2>2 DEF OnlyCleared
  <2>4. /\ pc'[t] \in {"Idle", "Scan", "Call", "Resume"}
        /\ \A u \in Threads \ {t} : /\ pc'[u] = pc[u] /\ FlsIndex'[u] = FlsIndex[u]
                                    /\ Entry'[u] = Entry[u]
    BY <1>0, <1>3 DEF RtlFlsFreeScan, RtlFlsFreeCall, RtlFlsFreeResume, Return
  <2> QED  BY <2>1, <2>3, <2>4, BystanderLost
<1>4. ASSUME NEW t \in Threads, NEW i \in Usable, NEW v \in FreshValues \cup {NULL},
             RtlFlsSetValue(t, i, v)
      PROVE  LostInv'
  <2>1. /\ UNCHANGED <<FlsCallback, held, registered, phase, lost, owed, Entry, HighIndex>>
        /\ NewValue' = [NewValue EXCEPT ![t] = v]
        /\ FlsIndex' = [FlsIndex EXCEPT ![t] = i]
        /\ i \in FlsBitmap /\ pc[t] = "Idle" /\ phase = "up"
    BY <1>4 DEF RtlFlsSetValue, Start, fls, ghosts
  <2>2. /\ pc'[t] \in {"Insert", "Store"}
        /\ \A u \in Threads \ {t} : pc'[u] = pc[u] /\ FlsIndex'[u] = FlsIndex[u]
        /\ \A d \in live', j \in Indices :
             Slots'[d][j] = NULL \/ (d \in live /\ Slots'[d][j] = Slots[d][j])
    <3>1. CASE FlsData[t] # NULL
      BY <1>0, <1>4, <2>1, <3>1 DEF RtlFlsSetValue
    <3>2. CASE FlsData[t] = NULL
      <4>1. PICK d \in Blocks \ live : /\ live' = live \cup {d}
                                       /\ Slots' = [Slots EXCEPT ![d] = NoSlots]
                                       /\ pc' = [pc EXCEPT ![t] = "Insert"]
        BY <1>4, <3>2 DEF RtlFlsSetValue, NewBlock
      <4> QED  BY <1>0, <2>1, <4>1 DEF NoSlots
    <3> QED  BY <3>1, <3>2
  <2>3. ASSUME NEW o \in owed', NEW d \in live', InSlot(d, o)' PROVE d \in live /\ InSlot(d, o)
    BY <1>0, <2>1, <2>2, <2>3 DEF InSlot, LostInv, OwedOK
  <2>4. OwedOK'
    BY <2>1 DEF LostInv, OwedOK
  <2>5. PendingOK'
    <3>1. v # NULL => /\ \A d \in live, j \in Indices : Slots[d][j] # v
                      /\ \A o \in owed : o.val # v
                      /\ \A u \in Threads : NewValue[u] # v
      BY DEF FreshValues, Stored
    <3>2. \A u \in Threads : NewValue'[u] = IF u = t THEN v ELSE NewValue[u]
      BY <1>0, <2>1
    <3>3. \A d \in live', j \in Indices, u \in Threads :
             NewValue'[u] # NULL => Slots'[d][j] # NewValue'[u]
      BY <2>2, <3>1, <3>2 DEF LostInv, PendingOK
    <3>4. \A u \in Threads : NewValue'[u] # NULL => \A o \in owed' : o.val # NewValue'[u]
      BY <2>1, <3>1, <3>2 DEF LostInv, PendingOK
    <3>5. \A u \in Threads : NewValue'[u] # NULL =>
             \A w \in Threads \ {u} : NewValue'[w] # NewValue'[u]
      BY <3>1, <3>2 DEF LostInv, PendingOK
    <3> QED  BY <3>3, <3>4, <3>5 DEF PendingOK
  <2>6. NoArrayOK'
    <3>1. i \in held
      BY <2>1 DEF Usable
    <3>2. FlsIndex'[t] = i
      BY <1>0, <2>1
    <3> QED  BY <2>1, <2>2, <2>3, <3>1, <3>2 DEF LostInv, NoArrayOK
  <2>7. LeftOK'
    <3>1. ASSUME NEW u \in Threads, pc'[u] \in {"Slot", "Clear", "Unlink", "Free"}
          PROVE  /\ u # t /\ pc'[u] = pc[u] /\ FlsIndex'[u] = FlsIndex[u] /\ Entry'[u] = Entry[u]
                 /\ \A o \in owed' : InSlot(Entry[u], o)' => InSlot(Entry[u], o)
      <4>1. u # t /\ pc'[u] = pc[u] /\ FlsIndex'[u] = FlsIndex[u] /\ Entry'[u] = Entry[u]
        BY <2>1, <2>2, <3>1
      <4>2. Entry'[u] \in live'
        BY <3>1 DEF LiveInv
      <4> QED  BY <2>3, <4>1, <4>2 DEF InSlot
    <3> QED  BY <2>1, <3>1 DEF LostInv, LeftOK
  <2>8. LostOnlyAtHighIndex'
    BY <2>1 DEF LostInv, LostOnlyAtHighIndex
  <2> QED  BY <2>4, <2>5, <2>6, <2>7, <2>8 DEF LostInv
<1>5. ASSUME NEW t \in Threads, RtlFlsSetInsert(t) PROVE LostInv'
  <2>1. /\ UNCHANGED <<FlsCallback, held, registered, phase, lost, live, NewValue, HighIndex,
                       Slots, owed, FlsIndex, Entry>>
        /\ pc[t] = "Insert" /\ pc' = [pc EXCEPT ![t] = "Store"]
    BY <1>5 DEF RtlFlsSetInsert, fls, ghosts
  <2>2. OnlyCleared
    BY <1>0, <2>1 DEF OnlyCleared
  <2>3. OwedOK' /\ PendingOK'
    BY <2>2, ClearedKeeps
  <2>4. \A u \in Threads : /\ pc'[u] \in {"Insert", "Store"} => pc[u] \in {"Insert", "Store"}
                           /\ pc'[u] \in CleanupSteps => pc'[u] = pc[u]
    BY <1>0, <2>1
  <2>5. LeftOK'
    BY <2>1, <2>4 DEF LostInv, LeftOK, InSlot
  <2>6. NoArrayOK'
    BY <2>1, <2>4 DEF LostInv, NoArrayOK, InSlot
  <2>7. LostOnlyAtHighIndex'
    BY <2>1 DEF LostInv, LostOnlyAtHighIndex
  <2> QED  BY <2>3, <2>5, <2>6, <2>7 DEF LostInv
<1>6. ASSUME NEW t \in Threads, RtlFlsSetStore(t) PROVE LostInv'
  <2> DEFINE b == FlsData[t]
             i == FlsIndex[t]
             v == NewValue[t]
  <2>1. /\ pc[t] = "Store" /\ b \in Blocks /\ i \in Indices
        /\ UNCHANGED <<FlsCallback, held, registered, phase, lost, live, HighIndex, Entry, FlsData>>
        /\ Slots' = [Slots EXCEPT ![b][i] = v]
        /\ owed' \subseteq owed \cup Due(v, i)
        /\ NewValue' = [NewValue EXCEPT ![t] = NULL]
        /\ pc' = [pc EXCEPT ![t] = "Idle"]
        /\ FlsIndex' = [FlsIndex EXCEPT ![t] = 0]
        /\ phase = "up"
    <3>1. pc[t] = "Store"
      BY <1>6 DEF RtlFlsSetStore
    <3>2. b \in Blocks /\ i \in Indices /\ phase = "up"
      BY <1>0, <3>1 DEF LocalsOK, PhaseOK
    <3> QED  BY <1>6, <3>1, <3>2 DEF RtlFlsSetStore, Return, fls
  <2>2. \A o \in Due(v, i) : /\ o.val = v /\ v # NULL /\ o.idx = i
                             /\ registered[i] # NULL
    BY DEF Due
  <2>3. \A d \in Blocks, j \in Indices :
           Slots'[d][j] = IF d = b /\ j = i THEN v ELSE Slots[d][j]
    <3> HIDE DEF b, i, v
    <3> QED  BY <1>0, <2>1
  <2>4. v # NULL => /\ \A d \in live, j \in Indices : Slots[d][j] # v
                    /\ \A o \in owed : o.val # v
                    /\ \A u \in Threads \ {t} : NewValue[u] # v
    BY DEF LostInv, PendingOK
  <2>5. \A u \in Threads : /\ NewValue'[u] = IF u = t THEN NULL ELSE NewValue[u]
                           /\ pc'[u] = IF u = t THEN "Idle" ELSE pc[u]
                           /\ u # t => FlsIndex'[u] = FlsIndex[u]
    <3> HIDE DEF b, i, v
    <3> QED  BY <1>0, <2>1
  <2> HIDE DEF b, i, v
  <2>6. OwedOK'
    BY <2>1, <2>2 DEF LostInv, OwedOK
  <2>7. PendingOK'
    <3>1. ASSUME NEW u \in Threads, NewValue'[u] # NULL
          PROVE  /\ u # t /\ NewValue'[u] = NewValue[u] /\ NewValue[u] # v
                 /\ \A d \in live, j \in Indices : Slots[d][j] # NewValue[u]
                 /\ \A o \in owed : o.val # NewValue[u]
                 /\ \A w \in Threads \ {u} : NewValue[w] # NewValue[u]
      <4>1. u # t /\ NewValue'[u] = NewValue[u] /\ NewValue[u] # NULL
        BY <2>5, <3>1
      <4>2. NewValue[u] # NewValue[t]
        BY <4>1 DEF LostInv, PendingOK
      <4> QED  BY <4>1, <4>2 DEF LostInv, PendingOK, v
    <3>2. ASSUME NEW u \in Threads, NewValue'[u] # NULL
          PROVE  /\ \A d \in live', j \in Indices : Slots'[d][j] # NewValue'[u]
                 /\ \A o \in owed' : o.val # NewValue'[u]
                 /\ \A w \in Threads \ {u} : NewValue'[w] # NewValue'[u]
      <4>1. \A d \in live', j \in Indices : Slots'[d][j] # NewValue'[u]
        BY <1>0, <2>1, <2>3, <3>1, <3>2
      <4>2. \A o \in owed' : o.val # NewValue'[u]
        BY <2>1, <2>2, <3>1, <3>2
      <4>3. \A w \in Threads \ {u} : NewValue'[w] # NewValue'[u]
        BY <2>5, <3>1, <3>2
      <4> QED  BY <4>1, <4>2, <4>3
    <3> QED  BY <3>2 DEF PendingOK
  <2>8. NoArrayOK'
    <3> SUFFICES ASSUME FlsCallback' = NULL PROVE NoArrayOK'
      BY DEF NoArrayOK
    <3>1. FlsCallback = NULL
      BY <2>1
    <3>2. registered[i] = NULL /\ Due(v, i) = {}
      <4>1. registered[FlsIndex[t]] = NULL
        BY <2>1, <3>1 DEF LostInv, NoArrayOK
      <4> QED  BY <4>1 DEF Due, i
    <3>3. ASSUME NEW o \in owed', NEW d \in live' PROVE ~ InSlot(d, o)'
      <4>1. o \in owed /\ o.idx \in Indices /\ o.val # NULL /\ d \in live /\ d \in Blocks
        BY <1>0, <2>1, <3>2 DEF LostInv, OwedOK
      <4>2. Slots[d][o.idx] # o.val
        BY <3>1, <4>1 DEF LostInv, NoArrayOK, InSlot
      <4> QED  BY <2>3, <2>4, <4>1, <4>2 DEF InSlot
    <3>4. \A u \in Threads : pc'[u] \in {"Insert", "Store"} =>
             pc[u] \in {"Insert", "Store"} /\ FlsIndex'[u] = FlsIndex[u]
      BY <2>5
    <3> QED  BY <2>1, <3>1, <3>3, <3>4 DEF LostInv, NoArrayOK
  <2>9. LeftOK'
    <3>1. ASSUME NEW u \in Threads, pc'[u] \in {"Slot", "Clear", "Unlink", "Free"},
                 NEW o \in owed', InSlot(Entry[u], o)'
          PROVE  /\ pc[u] = pc'[u] /\ FlsIndex'[u] = FlsIndex[u]
                 /\ o \in owed /\ InSlot(Entry[u], o)
      <4>1. u # t /\ pc[u] = pc'[u] /\ FlsIndex'[u] = FlsIndex[u]
        BY <2>5, <3>1
      <4>2. Entry[u] \in live /\ Entry[u] \in Blocks
        BY <1>0, <3>1, <4>1 DEF LiveInv
      <4>3. Entry[u] # b
        <5>1. Owns(u) = Entry[u] /\ Owns(t) = b
          BY <2>1, <3>1, <4>1 DEF Owns, b
        <5> QED  BY <1>0, <2>1, <4>1, <4>2, <5>1 DEF ListInv, Distinct
      <4>4. Slots[Entry[u]][o.idx] = o.val /\ o.idx \in Indices
        <5>1. o.idx \in Indices
          BY <1>0, <2>1, <2>2
        <5>2. Slots'[Entry[u]][o.idx] = o.val
          BY <2>1, <3>1 DEF InSlot
        <5> QED  BY <2>3, <4>2, <4>3, <5>1, <5>2
      <4>5. o \in owed
        BY <2>1, <2>2, <2>4, <4>2, <4>4
      <4> QED  BY <4>1, <4>4, <4>5 DEF InSlot
    <3>2. \A u \in Threads, o \in owed' :
             pc'[u] \in {"Slot", "Clear"} /\ InSlot(Entry[u], o)' => o.idx >= FlsIndex'[u]
      BY <3>1 DEF LostInv, LeftOK
    <3>3. \A u \in Threads, o \in owed' :
             pc'[u] \in {"Unlink", "Free"} /\ InSlot(Entry[u], o)' => o.idx >= HighIndex'[u]
      BY <2>1, <3>1 DEF LostInv, LeftOK
    <3> QED  BY <3>2, <3>3 DEF LeftOK
  <2>10. LostOnlyAtHighIndex'
    BY <2>1 DEF LostInv, LostOnlyAtHighIndex
  <2> QED  BY <2>6, <2>7, <2>8, <2>9, <2>10 DEF LostInv
<1>7. ASSUME NEW t \in Threads, ThreadExit(t) \/ FlsCleanupNext(t) PROVE LostInv'
  <2>1. /\ UNCHANGED <<FlsCallback, held, registered, phase, lost, live, NewValue, HighIndex,
                       Slots, owed, FlsIndex>>
        /\ pc' = [pc EXCEPT ![t] = "Begin"]
        /\ \A u \in Threads \ {t} : Entry'[u] = Entry[u]
    BY <1>0, <1>7 DEF ThreadExit, FlsCleanupNext, fls, ghosts
  <2>2. OnlyCleared
    BY <1>0, <2>1 DEF OnlyCleared
  <2>3. pc'[t] = "Begin" /\ \A u \in Threads \ {t} : pc'[u] = pc[u]
    BY <1>0, <2>1
  <2> QED  BY <2>1, <2>2, <2>3, BystanderLost
<1>8. ASSUME NEW t \in Threads, FlsDataCleanup(t) PROVE LostInv'
  <2>1. /\ UNCHANGED <<FlsCallback, held, registered, phase, lost, live, NewValue,
                       Slots, owed, Entry>>
        /\ pc[t] = "Begin" /\ FlsIndex'[t] = 0
        /\ pc'[t] = IF FlsCallback = NULL THEN "Unlink" ELSE "Slot"
        /\ \A u \in Threads \ {t} : /\ pc'[u] = pc[u] /\ FlsIndex'[u] = FlsIndex[u]
                                    /\ HighIndex'[u] = HighIndex[u]
    BY <1>0, <1>8 DEF FlsDataCleanup, FirstSlot, fls, ghosts
  <2>2. OnlyCleared
    BY <1>0, <2>1 DEF OnlyCleared
  <2>3. OwedOK' /\ PendingOK'
    BY <2>2, ClearedKeeps
  <2>4. NoArrayOK'
    BY <2>1 DEF LostInv, NoArrayOK, InSlot
  <2>5. LeftOK'
    <3>1. FlsCallback = NULL => \A o \in owed : ~ InSlot(Entry[t], o)
      BY <2>1 DEF LostInv, NoArrayOK, LiveInv
    <3>2. \A o \in owed : o.idx >= 0
      <4>1. \A o \in owed : o.idx \in Nat
        BY <1>0
      <4> QED  BY <4>1
    <3> QED  BY <2>1, <3>1, <3>2 DEF LostInv, LeftOK, InSlot
  <2>6. LostOnlyAtHighIndex'
    BY <2>1 DEF LostInv, LostOnlyAtHighIndex
  <2> QED  BY <2>3, <2>4, <2>5, <2>6 DEF LostInv
<1>9. ASSUME NEW t \in Threads, FlsDataCleanupSlot(t) \/ FlsDataCleanupClear(t) PROVE LostInv'
  <2> DEFINE b == Entry[t]
             i == FlsIndex[t]
  <2>1. /\ UNCHANGED <<FlsCallback, held, registered, phase, lost, live, NewValue, Entry, HighIndex>>
        /\ owed' \subseteq owed /\ pc[t] \in {"Slot", "Clear"}
        /\ \A u \in Threads \ {t} : pc'[u] = pc[u] /\ FlsIndex'[u] = FlsIndex[u]
        /\ \/ i >= HighIndex[t] /\ pc'[t] = "Unlink" /\ UNCHANGED <<Slots, FlsIndex>>
           \/ pc'[t] = "Clear" /\ UNCHANGED <<Slots, FlsIndex>>
           \/ pc'[t] = "Slot" /\ ClearSlot(b, i) /\ FlsIndex'[t] = i + 1
    <3>1. CASE FlsDataCleanupSlot(t)
      BY <1>0, <3>1 DEF FlsDataCleanupSlot, fls
    <3>2. CASE FlsDataCleanupClear(t)
      BY <1>0, <3>2 DEF FlsDataCleanupClear, fls
    <3> QED  BY <1>9, <3>1, <3>2
  <2>2. b \in Blocks /\ b \in live
    BY <1>0, <2>1 DEF LocalsOK, LiveInv
  <2>3. \A e \in Blocks, j \in Indices : Slots'[e][j] \in {NULL, Slots[e][j]}
    <3>1. ClearSlot(b, i) \/ UNCHANGED Slots
      BY <2>1
    <3> HIDE DEF b, i
    <3> QED  BY <1>0, <3>1, ClearedSlot
  <2>4. OnlyCleared
    BY <1>0, <2>1, <2>3 DEF OnlyCleared
  <2>5. /\ OwedOK' /\ PendingOK'
        /\ \A o \in owed', d \in live' : InSlot(d, o)' => d \in live /\ InSlot(d, o)
    BY <2>4, ClearedKeeps
  <2>6. NoArrayOK'
    <3>1. \A u \in Threads : pc'[u] \in {"Insert", "Store"} =>
             pc[u] \in {"Insert", "Store"} /\ FlsIndex'[u] = FlsIndex[u]
      BY <2>1
    <3> QED  BY <2>1, <2>5, <3>1 DEF LostInv, NoArrayOK
  <2>7. \A u \in Threads, o \in owed' :
           /\ pc'[u] \in {"Slot", "Clear", "Unlink", "Free"} /\ InSlot(Entry[u], o)'
           => InSlot(Entry[u], o) /\ o \in owed /\ o.idx \in Nat
    <3>1. ASSUME NEW u \in Threads, NEW o \in owed',
                 pc'[u] \in {"Slot", "Clear", "Unlink", "Free"}, InSlot(Entry[u], o)'
          PROVE  InSlot(Entry[u], o) /\ o \in owed /\ o.idx \in Nat
      <4>1. Entry'[u] \in live' /\ Entry'[u] = Entry[u]
        BY <2>1, <3>1 DEF LiveInv
      <4>2. o \in owed /\ o.idx \in Nat
        BY <1>0, <2>1
      <4> QED  BY <2>5, <3>1, <4>1, <4>2 DEF InSlot
    <3> QED  BY <3>1
  <2>8. \A o \in owed' : pc'[t] = "Slot" /\ InSlot(Entry[t], o)' => o.idx >= FlsIndex'[t]
    <3>1. ASSUME NEW o \in owed', pc'[t] = "Slot", InSlot(Entry[t], o)'
          PROVE  o.idx >= FlsIndex'[t]
      <4>1. InSlot(Entry[t], o) /\ o \in owed /\ o.idx \in Nat /\ o.idx >= i
        BY <2>1, <2>7, <3>1 DEF LostInv, LeftOK
      <4>2. ClearSlot(b, i) /\ FlsIndex'[t] = i + 1
        BY <2>1, <3>1
      <4>3. o.idx # i
        <5>1. i \in Indices => Slots'[b][i] = NULL
          <6> HIDE DEF b, i
          <6> QED  BY <1>0, <2>2, <4>2, SlotIsCleared
        <5>2. o.val # NULL /\ o.idx \in Indices /\ Slots'[b][o.idx] = o.val
          BY <1>0, <2>1, <3>1, <4>1 DEF LostInv, OwedOK, InSlot
        <5> QED  BY <5>1, <5>2
      <4> QED  BY <1>0, <4>1, <4>2, <4>3
    <3> QED  BY <3>1
  <2>9. \A o \in owed' : pc'[t] = "Clear" /\ InSlot(Entry[t], o)' => o.idx >= FlsIndex'[t]
    BY <2>1, <2>7 DEF LostInv, LeftOK
  <2>10. \A o \in owed' : pc'[t] = "Unlink" /\ InSlot(Entry[t], o)' => o.idx >= HighIndex'[t]
    <3>1. \A o \in owed' : pc'[t] = "Unlink" /\ InSlot(Entry[t], o)' =>
             o.idx >= i /\ o.idx \in Nat /\ i >= HighIndex[t]
      BY <2>1, <2>7 DEF LostInv, LeftOK
    <3>2. HighIndex[t] \in Nat /\ HighIndex' = HighIndex /\ i \in Nat
      BY <1>0, <2>1
    <3> HIDE DEF i
    <3> QED  BY <3>1, <3>2
  <2>11. LeftOK'
    <3>1. \A u \in Threads \ {t}, o \in owed' :
             pc'[u] \in {"Slot", "Clear"} /\ InSlot(Entry[u], o)' => o.idx >= FlsIndex'[u]
      BY <2>1, <2>7 DEF LostInv, LeftOK
    <3>2. \A u \in Threads \ {t}, o \in owed' :
             pc'[u] \in {"Unlink", "Free"} /\ InSlot(Entry[u], o)' => o.idx >= HighIndex'[u]
      BY <2>1, <2>7 DEF LostInv, LeftOK
    <3>3. pc'[t] # "Free"
      BY <2>1
    <3> QED  BY <2>8, <2>9, <2>10, <3>1, <3>2, <3>3 DEF LeftOK
  <2>12. LostOnlyAtHighIndex'
    BY <2>1 DEF LostInv, LostOnlyAtHighIndex
  <2> QED  BY <2>5, <2>6, <2>11, <2>12 DEF LostInv
<1>10. ASSUME NEW t \in Threads, FlsDataCleanupUnlink(t) PROVE LostInv'
  <2>1. /\ UNCHANGED <<FlsCallback, held, registered, phase, lost, live, NewValue, HighIndex,
                       Slots, owed, FlsIndex, Entry>>
        /\ pc[t] = "Unlink" /\ pc' = [pc EXCEPT ![t] = "Free"]
    BY <1>10 DEF FlsDataCleanupUnlink, fls, ghosts
  <2>2. OnlyCleared
    BY <1>0, <2>1 DEF OnlyCleared
  <2>3. OwedOK' /\ PendingOK'
    BY <2>2, ClearedKeeps
  <2>4. pc'[t] = "Free" /\ \A u \in Threads \ {t} : pc'[u] = pc[u]
    BY <1>0, <2>1
  <2>5. LeftOK'
    BY <2>1, <2>4 DEF LostInv, LeftOK, InSlot
  <2>6. NoArrayOK'
    BY <2>1, <2>4 DEF LostInv, NoArrayOK, InSlot
  <2>7. LostOnlyAtHighIndex'
    BY <2>1 DEF LostInv, LostOnlyAtHighIndex
  <2> QED  BY <2>3, <2>5, <2>6, <2>7 DEF LostInv
<1>11. ASSUME NEW t \in Threads, FlsDataCleanupFree(t) PROVE LostInv'
  <2> DEFINE left == {o \in owed : Slots[Entry[t]][o.idx] = o.val}
  <2>1. /\ UNCHANGED <<FlsCallback, held, registered, phase, NewValue, Slots>>
        /\ pc[t] = "Free" /\ pc'[t] \in {"Next", "Idle"}
        /\ live' = live \ {Entry[t]}
        /\ lost' = lost \cup {[val |-> o.val, idx |-> o.idx, high |-> HighIndex[t]] : o \in left}
        /\ owed' = owed \ left
        /\ \A u \in Threads \ {t} : /\ pc'[u] = pc[u] /\ FlsIndex'[u] = FlsIndex[u]
                                    /\ Entry'[u] = Entry[u] /\ HighIndex'[u] = HighIndex[u]
    BY <1>0, <1>11 DEF FlsDataCleanupFree, fls
  <2>2. LostOnlyAtHighIndex'
    <3>1. \A o \in left : o.idx >= HighIndex[t]
      BY <2>1 DEF LostInv, LeftOK, InSlot
    <3> QED  BY <2>1, <3>1 DEF LostInv, LostOnlyAtHighIndex
  <2> HIDE DEF left
  <2>3. OnlyCleared
    BY <1>0, <2>1 DEF OnlyCleared
  <2>4. OwedOK' /\ PendingOK'
    BY <2>3, ClearedKeeps
  <2>5. NoArrayOK'
    BY <2>1 DEF LostInv, NoArrayOK, InSlot
  <2>6. LeftOK'
    BY <2>1 DEF LostInv, LeftOK, InSlot
  <2> QED  BY <2>2, <2>4, <2>5, <2>6 DEF LostInv
<1>12. ASSUME NEW t \in Threads, FlsCleanup(t) PROVE LostInv'
  <2>1. /\ UNCHANGED <<FlsCallback, held, registered, lost, live, NewValue, HighIndex,
                       Slots, owed, FlsIndex, Entry>>
        /\ phase = "up" /\ \A u \in Threads : pc'[u] \in {"Idle", "Next"}
    BY <1>0, <1>12 DEF FlsCleanup, fls, ghosts
  <2>2. OnlyCleared
    BY <1>0, <2>1 DEF OnlyCleared
  <2>3. OwedOK' /\ PendingOK'
    BY <2>2, ClearedKeeps
  <2>4. LeftOK' /\ LostOnlyAtHighIndex'
    BY <2>1 DEF LostInv, LeftOK, LostOnlyAtHighIndex
  <2>5. NoArrayOK'
    BY <2>1 DEF LostInv, NoArrayOK, InSlot
  <2> QED  BY <2>3, <2>4, <2>5 DEF LostInv
<1>13. ASSUME NEW t \in Threads, FlsCleanupEnd(t) PROVE LostInv'
  <2>1. /\ UNCHANGED <<lost, live, NewValue, Slots, owed>>
        /\ phase' = "down"
    BY <1>13 DEF FlsCleanupEnd
  <2>2. OnlyCleared
    BY <1>0, <2>1 DEF OnlyCleared
  <2>3. OwedOK' /\ PendingOK'
    BY <2>2, ClearedKeeps
  <2>4. live' = {} /\ \A u \in Threads : pc'[u] = "Idle"
    BY <2>1 DEF LiveInv, TypeInv, PhaseOK
  <2> QED  BY <2>1, <2>3, <2>4 DEF LostInv, LeftOK, NoArrayOK, LostOnlyAtHighIndex
<1>14. ASSUME FlsCreate PROVE LostInv'
  <2>1. /\ UNCHANGED <<lost, live, NewValue, Slots, owed, FlsCallback, pc>>
        /\ phase = "down" /\ held' = {}
    BY <1>14 DEF FlsCreate, locals
  <2>2. live = {} /\ \A u \in Threads : pc[u] = "Idle"
    BY <1>0, <2>1 DEF LiveInv, PhaseOK
  <2>3. OnlyCleared
    BY <1>0, <2>1 DEF OnlyCleared
  <2>4. OwedOK' /\ PendingOK'
    BY <2>3, ClearedKeeps
  <2> QED  BY <2>1, <2>2, <2>4 DEF LostInv, LeftOK, NoArrayOK, LostOnlyAtHighIndex
<1>15. CASE UNCHANGED vars
  BY <1>15 DEF vars, fls, list, locals, ghosts, LostInv, OwedOK, PendingOK, NoArrayOK, LeftOK,
               LostOnlyAtHighIndex, InSlot
<1> QED
  BY <1>1, <1>2, <1>3, <1>4, <1>5, <1>6, <1>7, <1>8, <1>9, <1>10, <1>11, <1>12, <1>13, <1>14, <1>15
     DEF Next, ThreadStep, ClientCall

(* Whatever clients do, and over any number of restarts, FlsDataCleanup     *)
(* frees a block without a due callback only for a slot at or above the     *)
(* high index it read.                                                      *)
THEOREM LossesAreHigh == Spec => []LostOnlyAtHighIndex
<1>1. LostInv => LostOnlyAtHighIndex
  BY DEF LostInv
<1>2. TypeInv /\ ListInv /\ LiveInv /\ LostInv /\ [Next]_vars => LostInv'
  BY TypeStep, LiveStep, LostStep
<1> QED
  BY TypeInit, TypeStep, ListInit, ListStep, LiveInit, LiveStep, LostInit, <1>1, <1>2, PTL
     DEF Spec

-----------------------------------------------------------------------------
(* The accounts of the quiet client: every index has a callback, and        *)
(* RtlFlsFree overlaps no other call.                                       *)

Quiet == FreeAlone /\ AllowTls = FALSE

(* Indices whose slots may hold values: allocated, or being freed.          *)
Walked == {FlsIndex[t] : t \in {u \in Threads : pc[u] \in FreeSteps}}
InUse  == held \cup Walked

Account(d, i) == [val |-> Slots[d][i], cb |-> registered[i], idx |-> i]

(* An index in use has its callback in the array.                           *)
RegisteredOK ==
    /\ held \subseteq FlsBitmap
    /\ held \cap Walked = {}
    /\ \A i \in held : i <= FlsHighIndex
    /\ phase # "down" => \A i \in InUse : /\ FlsCallback # NULL /\ registered[i] # NULL
                                          /\ FlsCallback[i] = registered[i]

(* What is in a slot is owed, what is owed is in a slot, once.              *)
SlotsOK ==
    \A d \in live, i \in Indices :
      Slots[d][i] # NULL => i \in InUse /\ Account(d, i) \in owed

AccountsOK ==
    \A o \in owed : \E d \in live : Slots[d][o.idx] # NULL /\ o = Account(d, o.idx)

OncePlaced ==
    \A d, e \in live : \A i, j \in Indices :
      Slots[d][i] # NULL /\ Slots[d][i] = Slots[e][j] => d = e /\ i = j

PendingIn == \A t \in Threads : pc[t] \in {"Insert", "Store"} => FlsIndex[t] \in held

(* A callback that is due or running is the one of the slot it stands at.   *)
RunningOK ==
    \A t \in Threads :
      /\ pc[t] \notin {"Resume", "Clear"} => running[t] = NULL
      /\ pc[t] \in {"Resume", "Clear"} =>
           /\ FlsIndex[t] \in Indices /\ Slots[Entry[t]][FlsIndex[t]] # NULL
           /\ running[t] = Account(Entry[t], FlsIndex[t])
      /\ pc[t] = "Call" => /\ Slots[Entry[t]][FlsIndex[t]] # NULL
                           /\ Callback[t] = registered[FlsIndex[t]]

(* The blocks a walk has passed have nothing left in the slot, and they are *)
(* those between the head and the cursor.                                   *)
Passed(t, passed) ==
    /\ \A e \in passed : Slots[e][FlsIndex[t]] = NULL /\ Blink[e] \in passed \cup {Head}
    /\ Blink[Entry[t]] \in passed \cup {Head}

WalkedOK ==
    \A t \in Threads : pc[t] \in FreeSteps => \E passed \in SUBSET linked : Passed(t, passed)

(* What a thread last stored under an allocation is in its slot.            *)
MineOK ==
    /\ phase = "up" => \A t \in Threads, i \in held :
         mine[t][i] = IF FlsData[t] = NULL THEN NULL ELSE Slots[FlsData[t]][i]
    /\ \A t \in Threads : FlsData[t] = NULL => mine[t] = NoSlots

PlacesOK == SlotsOK /\ AccountsOK /\ OncePlaced

AccountInv == RegisteredOK /\ PlacesOK /\ PendingIn /\ RunningOK /\ WalkedOK /\ MineOK

LEMMA AccountInit == Init => AccountInv
<1> SUFFICES ASSUME Init PROVE AccountInv
  OBVIOUS
<1>1. Walked = {} /\ held = {} /\ owed = {} /\ live = {}
  BY DEF Init, Walked, FreeSteps
<1>2. \A t \in Threads : pc[t] = "Idle" /\ running[t] = NULL /\ mine[t] = NoSlots
  BY DEF Init
<1> QED  BY <1>1, <1>2 DEF AccountInv, RegisteredOK, PlacesOK, SlotsOK, AccountsOK,
            OncePlaced, PendingIn, RunningOK, WalkedOK, MineOK, InUse, FreeSteps

(* Nobody walks while any other call makes a step.                          *)
NoWalk == \A t \in Threads : pc[t] \notin FreeSteps

LEMMA OthersStep ==
  ASSUME FreeAlone, TypeInv, WalkInv, NEW t \in Threads,
         \/ \E c \in Callbacks \cup {NULL} : RtlFlsAlloc(t, c)
         \/ \E i \in Usable, v \in FreshValues \cup {NULL} : RtlFlsSetValue(t, i, v)
         \/ ThreadExit(t) \/ FlsCleanup(t)
         \/ RtlFlsSetInsert(t) \/ RtlFlsSetStore(t)
         \/ FlsDataCleanup(t) \/ FlsDataCleanupSlot(t) \/ FlsDataCleanupClear(t)
         \/ FlsDataCleanupUnlink(t) \/ FlsDataCleanupFree(t)
         \/ FlsCleanupNext(t) \/ FlsCleanupEnd(t)
  PROVE  NoWalk /\ NoWalk'
<1>0. pc \in [Threads -> {"Idle", "Insert", "Store", "Next"} \cup FreeSteps \cup CleanupSteps]
  BY DEF TypeInv, TypeOK
<1> USE DEF FreeSteps, CleanupSteps
<1>1. \A u \in Threads : pc[u] \notin FreeSteps
  <2>1. CASE pc[t] = "Idle"
    BY <1>0, <2>1 DEF RtlFlsAlloc, RtlFlsSetValue, ThreadExit, FlsCleanup, Start,
         RtlFlsSetInsert, RtlFlsSetStore, FlsDataCleanup, FlsDataCleanupSlot,
         FlsDataCleanupClear, FlsDataCleanupUnlink, FlsDataCleanupFree, FlsCleanupNext,
         FlsCleanupEnd
  <2>2. CASE pc[t] # "Idle"
    <3>1. pc[t] \notin FreeSteps
      BY <1>0, <2>2 DEF RtlFlsAlloc, RtlFlsSetValue, ThreadExit, FlsCleanup, Start,
           RtlFlsSetInsert, RtlFlsSetStore, FlsDataCleanup, FlsDataCleanupSlot,
           FlsDataCleanupClear, FlsDataCleanupUnlink, FlsDataCleanupFree, FlsCleanupNext,
           FlsCleanupEnd
    <3> QED BY <2>2, <3>1 DEF WalkInv
  <2> QED BY <2>1, <2>2
<1>2. \A u \in Threads : pc'[u] \in FreeSteps => pc'[u] = pc[u]
  BY <1>0 DEF RtlFlsAlloc, RtlFlsSetValue, ThreadExit, FlsCleanup, Return, locals,
       RtlFlsSetInsert, RtlFlsSetStore, FlsDataCleanup, FlsDataCleanupSlot,
       FlsDataCleanupClear, FlsDataCleanupUnlink, FlsDataCleanupFree, FlsCleanupNext,
       FlsCleanupEnd
<1> QED  BY <1>1, <1>2 DEF NoWalk

LEMMA NoneWalked == NoWalk => Walked = {} /\ InUse = held /\ WalkedOK
  BY DEF NoWalk, Walked, InUse, WalkedOK

LEMMA SamePlaces ==
  ASSUME PlacesOK, UNCHANGED <<live, Slots, registered, owed>>, InUse \subseteq InUse'
  PROVE  PlacesOK'
  BY DEF PlacesOK, SlotsOK, AccountsOK, OncePlaced, Account

LEMMA SameRegistered ==
  ASSUME RegisteredOK, NoWalk, NoWalk', UNCHANGED <<FlsBitmap, FlsCallback, FlsHighIndex, held, registered>>,
         phase' # "down" => phase # "down"
  PROVE  RegisteredOK'
  BY NoneWalked DEF RegisteredOK, NoWalk, Walked, InUse

(* A slot is cleared together with its account.                             *)
LEMMA SettledSlot ==
  ASSUME TypeOK, PlacesOK, NEW d \in live, NEW i \in Indices, ClearSlot(d, i),
         owed' = owed \ {Account(d, i)}, UNCHANGED <<live, registered>>, InUse \subseteq InUse'
  PROVE  PlacesOK'
<1>0. live \subseteq Blocks /\ owed \subseteq Calls /\ \A o \in Calls : o.idx \in Indices
  BY DEF TypeOK, Calls
<1>1. \A e \in live, j \in Indices :
         Slots'[e][j] = IF e = d /\ j = i THEN NULL ELSE Slots[e][j]
  BY <1>0 DEF TypeOK, ClearSlot
<1>2. SlotsOK'
  <2>1. ASSUME NEW e \in live, NEW j \in Indices, Slots'[e][j] # NULL
        PROVE  j \in InUse' /\ Account(e, j)' \in owed'
    <3>1. Slots'[e][j] = Slots[e][j] /\ ~(e = d /\ j = i)
      BY <1>1, <2>1
    <3>2. Account(e, j)' = Account(e, j)
      BY <3>1 DEF Account
    <3>3. j \in InUse /\ Account(e, j) \in owed
      BY <2>1, <3>1 DEF PlacesOK, SlotsOK
    <3>4. Account(e, j) # Account(d, i)
      <4>1. Slots[e][j] # Slots[d][i]
        BY <2>1, <3>1 DEF PlacesOK, OncePlaced
      <4> QED  BY <4>1 DEF Account
    <3> QED  BY <3>2, <3>3, <3>4
  <2> QED  BY <2>1 DEF SlotsOK
<1>3. AccountsOK'
  <2>1. ASSUME NEW o \in owed' PROVE \E e \in live' : Slots'[e][o.idx] # NULL /\ o = Account(e, o.idx)'
    <3>1. PICK e \in live : Slots[e][o.idx] # NULL /\ o = Account(e, o.idx)
      BY DEF PlacesOK, AccountsOK
    <3>2. ~(e = d /\ o.idx = i)
      BY <3>1
    <3>3. Slots'[e][o.idx] = Slots[e][o.idx]
      BY <1>0, <1>1, <3>2
    <3>4. o = Account(e, o.idx)'
      BY <3>1, <3>3 DEF Account
    <3> QED  BY <3>1, <3>3, <3>4
  <2> QED  BY <2>1 DEF AccountsOK
<1>4. OncePlaced'
  BY <1>1 DEF PlacesOK, OncePlaced
<1> QED  BY <1>2, <1>3, <1>4 DEF PlacesOK

(* What the types say of the variables the accounts are about.              *)
LEMMA AccountTypes ==
  ASSUME TypeInv
  PROVE  /\ TypeOK /\ LocalsOK /\ PhaseOK
         /\ pc \in [Threads -> {"Idle", "Insert", "Store", "Next"}
                                  \cup FreeSteps \cup CleanupSteps]
         /\ Entry \in [Threads -> Entries \cup {NULL}]
         /\ FlsData \in [Threads -> Blocks \cup {NULL}]
         /\ FlsIndex \in [Threads -> Nat]
         /\ HighIndex \in [Threads -> Indices]
         /\ NewValue \in [Threads -> Values \cup {NULL}]
         /\ Callback \in [Threads -> Callbacks \cup {NULL}]
         /\ running \in [Threads -> Calls \cup {NULL}]
         /\ Slots \in [Blocks -> [Indices -> Values \cup {NULL}]]
         /\ mine \in [Threads -> [Indices -> Values \cup {NULL}]]
         /\ registered \in [Indices -> Callbacks \cup {NULL}]
         /\ owed \subseteq Calls /\ \A o \in Calls : o.idx \in Indices
         /\ linked \subseteq Blocks /\ live \subseteq Blocks /\ NULL \notin Blocks
         /\ phase \in {"up", "cleanup", "down"}
         /\ Indices \subseteq Nat /\ held \subseteq Indices /\ FlsBitmap \subseteq Indices
         /\ FlsHighIndex \in Indices
<1>1. \A o \in Calls : o.idx \in Indices
  BY DEF Calls
<1>2. Indices \subseteq Nat
  BY FlsAssumption DEF Indices
<1> QED  BY <1>1, <1>2, FlsAssumption DEF TypeInv, TypeOK

AccountPre ==
    TypeInv /\ ListInv /\ LiveInv /\ WalkInv /\ LostInv /\ AccountInv

LEMMA AllocAccount ==
  ASSUME Quiet, AccountPre, NEW t \in Threads, NEW c \in Callbacks, RtlFlsAlloc(t, c)
  PROVE  AccountInv'
<1>0. /\ NoWalk /\ NoWalk' /\ c # NULL /\ RegisteredOK /\ PlacesOK /\ phase = "up"
  <2>1. NoWalk /\ NoWalk'
    BY OthersStep DEF Quiet, AccountPre
  <2> QED  BY <2>1, FlsAssumption DEF AccountPre, AccountInv, RtlFlsAlloc, Start
<1>1. InUse = held /\ InUse' = held' /\ WalkedOK' /\ Walked = {} /\ Walked' = {}
  BY <1>0, NoneWalked DEF NoWalk, Walked, InUse, WalkedOK
<1>2. PICK i \in Indices \ FlsBitmap :
         /\ FlsBitmap' = FlsBitmap \cup {i}
         /\ FlsCallback' = [(IF FlsCallback = NULL THEN NoCallbacks ELSE FlsCallback) EXCEPT ![i] = c]
         /\ FlsHighIndex' = NewHighIndex(i)
         /\ held' = held \cup {i}
         /\ registered' = [registered EXCEPT ![i] = c]
         /\ mine' = [u \in Threads |-> [mine[u] EXCEPT ![i] = NULL]]
  BY <1>0 DEF RtlFlsAlloc
<1>3. /\ UNCHANGED <<Slots, live, FlsData, phase, pc, FlsIndex, Entry, Callback, running, owed>>
  BY DEF RtlFlsAlloc, locals
<1>4. /\ registered \in [Indices -> Callbacks \cup {NULL}]
      /\ mine \in [Threads -> [Indices -> Values \cup {NULL}]]
      /\ held \subseteq Indices /\ Indices \subseteq Nat /\ FlsHighIndex \in Indices
      /\ FlsCallback \in [Indices -> Callbacks \cup {NULL}] \cup {NULL}
  BY AccountTypes DEF AccountPre, TypeOK
<1>5. i \notin held
  BY <1>0, <1>2 DEF RegisteredOK
<1>6. RegisteredOK'
  <2>1. held' \subseteq FlsBitmap' /\ (held \cap Walked = {})'
    BY <1>0, <1>1, <1>2 DEF RegisteredOK
  <2>2. \A j \in held' : j <= FlsHighIndex'
    BY <1>0, <1>2, <1>4 DEF RegisteredOK, NewHighIndex
  <2>3. FlsCallback' \in [Indices -> Callbacks \cup {NULL}]
    BY <1>2, <1>4 DEF NoCallbacks
  <2>4. FlsCallback' # NULL
    BY <2>3, FlsAssumption
  <2>5. FlsCallback'[i] = c /\ registered'[i] = c
    BY <1>2, <1>4 DEF NoCallbacks
  <2>6. ASSUME NEW j \in held
        PROVE  registered'[j] # NULL /\ FlsCallback'[j] = registered'[j]
    <3>1. FlsCallback # NULL /\ registered[j] # NULL /\ FlsCallback[j] = registered[j] /\ j \in Indices
      BY <1>0, <1>1, <1>4 DEF RegisteredOK
    <3>2. FlsCallback'[j] = FlsCallback[j] /\ registered'[j] = registered[j]
      BY <1>2, <1>4, <1>5, <3>1
    <3> QED  BY <3>1, <3>2
  <2> QED  BY <1>0, <1>1, <1>2, <2>1, <2>2, <2>4, <2>5, <2>6 DEF RegisteredOK
<1>7. \A j \in Indices : j # i => registered'[j] = registered[j]
  BY <1>2, <1>4
<1>8. \A d \in live : Slots[d][i] = NULL
  BY <1>0, <1>1, <1>2, <1>5 DEF PlacesOK, SlotsOK
<1>9. \A d \in live, j \in Indices : Slots[d][j] # NULL => Account(d, j)' = Account(d, j)
  BY <1>3, <1>7, <1>8 DEF Account
<1>10. PlacesOK'
  <2>1. SlotsOK'
    BY <1>0, <1>1, <1>2, <1>3, <1>9 DEF PlacesOK, SlotsOK
  <2>2. AccountsOK'
    <3>1. \A o \in owed : o.idx \in Indices
      BY AccountTypes DEF AccountPre
    <3> QED  BY <1>0, <1>3, <1>9, <3>1 DEF PlacesOK, AccountsOK
  <2>3. OncePlaced'
    BY <1>0, <1>3 DEF PlacesOK, OncePlaced
  <2> QED  BY <2>1, <2>2, <2>3 DEF PlacesOK
<1>11. PendingIn'
  BY <1>2, <1>3 DEF AccountPre, AccountInv, PendingIn
<1>12. RunningOK'
  <2>1. \A u \in Threads : pc[u] \notin {"Resume", "Call"}
    BY <1>0 DEF NoWalk, FreeSteps
  <2>2. ASSUME NEW u \in Threads, pc[u] = "Clear"
        PROVE  Account(Entry[u], FlsIndex[u])' = Account(Entry[u], FlsIndex[u])
    <3>1. FlsIndex[u] \in Indices /\ Slots[Entry[u]][FlsIndex[u]] # NULL
      BY <2>2 DEF AccountPre, AccountInv, RunningOK
    <3>2. Entry[u] \in live
      BY <2>2 DEF AccountPre, LiveInv, CleanupSteps
    <3> QED  BY <1>3, <1>9, <3>1, <3>2 DEF Account
  <2> QED  BY <1>3, <2>1, <2>2 DEF AccountPre, AccountInv, RunningOK
<1>13. MineOK'
  <2>1. \A u \in Threads : FlsData[u] # NULL => FlsData[u] \in live
    <3>1. ASSUME NEW u \in Threads, FlsData[u] # NULL PROVE FlsData[u] \in live
      <4>1. OwnerOK(u) /\ linked \subseteq live
        BY <1>0 DEF AccountPre, ListInv
      <4> QED  BY <3>1, <4>1 DEF OwnerOK
    <3> QED  BY <3>1
  <2>2. \A u \in Threads : mine'[u] = [mine[u] EXCEPT ![i] = NULL]
    BY <1>2
  <2>3. \A u \in Threads : mine'[u][i] = NULL /\ \A j \in Indices : j # i => mine'[u][j] = mine[u][j]
    BY <1>2, <1>4, <2>2
  <2>4. \A u \in Threads : mine[u] = NoSlots => mine'[u] = NoSlots
    BY <1>2, <1>4, <2>2 DEF NoSlots
  <2>5. \A u \in Threads, j \in held' :
          mine'[u][j] = IF FlsData[u] = NULL THEN NULL ELSE Slots[FlsData[u]][j]
    BY <1>0, <1>2, <1>4, <1>8, <2>1, <2>3 DEF AccountPre, AccountInv, MineOK
  <2> QED  BY <1>3, <2>4, <2>5 DEF AccountPre, AccountInv, MineOK
<1> QED  BY <1>1, <1>6, <1>10, <1>11, <1>12, <1>13 DEF AccountInv

LEMMA FreeAccount ==
  ASSUME Quiet, AccountPre, NEW t \in Threads, NEW i \in Usable, RtlFlsFree(t, i)
  PROVE  AccountInv'
<1>0. TypeInv /\ AccountInv /\ ListInv /\ RegisteredOK /\ PlacesOK
  BY DEF AccountPre, AccountInv
<1>1. /\ phase = "up" /\ i \in held /\ i \in Indices
      /\ \A u \in Threads : pc[u] = "Idle"
      /\ UNCHANGED <<FlsCallback, FlsHighIndex, Slots, live, FlsData, phase, registered, mine,
                     running, owed, linked, Flink, Blink>>
      /\ FlsBitmap' = FlsBitmap \ {i} /\ held' = held \ {i}
  BY DEF RtlFlsFree, Start, Alone, Quiet, Usable, list
<1>2. FlsCallback # NULL
  BY <1>0, <1>1 DEF RegisteredOK, InUse
<1>3. /\ pc' = [pc EXCEPT ![t] = "Scan"]
      /\ FlsIndex' = [FlsIndex EXCEPT ![t] = i]
      /\ Entry' = [Entry EXCEPT ![t] = Flink[Head]]
  BY <1>2 DEF RtlFlsFree, FirstEntry
<1>4. /\ pc'[t] = "Scan" /\ FlsIndex'[t] = i /\ Entry'[t] = Flink[Head]
      /\ \A u \in Threads \ {t} : pc'[u] = "Idle"
  BY <1>0, <1>1, <1>3, AccountTypes
<1>5. Walked = {} /\ Walked' = {i} /\ InUse = held /\ InUse' = held
  <2>1. Walked = {}
    BY <1>1 DEF Walked, FreeSteps
  <2>2. Walked' = {i}
    BY <1>4 DEF Walked, FreeSteps
  <2> QED  BY <1>1, <2>1, <2>2 DEF InUse
<1>6. RegisteredOK'
  BY <1>0, <1>1, <1>5 DEF RegisteredOK
<1>7. PlacesOK'
  BY <1>0, <1>1, <1>5, SamePlaces
<1>8. PendingIn'
  BY <1>4 DEF PendingIn
<1>9. RunningOK'
  <2>1. \A u \in Threads : pc'[u] \in {"Idle", "Scan"} /\ running'[u] = NULL
    BY <1>0, <1>1, <1>4 DEF AccountInv, RunningOK
  <2> QED  BY <2>1 DEF RunningOK
<1>10. WalkedOK'
  <2>1. Blink'[Entry'[t]] = Head
    BY <1>0, <1>1, <1>4, RingParts DEF ListInv, Linking
  <2>2. Passed(t, {})'
    BY <2>1 DEF Passed
  <2>3. {} \in SUBSET linked'
    OBVIOUS
  <2> QED  BY <1>4, <2>2, <2>3 DEF WalkedOK, FreeSteps
<1>11. MineOK'
  BY <1>0, <1>1 DEF AccountInv, MineOK
<1> QED  BY <1>6, <1>7, <1>8, <1>9, <1>10, <1>11 DEF AccountInv

(* The walk: nothing else moves, and it is over when the cursor is back at  *)
(* the head, because what it has not passed would be closed off.            *)
LEMMA WalkDone ==
  ASSUME TypeInv, ListInv, NEW passed \in SUBSET linked, NEW t \in Threads,
         Passed(t, passed), Entry[t] = Head
  PROVE  passed = linked
<1>1. Linking /\ NoSubring /\ Head \notin linked
  BY RingParts, FlsAssumption DEF ListInv, TypeInv, TypeOK
<1>2. ASSUME NEW d \in linked \ passed PROVE Flink[d] \in linked \ passed
  <2>1. Flink[d] \in linked \cup {Head} /\ Blink[Flink[d]] = d
    BY <1>1 DEF Linking
  <2>2. Flink[d] # Head
    BY <1>1, <1>2, <2>1 DEF Passed
  <2>3. Flink[d] \notin passed
    BY <1>1, <1>2, <2>1 DEF Passed
  <2> QED  BY <2>1, <2>2, <2>3
<1>3. linked \ passed \in SUBSET linked
  OBVIOUS
<1>4. linked \ passed = {}
  <2> DEFINE rest == linked \ passed
  <2>1. \A d \in rest : Flink[d] \in rest
    BY <1>2
  <2> HIDE DEF rest
  <2>2. rest \in SUBSET linked
    BY <1>3 DEF rest
  <2>3. rest = {}
    BY <1>1, <2>1, <2>2 DEF NoSubring
  <2> QED  BY <2>3 DEF rest
<1> QED  BY <1>4

LEMMA WalkerAlone ==
  ASSUME AccountPre, NEW t \in Threads, pc[t] \in FreeSteps
  PROVE  /\ \A u \in Threads \ {t} : pc[u] = "Idle"
         /\ phase = "up" /\ live = linked
         /\ FlsIndex[t] \in Indices /\ Walked = {FlsIndex[t]} /\ FlsIndex[t] \notin held
         /\ FlsCallback # NULL /\ FlsCallback[FlsIndex[t]] = registered[FlsIndex[t]]
         /\ registered[FlsIndex[t]] # NULL
         /\ Entry[t] \in linked \cup {Head}
<1>1. /\ \A u \in Threads \ {t} : pc[u] = "Idle"
      /\ Entry[t] \in linked \cup {Head}
  BY DEF AccountPre, WalkInv
<1>2. phase = "up"
  BY AccountTypes DEF AccountPre, PhaseOK, FreeSteps, CleanupSteps
<1>3. Walked = {FlsIndex[t]}
  BY <1>1 DEF Walked, FreeSteps
<1>4. FlsIndex[t] \notin held /\ FlsIndex[t] \in InUse
  BY <1>3 DEF AccountPre, AccountInv, RegisteredOK, InUse
<1>5. /\ FlsCallback # NULL /\ FlsCallback[FlsIndex[t]] = registered[FlsIndex[t]]
      /\ registered[FlsIndex[t]] # NULL
  BY <1>2, <1>4 DEF AccountPre, AccountInv, RegisteredOK
<1>6. FlsIndex[t] \in Indices
  BY AccountTypes DEF AccountPre, LocalsOK
<1>7. live = linked
  <2>1. \A u \in Threads : pc[u] \notin {"Insert"} \cup CleanupSteps
    BY <1>1 DEF FreeSteps, CleanupSteps
  <2> QED  BY <2>1 DEF AccountPre, LiveInv, ListInv
<1> QED  BY <1>1, <1>2, <1>3, <1>4, <1>5, <1>6, <1>7

LEMMA ScanAccount ==
  ASSUME Quiet, AccountPre, NEW t \in Threads, RtlFlsFreeScan(t)
  PROVE  AccountInv'
<1> DEFINE d == Entry[t]
           i == FlsIndex[t]
<1>0. TypeInv /\ AccountInv /\ ListInv /\ RegisteredOK /\ PlacesOK
  BY DEF AccountPre, AccountInv
<1>1. /\ pc[t] = "Scan"
      /\ UNCHANGED <<FlsBitmap, FlsCallback, FlsHighIndex, linked, Flink, Blink, live, FlsData, phase,
                     held, registered, mine, running, owed>>
  BY DEF RtlFlsFreeScan, list, ghosts
<1>2. /\ \A u \in Threads \ {t} : pc[u] = "Idle"
      /\ phase = "up" /\ live = linked
      /\ i \in Indices /\ Walked = {i} /\ i \notin held
      /\ FlsCallback[i] = registered[i] /\ registered[i] # NULL
      /\ d \in linked \cup {Head}
  BY <1>1, WalkerAlone DEF FreeSteps
<1>3. PICK passed \in SUBSET linked : Passed(t, passed)
  BY <1>0, <1>1 DEF AccountInv, WalkedOK, FreeSteps
<1>4. /\ pc \in [Threads -> {"Idle", "Insert", "Store", "Next"} \cup FreeSteps \cup CleanupSteps]
      /\ Entry \in [Threads -> Entries \cup {NULL}] /\ FlsIndex \in [Threads -> Nat]
      /\ Callback \in [Threads -> Callbacks \cup {NULL}]
      /\ Slots \in [Blocks -> [Indices -> Values \cup {NULL}]]
      /\ linked \subseteq Blocks
  BY <1>0, AccountTypes
<1>5. MineOK' /\ PendingIn' /\ (\A u \in Threads : running[u] = NULL) /\ Slots' = Slots
      /\ \A u \in Threads \ {t} : pc'[u] = "Idle"
  <2>1. \A u \in Threads : running[u] = NULL
    BY <1>0, <1>1, <1>2 DEF AccountInv, RunningOK
  <2>2. Slots' = Slots
    <3>1. CASE UNCHANGED Slots
      BY <3>1
    <3>2. CASE d # Head /\ Slots[d][i] = NULL /\ ClearSlot(d, i)
      <4>1. Slots' = [Slots EXCEPT ![d][i] = NULL]
        BY <3>2 DEF ClearSlot
      <4> HIDE DEF d, i
      <4> QED  BY <1>2, <1>4, <3>2, <4>1
    <3> QED  BY <1>2, <3>1, <3>2 DEF RtlFlsFreeScan
  <2>3. \A u \in Threads \ {t} : pc'[u] = "Idle"
    BY <1>2, <1>4 DEF RtlFlsFreeScan, Return
  <2>4. pc'[t] \in {"Idle", "Call", "Scan"}
    BY <1>1, <1>4 DEF RtlFlsFreeScan, Return
  <2> QED  BY <1>0, <1>1, <2>1, <2>2, <2>3, <2>4 DEF AccountInv, MineOK, PendingIn
<1>6. CASE d = Head
  <2>1. /\ pc' = [pc EXCEPT ![t] = "Idle"]
    BY <1>6 DEF RtlFlsFreeScan, Return
  <2>2. NoWalk' /\ \A u \in Threads : pc'[u] = "Idle"
    BY <1>4, <1>5, <2>1 DEF NoWalk, FreeSteps
  <2>3. InUse' = held /\ WalkedOK' /\ Walked' = {}
    BY <1>1, <2>2, NoneWalked DEF NoWalk, Walked, InUse, WalkedOK
  <2>4. RegisteredOK'
    BY <1>0, <1>1, <2>3 DEF RegisteredOK, InUse
  <2>5. PlacesOK'
    <3>1. \A e \in live : Slots[e][i] = NULL
      <4>1. passed = linked
        BY <1>0, <1>3, <1>6, WalkDone
      <4> QED  BY <1>2, <1>3, <4>1 DEF Passed
    <3>2. \A e \in live, j \in Indices : Slots[e][j] # NULL => j \in held
      BY <1>0, <1>2, <3>1 DEF PlacesOK, SlotsOK, InUse
    <3> QED  BY <1>0, <1>1, <1>5, <2>3, <3>2 DEF PlacesOK, SlotsOK, AccountsOK, OncePlaced, Account
  <2>6. RunningOK'
    BY <1>1, <1>5, <2>2 DEF RunningOK
  <2> QED  BY <1>5, <2>3, <2>4, <2>5, <2>6 DEF AccountInv
<1>7. CASE d # Head /\ FlsCallback[i] # NULL /\ Slots[d][i] # NULL
  <2>1. /\ pc' = [pc EXCEPT ![t] = "Call"]
        /\ Callback' = [Callback EXCEPT ![t] = FlsCallback[i]]
        /\ UNCHANGED <<FlsIndex, Entry>>
    BY <1>7 DEF RtlFlsFreeScan
  <2>2. pc'[t] = "Call" /\ Callback'[t] = registered[i]
    BY <1>2, <1>4, <2>1
  <2>3. Walked' = {i} /\ InUse' = InUse
    <3>1. Walked' = {i}
      BY <1>5, <2>1, <2>2 DEF Walked, FreeSteps
    <3> QED  BY <1>1, <1>2, <3>1 DEF InUse
  <2>4. RegisteredOK' /\ PlacesOK'
    BY <1>0, <1>1, <1>2, <1>5, <2>3, SamePlaces DEF RegisteredOK
  <2>5. RunningOK'
    BY <1>1, <1>5, <1>7, <2>1, <2>2 DEF RunningOK
  <2>6. WalkedOK'
    BY <1>1, <1>3, <1>5, <2>1, <2>2 DEF WalkedOK, Passed, FreeSteps
  <2> QED  BY <1>5, <2>4, <2>5, <2>6 DEF AccountInv
<1>8. CASE d # Head /\ (FlsCallback[i] = NULL \/ Slots[d][i] = NULL)
  <2>1. /\ Entry' = [Entry EXCEPT ![t] = Flink[d]]
        /\ UNCHANGED <<pc, FlsIndex, Callback>>
    BY <1>8 DEF RtlFlsFreeScan, NextEntry
  <2>2. Walked' = Walked /\ InUse' = InUse
    BY <1>1, <2>1 DEF Walked, InUse
  <2>3. RegisteredOK' /\ PlacesOK'
    BY <1>0, <1>1, <1>5, <2>2, SamePlaces DEF RegisteredOK
  <2>4. RunningOK'
    BY <1>1, <1>2, <1>5, <2>1 DEF RunningOK
  <2>5. WalkedOK'
    <3>1. Entry'[t] = Flink[d] /\ Blink[Flink[d]] = d /\ Slots[d][i] = NULL
      <4>1. Linking
        BY <1>0, RingParts DEF ListInv
      <4> QED  BY <1>2, <1>4, <1>8, <2>1, <4>1 DEF Linking
    <3>2. PICK more \in SUBSET linked : more = passed \cup {d}
      BY <1>2, <1>8
    <3>3. \A e \in more : Slots[e][i] = NULL /\ Blink[e] \in more \cup {Head}
      BY <1>3, <3>1, <3>2 DEF Passed
    <3>4. d \in more \cup {Head}
      BY <3>2
    <3>5. Passed(t, more)'
      <4> HIDE DEF d
      <4> QED  BY <1>1, <1>5, <2>1, <3>1, <3>3, <3>4 DEF Passed
    <3> QED  BY <1>1, <1>5, <3>5 DEF WalkedOK, FreeSteps
  <2> QED  BY <1>5, <2>3, <2>4, <2>5 DEF AccountInv
<1> QED  BY <1>6, <1>7, <1>8

LEMMA CallAccount ==
  ASSUME Quiet, AccountPre, NEW t \in Threads, RtlFlsFreeCall(t)
  PROVE  AccountInv'
<1>0. TypeInv /\ AccountInv /\ RegisteredOK /\ PlacesOK
  BY DEF AccountPre, AccountInv
<1>1. /\ pc[t] = "Call" /\ pc' = [pc EXCEPT ![t] = "Resume"]
      /\ UNCHANGED <<FlsBitmap, FlsCallback, FlsHighIndex, linked, Flink, Blink, Slots, live, FlsData,
                     phase, held, registered, mine, owed, FlsIndex, Entry>>
      /\ running' = [running EXCEPT ![t] = [val |-> Slots[Entry[t]][FlsIndex[t]],
                                            cb |-> Callback[t], idx |-> FlsIndex[t]]]
  BY DEF RtlFlsFreeCall, list, fls
<1>2. /\ \A u \in Threads \ {t} : pc[u] = "Idle" /\ pc'[u] = "Idle" /\ running'[u] = NULL
      /\ FlsIndex[t] \in Indices /\ Walked = {FlsIndex[t]}
  <2>1. /\ \A u \in Threads \ {t} : pc[u] = "Idle"
        /\ FlsIndex[t] \in Indices /\ Walked = {FlsIndex[t]}
    BY <1>1, WalkerAlone DEF FreeSteps
  <2>2. \A u \in Threads \ {t} : running[u] = NULL
    BY <1>0, <2>1 DEF AccountInv, RunningOK
  <2> QED  BY <1>0, <1>1, <2>1, <2>2, AccountTypes
<1>3. pc'[t] = "Resume" /\ running'[t] = Account(Entry[t], FlsIndex[t])
  <2>1. Callback[t] = registered[FlsIndex[t]]
    BY <1>0, <1>1 DEF AccountInv, RunningOK
  <2> QED  BY <1>0, <1>1, <2>1, AccountTypes DEF Account
<1>4. Walked' = Walked /\ InUse' = InUse
  <2>1. Walked' = {FlsIndex[t]}
    BY <1>1, <1>2, <1>3 DEF Walked, FreeSteps
  <2> QED  BY <1>1, <1>2, <2>1 DEF InUse
<1>5. RegisteredOK' /\ PlacesOK'
  BY <1>0, <1>1, <1>4, SamePlaces DEF RegisteredOK
<1>6. RunningOK'
  <2>1. Slots[Entry[t]][FlsIndex[t]] # NULL
    BY <1>0, <1>1 DEF AccountInv, RunningOK
  <2> QED  BY <1>1, <1>2, <1>3, <2>1 DEF RunningOK, Account
<1>7. WalkedOK'
  BY <1>0, <1>1, <1>2, <1>3, SMTT(90) DEF AccountInv, WalkedOK, Passed, FreeSteps
<1>8. PendingIn' /\ MineOK'
  BY <1>0, <1>1, <1>2, <1>3 DEF AccountInv, PendingIn, MineOK
<1> QED  BY <1>5, <1>6, <1>7, <1>8 DEF AccountInv

LEMMA ResumeAccount ==
  ASSUME Quiet, AccountPre, NEW t \in Threads, RtlFlsFreeResume(t)
  PROVE  AccountInv'
<1> DEFINE d == Entry[t]
           i == FlsIndex[t]
<1>0. TypeInv /\ AccountInv /\ ListInv /\ RegisteredOK /\ PlacesOK
  BY DEF AccountPre, AccountInv
<1>1. /\ pc[t] = "Resume" /\ pc' = [pc EXCEPT ![t] = "Scan"]
      /\ UNCHANGED <<FlsBitmap, FlsCallback, FlsHighIndex, linked, Flink, Blink, live, FlsData, phase,
                     held, registered, mine, FlsIndex>>
      /\ ClearSlot(d, i) /\ owed' = owed \ {running[t]}
      /\ Entry' = [Entry EXCEPT ![t] = Flink[d]]
      /\ running' = [running EXCEPT ![t] = NULL]
  BY DEF RtlFlsFreeResume, list, NextEntry
<1>2. /\ \A u \in Threads \ {t} : pc[u] = "Idle"
      /\ phase = "up" /\ live = linked
      /\ i \in Indices /\ Walked = {i} /\ i \notin held
      /\ d \in linked \cup {Head}
  BY <1>1, WalkerAlone DEF FreeSteps
<1>3. running[t] = Account(d, i)
  BY <1>0, <1>1 DEF AccountInv, RunningOK
<1>4. d \in linked /\ d \in live
  <2>1. d \in Blocks /\ Head \notin Blocks
    BY <1>0, <1>1, AccountTypes, FlsAssumption DEF LocalsOK
  <2> QED  BY <1>2, <2>1
<1>5. pc'[t] = "Scan" /\ Entry'[t] = Flink[d]
      /\ \A u \in Threads : running'[u] = NULL /\ (u # t => pc'[u] = "Idle")
  <2>1. \A u \in Threads \ {t} : running[u] = NULL
    BY <1>0, <1>2 DEF AccountInv, RunningOK
  <2> HIDE DEF d
  <2> QED  BY <1>0, <1>1, <1>2, <2>1, AccountTypes
<1>6. Walked' = Walked /\ InUse' = InUse
  <2>1. Walked' = {i}
    BY <1>1, <1>5 DEF Walked, FreeSteps
  <2> QED  BY <1>1, <1>2, <2>1 DEF InUse
<1>7. RegisteredOK'
  BY <1>0, <1>1, <1>6 DEF RegisteredOK
<1>8. PlacesOK'
  <2> HIDE DEF d, i
  <2> QED  BY <1>0, <1>1, <1>2, <1>3, <1>4, <1>6, AccountTypes, SettledSlot
<1>9. RunningOK' /\ PendingIn'
  BY <1>5 DEF RunningOK, PendingIn
<1>10. \A e \in Blocks, j \in Indices :
          Slots'[e][j] = IF e = d /\ j = i THEN NULL ELSE Slots[e][j]
  <2> HIDE DEF d, i
  <2> QED  BY <1>0, <1>1, AccountTypes DEF ClearSlot
<1>11. WalkedOK'
  <2>1. PICK passed \in SUBSET linked : Passed(t, passed)
    BY <1>0, <1>1 DEF AccountInv, WalkedOK, FreeSteps
  <2>2. Blink[Flink[d]] = d
    BY <1>0, <1>4, RingParts DEF ListInv, Linking
  <2>3. PICK more \in SUBSET linked : more = passed \cup {d}
    BY <1>4
  <2>4. \A e \in more : Slots'[e][i] = NULL /\ Blink[e] \in more \cup {Head}
    <3>1. \A e \in more : e \in Blocks
      BY <1>0, <1>4, AccountTypes
    <3> QED  BY <1>2, <1>10, <2>1, <2>3, <3>1 DEF Passed
  <2>5. d \in more \cup {Head}
    BY <2>3
  <2>6. Passed(t, more)'
    <3> HIDE DEF d
    <3> QED  BY <1>1, <1>5, <2>2, <2>4, <2>5 DEF Passed
  <2> QED  BY <1>1, <1>5, <2>6 DEF WalkedOK, FreeSteps
<1>12. MineOK'
  <2>1. \A u \in Threads, j \in held : FlsData[u] # NULL =>
           Slots'[FlsData[u]][j] = Slots[FlsData[u]][j]
    <3>1. FlsData \in [Threads -> Blocks \cup {NULL}] /\ held \subseteq Indices
      BY <1>0, AccountTypes
    <3> HIDE DEF d, i
    <3> QED  BY <1>2, <1>10, <3>1
  <2> QED  BY <1>0, <1>1, <2>1 DEF AccountInv, MineOK
<1> QED  BY <1>7, <1>8, <1>9, <1>11, <1>12 DEF AccountInv

(* Steps that are no part of a walk.  First those that move no value.       *)
LEMMA RunningKept ==
  ASSUME RunningOK, NoWalk, NoWalk', UNCHANGED registered,
         \A u \in Threads :
           /\ pc'[u] # "Clear" => running'[u] = NULL
           /\ pc'[u] = "Clear" =>
                /\ pc[u] = "Clear"
                /\ UNCHANGED <<running[u], FlsIndex[u], Entry[u], Slots[Entry[u]][FlsIndex[u]]>>
  PROVE  RunningOK'
  BY DEF RunningOK, NoWalk, FreeSteps, Account

LEMMA MineKept ==
  ASSUME MineOK, phase' = "up" => phase = "up", UNCHANGED <<held, mine, FlsData>>,
         phase' = "up" => \A u \in Threads, j \in held : FlsData[u] # NULL =>
           Slots'[FlsData[u]][j] = Slots[FlsData[u]][j]
  PROVE  MineOK'
  BY DEF MineOK

LEMMA BystanderAccount ==
  ASSUME AccountPre, NoWalk, NoWalk',
         UNCHANGED <<FlsBitmap, FlsCallback, FlsHighIndex, held, registered, Slots, live,
                     owed, running, mine, FlsData>>,
         phase' # "down" => phase # "down", phase' = "up" => phase = "up",
         \A u \in Threads :
           /\ pc'[u] \in {"Insert", "Store"} => pc[u] \in {"Insert", "Store"}
           /\ pc'[u] = "Clear" <=> pc[u] = "Clear"
           /\ pc'[u] \in {"Insert", "Store", "Clear"} => FlsIndex'[u] = FlsIndex[u]
           /\ pc'[u] = "Clear" => Entry'[u] = Entry[u]
  PROVE  AccountInv'
<1>1. InUse' = InUse /\ WalkedOK'
  BY NoneWalked DEF NoWalk, Walked, InUse, WalkedOK
<1>2. RegisteredOK'
  BY SameRegistered DEF AccountPre, AccountInv
<1>3. PlacesOK'
  BY <1>1, SamePlaces DEF AccountPre, AccountInv
<1>4. PendingIn'
  BY DEF AccountPre, AccountInv, PendingIn
<1>5. RunningOK'
  <2>1. \A u \in Threads : pc[u] # "Clear" => running[u] = NULL
    BY DEF AccountPre, AccountInv, RunningOK, NoWalk, FreeSteps
  <2> QED  BY <2>1, RunningKept DEF AccountPre, AccountInv
<1>6. MineOK'
  BY MineKept DEF AccountPre, AccountInv
<1> QED  BY <1>1, <1>2, <1>3, <1>4, <1>5, <1>6 DEF AccountInv

LEMMA PassingAccount ==
  ASSUME Quiet, AccountPre, NEW t \in Threads,
         \/ RtlFlsSetInsert(t) \/ FlsDataCleanup(t) \/ FlsDataCleanupUnlink(t)
         \/ FlsCleanup(t) \/ FlsCleanupNext(t)
  PROVE  AccountInv'
<1>1. NoWalk /\ NoWalk'
  BY OthersStep DEF Quiet, AccountPre
<1>2. /\ UNCHANGED <<FlsBitmap, FlsCallback, FlsHighIndex, held, registered, Slots, live,
                     owed, running, mine, FlsData>>
      /\ phase' # "down" => phase # "down"
      /\ phase' = "up" => phase = "up"
  BY DEF RtlFlsSetInsert, FlsDataCleanup, FlsDataCleanupUnlink, FlsCleanup, FlsCleanupNext,
         fls, ghosts
<1>3. /\ \A u \in Threads \ {t} : /\ pc'[u] = pc[u] /\ FlsIndex'[u] = FlsIndex[u]
                                  /\ Entry'[u] = Entry[u]
      /\ \/ pc[t] = "Insert" /\ pc'[t] = "Store" /\ UNCHANGED FlsIndex
         \/ pc[t] # "Clear" /\ pc'[t] \in {"Unlink", "Slot", "Free", "Next", "Begin"}
  BY AccountTypes DEF AccountPre, RtlFlsSetInsert, FlsDataCleanup, FlsDataCleanupUnlink,
         FlsCleanup, FlsCleanupNext
<1> QED  BY <1>1, <1>2, <1>3, BystanderAccount

(* The first store of a thread: a zeroed block.                             *)
LEMMA SetValueAccount ==
  ASSUME Quiet, AccountPre, NEW t \in Threads, NEW i \in Usable,
         NEW v \in FreshValues \cup {NULL}, RtlFlsSetValue(t, i, v)
  PROVE  AccountInv'
<1>0. TypeInv /\ AccountInv /\ RegisteredOK /\ PlacesOK /\ NoWalk /\ NoWalk'
  BY OthersStep DEF AccountPre, AccountInv, Quiet
<1>1. /\ UNCHANGED <<FlsBitmap, FlsCallback, FlsHighIndex, phase, held, registered, mine, running,
                     owed, Entry>>
      /\ phase = "up" /\ pc[t] = "Idle" /\ i \in held
      /\ pc'[t] \in {"Insert", "Store"} /\ FlsIndex'[t] = i
      /\ \A u \in Threads \ {t} : /\ pc'[u] = pc[u] /\ FlsIndex'[u] = FlsIndex[u]
                                  /\ FlsData'[u] = FlsData[u]
  BY <1>0, AccountTypes DEF RtlFlsSetValue, Start, Usable, fls, ghosts
<1>2. InUse' = InUse /\ WalkedOK'
  BY <1>0, <1>1, NoneWalked DEF NoWalk, Walked, InUse, WalkedOK
<1>3. RegisteredOK'
  BY <1>0, <1>1, SameRegistered
<1>4. PendingIn'
  BY <1>0, <1>1 DEF AccountInv, PendingIn
<1>5. /\ \A e \in live, j \in Indices : Slots'[e][j] = Slots[e][j]
      /\ live \subseteq live' /\ live' \subseteq Blocks
      /\ \A e \in live' \ live, j \in Indices : Slots'[e][j] = NULL
      /\ \/ FlsData[t] # NULL /\ UNCHANGED <<FlsData, Slots>>
         \/ FlsData[t] = NULL /\ FlsData'[t] \in live' \ live
  <2>1. CASE FlsData[t] # NULL
    BY <1>0, <1>1, <2>1, AccountTypes DEF RtlFlsSetValue
  <2>2. CASE FlsData[t] = NULL
    <3>1. PICK d \in Blocks \ live : /\ live' = live \cup {d}
                                     /\ Slots' = [Slots EXCEPT ![d] = NoSlots]
                                     /\ FlsData' = [FlsData EXCEPT ![t] = d]
      BY <2>2 DEF RtlFlsSetValue, NewBlock
    <3>2. /\ Slots'[d] = NoSlots /\ FlsData'[t] = d
          /\ \A e \in live : Slots'[e] = Slots[e]
      BY <1>0, <3>1, AccountTypes
    <3> QED  BY <1>0, <2>2, <3>1, <3>2, AccountTypes DEF NoSlots
  <2> QED  BY <2>1, <2>2
<1>6. PlacesOK'
  <2>1. \A e \in live', j \in Indices : Slots'[e][j] # NULL =>
           e \in live /\ Slots'[e][j] = Slots[e][j] /\ Account(e, j)' = Account(e, j)
    BY <1>1, <1>5 DEF Account
  <2>2. SlotsOK'
    BY <1>0, <1>1, <1>2, <2>1 DEF PlacesOK, SlotsOK
  <2>3. AccountsOK'
    <3>1. \A o \in owed : o.idx \in Indices
      BY <1>0, AccountTypes
    <3>2. \A e \in live, j \in Indices : Account(e, j)' = Account(e, j)
      BY <1>1, <1>5 DEF Account
    <3> QED  BY <1>0, <1>1, <1>5, <3>1, <3>2 DEF PlacesOK, AccountsOK
  <2>4. OncePlaced'
    BY <1>0, <2>1 DEF PlacesOK, OncePlaced
  <2> QED  BY <2>2, <2>3, <2>4 DEF PlacesOK
<1>7. RunningOK'
  <2>1. \A u \in Threads : pc[u] # "Clear" => running[u] = NULL
    BY <1>0 DEF AccountInv, RunningOK, NoWalk, FreeSteps
  <2>2. \A u \in Threads : pc[u] = "Clear" => Entry[u] \in live /\ FlsIndex[u] \in Indices
    BY <1>0 DEF AccountPre, LiveInv, CleanupSteps, AccountInv, RunningOK
  <2> QED  BY <1>0, <1>1, <1>5, <2>1, <2>2, RunningKept DEF AccountInv
<1>8. MineOK'
  <2>1. \A u \in Threads : FlsData[u] # NULL => FlsData[u] \in live
    <3>1. \A u \in Threads : OwnerOK(u) /\ linked \subseteq live
      BY <1>1 DEF AccountPre, ListInv
    <3> QED  BY <3>1 DEF OwnerOK
  <2>2. held \subseteq Indices /\ NULL \notin live'
    BY <1>0, <1>5, AccountTypes
  <2>3. ASSUME FlsData[t] = NULL
        PROVE  \A j \in held : mine[t][j] = NULL /\ Slots'[FlsData'[t]][j] = NULL
    <3>1. mine[t] = NoSlots
      BY <1>0, <2>3 DEF AccountInv, MineOK
    <3> QED  BY <1>5, <2>2, <2>3, <3>1 DEF NoSlots
  <2>4. \A u \in Threads, j \in held :
           mine[u][j] = IF FlsData'[u] = NULL THEN NULL ELSE Slots'[FlsData'[u]][j]
    <3>1. \A u \in Threads, j \in held :
             mine[u][j] = IF FlsData[u] = NULL THEN NULL ELSE Slots[FlsData[u]][j]
      BY <1>0, <1>1 DEF AccountInv, MineOK
    <3>2. \A u \in Threads \ {t}, j \in held :
             mine[u][j] = IF FlsData'[u] = NULL THEN NULL ELSE Slots'[FlsData'[u]][j]
      BY <1>1, <1>5, <2>1, <2>2, <3>1
    <3>3. \A j \in held :
             mine[t][j] = IF FlsData'[t] = NULL THEN NULL ELSE Slots'[FlsData'[t]][j]
      BY <1>5, <2>2, <2>3, <3>1
    <3> QED  BY <3>2, <3>3
  <2>5. \A u \in Threads : FlsData'[u] = NULL => FlsData[u] = NULL
    BY <1>1, <1>5
  <2> QED  BY <1>0, <1>1, <2>4, <2>5 DEF AccountInv, MineOK
<1> QED  BY <1>2, <1>3, <1>4, <1>6, <1>7, <1>8 DEF AccountInv

(* A store takes the account of the value it replaces away and opens one    *)
(* for its own value.                                                       *)
LEMMA StoreAccount ==
  ASSUME Quiet, AccountPre, NEW t \in Threads, RtlFlsSetStore(t)
  PROVE  AccountInv'
<1> DEFINE b == FlsData[t]
           i == FlsIndex[t]
           v == NewValue[t]
<1>0. TypeInv /\ AccountInv /\ RegisteredOK /\ PlacesOK /\ NoWalk /\ NoWalk'
  BY OthersStep DEF AccountPre, AccountInv, Quiet
<1>1. /\ UNCHANGED <<FlsBitmap, FlsCallback, FlsHighIndex, phase, held, registered, running,
                     live, FlsData, Entry>>
      /\ pc[t] = "Store" /\ pc' = [pc EXCEPT ![t] = "Idle"]
      /\ Slots' = [Slots EXCEPT ![b][i] = v]
      /\ owed' = {o \in owed : o.val # Slots[b][i]} \cup Due(v, i)
      /\ mine' = [mine EXCEPT ![t][i] = v]
      /\ FlsIndex' = [FlsIndex EXCEPT ![t] = 0]
  BY DEF RtlFlsSetStore, Return, fls
<1>2. i \in held /\ i \in Indices /\ b \in live /\ phase = "up"
  <2>1. i \in held
    BY <1>0, <1>1 DEF AccountInv, PendingIn
  <2>2. phase = "up" /\ b \in Blocks
    BY <1>0, <1>1, AccountTypes DEF LocalsOK, PhaseOK, CleanupSteps
  <2>3. b \in linked \cup {NULL} /\ linked \subseteq live
    BY <1>1, <2>2 DEF AccountPre, ListInv, OwnerOK, CleanupSteps
  <2> QED  BY <1>0, <2>1, <2>2, <2>3, AccountTypes
<1>3. /\ \A e \in live, j \in Indices :
           Slots'[e][j] = IF e = b /\ j = i THEN v ELSE Slots[e][j]
      /\ \A u \in Threads, j \in Indices :
           mine'[u][j] = IF u = t /\ j = i THEN v ELSE mine[u][j]
      /\ \A u \in Threads \ {t} : /\ pc'[u] = pc[u] /\ FlsIndex'[u] = FlsIndex[u]
                                  /\ mine'[u] = mine[u]
      /\ pc'[t] = "Idle"
  <2> HIDE DEF b, i, v
  <2> QED  BY <1>0, <1>1, <1>2, AccountTypes
<1>4. InUse' = InUse /\ WalkedOK' /\ i \in InUse
  BY <1>0, <1>1, <1>2, NoneWalked DEF NoWalk, Walked, InUse, WalkedOK
<1>5. registered[i] # NULL
  BY <1>0, <1>2, <1>4 DEF RegisteredOK
<1>6. RegisteredOK'
  BY <1>0, <1>1, SameRegistered
<1>7. PendingIn'
  BY <1>0, <1>1, <1>3 DEF AccountInv, PendingIn
<1>8. v # NULL => \A e \in live, j \in Indices : Slots[e][j] # v
  BY DEF AccountPre, LostInv, PendingOK
<1>9. \A e \in live, j \in Indices : ~(e = b /\ j = i) =>
         Slots'[e][j] = Slots[e][j] /\ Account(e, j)' = Account(e, j)
  BY <1>1, <1>3 DEF Account
<1>10. v # NULL => Due(v, i) = {[val |-> v, cb |-> registered[i], idx |-> i]}
  BY <1>5 DEF Due
<1>11. \A e \in live, j \in Indices : e = b /\ j = i =>
          Slots'[e][j] = v /\ Account(e, j)' = [val |-> v, cb |-> registered[i], idx |-> i]
  <2> HIDE DEF b, i, v
  <2> QED  BY <1>1, <1>3 DEF Account
<1>12. v = NULL => Due(v, i) = {}
  BY DEF Due
<1>13. \A e \in live, j \in Indices : ~(e = b /\ j = i) /\ Slots[e][j] # NULL =>
          Slots[e][j] # Slots[b][i]
  BY <1>0, <1>2 DEF PlacesOK, OncePlaced
<1>14. PlacesOK'
  <2> HIDE DEF b, i, v
  <2>1. SlotsOK'
    <3>1. ASSUME NEW e \in live, NEW j \in Indices, Slots'[e][j] # NULL
          PROVE  j \in InUse /\ Account(e, j)' \in owed'
      <4>1. CASE e = b /\ j = i
        BY <1>1, <1>4, <1>10, <1>11, <3>1, <4>1
      <4>2. CASE ~(e = b /\ j = i)
        <5>1. Slots[e][j] # NULL /\ Slots[e][j] # Slots[b][i]
          BY <1>9, <1>13, <3>1, <4>2
        <5>2. j \in InUse /\ Account(e, j) \in owed
          BY <1>0, <5>1 DEF PlacesOK, SlotsOK
        <5>3. Account(e, j).val # Slots[b][i]
          BY <5>1 DEF Account
        <5> QED  BY <1>1, <1>9, <4>2, <5>2, <5>3
      <4> QED  BY <4>1, <4>2
    <3> QED  BY <1>1, <1>4, <3>1 DEF SlotsOK
  <2>2. AccountsOK'
    <3>1. ASSUME NEW o \in owed'
          PROVE  \E e \in live : Slots'[e][o.idx] # NULL /\ o = Account(e, o.idx)'
      <4>1. CASE o \in Due(v, i)
        <5>1. v # NULL /\ o = [val |-> v, cb |-> registered[i], idx |-> i] /\ o.idx = i
          BY <1>10, <1>12, <4>1
        <5> QED  BY <1>2, <1>11, <5>1
      <4>2. CASE o \in owed /\ o.val # Slots[b][i]
        <5>1. PICK e \in live : Slots[e][o.idx] # NULL /\ o = Account(e, o.idx)
          BY <1>0, <4>2 DEF PlacesOK, AccountsOK
        <5>2. o.idx \in Indices /\ o.val = Slots[e][o.idx]
          BY <1>0, <4>2, <5>1, AccountTypes DEF Account
        <5>3. ~(e = b /\ o.idx = i)
          BY <4>2, <5>2
        <5> QED  BY <1>9, <5>1, <5>2, <5>3
      <4> QED  BY <1>1, <4>1, <4>2
    <3> QED  BY <1>1, <3>1 DEF AccountsOK
  <2>3. OncePlaced'
    BY <1>0, <1>1, <1>3, <1>8 DEF PlacesOK, OncePlaced
  <2> QED  BY <2>1, <2>2, <2>3 DEF PlacesOK
<1>15. \A u \in Threads \ {t} : (pc[u] = "Clear" => Entry[u] # b) /\ FlsData[u] # b
  <2>1. Distinct /\ Owns(t) = b /\ b # NULL
    BY <1>0, <1>1, <1>2, AccountTypes DEF AccountPre, ListInv, Owns, CleanupSteps
  <2>2. \A u \in Threads \ {t} : Owns(u) # b
    BY <2>1 DEF Distinct
  <2>3. \A u \in Threads : pc[u] \in CleanupSteps => FlsData[u] = NULL
    BY <1>2 DEF AccountPre, ListInv, OwnerOK
  <2> HIDE DEF b
  <2> QED  BY <2>1, <2>2, <2>3 DEF Owns, CleanupSteps
<1>16. RunningOK'
  <2>1. \A u \in Threads : pc[u] # "Clear" => running[u] = NULL
    BY <1>0 DEF AccountInv, RunningOK, NoWalk, FreeSteps
  <2>2. \A u \in Threads : pc[u] = "Clear" => Entry[u] \in live /\ FlsIndex[u] \in Indices
    BY <1>0 DEF AccountPre, LiveInv, CleanupSteps, AccountInv, RunningOK
  <2> HIDE DEF b, i, v
  <2> QED  BY <1>0, <1>1, <1>3, <1>15, <2>1, <2>2, RunningKept DEF AccountInv
<1>17. MineOK'
  <2>1. \A u \in Threads, j \in held :
           mine[u][j] = IF FlsData[u] = NULL THEN NULL ELSE Slots[FlsData[u]][j]
    BY <1>0, <1>2 DEF AccountInv, MineOK
  <2>2. held \subseteq Indices /\ NULL \notin live
    BY <1>0, AccountTypes
  <2>3. \A u \in Threads : FlsData[u] # NULL => FlsData[u] \in live
    <3>1. \A u \in Threads : OwnerOK(u) /\ linked \subseteq live
      BY <1>2 DEF AccountPre, ListInv
    <3> QED  BY <3>1 DEF OwnerOK
  <2>4. \A j \in held : mine'[t][j] = Slots'[b][j]
    BY <1>2, <1>3, <2>1, <2>2
  <2>5. \A u \in Threads \ {t}, j \in held :
           mine'[u][j] = IF FlsData[u] = NULL THEN NULL ELSE Slots'[FlsData[u]][j]
    BY <1>3, <1>15, <2>1, <2>2, <2>3
  <2>6. \A u \in Threads : FlsData[u] = NULL => mine'[u] = NoSlots
    <3>1. b # NULL
      BY <1>2, <2>2
    <3> QED  BY <1>0, <1>3, <3>1 DEF AccountInv, MineOK
  <2> QED  BY <1>1, <1>2, <2>2, <2>4, <2>5, <2>6 DEF MineOK
<1> QED  BY <1>4, <1>6, <1>7, <1>14, <1>16, <1>17 DEF AccountInv

LEMMA ExitAccount ==
  ASSUME Quiet, AccountPre, NEW t \in Threads, ThreadExit(t)
  PROVE  AccountInv'
<1>0. TypeInv /\ AccountInv /\ NoWalk /\ NoWalk'
  BY OthersStep DEF AccountPre, AccountInv, Quiet
<1>1. /\ UNCHANGED <<FlsBitmap, FlsCallback, FlsHighIndex, phase, held, registered, running,
                     live, Slots, FlsIndex, owed>>
      /\ pc[t] = "Idle" /\ phase = "up"
      /\ pc'[t] = "Begin" /\ FlsData'[t] = NULL /\ mine'[t] = NoSlots
      /\ \A u \in Threads \ {t} : /\ pc'[u] = pc[u] /\ Entry'[u] = Entry[u]
                                  /\ FlsData'[u] = FlsData[u] /\ mine'[u] = mine[u]
  BY <1>0, AccountTypes DEF ThreadExit, Start, DeletedTeb, fls
<1>2. InUse' = InUse /\ WalkedOK'
  BY <1>0, <1>1, NoneWalked DEF NoWalk, Walked, InUse, WalkedOK
<1>3. RegisteredOK' /\ PlacesOK' /\ PendingIn'
  BY <1>0, <1>1, <1>2, SameRegistered, SamePlaces DEF AccountInv, PendingIn
<1>4. RunningOK'
  <2>1. \A u \in Threads : pc[u] # "Clear" => running[u] = NULL
    BY <1>0 DEF AccountInv, RunningOK, NoWalk, FreeSteps
  <2> QED  BY <1>0, <1>1, <2>1, RunningKept DEF AccountInv
<1>5. MineOK'
  <2>1. held \subseteq Indices
    BY <1>0, AccountTypes
  <2> QED  BY <1>0, <1>1, <2>1 DEF AccountInv, MineOK, NoSlots
<1> QED  BY <1>2, <1>3, <1>4, <1>5 DEF AccountInv

(* The block of an exiting thread is its own.                               *)
LEMMA OwnBlock ==
  ASSUME TypeInv, ListInv, NEW t \in Threads, pc[t] \in CleanupSteps
  PROVE  /\ \A u \in Threads \ {t} : pc[u] \in CleanupSteps => Entry[u] # Entry[t]
         /\ phase = "up" => \A u \in Threads : FlsData[u] # Entry[t]
<1>0. Entry[t] \in Blocks /\ Entry[t] # NULL /\ phase \in {"up", "cleanup"} /\ PhaseOK
  BY AccountTypes DEF LocalsOK, PhaseOK, CleanupSteps
<1>1. CASE phase = "up"
  <2>1. Distinct /\ Owns(t) = Entry[t] /\ FlsData[t] = NULL
    BY <1>1 DEF ListInv, Owns, OwnerOK
  <2>2. \A u \in Threads \ {t} : Owns(u) # Entry[t]
    BY <1>0, <2>1 DEF Distinct
  <2>3. \A u \in Threads : pc[u] \in CleanupSteps => FlsData[u] = NULL
    BY <1>1 DEF ListInv, OwnerOK
  <2> QED  BY <1>0, <2>1, <2>2, <2>3 DEF Owns
<1>2. CASE phase = "cleanup"
  BY <1>0, <1>2 DEF PhaseOK, CleanupSteps
<1> QED  BY <1>0, <1>1, <1>2

(* A slot with a value has a callback, so what is cleared without one was   *)
(* empty.                                                                   *)
LEMMA SlotAccount ==
  ASSUME Quiet, AccountPre, NEW t \in Threads, FlsDataCleanupSlot(t)
  PROVE  AccountInv'
<1> DEFINE b == Entry[t]
           i == FlsIndex[t]
<1>0. TypeInv /\ AccountInv /\ RegisteredOK /\ PlacesOK /\ NoWalk /\ NoWalk'
  BY OthersStep DEF AccountPre, AccountInv, Quiet
<1>1. /\ UNCHANGED <<FlsBitmap, FlsCallback, FlsHighIndex, phase, held, registered, mine,
                     live, FlsData, Entry, owed>>
      /\ pc[t] = "Slot" /\ b \in live /\ b \in Blocks /\ phase # "down"
  BY <1>0, AccountTypes DEF FlsDataCleanupSlot, fls, AccountPre, LiveInv, LocalsOK, PhaseOK, CleanupSteps
<1>2. i < HighIndex[t] => i \in Indices
  BY <1>0, AccountTypes, FlsAssumption DEF Indices
<1>3. i \in Indices /\ Slots[b][i] # NULL =>
         FlsCallback[i] # NULL /\ FlsCallback[i] = registered[i]
  BY <1>0, <1>1 DEF RegisteredOK, PlacesOK, SlotsOK
<1>4. /\ Slots' = Slots
      /\ \A u \in Threads \ {t} : /\ pc'[u] = pc[u] /\ FlsIndex'[u] = FlsIndex[u]
                                  /\ running'[u] = running[u]
      /\ \/ pc'[t] \in {"Slot", "Unlink"} /\ running'[t] = running[t]
         \/ /\ pc'[t] = "Clear" /\ FlsIndex' = FlsIndex /\ i \in Indices /\ Slots[b][i] # NULL
            /\ running'[t] = [val |-> Slots[b][i], cb |-> FlsCallback[i], idx |-> i]
  <2>1. CASE i >= HighIndex[t] /\ pc' = [pc EXCEPT ![t] = "Unlink"]
             /\ UNCHANGED <<Slots, FlsIndex, running>>
    BY <1>0, <2>1, AccountTypes
  <2>2. CASE /\ i < HighIndex[t] /\ Slots[b][i] # NULL
             /\ running' = [running EXCEPT ![t] = [val |-> Slots[b][i], cb |-> FlsCallback[i],
                                                   idx |-> i]]
             /\ pc' = [pc EXCEPT ![t] = "Clear"] /\ UNCHANGED <<Slots, FlsIndex>>
    BY <1>0, <1>2, <2>2, AccountTypes
  <2>3. CASE /\ i < HighIndex[t]
             /\ FlsCallback[i] = NULL \/ Slots[b][i] = NULL
             /\ ClearSlot(b, i) /\ FlsIndex' = [FlsIndex EXCEPT ![t] = i + 1]
             /\ UNCHANGED <<pc, running>>
    <3>1. i < HighIndex[t]
      BY <2>3
    <3>2. Slots[b][i] = NULL /\ Slots' = [Slots EXCEPT ![b][i] = NULL]
      BY <1>2, <1>3, <2>3, <3>1 DEF ClearSlot
    <3>3. Slots' = Slots
      <4> HIDE DEF b, i
      <4> QED  BY <1>0, <1>1, <1>2, <3>1, <3>2, AccountTypes
    <3> QED  BY <1>0, <1>1, <2>3, <3>3, AccountTypes
  <2> QED  BY <2>1, <2>2, <2>3 DEF FlsDataCleanupSlot
<1>5. InUse' = InUse /\ WalkedOK'
  BY <1>0, <1>1, NoneWalked DEF NoWalk, Walked, InUse, WalkedOK
<1>6. RegisteredOK' /\ PlacesOK'
  BY <1>0, <1>1, <1>4, <1>5, SameRegistered, SamePlaces
<1>7. PendingIn' /\ MineOK'
  BY <1>0, <1>1, <1>4, MineKept DEF AccountInv, PendingIn
<1>8. RunningOK'
  <2>1. \A u \in Threads : pc[u] # "Clear" => running[u] = NULL
    BY <1>0 DEF AccountInv, RunningOK, NoWalk, FreeSteps
  <2>2. \A u \in Threads \ {t} :
           /\ pc'[u] # "Clear" => running'[u] = NULL
           /\ pc'[u] = "Clear" =>
                /\ FlsIndex'[u] \in Indices /\ Slots'[Entry'[u]][FlsIndex'[u]] # NULL
                /\ running'[u] = Account(Entry[u], FlsIndex[u])'
    BY <1>0, <1>1, <1>4, <2>1 DEF AccountInv, RunningOK, Account
  <2>3. /\ pc'[t] # "Clear" => running'[t] = NULL
        /\ pc'[t] = "Clear" =>
                /\ FlsIndex'[t] \in Indices /\ Slots'[Entry'[t]][FlsIndex'[t]] # NULL
                /\ running'[t] = Account(Entry[t], FlsIndex[t])'
    BY <1>1, <1>3, <1>4, <2>1 DEF Account
  <2> QED  BY <1>0, <2>2, <2>3 DEF RunningOK, NoWalk, FreeSteps
<1> QED  BY <1>5, <1>6, <1>7, <1>8 DEF AccountInv

LEMMA ClearAccount ==
  ASSUME Quiet, AccountPre, NEW t \in Threads, FlsDataCleanupClear(t)
  PROVE  AccountInv'
<1> DEFINE b == Entry[t]
           i == FlsIndex[t]
<1>0. TypeInv /\ AccountInv /\ RegisteredOK /\ PlacesOK /\ NoWalk /\ NoWalk'
  BY OthersStep DEF AccountPre, AccountInv, Quiet
<1>1. /\ UNCHANGED <<FlsBitmap, FlsCallback, FlsHighIndex, phase, held, registered, mine,
                     live, FlsData, Entry>>
      /\ pc[t] = "Clear" /\ b \in live /\ b \in Blocks /\ i \in Indices
      /\ ClearSlot(b, i) /\ owed' = owed \ {Account(b, i)}
      /\ \A u \in Threads \ {t} : /\ pc'[u] = pc[u] /\ FlsIndex'[u] = FlsIndex[u]
                                  /\ running'[u] = running[u]
      /\ pc'[t] = "Slot" /\ running'[t] = NULL
  <2>1. running[t] = Account(b, i) /\ i \in Indices /\ b \in live /\ pc[t] = "Clear"
    BY <1>0 DEF FlsDataCleanupClear, AccountPre, AccountInv, RunningOK, LiveInv, CleanupSteps
  <2> QED  BY <1>0, <2>1, AccountTypes DEF FlsDataCleanupClear, fls
<1>2. InUse' = InUse /\ WalkedOK'
  BY <1>0, <1>1, NoneWalked DEF NoWalk, Walked, InUse, WalkedOK
<1>3. RegisteredOK'
  BY <1>0, <1>1, SameRegistered
<1>4. PlacesOK'
  <2> HIDE DEF b, i
  <2> QED  BY <1>0, <1>1, <1>2, AccountTypes, SettledSlot
<1>5. \A e \in Blocks, j \in Indices : e # b => Slots'[e][j] = Slots[e][j]
  <2> HIDE DEF b, i
  <2> QED  BY <1>0, <1>1, AccountTypes DEF ClearSlot
<1>6. /\ \A u \in Threads \ {t} : pc[u] = "Clear" => Entry[u] # b
      /\ phase = "up" => \A u \in Threads : FlsData[u] # b
  BY <1>0, <1>1, OwnBlock DEF AccountPre, CleanupSteps
<1>7. PendingIn'
  BY <1>0, <1>1 DEF AccountInv, PendingIn
<1>8. RunningOK'
  <2>1. \A u \in Threads : pc[u] # "Clear" => running[u] = NULL
    BY <1>0 DEF AccountInv, RunningOK, NoWalk, FreeSteps
  <2>2. \A u \in Threads : pc[u] = "Clear" => Entry[u] \in Blocks /\ FlsIndex[u] \in Indices
    BY <1>0, AccountTypes DEF LocalsOK, CleanupSteps, AccountInv, RunningOK
  <2> HIDE DEF b, i
  <2> QED  BY <1>0, <1>1, <1>5, <1>6, <2>1, <2>2, RunningKept DEF AccountInv
<1>9. MineOK'
  <2>1. held \subseteq Indices /\ \A u \in Threads : FlsData[u] # NULL => FlsData[u] \in Blocks
    BY <1>0, AccountTypes
  <2> HIDE DEF b, i
  <2> QED  BY <1>0, <1>1, <1>5, <1>6, <2>1, MineKept DEF AccountInv
<1> QED  BY <1>2, <1>3, <1>4, <1>7, <1>8, <1>9 DEF AccountInv

(* The accounts of a freed block close with it, the others do not.          *)
LEMMA LeaveAccount ==
  ASSUME Quiet, AccountPre, NEW t \in Threads, FlsDataCleanupFree(t)
  PROVE  AccountInv'
<1> DEFINE b == Entry[t]
           left == {o \in owed : Slots[b][o.idx] = o.val}
<1>0. TypeInv /\ AccountInv /\ RegisteredOK /\ PlacesOK /\ NoWalk /\ NoWalk'
  BY OthersStep DEF AccountPre, AccountInv, Quiet
<1>1. /\ UNCHANGED <<FlsBitmap, FlsCallback, FlsHighIndex, phase, held, registered, mine,
                     running, Slots, FlsData>>
      /\ pc[t] = "Free" /\ b \in live /\ live' = live \ {b} /\ owed' = owed \ left
      /\ \A u \in Threads \ {t} : /\ pc'[u] = pc[u] /\ FlsIndex'[u] = FlsIndex[u]
                                  /\ Entry'[u] = Entry[u]
      /\ pc'[t] \in {"Next", "Idle"}
  BY <1>0, AccountTypes DEF FlsDataCleanupFree, fls, AccountPre, LiveInv, CleanupSteps
<1>2. InUse' = InUse /\ WalkedOK'
  BY <1>0, <1>1, NoneWalked DEF NoWalk, Walked, InUse, WalkedOK
<1>3. RegisteredOK'
  BY <1>0, <1>1, SameRegistered
<1>4. \A e \in live, j \in Indices : Account(e, j)' = Account(e, j)
  BY <1>1 DEF Account
<1>5. SlotsOK'
  <2>1. ASSUME NEW e \in live, NEW j \in Indices, e # b, Slots[e][j] # NULL
        PROVE  j \in InUse /\ Account(e, j) \in owed \ left
    <3>1. j \in InUse /\ Account(e, j) \in owed
      BY <1>0, <2>1 DEF PlacesOK, SlotsOK
    <3>2. Slots[b][j] # Slots[e][j]
      BY <1>0, <1>1, <2>1 DEF PlacesOK, OncePlaced
    <3>3. Account(e, j).idx = j /\ Account(e, j).val = Slots[e][j]
      BY DEF Account
    <3> QED  BY <3>1, <3>2, <3>3
  <2> QED  BY <1>1, <1>2, <1>4, <2>1 DEF SlotsOK
<1>6. AccountsOK'
  <2>1. ASSUME NEW o \in owed \ left
        PROVE  \E e \in live \ {b} : Slots[e][o.idx] # NULL /\ o = Account(e, o.idx)'
    <3>1. PICK e \in live : Slots[e][o.idx] # NULL /\ o = Account(e, o.idx)
      BY <1>0 DEF PlacesOK, AccountsOK
    <3>2. o.val = Slots[e][o.idx] /\ o.idx \in Indices
      BY <1>0, <3>1, AccountTypes DEF Account
    <3>3. e # b
      BY <3>2
    <3> QED  BY <1>4, <3>1, <3>2, <3>3
  <2> QED  BY <1>1, <2>1 DEF AccountsOK
<1>7. OncePlaced'
  BY <1>0, <1>1 DEF PlacesOK, OncePlaced
<1>8. PendingIn' /\ MineOK'
  BY <1>0, <1>1, MineKept DEF AccountInv, PendingIn
<1>9. RunningOK'
  <2>1. \A u \in Threads : pc[u] # "Clear" => running[u] = NULL
    BY <1>0 DEF AccountInv, RunningOK, NoWalk, FreeSteps
  <2> QED  BY <1>0, <1>1, <2>1, RunningKept DEF AccountInv
<1> QED  BY <1>2, <1>3, <1>5, <1>6, <1>7, <1>8, <1>9 DEF AccountInv, PlacesOK

(* Unload and restart: every block is gone, and its accounts with it.       *)
LEMMA EndAccount ==
  ASSUME Quiet, AccountPre, NEW t \in Threads, FlsCleanupEnd(t)
  PROVE  AccountInv'
<1>0. TypeInv /\ AccountInv /\ RegisteredOK /\ PlacesOK /\ NoWalk /\ NoWalk'
  BY OthersStep DEF AccountPre, AccountInv, Quiet
<1>1. /\ UNCHANGED <<FlsBitmap, FlsHighIndex, held, registered, running, live, Slots, owed>>
      /\ phase' = "down" /\ \A u \in Threads : mine'[u] = NoSlots
      /\ \A u \in Threads : pc[u] \in {"Idle", "Next"} /\ pc'[u] = "Idle"
  BY <1>0, AccountTypes DEF FlsCleanupEnd, Return, PhaseOK
<1>2. InUse' = InUse /\ WalkedOK' /\ Walked' = {}
  BY <1>0, <1>1, NoneWalked DEF NoWalk, Walked, InUse, WalkedOK
<1>3. RegisteredOK'
  BY <1>0, <1>1, <1>2 DEF RegisteredOK
<1>4. PlacesOK'
  BY <1>0, <1>1, <1>2, SamePlaces
<1>5. PendingIn' /\ RunningOK' /\ MineOK'
  BY <1>0, <1>1 DEF AccountInv, PendingIn, RunningOK, MineOK
<1> QED  BY <1>2, <1>3, <1>4, <1>5 DEF AccountInv

LEMMA CreateAccount ==
  ASSUME AccountPre, FlsCreate
  PROVE  AccountInv'
<1>1. /\ phase = "down" /\ held' = {}
      /\ UNCHANGED <<live, Slots, registered, owed, mine, FlsData, running, pc>>
  BY DEF FlsCreate, locals
<1>2. live = {} /\ \A u \in Threads : pc[u] = "Idle" /\ running[u] = NULL
  BY <1>1, AccountTypes DEF AccountPre, LiveInv, PhaseOK, AccountInv, RunningOK
<1>3. Walked' = {} /\ InUse' = {}
  BY <1>1, <1>2 DEF Walked, InUse, FreeSteps
<1>4. RegisteredOK'
  BY <1>1, <1>3 DEF RegisteredOK
<1>5. PlacesOK'
  BY <1>1, <1>2 DEF AccountPre, AccountInv, PlacesOK, SlotsOK, AccountsOK, OncePlaced
<1>6. PendingIn' /\ RunningOK' /\ WalkedOK' /\ MineOK'
  BY <1>1, <1>2 DEF AccountPre, AccountInv, PendingIn, RunningOK, WalkedOK, MineOK, FreeSteps
<1> QED  BY <1>4, <1>5, <1>6 DEF AccountInv

(* Every step of a quiet client keeps the accounts.                         *)
LEMMA AccountStep ==
  ASSUME Quiet, AccountPre, [Next]_vars
  PROVE  AccountInv'
<1>1. ASSUME NEW t \in Threads, ThreadStep(t) PROVE AccountInv'
  BY <1>1, ScanAccount, CallAccount, ResumeAccount, PassingAccount, StoreAccount, SlotAccount,
     ClearAccount, LeaveAccount, EndAccount DEF ThreadStep
<1>2. ASSUME NEW t \in Threads, ClientCall(t) PROVE AccountInv'
  BY <1>2, AllocAccount, FreeAccount, SetValueAccount, ExitAccount, PassingAccount
     DEF ClientCall, Quiet
<1>3. CASE FlsCreate
  BY <1>3, CreateAccount
<1>4. CASE UNCHANGED vars
  BY <1>4 DEF vars, fls, list, locals, ghosts, AccountPre, AccountInv, RegisteredOK, PlacesOK,
     SlotsOK, AccountsOK, OncePlaced, PendingIn, RunningOK, WalkedOK, Passed, MineOK, Account,
     InUse, Walked
<1> QED  BY <1>1, <1>2, <1>3, <1>4 DEF Next

(* All the invariants of the client that calls RtlFlsFree alone and always  *)
(* gives a callback, from the initial state on.                             *)
LEMMA QuietRuns == ASSUME Quiet PROVE Spec => []AccountPre
<1>1. Init => AccountPre
  BY TypeInit, ListInit, LiveInit, LostInit, AccountInit
     DEF AccountPre, WalkInv, Init, FreeSteps
<1>2. ASSUME AccountPre, [Next]_vars PROVE AccountPre'
  <2>1. TypeInv' /\ ListInv' /\ LiveInv'
    BY <1>2, TypeStep, ListStep, LiveStep DEF AccountPre
  <2>2. WalkInv'
    BY <1>2, WalkStep DEF AccountPre, Quiet
  <2>3. LostInv'
    BY <1>2, <2>1, LostStep DEF AccountPre
  <2>4. AccountInv'
    BY <1>2, AccountStep
  <2> QED  BY <2>1, <2>2, <2>3, <2>4 DEF AccountPre
<1> QED  BY <1>1, <1>2, PTL DEF Spec

(* When RtlFlsFree overlaps no other call and every index has a callback, a *)
(* callback only ever runs on a value that is owed to it, and no two        *)
(* threads run the same one at a time.                                      *)
THEOREM CallbacksAreOwed == ASSUME Quiet PROVE Spec => []CallbackOwed
<1>1. ASSUME AccountPre PROVE CallbackOwed
  <2>1. ASSUME NEW t \in Threads, running[t] # NULL
        PROVE  /\ pc[t] \in {"Resume", "Clear"} /\ Entry[t] \in live /\ FlsIndex[t] \in Indices
               /\ Slots[Entry[t]][FlsIndex[t]] # NULL
               /\ running[t] = Account(Entry[t], FlsIndex[t])
    <3>1. /\ pc[t] \in {"Resume", "Clear"} /\ FlsIndex[t] \in Indices
          /\ Slots[Entry[t]][FlsIndex[t]] # NULL
          /\ running[t] = Account(Entry[t], FlsIndex[t])
      BY <1>1, <2>1 DEF AccountPre, AccountInv, RunningOK
    <3>2. CASE pc[t] = "Clear"
      BY <1>1, <3>1, <3>2 DEF AccountPre, LiveInv, CleanupSteps
    <3>3. CASE pc[t] = "Resume"
      <4>1. Entry[t] \in linked \cup {Head} /\ live = linked
        BY <1>1, <3>3, WalkerAlone DEF FreeSteps
      <4>2. Entry[t] # Head
        BY <1>1, <3>3, FlsAssumption DEF AccountPre, TypeInv, LocalsOK
      <4> QED  BY <3>1, <4>1, <4>2
    <3> QED  BY <3>1, <3>2, <3>3
  <2>2. ASSUME NEW t \in Threads, running[t] # NULL PROVE running[t] \in owed
    BY <1>1, <2>1, <2>2 DEF AccountPre, AccountInv, PlacesOK, SlotsOK
  <2>3. ASSUME NEW t \in Threads, running[t] # NULL, NEW u \in Threads \ {t}
        PROVE  running[u] # running[t]
    <3> SUFFICES ASSUME running[u] # NULL PROVE running[u] # running[t]
      BY <2>3
    <3>1. pc[t] # "Resume" /\ pc[u] # "Resume"
      BY <1>1, <2>1, <2>3, WalkerAlone DEF FreeSteps
    <3>2. pc[t] = "Clear" /\ pc[u] = "Clear"
      BY <2>1, <2>3, <3>1
    <3>3. Entry[u] # Entry[t]
      BY <1>1, <3>2, OwnBlock DEF AccountPre, CleanupSteps
    <3>4. /\ running[t] = Account(Entry[t], FlsIndex[t])
          /\ running[u] = Account(Entry[u], FlsIndex[u])
      BY <2>1, <2>3
    <3>5. \A e, j : Account(e, j).val = Slots[e][j]
      BY DEF Account
    <3>6. Slots[Entry[u]][FlsIndex[u]] # Slots[Entry[t]][FlsIndex[t]]
      BY <1>1, <2>1, <2>3, <3>3 DEF AccountPre, AccountInv, PlacesOK, OncePlaced
    <3>7. running[t].val = Slots[Entry[t]][FlsIndex[t]] /\ running[u].val = Slots[Entry[u]][FlsIndex[u]]
      BY <3>4, <3>5
    <3> QED  BY <3>6, <3>7
  <2> QED  BY <2>2, <2>3 DEF CallbackOwed
<1> QED  BY <1>1, QuietRuns, PTL

(* For such a client, once RtlFlsFree is done with an index nothing is owed *)
(* under it: every callback has run.                                        *)
THEOREM FreeingSettles == ASSUME Quiet PROVE Spec => []FreedIndexSettled
<1>1. ASSUME AccountPre PROVE FreedIndexSettled
  <2>1. ASSUME NEW o \in owed
        PROVE  \/ o.idx \in FlsBitmap
               \/ \E t \in Threads : pc[t] \in FreeSteps /\ FlsIndex[t] = o.idx
    <3>1. PICK d \in live : Slots[d][o.idx] # NULL
      BY <1>1 DEF AccountPre, AccountInv, PlacesOK, AccountsOK
    <3>2. o.idx \in Indices
      BY <1>1, AccountTypes DEF AccountPre
    <3>3. o.idx \in InUse
      BY <1>1, <3>1, <3>2 DEF AccountPre, AccountInv, PlacesOK, SlotsOK
    <3> QED  BY <1>1, <3>3 DEF AccountPre, AccountInv, RegisteredOK, InUse, Walked
  <2> QED  BY <2>1 DEF FreedIndexSettled
<1> QED  BY <1>1, QuietRuns, PTL

(* For such a client, a thread that is inside no call reads back what it    *)
(* last stored under the current allocation of an index, and NULL before.   *)
THEOREM ThreadsReadTheirOwn == ASSUME Quiet PROVE Spec => []ReadsOwnValue
<1>1. ASSUME AccountPre PROVE ReadsOwnValue
  <2>1. ASSUME NEW t \in Threads, NEW i \in Indices, phase = "up", i \in held
        PROVE  RtlFlsGetValue(t, i) \in
                 IF FlsData[t] = NULL THEN {"STATUS_MEMORY_NOT_ALLOCATED"} ELSE {mine[t][i]}
    <3>1. i \in FlsBitmap /\ i <= FlsHighIndex /\ i < MaxIndices /\ FlsHighIndex \in Nat /\ i \in Nat
          /\ MaxIndices \in Nat
      BY <1>1, <2>1, AccountTypes, FlsAssumption DEF AccountPre, AccountInv, RegisteredOK, Indices
    <3>2. RtlFlsGetValue(t, i) = IF FlsData[t] = NULL THEN "STATUS_MEMORY_NOT_ALLOCATED"
                                 ELSE Slots[FlsData[t]][i]
      BY <3>1 DEF RtlFlsGetValue
    <3>3. FlsData[t] # NULL => mine[t][i] = Slots[FlsData[t]][i]
      BY <1>1, <2>1 DEF AccountPre, AccountInv, MineOK
    <3> QED  BY <3>2, <3>3
  <2> QED  BY <2>1 DEF ReadsOwnValue
<1> QED  BY <1>1, QuietRuns, PTL
=============================================================================
