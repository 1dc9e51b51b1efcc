------------------------------ MODULE HeapProofs ------------------------------
(* Theorems about Heap, for any number of threads, heaps, blocks and kinds  *)
(* of heaps, any capacity of the array, and any number of growths; and, at  *)
(* the end, about what the functions of KernelCalls borrow from a heap, the *)
(* pool and the system, for any table of functions that keeps the rules.    *)
EXTENDS Heap, CallRules, TLAPS

(***************************************************************************)
(* Types, and where the threads can be in each phase: outside of "up" one   *)
(* thread at most is in a call, and the teardown has an entry to go.        *)
(***************************************************************************)
CallsOK ==
    \A t \in Threads :
        /\ heap[t] = NULL <=> pc[t] \in {"Idle", "Enum"}
        /\ entry[t] = NULL <=> pc[t] # "Insert"
        /\ pc[t] \notin {"Insert", "FreeOld"} => old[t] = NULL
        /\ pc[t] = "FreeOld" => old[t] # NULL
        /\ pc[t] = "Enum" => pos[t] \in 1 .. NumberOfHeaps

PhaseOK ==
    \A t \in Threads :
        /\ phase \in {"default", "core"} => pc[t] \in {"Idle", "Append"}
        /\ phase \in {"unload", "heaps"} => pc[t] \in {"Idle", "Remove", "Release"}
        /\ phase = "heaps" /\ pc[t] # "Idle" => Idx > 0
        /\ phase = "down" => pc[t] = "Idle"

Alone ==
    phase \notin {"up", "stopped"} =>
        \A t, u \in Threads : pc[t] # "Idle" /\ pc[u] # "Idle" => t = u

NamedOK ==
    /\ phase \in {"core", "up"} => DefaultHeap \in Heaps
    /\ phase = "up" => MusaCoreHeap \in Heaps

HeapTypes == TypeOK /\ CallsOK /\ PhaseOK /\ Alone /\ MaximumNumberOfHeaps > 0

LEMMA InitTypes == ASSUME HeapAssumption PROVE Init => HeapTypes
<1> SUFFICES ASSUME Init PROVE HeapTypes
  OBVIOUS
<1>1. TypeOK /\ MaximumNumberOfHeaps > 0
  BY DEF Init, TypeOK, HeapAssumption, OwnLock, Faults
<1>2. CallsOK /\ PhaseOK /\ Alone
  BY DEF Init, CallsOK, PhaseOK, Alone
<1> QED  BY <1>1, <1>2 DEF HeapTypes

LEMMA CreateTypes ==
  ASSUME HeapAssumption, HeapTypes, NEW t \in Threads, NEW k \in Kinds \cup {OwnLock},
         RtlCreateHeap(t, k)
  PROVE  HeapTypes'
<1>1. k \in [lock : {"own", "user", "none"}, paged : BOOLEAN]
  <2>1. OwnLock \in [lock : {"own", "user", "none"}, paged : BOOLEAN]
    BY DEF OwnLock
  <2> QED  BY <2>1 DEF HeapAssumption
<1>2. TypeOK'
  BY <1>1 DEF HeapTypes, RtlCreateHeap, TypeOK, Goto, peb, names
<1>3. CallsOK'
  BY DEF HeapTypes, RtlCreateHeap, TypeOK, Goto, peb, CallsOK, HeapAssumption
<1>4. PhaseOK'
  BY DEF HeapTypes, RtlCreateHeap, TypeOK, Goto, PhaseOK
<1>5. Alone'
  BY DEF HeapTypes, RtlCreateHeap, TypeOK, Goto, Alone, AllIdle
<1> QED  BY <1>2, <1>3, <1>4, <1>5 DEF HeapTypes, RtlCreateHeap, peb

LEMMA CreateFailsTypes ==
  ASSUME HeapTypes, NEW t \in Threads, RtlCreateHeapFails(t) PROVE HeapTypes'
<1>1. TypeOK'
  BY DEF HeapTypes, RtlCreateHeapFails, AfterFailure, TypeOK, heaps, blocks, peb, names, locals
<1>2. CallsOK' /\ PhaseOK' /\ Alone'
  BY DEF HeapTypes, RtlCreateHeapFails, AfterFailure, AllIdle, CallsOK, PhaseOK, Alone, peb, locals
<1> QED  BY <1>1, <1>2 DEF HeapTypes, RtlCreateHeapFails, peb

(* A call that ends.                                                       *)
LEMMA AppendTypes ==
  ASSUME HeapAssumption, HeapTypes, NEW t \in Threads, RtlAppendHeap(t)
  PROVE  HeapTypes'
<1>1. heap[t] \in Heaps /\ pc[t] = "Append"
  BY DEF HeapTypes, RtlAppendHeap, At, TypeOK, CallsOK
<1>2. TypeOK'
  BY <1>1 DEF HeapTypes, RtlAppendHeap, AddEntry, NewIndex, TypeOK, Goto, blocks
<1>3. CallsOK'
  BY <1>1 DEF HeapTypes, RtlAppendHeap, AddEntry, TypeOK, Goto, CallsOK
<1>4. PhaseOK' /\ Alone'
  BY <1>1 DEF HeapTypes, RtlAppendHeap, AddEntry, TypeOK, Goto, PhaseOK, Alone
<1> QED  BY <1>2, <1>3, <1>4 DEF HeapTypes, RtlAppendHeap

LEMMA GrowTypes ==
  ASSUME HeapAssumption, HeapTypes, NEW t \in Threads, RtlAppendHeapGrows(t)
  PROVE  HeapTypes'
<1>1. heap[t] \in Heaps /\ pc[t] = "Append"
  BY DEF HeapTypes, RtlAppendHeapGrows, At, TypeOK, CallsOK
<1>2. /\ NumberOfHeaps \in Nat /\ NumberOfHeaps > 0
      /\ MaximumNumberOfHeaps' = 2 * NumberOfHeaps
  BY DEF HeapTypes, RtlAppendHeapGrows, TypeOK
<1>3. PICK tail \in [NumberOfHeaps + 1 .. MaximumNumberOfHeaps' -> {NULL, Garbage}] :
         AddEntry(t, [i \in 1 .. MaximumNumberOfHeaps' |->
                        IF i <= NumberOfHeaps THEN ProcessHeaps[i] ELSE tail[i]])
  BY DEF RtlAppendHeapGrows
<1>4. [i \in 1 .. MaximumNumberOfHeaps' |-> IF i <= NumberOfHeaps THEN ProcessHeaps[i] ELSE tail[i]]
        \in [1 .. MaximumNumberOfHeaps' -> Heaps \cup {NULL, Garbage}]
  BY <1>2 DEF HeapTypes, TypeOK, RtlAppendHeapGrows
<1>5. /\ ProcessHeaps' \in [1 .. MaximumNumberOfHeaps' -> Heaps \cup {NULL, Garbage}]
      /\ NumberOfHeaps' = NumberOfHeaps + 1
  BY <1>1, <1>3, <1>4 DEF AddEntry
<1>6. /\ Index' \in [Heaps -> Nat] /\ DefaultHeap' \in Heaps \cup {NULL}
      /\ MusaCoreHeap' \in Heaps \cup {NULL} /\ owned' \subseteq Heaps
      /\ UNCHANGED <<pool, kind, resources, Idx>>
  BY <1>1, <1>3 DEF AddEntry, NewIndex, HeapTypes, TypeOK
<1>7. /\ entries' \subseteq Entries /\ data' \subseteq Entries /\ Size' \in [Entries -> Nat]
      /\ Blocks' \in [Heaps -> SUBSET Entries] /\ array' \in Entries
  <2>1. PICK e \in Entries \ entries :
          /\ array' = e
          /\ Size' = [Size EXCEPT ![e] = PageSize]
          /\ entries' = (entries \cup {e}) \ {array}
          /\ data' = (data \cup {e}) \ {array}
          /\ Blocks' = [Blocks EXCEPT ![DefaultHeap] = (@ \cup {e}) \ {array}]
    BY DEF RtlAppendHeapGrows
  <2>2. entries' \subseteq Entries /\ data' \subseteq Entries /\ array' \in Entries
    BY <2>1 DEF HeapTypes, TypeOK
  <2>3. Size' \in [Entries -> Nat]
    BY <2>1 DEF HeapTypes, TypeOK, HeapAssumption
  <2>4. Blocks' \in [Heaps -> SUBSET Entries]
    BY <2>1 DEF HeapTypes, TypeOK
  <2> QED  BY <2>2, <2>3, <2>4
<1>8. phase' = CASE phase = "default" -> "core" [] phase = "core" -> "up" [] OTHER -> phase
  BY <1>3 DEF AddEntry
<1>9. /\ pc' = [pc EXCEPT ![t] = "Idle"] /\ heap' = [heap EXCEPT ![t] = NULL]
      /\ UNCHANGED <<entry, old, pos, fault>>
  BY DEF RtlAppendHeapGrows, Goto
<1>10. TypeOK'
  <2>1. /\ MaximumNumberOfHeaps' \in Nat /\ NumberOfHeaps' \in 0 .. MaximumNumberOfHeaps'
        /\ pos' \in [Threads -> 0 .. MaximumNumberOfHeaps'] /\ Idx' \in 0 .. MaximumNumberOfHeaps'
    <3>1. MaximumNumberOfHeaps <= MaximumNumberOfHeaps' /\ MaximumNumberOfHeaps' \in Nat
      BY <1>2 DEF RtlAppendHeapGrows
    <3> QED  BY <1>2, <1>5, <1>6, <1>9, <3>1 DEF HeapTypes, TypeOK
  <2>2. /\ pc' \in [Threads -> {"Idle", "Append", "Insert", "FreeOld", "Remove", "Release", "Enum"}]
        /\ heap' \in [Threads -> Heaps \cup {NULL}]
        /\ phase' \in {"default", "core", "up", "unload", "heaps", "down", "stopped"}
    BY <1>8, <1>9 DEF HeapTypes, TypeOK
  <2> QED  BY <1>5, <1>6, <1>7, <1>9, <2>1, <2>2 DEF HeapTypes, TypeOK
<1>11. CallsOK'
  BY <1>1, <1>2, <1>5, <1>9 DEF HeapTypes, TypeOK, CallsOK
<1>12. PhaseOK' /\ Alone'
  BY <1>1, <1>6, <1>8, <1>9 DEF HeapTypes, TypeOK, PhaseOK, Alone
<1> QED  BY <1>2, <1>10, <1>11, <1>12 DEF HeapTypes

LEMMA AppendFailsTypes ==
  ASSUME HeapTypes, NEW t \in Threads, RtlAppendHeapFails(t) PROVE HeapTypes'
<1>1. MaximumNumberOfHeaps' = MaximumNumberOfHeaps /\ pc[t] = "Append"
  BY DEF RtlAppendHeapFails, MaximumAfterFailure, At
<1>2. TypeOK'
  BY <1>1 DEF HeapTypes, RtlAppendHeapFails, AfterFailure, TypeOK, Goto, blocks, names
<1>3. CallsOK'
  BY <1>1 DEF HeapTypes, RtlAppendHeapFails, TypeOK, Goto, CallsOK
<1>4. PhaseOK' /\ Alone'
  BY <1>1 DEF HeapTypes, RtlAppendHeapFails, AfterFailure, TypeOK, Goto, PhaseOK, Alone
<1> QED  BY <1>1, <1>2, <1>3, <1>4 DEF HeapTypes

LEMMA AllocateTypes ==
  ASSUME HeapAssumption, HeapTypes, NEW t \in Threads, NEW h \in Heaps, NEW s \in Sizes,
         NEW e \in Entries \cup {NULL}, RtlAllocateHeap(t, h, s, e)
  PROVE  HeapTypes'
<1>1. PICK b \in Entries \ entries :
         /\ entries' = entries \cup {b}
         /\ data' = IF s < PageSize THEN data ELSE data \cup {b}
         /\ Size' = [Size EXCEPT ![b] = s]
         /\ entry' = [entry EXCEPT ![t] = b]
  BY DEF RtlAllocateHeap
<1>2. s \in Nat /\ NULL \notin Heaps /\ NULL \notin Entries
  BY DEF HeapAssumption
<1>3. TypeOK'
  BY <1>1, <1>2 DEF HeapTypes, RtlAllocateHeap, TypeOK, Goto, heaps, peb, names
<1>4. CallsOK'
  BY <1>1, <1>2 DEF HeapTypes, RtlAllocateHeap, TypeOK, Goto, peb, CallsOK
<1>5. PhaseOK' /\ Alone'
  BY DEF HeapTypes, RtlAllocateHeap, TypeOK, Goto, PhaseOK, Alone
<1> QED  BY <1>3, <1>4, <1>5 DEF HeapTypes, RtlAllocateHeap, peb

LEMMA InsertTypes ==
  ASSUME HeapAssumption, HeapTypes, NEW t \in Threads, RtlAllocateHeapInsert(t)
  PROVE  HeapTypes'
<1>1. /\ entry[t] \in Entries /\ heap[t] \in Heaps /\ pc[t] = "Insert"
      /\ phase \notin {"default", "core", "unload", "heaps", "down"}
  BY DEF HeapTypes, RtlAllocateHeapInsert, At, CallsOK, PhaseOK, TypeOK
<1>2. TypeOK'
  BY <1>1 DEF HeapTypes, RtlAllocateHeapInsert, TypeOK, Goto, heaps, peb, names
<1>3. CallsOK'
  BY <1>1 DEF HeapTypes, RtlAllocateHeapInsert, TypeOK, Goto, peb, CallsOK
<1>4. PhaseOK' /\ Alone'
  BY <1>1 DEF HeapTypes, RtlAllocateHeapInsert, TypeOK, Goto, PhaseOK, Alone
<1> QED  BY <1>2, <1>3, <1>4 DEF HeapTypes, RtlAllocateHeapInsert, peb

LEMMA FreeOldTypes ==
  ASSUME HeapAssumption, HeapTypes, NEW t \in Threads, RtlReAllocateHeapFree(t)
  PROVE  HeapTypes'
<1>1. /\ heap[t] \in Heaps /\ pc[t] = "FreeOld"
      /\ phase \notin {"default", "core", "unload", "heaps", "down"}
  BY DEF HeapTypes, RtlReAllocateHeapFree, At, CallsOK, PhaseOK, TypeOK
<1>2. TypeOK'
  BY <1>1 DEF HeapTypes, RtlReAllocateHeapFree, FreeBlocks, TypeOK, Goto, heaps, peb, names
<1>3. CallsOK'
  BY <1>1 DEF HeapTypes, RtlReAllocateHeapFree, TypeOK, Goto, peb, CallsOK
<1>4. PhaseOK' /\ Alone'
  BY <1>1 DEF HeapTypes, RtlReAllocateHeapFree, TypeOK, Goto, PhaseOK, Alone
<1> QED  BY <1>2, <1>3, <1>4 DEF HeapTypes, RtlReAllocateHeapFree, peb

LEMMA FreeTypes ==
  ASSUME HeapTypes, NEW t \in Threads, NEW h \in Heaps, NEW e \in Entries, RtlFreeHeap(t, h, e)
  PROVE  HeapTypes'
<1>1. TypeOK'
  BY DEF HeapTypes, RtlFreeHeap, FreeBlocks, TypeOK, heaps, peb, names, locals
<1>2. CallsOK' /\ PhaseOK' /\ Alone'
  BY DEF HeapTypes, RtlFreeHeap, CallsOK, PhaseOK, Alone, peb, locals
<1> QED  BY <1>1, <1>2 DEF HeapTypes, RtlFreeHeap, peb

(* What the three beginnings of RtlDestroyHeap have in common.             *)
LEMMA DestroyTypes ==
  ASSUME HeapAssumption, HeapTypes, NEW t \in Threads, NEW h \in Heaps, DestroyBlocks(t, h),
         phase \in {"up", "heaps"}, phase' \in {phase, "unload"}, pc[t] = "Idle",
         phase' # "up" => AllIdle, phase = "heaps" => Idx > 0,
         Idx' = Idx, DefaultHeap' = DefaultHeap, MusaCoreHeap' \in {MusaCoreHeap, NULL},
         owned' \subseteq owned
  PROVE  HeapTypes'
<1>1. NULL \notin Heaps
  BY DEF HeapAssumption
<1>2. TypeOK'
  BY DEF HeapTypes, DestroyBlocks, FreeBlocks, TypeOK, Goto, heaps, peb
<1>3. CallsOK'
  BY <1>1 DEF HeapTypes, DestroyBlocks, TypeOK, Goto, peb, CallsOK
<1>4. PhaseOK' /\ Alone'
  BY DEF HeapTypes, DestroyBlocks, TypeOK, Goto, PhaseOK, Alone, AllIdle
<1> QED  BY <1>2, <1>3, <1>4 DEF HeapTypes, DestroyBlocks, peb

LEMMA RemoveTypes ==
  ASSUME HeapAssumption, HeapTypes, NEW t \in Threads, RtlRemoveHeap(t)
  PROVE  HeapTypes'
<1>1. heap[t] \in Heaps /\ pc[t] = "Remove" /\ phase # "stopped"
  BY DEF HeapTypes, RtlRemoveHeap, At, CallsOK, TypeOK
<1>2. \A u \in Threads : pc[u] # "Enum"
  BY DEF RtlRemoveHeap, PebLockFree
<1>3. fault' \subseteq Faults
  BY DEF RtlRemoveHeap, HeapTypes, TypeOK
<1>4. \/ /\ NumberOfHeaps > 0 /\ NumberOfHeaps' = NumberOfHeaps - 1
         /\ ProcessHeaps' \in [1 .. MaximumNumberOfHeaps -> Heaps \cup {NULL, Garbage}]
         /\ Index' = [Index EXCEPT ![heap[t]] = 0]
         /\ pc' = [pc EXCEPT ![t] = "Release"] /\ UNCHANGED phase
      \/ /\ UNCHANGED <<ProcessHeaps, NumberOfHeaps, Index, phase>>
         /\ pc' = [pc EXCEPT ![t] = "Release"]
      \/ phase' = "stopped" /\ UNCHANGED <<ProcessHeaps, NumberOfHeaps, Index, pc>>
  <2> DEFINE i == Index[heap[t]]
             n == NumberOfHeaps
             new == [j \in DOMAIN ProcessHeaps |->
                              IF j = n THEN NULL
                              ELSE IF i <= j /\ j < n THEN ProcessHeaps[j + 1]
                              ELSE ProcessHeaps[j]]
  <2>1. /\ DOMAIN ProcessHeaps = 1 .. MaximumNumberOfHeaps /\ n \in 0 .. MaximumNumberOfHeaps
        /\ MaximumNumberOfHeaps \in Nat
        /\ ProcessHeaps \in [1 .. MaximumNumberOfHeaps -> Heaps \cup {NULL, Garbage}]
    BY DEF HeapTypes, TypeOK
  <2>2. new \in [1 .. MaximumNumberOfHeaps -> Heaps \cup {NULL, Garbage}]
    BY <2>1
  <2>3. \/ /\ n # 0 /\ n' = n - 1 /\ ProcessHeaps' = new
           /\ Index' = [Index EXCEPT ![heap[t]] = 0]
           /\ pc' = [pc EXCEPT ![t] = "Release"] /\ UNCHANGED phase
        \/ /\ UNCHANGED <<ProcessHeaps, NumberOfHeaps, Index, phase>>
           /\ pc' = [pc EXCEPT ![t] = "Release"]
        \/ phase' = "stopped" /\ UNCHANGED <<ProcessHeaps, NumberOfHeaps, Index, pc>>
    BY DEF RtlRemoveHeap, Goto
  <2> HIDE DEF new
  <2> QED  BY <2>1, <2>2, <2>3
<1>5. UNCHANGED <<pool, kind, resources, blocks, MaximumNumberOfHeaps, array, names, heap, entry,
                  old, pos, Idx>>
  BY DEF RtlRemoveHeap
<1>6. TypeOK'
  BY <1>3, <1>4, <1>5 DEF HeapTypes, TypeOK, blocks, names
<1>7. CallsOK'
  BY <1>1, <1>2, <1>4, <1>5 DEF HeapTypes, TypeOK, CallsOK
<1>8. CASE phase' = "stopped"
  BY <1>5, <1>6, <1>7, <1>8 DEF HeapTypes, PhaseOK, Alone
<1>9. CASE pc' = [pc EXCEPT ![t] = "Release"] /\ phase' = phase
  BY <1>1, <1>5, <1>6, <1>7, <1>9, ZenonT(60) DEF HeapTypes, TypeOK, PhaseOK, Alone
<1> QED  BY <1>4, <1>8, <1>9

LEMMA ReleaseTypes ==
  ASSUME HeapAssumption, HeapTypes, NEW t \in Threads, RtlDestroyHeapRelease(t)
  PROVE  HeapTypes'
<1>1. heap[t] \in Heaps /\ pc[t] = "Release" /\ phase \in {"up", "unload", "heaps"}
      /\ (phase = "heaps" => Idx > 0)
  BY DEF HeapTypes, RtlDestroyHeapRelease, At, CallsOK, PhaseOK, TypeOK
<1>2. Idx' \in 0 .. MaximumNumberOfHeaps
  BY <1>1 DEF HeapTypes, RtlDestroyHeapRelease, TypeOK
<1>3. TypeOK'
  BY <1>1, <1>2 DEF HeapTypes, RtlDestroyHeapRelease, TypeOK, Goto, blocks, peb, names
<1>4. CallsOK'
  BY <1>1 DEF HeapTypes, RtlDestroyHeapRelease, TypeOK, Goto, peb, CallsOK
<1>5. PhaseOK' /\ Alone'
  BY <1>1 DEF HeapTypes, RtlDestroyHeapRelease, TypeOK, Goto, PhaseOK, Alone
<1> QED  BY <1>3, <1>4, <1>5 DEF HeapTypes, RtlDestroyHeapRelease, peb

LEMMA EnumTypes ==
  ASSUME HeapTypes, NEW t \in Threads, RtlEnumProcessHeaps(t) \/ EnumNext(t) PROVE HeapTypes'
<1>1. /\ phase' = phase /\ UNCHANGED <<heaps, blocks, peb, names, heap, entry, old, Idx, fault>>
      /\ phase \in {"up", "stopped"} /\ pc[t] \in {"Idle", "Enum"}
  BY DEF RtlEnumProcessHeaps, EnumNext, At, HeapTypes, PhaseOK, TypeOK
<1>2. \/ pos[t] < NumberOfHeaps /\ pos' = [pos EXCEPT ![t] = pos[t] + 1] /\ pc' = pc
           /\ pc[t] = "Enum"
      \/ pos' = [pos EXCEPT ![t] = 0] /\ pc' = [pc EXCEPT ![t] = "Idle"] /\ pc[t] = "Enum"
      \/ /\ pos' = [pos EXCEPT ![t] = 1] /\ pc' = [pc EXCEPT ![t] = "Enum"] /\ NumberOfHeaps > 0
         /\ pc[t] = "Idle"
  BY DEF RtlEnumProcessHeaps, EnumNext, At, Goto
<1>3. TypeOK'
  <2>1. pos' \in [Threads -> 0 .. MaximumNumberOfHeaps']
    BY <1>1, <1>2 DEF HeapTypes, TypeOK, peb
  <2>2. pc' \in [Threads -> {"Idle", "Append", "Insert", "FreeOld", "Remove", "Release", "Enum"}]
    BY <1>2 DEF HeapTypes, TypeOK
  <2> QED  BY <1>1, <2>1, <2>2 DEF HeapTypes, TypeOK, heaps, blocks, peb, names
<1>4. CallsOK'
  BY <1>1, <1>2 DEF HeapTypes, TypeOK, CallsOK, peb
<1>5. PhaseOK' /\ Alone'
  BY <1>1, <1>2 DEF HeapTypes, TypeOK, PhaseOK, Alone
<1> QED  BY <1>1, <1>3, <1>4, <1>5 DEF HeapTypes, peb

LEMMA TeardownTypes ==
  ASSUME HeapTypes, Teardown PROVE HeapTypes'
<1>1. /\ phase = "heaps" /\ phase' \in {"heaps", "stopped", "down"} /\ AllIdle
      /\ UNCHANGED <<heaps, blocks, peb, locals>>
      /\ Idx' \in 0 .. MaximumNumberOfHeaps
      /\ DefaultHeap' \in {DefaultHeap, NULL} /\ MusaCoreHeap' = MusaCoreHeap /\ owned' \subseteq owned
  BY DEF Teardown, TeardownSkip, TeardownFault, TeardownEnd, names, HeapTypes, TypeOK
<1>2. fault' \subseteq Faults
  BY DEF Teardown, TeardownSkip, TeardownFault, TeardownEnd, HeapTypes, TypeOK, Faults
<1>3. TypeOK'
  BY <1>1, <1>2 DEF HeapTypes, TypeOK, heaps, blocks, peb, locals
<1>4. CallsOK' /\ PhaseOK' /\ Alone'
  BY <1>1 DEF HeapTypes, CallsOK, PhaseOK, Alone, AllIdle, peb, locals
<1> QED  BY <1>1, <1>3, <1>4 DEF HeapTypes, peb

LEMMA NextTypes ==
  ASSUME HeapAssumption, HeapTypes, NamedOK, [Next]_vars PROVE HeapTypes'
<1>1. ASSUME NEW t \in Threads, ThreadStep(t) PROVE HeapTypes'
  <2>1. CASE TeardownHeap(t)
    <3>1. /\ phase = "heaps" /\ AllIdle /\ Idx > 0 /\ ProcessHeaps[Idx] \in Heaps /\ pc[t] = "Idle"
          /\ DestroyBlocks(t, ProcessHeaps[Idx]) /\ UNCHANGED <<phase, names, Idx>>
      BY <2>1 DEF TeardownHeap, HeapTypes, TypeOK, AllIdle
    <3> QED  BY <3>1, DestroyTypes DEF names
  <2> QED
    BY <1>1, <2>1, AppendTypes, GrowTypes, AppendFailsTypes, InsertTypes, FreeOldTypes, RemoveTypes,
       ReleaseTypes, EnumTypes DEF ThreadStep
<1>2. ASSUME NEW t \in Threads, ClientCall(t) PROVE HeapTypes'
  <2>1. ASSUME NEW h \in Heaps, RtlDestroyHeap(t, h) PROVE HeapTypes'
    <3>1. /\ phase = "up" /\ pc[t] = "Idle" /\ phase' = phase /\ owned' \subseteq owned
          /\ DestroyBlocks(t, h) /\ UNCHANGED <<DefaultHeap, MusaCoreHeap, Idx>>
      BY <2>1 DEF RtlDestroyHeap
    <3> QED  BY <3>1, DestroyTypes
  <2>2. CASE Unload(t)
    <3>1. MusaCoreHeap \in Heaps
      BY <2>2 DEF Unload, NamedOK
    <3> QED  BY <2>2, <3>1, DestroyTypes DEF Unload, AllIdle
  <2> QED
    BY <1>2, <2>1, <2>2, CreateTypes, CreateFailsTypes, AllocateTypes, FreeTypes, EnumTypes
    DEF ClientCall
<1>3. CASE Teardown
  BY <1>3, TeardownTypes
<1>4. CASE UNCHANGED vars
  BY <1>4 DEF vars, heaps, blocks, peb, names, locals, HeapTypes, TypeOK, CallsOK, PhaseOK, Alone,
       AllIdle
<1> QED  BY <1>1, <1>2, <1>3, <1>4 DEF Next

LEMMA NextNamed ==
  ASSUME HeapAssumption, HeapTypes, NamedOK, [Next]_vars PROVE NamedOK'
<1>1. ASSUME NEW t \in Threads, NEW list, At(t, "Append"), AddEntry(t, list) PROVE NamedOK'
  <2>1. heap[t] \in Heaps
    BY <1>1 DEF At, HeapTypes, CallsOK, TypeOK
  <2> QED  BY <1>1, <2>1 DEF AddEntry, NamedOK
<1>2. ASSUME NEW t \in Threads, ThreadStep(t) PROVE NamedOK'
  <2>1. CASE RtlAppendHeap(t) \/ RtlAppendHeapGrows(t)
    BY <1>1, <2>1 DEF RtlAppendHeap, RtlAppendHeapGrows
  <2>2. CASE RtlAppendHeapFails(t)
    <3>1. phase' \in {"down", "heaps", phase} /\ UNCHANGED names
      BY <2>2 DEF RtlAppendHeapFails, AfterFailure
    <3> QED  BY <3>1 DEF NamedOK, names
  <2>3. CASE RtlRemoveHeap(t)
    <3>1. phase' \in {"stopped", phase} /\ UNCHANGED names
      BY <2>3 DEF RtlRemoveHeap
    <3> QED  BY <3>1 DEF NamedOK, names
  <2>4. CASE RtlDestroyHeapRelease(t)
    <3>1. phase' \in {"heaps", phase} /\ UNCHANGED names
      BY <2>4 DEF RtlDestroyHeapRelease
    <3> QED  BY <3>1 DEF NamedOK, names
  <2>5. CASE RtlAllocateHeapInsert(t) \/ RtlReAllocateHeapFree(t) \/ EnumNext(t) \/ TeardownHeap(t)
    BY <2>5 DEF RtlAllocateHeapInsert, RtlReAllocateHeapFree, EnumNext, TeardownHeap, NamedOK, names
  <2> QED  BY <1>2, <2>1, <2>2, <2>3, <2>4, <2>5 DEF ThreadStep
<1>3. ASSUME NEW t \in Threads, ClientCall(t) PROVE NamedOK'
  <2>1. CASE RtlCreateHeapFails(t)
    <3>1. phase' \in {"down", "heaps", phase} /\ UNCHANGED names
      BY <2>1 DEF RtlCreateHeapFails, AfterFailure
    <3> QED  BY <3>1 DEF NamedOK, names
  <2>2. CASE Unload(t)
    BY <2>2 DEF Unload, NamedOK
  <2> QED
    BY <1>3, <2>1, <2>2 DEF ClientCall, RtlCreateHeap, RtlAllocateHeap, RtlFreeHeap, RtlDestroyHeap,
         RtlEnumProcessHeaps, NamedOK, names
<1>4. CASE Teardown
  BY <1>4 DEF Teardown, TeardownSkip, TeardownFault, TeardownEnd, NamedOK, names
<1>5. CASE UNCHANGED vars
  BY <1>5 DEF vars, names, NamedOK
<1> QED  BY <1>2, <1>3, <1>4, <1>5 DEF Next

(* The same, with the places of the threads in each phase, for the proofs   *)
(* that follow.                                                             *)
THEOREM HeapPlaces == ASSUME HeapAssumption PROVE Spec => [](HeapTypes /\ NamedOK)
<1>1. Init => HeapTypes /\ NamedOK
  BY InitTypes DEF Init, NamedOK
<1>2. HeapTypes /\ NamedOK /\ [Next]_vars => HeapTypes' /\ NamedOK'
  BY NextTypes, NextNamed
<1> QED  BY <1>1, <1>2, PTL DEF Spec

(* Every state of the heaps is well typed, also after a fault, and the     *)
(* length of the array is one the list can have.                           *)
THEOREM HeapTypeCorrect == ASSUME HeapAssumption PROVE Spec => []TypeOK
<1>1. HeapTypes /\ NamedOK => TypeOK
  BY DEF HeapTypes
<1> QED  BY <1>1, HeapPlaces, PTL

(***************************************************************************)
(* The list, as long as nothing was touched that was not what it was taken *)
(* for.  A heap is on the list or in the hands of the one call that        *)
(* creates or releases it; a call that creates or destroys a heap has it   *)
(* to itself; the teardown has no entry left above its index.              *)
(***************************************************************************)
Exclusive(t) == pc[t] \in {"Append", "Remove", "Release"}

ListOK ==
    /\ \A i \in 1 .. NumberOfHeaps : ProcessHeaps[i] \in pool /\ Index[ProcessHeaps[i]] = i
    /\ \A h \in pool :
         \/ Index[h] \in 1 .. NumberOfHeaps /\ ProcessHeaps[Index[h]] = h
         \/ Index[h] = 0 /\ \E t \in Threads : heap[t] = h /\ pc[t] \in {"Append", "Release"}
    /\ \A i \in NumberOfHeaps + 1 .. MaximumNumberOfHeaps :
         /\ ProcessHeaps[i] \in {NULL, Garbage}
         /\ array = NULL => ProcessHeaps[i] = NULL

ThreadsOK ==
    \A t \in Threads :
        /\ heap[t] \in pool \cup {NULL}
        /\ pc[t] \in {"Append", "Release"} => Index[heap[t]] = 0
        /\ pc[t] = "Remove" => Index[heap[t]] \in 1 .. NumberOfHeaps
        /\ Exclusive(t) => \A u \in Threads : heap[u] = heap[t] => u = t
        /\ phase \in {"default", "core", "up"} /\ Exclusive(t) =>
             heap[t] \notin owned \cup {DefaultHeap, MusaCoreHeap}

NamesOK ==
    /\ phase = "default" => DefaultHeap = NULL /\ NumberOfHeaps = 0
    /\ phase \in {"default", "core"} => MusaCoreHeap = NULL /\ owned = {}
    /\ phase = "core" => DefaultHeap \in pool
    /\ phase = "up" => /\ owned \cup {DefaultHeap, MusaCoreHeap} \subseteq pool
                       /\ owned \cap {DefaultHeap, MusaCoreHeap} = {}

TearOK ==
    /\ phase = "heaps" => Idx >= NumberOfHeaps
    /\ phase = "heaps" =>
         \A t \in Threads :
            /\ pc[t] = "Remove" => Idx = NumberOfHeaps /\ Index[heap[t]] = NumberOfHeaps
            /\ pc[t] = "Release" => Idx > NumberOfHeaps
    /\ phase = "down" => NumberOfHeaps = 0

ListInv == ListOK /\ ThreadsOK /\ NamesOK /\ TearOK

LEMMA InitList == ASSUME HeapAssumption PROVE Init => ListInv
<1> SUFFICES ASSUME Init PROVE ListInv
  OBVIOUS
<1>1. MaximumNumberOfHeaps \in Nat
  BY DEF Init, HeapAssumption
<1>2. ListOK
  BY <1>1 DEF Init, ListOK
<1> QED  BY <1>2 DEF Init, ListInv, ThreadsOK, Exclusive, NamesOK, TearOK

LEMMA CreateList ==
  ASSUME HeapAssumption, HeapTypes, ListInv, NEW t \in Threads, NEW k, RtlCreateHeap(t, k)
  PROVE  ListInv'
<1>1. PICK h \in Heaps \ pool :
         /\ pool' = pool \cup {h} /\ Index' = [Index EXCEPT ![h] = 0]
         /\ heap' = [heap EXCEPT ![t] = h]
  BY DEF RtlCreateHeap
<1>2. /\ pc' = [pc EXCEPT ![t] = "Append"] /\ pc[t] = "Idle" /\ phase' = phase
      /\ UNCHANGED <<NumberOfHeaps, MaximumNumberOfHeaps, ProcessHeaps, array, DefaultHeap,
                     MusaCoreHeap, owned, Idx>>
      /\ phase \in {"default", "core", "up"} /\ (phase # "up" => AllIdle)
  BY DEF RtlCreateHeap, Goto, peb, names
<1>3. /\ \A g \in pool : g # h /\ Index'[g] = Index[g]
      /\ Index'[h] = 0 /\ h # NULL
      /\ \A u \in Threads : heap[u] # h
      /\ heap'[t] = h /\ pc'[t] = "Append"
      /\ \A u \in Threads : u # t => heap'[u] = heap[u] /\ pc'[u] = pc[u]
      /\ heap[t] = NULL
  BY <1>1, <1>2 DEF HeapTypes, TypeOK, CallsOK, ListInv, ThreadsOK, HeapAssumption
<1>4. ListOK'
  <2>1. \A i \in 1 .. NumberOfHeaps' : ProcessHeaps'[i] \in pool' /\ Index'[ProcessHeaps'[i]] = i
    BY <1>1, <1>2, <1>3 DEF ListInv, ListOK
  <2>2. \A g \in pool' :
         \/ Index'[g] \in 1 .. NumberOfHeaps' /\ ProcessHeaps'[Index'[g]] = g
         \/ Index'[g] = 0 /\ \E u \in Threads : heap'[u] = g /\ pc'[u] \in {"Append", "Release"}
    BY <1>1, <1>2, <1>3 DEF ListInv, ListOK
  <2> QED  BY <1>2, <2>1, <2>2 DEF ListInv, ListOK
<1>5. ThreadsOK'
  <2> SUFFICES ASSUME NEW u \in Threads
               PROVE  /\ heap'[u] \in pool' \cup {NULL}
                      /\ pc'[u] \in {"Append", "Release"} => Index'[heap'[u]] = 0
                      /\ pc'[u] = "Remove" => Index'[heap'[u]] \in 1 .. NumberOfHeaps'
                      /\ Exclusive(u)' => \A v \in Threads : heap'[v] = heap'[u] => v = u
                      /\ phase' \in {"default", "core", "up"} /\ Exclusive(u)' =>
                            heap'[u] \notin owned' \cup {DefaultHeap', MusaCoreHeap'}
    BY DEF ThreadsOK
  <2>1. CASE u = t
    BY <1>1, <1>2, <1>3, <2>1 DEF ListInv, NamesOK, Exclusive
  <2>2. CASE u # t
    <3>1. Exclusive(u) => heap[u] \in pool
      BY DEF Exclusive, ListInv, ThreadsOK, HeapTypes, CallsOK
    <3> QED  BY <1>1, <1>2, <1>3, <2>2, <3>1 DEF ListInv, ThreadsOK, Exclusive, HeapTypes, CallsOK
  <2> QED  BY <2>1, <2>2
<1>6. NamesOK' /\ TearOK'
  BY <1>1, <1>2 DEF ListInv, NamesOK, TearOK
<1> QED  BY <1>4, <1>5, <1>6 DEF ListInv

(* The call that puts its heap on the list.                                *)
LEMMA AddList ==
  ASSUME HeapAssumption, HeapTypes, ListInv, NEW t \in Threads, NEW list,
         pc[t] = "Append", phase # "stopped", AddEntry(t, list),
         NumberOfHeaps < MaximumNumberOfHeaps', MaximumNumberOfHeaps' \in Nat,
         list \in [1 .. MaximumNumberOfHeaps' -> Heaps \cup {NULL, Garbage}],
         \A i \in 1 .. NumberOfHeaps : list[i] = ProcessHeaps[i],
         \A i \in NumberOfHeaps + 1 .. MaximumNumberOfHeaps' :
             list[i] \in {NULL, Garbage} /\ (array' = NULL => list[i] = NULL),
         pc' = [pc EXCEPT ![t] = "Idle"], heap' = [heap EXCEPT ![t] = NULL]
  PROVE  ListInv'
<1> DEFINE h == heap[t]
           n == NumberOfHeaps
<1>1. /\ h \in pool /\ Index[h] = 0 /\ pool \subseteq Heaps /\ n \in Nat
      /\ \A u \in Threads : u # t => heap[u] # h
  <2>1. h \in pool /\ Index[h] = 0
    BY DEF HeapTypes, CallsOK, ListInv, ThreadsOK
  <2>2. \A u \in Threads : u # t => heap[u] # h
    BY DEF ListInv, ThreadsOK, Exclusive
  <2> QED  BY <2>1, <2>2 DEF HeapTypes, TypeOK
<1>2. /\ ProcessHeaps' = [list EXCEPT ![n + 1] = h] /\ NumberOfHeaps' = n + 1
      /\ Index' = [Index EXCEPT ![h] = n + 1] /\ UNCHANGED <<pool, Idx>>
      /\ DefaultHeap' = IF phase = "default" THEN h ELSE DefaultHeap
      /\ MusaCoreHeap' = IF phase = "core" THEN h ELSE MusaCoreHeap
      /\ owned' = IF phase = "up" THEN owned \cup {h} ELSE owned
      /\ phase' = CASE phase = "default" -> "core" [] phase = "core" -> "up" [] OTHER -> phase
  BY DEF AddEntry, NewIndex
<1>3. /\ \A g \in pool : g # h => Index'[g] = Index[g]
      /\ Index'[h] = n + 1
      /\ \A i \in 1 .. n : ProcessHeaps'[i] = ProcessHeaps[i]
      /\ ProcessHeaps'[n + 1] = h
      /\ \A i \in n + 2 .. MaximumNumberOfHeaps' : ProcessHeaps'[i] = list[i]
  BY <1>1, <1>2 DEF HeapTypes, TypeOK
<1>4. /\ heap'[t] = NULL /\ pc'[t] = "Idle"
      /\ \A u \in Threads : u # t => heap'[u] = heap[u] /\ pc'[u] = pc[u]
  BY DEF HeapTypes, TypeOK
<1> HIDE DEF h, n
<1>5. \A i \in 1 .. n : ProcessHeaps[i] \in pool /\ ProcessHeaps[i] # h
  BY <1>1 DEF ListInv, ListOK, n
<1>6. ListOK'
  <2>1. \A i \in 1 .. NumberOfHeaps' : ProcessHeaps'[i] \in pool' /\ Index'[ProcessHeaps'[i]] = i
    BY <1>1, <1>2, <1>3, <1>5 DEF ListInv, ListOK, n
  <2>2. ASSUME NEW g \in pool'
        PROVE  \/ Index'[g] \in 1 .. NumberOfHeaps' /\ ProcessHeaps'[Index'[g]] = g
               \/ Index'[g] = 0 /\ \E u \in Threads : heap'[u] = g /\ pc'[u] \in {"Append", "Release"}
    <3>1. CASE g = h
      BY <1>1, <1>2, <1>3, <3>1
    <3>2. CASE g # h
      BY <1>1, <1>2, <1>3, <1>4, <3>2 DEF ListInv, ListOK, n, h
    <3> QED  BY <3>1, <3>2
  <2>3. \A i \in NumberOfHeaps' + 1 .. MaximumNumberOfHeaps' :
         /\ ProcessHeaps'[i] \in {NULL, Garbage}
         /\ array' = NULL => ProcessHeaps'[i] = NULL
    BY <1>1, <1>2, <1>3 DEF n
  <2> QED  BY <2>1, <2>2, <2>3 DEF ListOK
<1>7. ThreadsOK'
  <2> SUFFICES ASSUME NEW u \in Threads
               PROVE  /\ heap'[u] \in pool' \cup {NULL}
                      /\ pc'[u] \in {"Append", "Release"} => Index'[heap'[u]] = 0
                      /\ pc'[u] = "Remove" => Index'[heap'[u]] \in 1 .. NumberOfHeaps'
                      /\ Exclusive(u)' => \A v \in Threads : heap'[v] = heap'[u] => v = u
                      /\ phase' \in {"default", "core", "up"} /\ Exclusive(u)' =>
                            heap'[u] \notin owned' \cup {DefaultHeap', MusaCoreHeap'}
    BY DEF ThreadsOK
  <2>1. CASE u = t
    BY <1>4, <2>1 DEF Exclusive
  <2>2. CASE u # t
    <3>1. heap[u] # h /\ (Exclusive(u) => heap[u] \in pool /\ heap[u] # NULL)
      BY <1>1, <2>2 DEF Exclusive, ListInv, ThreadsOK, HeapTypes, CallsOK
    <3>2. Exclusive(u)' <=> Exclusive(u)
      BY <1>4, <2>2 DEF Exclusive
    <3>3. ASSUME Exclusive(u) PROVE \A v \in Threads : heap'[v] = heap'[u] => v = u
      BY <1>4, <2>2, <3>1, <3>3 DEF ListInv, ThreadsOK
    <3>4. ASSUME Exclusive(u), phase \in {"default", "core", "up"}
          PROVE  heap[u] \notin owned' \cup {DefaultHeap', MusaCoreHeap'}
      BY <1>2, <3>1, <3>4 DEF ListInv, ThreadsOK
    <3>5. /\ heap'[u] \in pool' \cup {NULL}
          /\ pc'[u] \in {"Append", "Release"} => Index'[heap'[u]] = 0
          /\ pc'[u] = "Remove" => Index'[heap'[u]] \in 1 .. NumberOfHeaps'
      BY <1>1, <1>2, <1>3, <1>4, <2>2, <3>1 DEF ListInv, ThreadsOK, n, Exclusive
    <3> QED  BY <1>2, <1>4, <2>2, <3>2, <3>3, <3>4, <3>5
  <2> QED  BY <2>1, <2>2
<1>8. phase \in {"default", "core", "up"}
  BY DEF HeapTypes, PhaseOK, TypeOK
<1>9. h \notin owned \cup {DefaultHeap, MusaCoreHeap}
  BY <1>8 DEF ListInv, ThreadsOK, Exclusive, h
<1>10. NamesOK' /\ TearOK'
  BY <1>1, <1>2, <1>8, <1>9 DEF ListInv, NamesOK, TearOK
<1> QED  BY <1>6, <1>7, <1>10 DEF ListInv

LEMMA AppendList ==
  ASSUME HeapAssumption, HeapTypes, ListInv, NEW t \in Threads, RtlAppendHeap(t)
  PROVE  ListInv'
<1>1. /\ pc[t] = "Append" /\ phase # "stopped" /\ AddEntry(t, ProcessHeaps)
      /\ NumberOfHeaps < MaximumNumberOfHeaps
      /\ MaximumNumberOfHeaps' = MaximumNumberOfHeaps /\ array' = array
      /\ pc' = [pc EXCEPT ![t] = "Idle"] /\ heap' = [heap EXCEPT ![t] = NULL]
  BY DEF RtlAppendHeap, At, Goto
<1>2. /\ MaximumNumberOfHeaps \in Nat
      /\ ProcessHeaps \in [1 .. MaximumNumberOfHeaps -> Heaps \cup {NULL, Garbage}]
  BY DEF HeapTypes, TypeOK
<1>3. \A i \in NumberOfHeaps + 1 .. MaximumNumberOfHeaps :
         ProcessHeaps[i] \in {NULL, Garbage} /\ (array = NULL => ProcessHeaps[i] = NULL)
  BY DEF ListInv, ListOK
<1> QED  BY <1>1, <1>2, <1>3, AddList

(* Behind the copied half of a new array there is what was there before.   *)
LEMMA GrowList ==
  ASSUME HeapAssumption, HeapTypes, ListInv, NEW t \in Threads, RtlAppendHeapGrows(t)
  PROVE  ListInv'
<1> DEFINE n == NumberOfHeaps
<1>1. /\ n \in Nat /\ n > 0 /\ n = MaximumNumberOfHeaps /\ MaximumNumberOfHeaps' = 2 * n
      /\ ProcessHeaps \in [1 .. n -> Heaps \cup {NULL, Garbage}]
  BY DEF HeapTypes, RtlAppendHeapGrows, TypeOK
<1>2. PICK tail \in [n + 1 .. MaximumNumberOfHeaps' -> {NULL, Garbage}] :
         AddEntry(t, [i \in 1 .. MaximumNumberOfHeaps' |->
                        IF i <= n THEN ProcessHeaps[i] ELSE tail[i]])
  BY DEF RtlAppendHeapGrows
<1> DEFINE list == [i \in 1 .. MaximumNumberOfHeaps' |-> IF i <= n THEN ProcessHeaps[i] ELSE tail[i]]
<1>3. list \in [1 .. MaximumNumberOfHeaps' -> Heaps \cup {NULL, Garbage}]
  BY <1>1
<1>4. \A i \in 1 .. n : list[i] = ProcessHeaps[i]
  BY <1>1
<1>5. array' # NULL
  BY DEF RtlAppendHeapGrows, HeapAssumption
<1>6. \A i \in n + 1 .. MaximumNumberOfHeaps' :
         list[i] \in {NULL, Garbage} /\ (array' = NULL => list[i] = NULL)
  BY <1>1, <1>5
<1>7. AddEntry(t, list)
  BY <1>2
<1>8. /\ pc[t] = "Append" /\ phase # "stopped"
      /\ pc' = [pc EXCEPT ![t] = "Idle"] /\ heap' = [heap EXCEPT ![t] = NULL]
  BY DEF RtlAppendHeapGrows, At, Goto
<1>9. n < MaximumNumberOfHeaps' /\ MaximumNumberOfHeaps' \in Nat
  BY <1>1
<1> HIDE DEF list
<1> QED  BY <1>9, <1>3, <1>4, <1>5, <1>6, <1>7, <1>8, AddList

(* What lets a heap go that is not on the list.                            *)
LEMMA GoneList ==
  ASSUME HeapAssumption, HeapTypes, ListInv, NEW t \in Threads, pc[t] \in {"Append", "Release"},
         pool' = pool \ {heap[t]},
         pc' = [pc EXCEPT ![t] = "Idle"], heap' = [heap EXCEPT ![t] = NULL],
         UNCHANGED <<Index, NumberOfHeaps, MaximumNumberOfHeaps, ProcessHeaps, array>>
  PROVE  /\ ListOK'
         /\ \A u \in Threads :
              /\ heap'[u] \in pool' \cup {NULL}
              /\ pc'[u] \in {"Append", "Release"} => Index'[heap'[u]] = 0
              /\ pc'[u] = "Remove" => Index'[heap'[u]] \in 1 .. NumberOfHeaps'
              /\ Exclusive(u)' => \A v \in Threads : heap'[v] = heap'[u] => v = u
              /\ Exclusive(u)' => Exclusive(u) /\ heap'[u] = heap[u] /\ u # t
<1> DEFINE h == heap[t]
<1>1. /\ h \in pool /\ Index[h] = 0 /\ NumberOfHeaps \in Nat
      /\ \A u \in Threads : u # t => heap[u] # h
  <2>1. h \in pool /\ Index[h] = 0
    BY DEF HeapTypes, CallsOK, ListInv, ThreadsOK
  <2>2. \A u \in Threads : u # t => heap[u] # h
    BY DEF ListInv, ThreadsOK, Exclusive
  <2> QED  BY <2>1, <2>2 DEF HeapTypes, TypeOK
<1>2. /\ heap'[t] = NULL /\ pc'[t] = "Idle"
      /\ \A u \in Threads : u # t => heap'[u] = heap[u] /\ pc'[u] = pc[u]
  BY DEF HeapTypes, TypeOK
<1> HIDE DEF h
<1>3. \A i \in 1 .. NumberOfHeaps : ProcessHeaps[i] # h
  BY <1>1 DEF ListInv, ListOK
<1>4. ListOK'
  <2>1. \A i \in 1 .. NumberOfHeaps : ProcessHeaps[i] \in pool' /\ Index[ProcessHeaps[i]] = i
    BY <1>3 DEF ListInv, ListOK, h
  <2>2. ASSUME NEW g \in pool'
        PROVE  \/ Index[g] \in 1 .. NumberOfHeaps /\ ProcessHeaps[Index[g]] = g
               \/ Index[g] = 0 /\ \E u \in Threads : heap'[u] = g /\ pc'[u] \in {"Append", "Release"}
    BY <1>1, <1>2 DEF ListInv, ListOK, h
  <2> QED  BY <2>1, <2>2 DEF ListInv, ListOK
<1>5. ASSUME NEW u \in Threads
      PROVE  /\ heap'[u] \in pool' \cup {NULL}
             /\ pc'[u] \in {"Append", "Release"} => Index'[heap'[u]] = 0
             /\ pc'[u] = "Remove" => Index'[heap'[u]] \in 1 .. NumberOfHeaps'
             /\ Exclusive(u)' => \A v \in Threads : heap'[v] = heap'[u] => v = u
             /\ Exclusive(u)' => Exclusive(u) /\ heap'[u] = heap[u] /\ u # t
  <2>1. CASE u = t
    BY <1>2, <2>1 DEF Exclusive
  <2>2. CASE u # t
    <3>1. Exclusive(u)' <=> Exclusive(u)
      BY <1>2, <2>2 DEF Exclusive
    <3>2. ASSUME Exclusive(u) PROVE \A v \in Threads : heap'[v] = heap'[u] => v = u
      <4>1. heap[u] # NULL
        BY <3>2 DEF Exclusive, HeapTypes, CallsOK
      <4> QED  BY <1>2, <2>2, <3>2, <4>1 DEF ListInv, ThreadsOK
    <3> QED  BY <1>1, <1>2, <2>2, <3>1, <3>2 DEF ListInv, ThreadsOK, h
  <2> QED  BY <2>1, <2>2
<1> QED  BY <1>4, <1>5

LEMMA AppendFailsList ==
  ASSUME HeapAssumption, HeapTypes, ListInv, NEW t \in Threads, RtlAppendHeapFails(t)
  PROVE  ListInv'
<1>1. /\ pc[t] = "Append" /\ pool' = pool \ {heap[t]}
      /\ pc' = [pc EXCEPT ![t] = "Idle"] /\ heap' = [heap EXCEPT ![t] = NULL]
      /\ UNCHANGED <<Index, NumberOfHeaps, MaximumNumberOfHeaps, ProcessHeaps, array>>
      /\ UNCHANGED names /\ NumberOfHeaps = MaximumNumberOfHeaps /\ phase # "stopped"
  BY DEF RtlAppendHeapFails, MaximumAfterFailure, Goto, At
<1>2. phase \in {"core", "up"}
  <2>1. phase \in {"default", "core", "up"}
    BY <1>1 DEF HeapTypes, TypeOK, PhaseOK
  <2>2. phase # "default"
    BY <1>1 DEF HeapTypes, ListInv, NamesOK
  <2> QED  BY <2>1, <2>2
<1>3. \/ phase = "core" /\ phase' = "heaps" /\ Idx' = MaximumNumberOfHeaps
      \/ phase = "up" /\ phase' = "up" /\ Idx' = Idx
  BY <1>2 DEF RtlAppendHeapFails, AfterFailure
<1>4. heap[t] \notin owned \cup {DefaultHeap, MusaCoreHeap}
  BY <1>1, <1>2 DEF ListInv, ThreadsOK, Exclusive
<1>5. /\ ListOK'
      /\ \A u \in Threads :
              /\ heap'[u] \in pool' \cup {NULL}
              /\ pc'[u] \in {"Append", "Release"} => Index'[heap'[u]] = 0
              /\ pc'[u] = "Remove" => Index'[heap'[u]] \in 1 .. NumberOfHeaps'
              /\ Exclusive(u)' => \A v \in Threads : heap'[v] = heap'[u] => v = u
              /\ Exclusive(u)' => Exclusive(u) /\ heap'[u] = heap[u] /\ u # t
  BY <1>1, GoneList
<1>6. ThreadsOK'
  BY <1>1, <1>3, <1>5 DEF ListInv, ThreadsOK, names
<1>7. NamesOK'
  BY <1>1, <1>3, <1>4 DEF ListInv, NamesOK, names
<1>8. TearOK'
  <2>1. phase' = "heaps" => \A u \in Threads : pc'[u] = "Idle"
    BY <1>1, <1>3 DEF HeapTypes, TypeOK, Alone
  <2> QED  BY <1>1, <1>3, <2>1 DEF TearOK, HeapTypes, TypeOK
<1> QED  BY <1>5, <1>6, <1>7, <1>8 DEF ListInv

LEMMA ReleaseList ==
  ASSUME HeapAssumption, HeapTypes, ListInv, NEW t \in Threads, RtlDestroyHeapRelease(t)
  PROVE  ListInv'
<1>1. /\ pc[t] = "Release" /\ pool' = pool \ {heap[t]}
      /\ pc' = [pc EXCEPT ![t] = "Idle"] /\ heap' = [heap EXCEPT ![t] = NULL]
      /\ UNCHANGED <<Index, NumberOfHeaps, MaximumNumberOfHeaps, ProcessHeaps, array>>
      /\ UNCHANGED names /\ phase # "stopped"
  BY DEF RtlDestroyHeapRelease, Goto, At, peb
<1>2. phase \in {"up", "unload", "heaps"}
  BY <1>1 DEF HeapTypes, TypeOK, PhaseOK
<1>3. \/ phase = "unload" /\ phase' = "heaps" /\ Idx' = MaximumNumberOfHeaps
      \/ phase = "heaps" /\ phase' = "heaps" /\ Idx' = Idx - 1
      \/ phase = "up" /\ phase' = "up" /\ Idx' = Idx
  BY <1>2 DEF RtlDestroyHeapRelease
<1>4. phase = "up" => heap[t] \notin owned \cup {DefaultHeap, MusaCoreHeap}
  BY <1>1 DEF ListInv, ThreadsOK, Exclusive
<1>5. /\ ListOK'
      /\ \A u \in Threads :
              /\ heap'[u] \in pool' \cup {NULL}
              /\ pc'[u] \in {"Append", "Release"} => Index'[heap'[u]] = 0
              /\ pc'[u] = "Remove" => Index'[heap'[u]] \in 1 .. NumberOfHeaps'
              /\ Exclusive(u)' => \A v \in Threads : heap'[v] = heap'[u] => v = u
              /\ Exclusive(u)' => Exclusive(u) /\ heap'[u] = heap[u] /\ u # t
  BY <1>1, GoneList
<1>6. ThreadsOK'
  BY <1>1, <1>3, <1>5 DEF ListInv, ThreadsOK, names
<1>7. NamesOK'
  BY <1>1, <1>3, <1>4 DEF ListInv, NamesOK, names
<1>8. TearOK'
  <2>1. phase' = "heaps" => \A u \in Threads : pc'[u] = "Idle"
    BY <1>1, <1>3 DEF HeapTypes, TypeOK, Alone
  <2>2. phase = "heaps" => Idx > NumberOfHeaps
    BY <1>1 DEF ListInv, TearOK
  <2>3. phase' = "heaps" => Idx' >= NumberOfHeaps
    BY <1>3, <2>2 DEF HeapTypes, TypeOK
  <2> QED  BY <1>1, <1>3, <2>1, <2>3 DEF TearOK
<1> QED  BY <1>5, <1>6, <1>7, <1>8 DEF ListInv

(* A heap on the list whose destruction begins.                            *)
LEMMA BeginsList ==
  ASSUME HeapAssumption, HeapTypes, ListInv, NEW t \in Threads, NEW h, pc[t] = "Idle",
         DestroyBlocks(t, h), h \in pool, Index[h] \in 1 .. NumberOfHeaps,
         \A u \in Threads : heap[u] # h
  PROVE  /\ ListOK'
         /\ \A u \in Threads :
              /\ heap'[u] \in pool' \cup {NULL}
              /\ pc'[u] \in {"Append", "Release"} => Index'[heap'[u]] = 0
              /\ pc'[u] = "Remove" => Index'[heap'[u]] \in 1 .. NumberOfHeaps'
              /\ Exclusive(u)' => \A v \in Threads : heap'[v] = heap'[u] => v = u
              /\ Exclusive(u)' => (u = t /\ heap'[u] = h)
                                  \/ (u # t /\ Exclusive(u) /\ heap'[u] = heap[u])
<1>1. /\ UNCHANGED <<Index, NumberOfHeaps, MaximumNumberOfHeaps, ProcessHeaps, array, pool>>
      /\ heap'[t] = h /\ pc'[t] = "Remove"
      /\ \A u \in Threads : u # t => heap'[u] = heap[u] /\ pc'[u] = pc[u]
  BY DEF DestroyBlocks, Goto, heaps, peb, HeapTypes, TypeOK
<1>2. h # NULL
  BY DEF HeapTypes, TypeOK, HeapAssumption
<1>3. ListOK'
  <2>1. ASSUME NEW g \in pool
        PROVE  \/ Index[g] \in 1 .. NumberOfHeaps /\ ProcessHeaps[Index[g]] = g
               \/ Index[g] = 0 /\ \E u \in Threads : heap'[u] = g /\ pc'[u] \in {"Append", "Release"}
    BY <1>1 DEF ListInv, ListOK
  <2> QED  BY <1>1, <2>1 DEF ListInv, ListOK
<1>4. ASSUME NEW u \in Threads
      PROVE  /\ heap'[u] \in pool' \cup {NULL}
             /\ pc'[u] \in {"Append", "Release"} => Index'[heap'[u]] = 0
             /\ pc'[u] = "Remove" => Index'[heap'[u]] \in 1 .. NumberOfHeaps'
             /\ Exclusive(u)' => \A v \in Threads : heap'[v] = heap'[u] => v = u
             /\ Exclusive(u)' => (u = t /\ heap'[u] = h)
                                  \/ (u # t /\ Exclusive(u) /\ heap'[u] = heap[u])
  <2>1. CASE u = t
    BY <1>1, <2>1 DEF Exclusive
  <2>2. CASE u # t
    <3>1. Exclusive(u)' <=> Exclusive(u)
      BY <1>1, <2>2 DEF Exclusive
    <3>2. ASSUME Exclusive(u) PROVE \A v \in Threads : heap'[v] = heap'[u] => v = u
      BY <1>1, <2>2, <3>2 DEF ListInv, ThreadsOK
    <3> QED  BY <1>1, <2>2, <3>1, <3>2 DEF ListInv, ThreadsOK
  <2> QED  BY <2>1, <2>2
<1> QED  BY <1>3, <1>4

LEMMA DestroyList ==
  ASSUME HeapAssumption, HeapTypes, ListInv, NEW t \in Threads, NEW h \in Heaps,
         RtlDestroyHeap(t, h)
  PROVE  ListInv'
<1>1. /\ phase = "up" /\ phase' = "up" /\ pc[t] = "Idle" /\ h \in owned /\ owned' = owned \ {h}
      /\ \A u \in Threads : heap[u] # h
      /\ DestroyBlocks(t, h) /\ UNCHANGED <<DefaultHeap, MusaCoreHeap>>
  BY DEF RtlDestroyHeap
<1>2. h \in pool /\ h \notin {DefaultHeap, MusaCoreHeap}
  BY <1>1 DEF ListInv, NamesOK
<1>3. Index[h] \in 1 .. NumberOfHeaps
  BY <1>1, <1>2 DEF ListInv, ListOK
<1>4. /\ ListOK'
      /\ \A u \in Threads :
              /\ heap'[u] \in pool' \cup {NULL}
              /\ pc'[u] \in {"Append", "Release"} => Index'[heap'[u]] = 0
              /\ pc'[u] = "Remove" => Index'[heap'[u]] \in 1 .. NumberOfHeaps'
              /\ Exclusive(u)' => \A v \in Threads : heap'[v] = heap'[u] => v = u
              /\ Exclusive(u)' => (u = t /\ heap'[u] = h)
                                  \/ (u # t /\ Exclusive(u) /\ heap'[u] = heap[u])
  BY <1>1, <1>2, <1>3, BeginsList
<1>5. ThreadsOK'
  BY <1>1, <1>2, <1>4 DEF ListInv, ThreadsOK
<1>6. UNCHANGED pool
  BY <1>1 DEF DestroyBlocks, heaps
<1> QED  BY <1>1, <1>4, <1>5, <1>6 DEF ListInv, NamesOK, TearOK

LEMMA UnloadList ==
  ASSUME HeapAssumption, HeapTypes, NamedOK, ListInv, NEW t \in Threads, Unload(t)
  PROVE  ListInv'
<1> DEFINE h == MusaCoreHeap
<1>1. /\ phase = "up" /\ phase' = "unload" /\ AllIdle /\ DestroyBlocks(t, h)
  BY DEF Unload
<1>2. /\ h \in pool /\ h # NULL
  BY <1>1 DEF ListInv, NamesOK, NamedOK, HeapAssumption
<1>3. pc[t] = "Idle" /\ \A u \in Threads : heap[u] = NULL /\ pc[u] = "Idle"
  BY <1>1 DEF AllIdle, HeapTypes, CallsOK
<1>4. Index[h] \in 1 .. NumberOfHeaps
  BY <1>2, <1>3 DEF ListInv, ListOK
<1>5. \A u \in Threads : heap[u] # h
  BY <1>2, <1>3
<1> HIDE DEF h
<1>6. /\ ListOK'
      /\ \A u \in Threads :
              /\ heap'[u] \in pool' \cup {NULL}
              /\ pc'[u] \in {"Append", "Release"} => Index'[heap'[u]] = 0
              /\ pc'[u] = "Remove" => Index'[heap'[u]] \in 1 .. NumberOfHeaps'
              /\ Exclusive(u)' => \A v \in Threads : heap'[v] = heap'[u] => v = u
              /\ Exclusive(u)' => (u = t /\ heap'[u] = h)
                                  \/ (u # t /\ Exclusive(u) /\ heap'[u] = heap[u])
  BY <1>1, <1>2, <1>3, <1>4, <1>5, BeginsList
<1>7. ThreadsOK'
  BY <1>1, <1>6 DEF ThreadsOK
<1> QED  BY <1>1, <1>6, <1>7 DEF ListInv, NamesOK, TearOK

(* The teardown meets the last entry first.                                *)
LEMMA TeardownList ==
  ASSUME HeapAssumption, HeapTypes, ListInv, NEW t \in Threads, TeardownHeap(t)
  PROVE  ListInv'
<1> DEFINE h == ProcessHeaps[Idx]
<1>1. /\ phase = "heaps" /\ phase' = "heaps" /\ AllIdle /\ Idx > 0 /\ h \in pool
      /\ DestroyBlocks(t, h) /\ UNCHANGED <<names, Idx>>
  BY DEF TeardownHeap
<1>2. /\ Idx \in Nat /\ NumberOfHeaps \in Nat /\ Idx >= NumberOfHeaps
      /\ Idx <= MaximumNumberOfHeaps /\ MaximumNumberOfHeaps \in Nat /\ pool \subseteq Heaps
  BY <1>1 DEF ListInv, TearOK, HeapTypes, TypeOK
<1>3. Idx = NumberOfHeaps /\ NumberOfHeaps > 0
  <2>1. h \notin {NULL, Garbage}
    BY <1>1, <1>2 DEF HeapAssumption
  <2>2. ~(Idx \in NumberOfHeaps + 1 .. MaximumNumberOfHeaps)
    BY <2>1 DEF ListInv, ListOK
  <2> QED  BY <1>1, <1>2, <2>2
<1>4. Index[h] = NumberOfHeaps
  BY <1>2, <1>3 DEF ListInv, ListOK
<1>5. /\ pc[t] = "Idle" /\ \A u \in Threads : heap[u] = NULL /\ pc[u] = "Idle"
  BY <1>1 DEF AllIdle, HeapTypes, CallsOK
<1>6. \A u \in Threads : heap[u] # h
  BY <1>1, <1>2, <1>5 DEF HeapAssumption
<1>7. Index[h] \in 1 .. NumberOfHeaps
  BY <1>2, <1>3, <1>4
<1> HIDE DEF h
<1>8. /\ ListOK'
      /\ \A u \in Threads :
              /\ heap'[u] \in pool' \cup {NULL}
              /\ pc'[u] \in {"Append", "Release"} => Index'[heap'[u]] = 0
              /\ pc'[u] = "Remove" => Index'[heap'[u]] \in 1 .. NumberOfHeaps'
              /\ Exclusive(u)' => \A v \in Threads : heap'[v] = heap'[u] => v = u
              /\ Exclusive(u)' => (u = t /\ heap'[u] = h)
                                  \/ (u # t /\ Exclusive(u) /\ heap'[u] = heap[u])
  BY <1>1, <1>5, <1>6, <1>7, BeginsList
<1>9. ThreadsOK'
  BY <1>1, <1>8 DEF ThreadsOK
<1>10. TearOK'
  <2>1. UNCHANGED <<NumberOfHeaps, Index>>
    BY <1>1 DEF DestroyBlocks, heaps, peb
  <2>2. \A u \in Threads : pc'[u] = "Release" => FALSE
    BY <1>1, <1>5 DEF DestroyBlocks, Goto, HeapTypes, TypeOK
  <2>3. \A u \in Threads : pc'[u] = "Remove" => heap'[u] = h
    BY <1>1, <1>5 DEF DestroyBlocks, Goto, HeapTypes, TypeOK
  <2> QED  BY <1>1, <1>2, <1>3, <1>4, <2>1, <2>2, <2>3 DEF TearOK
<1> QED  BY <1>1, <1>8, <1>9, <1>10 DEF ListInv, NamesOK

(* Without a fault the heap that leaves the list is the last on it.        *)
LEMMA RemoveList ==
  ASSUME HeapAssumption, HeapTypes, ListInv, NEW t \in Threads, RtlRemoveHeap(t), fault' = {}
  PROVE  ListInv'
<1> DEFINE h == heap[t]
           n == NumberOfHeaps
<1>1. /\ pc[t] = "Remove" /\ phase # "stopped" /\ \A u \in Threads : pc[u] # "Enum"
      /\ UNCHANGED <<pool, MaximumNumberOfHeaps, array, names, heap, Idx>>
  BY DEF RtlRemoveHeap, At, PebLockFree
<1>2. /\ h \in pool /\ Index[h] \in 1 .. n /\ n \in Nat /\ pool \subseteq Heaps
      /\ \A u \in Threads : u # t => heap[u] # h
  <2>1. h \in pool /\ Index[h] \in 1 .. n
    BY <1>1 DEF HeapTypes, CallsOK, ListInv, ThreadsOK
  <2>2. \A u \in Threads : u # t => heap[u] # h
    BY <1>1 DEF ListInv, ThreadsOK, Exclusive
  <2> QED  BY <2>1, <2>2 DEF HeapTypes, TypeOK
<1>3. Index[h] = n /\ n > 0
  <2>1. n # 0 /\ Index[h] # 0 /\ Index[h] <= n
    BY <1>2
  <2>2. Index[h] < n => "index" \in fault'
    BY <2>1 DEF RtlRemoveHeap, Faults
  <2> QED  BY <1>2, <2>1, <2>2
<1>4. /\ ProcessHeaps' = [j \in DOMAIN ProcessHeaps |->
                              IF j = n THEN NULL
                              ELSE IF n <= j /\ j < n THEN ProcessHeaps[j + 1]
                              ELSE ProcessHeaps[j]]
      /\ NumberOfHeaps' = n - 1
      /\ Index' = [Index EXCEPT ![h] = 0]
      /\ pc' = [pc EXCEPT ![t] = "Release"]
      /\ phase' = phase
  <2>1. n # 0 /\ Index[h] # 0 /\ Index[h] <= n
    BY <1>2
  <2> QED  BY <1>3, <2>1 DEF RtlRemoveHeap, Goto
<1>5. /\ DOMAIN ProcessHeaps = 1 .. MaximumNumberOfHeaps /\ MaximumNumberOfHeaps \in Nat
      /\ n <= MaximumNumberOfHeaps
  BY DEF HeapTypes, TypeOK
<1>6. /\ \A i \in 1 .. n - 1 : ProcessHeaps'[i] = ProcessHeaps[i]
      /\ ProcessHeaps'[n] = NULL
      /\ \A i \in n + 1 .. MaximumNumberOfHeaps : ProcessHeaps'[i] = ProcessHeaps[i]
  BY <1>2, <1>3, <1>4, <1>5
<1>7. /\ \A g \in pool : g # h => Index'[g] = Index[g]
      /\ Index'[h] = 0
      /\ pc'[t] = "Release" /\ \A u \in Threads : u # t => pc'[u] = pc[u]
  BY <1>2, <1>4 DEF HeapTypes, TypeOK
<1>8. ProcessHeaps[n] = h
  BY <1>2, <1>3 DEF ListInv, ListOK
<1> HIDE DEF h, n
<1>9. \A g \in pool : g # h => Index[g] # n
  BY <1>2, <1>3, <1>8 DEF ListInv, ListOK, n
<1>10. ListOK'
  <2>1. ASSUME NEW i \in 1 .. n - 1
        PROVE  ProcessHeaps'[i] \in pool' /\ Index'[ProcessHeaps'[i]] = i
    <3>1. ProcessHeaps[i] \in pool /\ Index[ProcessHeaps[i]] = i /\ i # n
      BY <1>2, <1>3 DEF ListInv, ListOK, n
    <3> QED  BY <1>1, <1>3, <1>6, <1>7, <3>1
  <2>2. ASSUME NEW g \in pool'
        PROVE  \/ Index'[g] \in 1 .. n - 1 /\ ProcessHeaps'[Index'[g]] = g
               \/ Index'[g] = 0 /\ \E u \in Threads : heap'[u] = g /\ pc'[u] \in {"Append", "Release"}
    <3>1. CASE g = h
      BY <1>1, <1>7, <3>1 DEF h
    <3>2. CASE g # h /\ Index[g] \in 1 .. n /\ ProcessHeaps[Index[g]] = g
      <4>1. g \in pool /\ Index[g] # n
        BY <1>1, <1>9, <3>2
      <4>2. Index[g] \in 1 .. n - 1
        BY <1>2, <3>2, <4>1
      <4> QED  BY <1>6, <1>7, <3>2, <4>1, <4>2
    <3>3. CASE g # h /\ Index[g] = 0
               /\ \E u \in Threads : heap[u] = g /\ pc[u] \in {"Append", "Release"}
      BY <1>1, <1>7, <3>3 DEF h
    <3> QED  BY <1>1, <3>1, <3>2, <3>3 DEF ListInv, ListOK, n
  <2>3. ASSUME NEW i \in n .. MaximumNumberOfHeaps
        PROVE  /\ ProcessHeaps'[i] \in {NULL, Garbage}
               /\ array = NULL => ProcessHeaps'[i] = NULL
    <3>1. CASE i = n
      BY <1>6, <3>1
    <3>2. CASE i # n
      BY <1>2, <1>5, <1>6, <3>2 DEF ListInv, ListOK, n
    <3> QED  BY <3>1, <3>2
  <2>4. n - 1 + 1 = n
    BY <1>2
  <2> QED  BY <1>1, <1>4, <2>1, <2>2, <2>3, <2>4 DEF ListOK
<1>11. ThreadsOK'
  <2> SUFFICES ASSUME NEW u \in Threads
               PROVE  /\ heap'[u] \in pool' \cup {NULL}
                      /\ pc'[u] \in {"Append", "Release"} => Index'[heap'[u]] = 0
                      /\ pc'[u] = "Remove" => Index'[heap'[u]] \in 1 .. NumberOfHeaps'
                      /\ Exclusive(u)' => \A v \in Threads : heap'[v] = heap'[u] => v = u
                      /\ phase' \in {"default", "core", "up"} /\ Exclusive(u)' =>
                            heap'[u] \notin owned' \cup {DefaultHeap', MusaCoreHeap'}
    BY DEF ThreadsOK
  <2>1. Exclusive(u)' <=> Exclusive(u)
    BY <1>1, <1>7 DEF Exclusive
  <2>2. CASE u = t
    BY <1>1, <1>4, <1>7, <2>1, <2>2 DEF ListInv, ThreadsOK, names, h
  <2>3. CASE u # t
    <3>1. heap[u] # h /\ (Exclusive(u) => heap[u] \in pool)
      BY <1>2, <2>3 DEF Exclusive, ListInv, ThreadsOK, HeapTypes, CallsOK
    <3>2. pc[u] = "Remove" => Index[heap[u]] \in 1 .. n - 1
      BY <1>2, <1>9, <3>1 DEF ListInv, ThreadsOK, Exclusive, n
    <3> QED  BY <1>1, <1>4, <1>7, <2>1, <2>3, <3>1, <3>2 DEF ListInv, ThreadsOK, names, Exclusive
  <2> QED  BY <2>2, <2>3
<1>12. NamesOK'
  BY <1>1, <1>2, <1>3, <1>4 DEF ListInv, NamesOK, names, n
<1>13. TearOK'
  <2>1. phase = "heaps" => Idx = n /\ \A u \in Threads : u # t => pc[u] = "Idle"
    BY <1>1 DEF ListInv, TearOK, HeapTypes, Alone, n
  <2>2. phase # "down"
    BY <1>1 DEF HeapTypes, PhaseOK
  <2> QED  BY <1>1, <1>2, <1>3, <1>4, <1>7, <2>1, <2>2 DEF TearOK
<1> QED  BY <1>10, <1>11, <1>12, <1>13 DEF ListInv

(* A call that neither creates nor destroys a heap leaves the list alone,  *)
(* and uses a heap nobody destroys.                                        *)
LEMMA UseList ==
  ASSUME HeapTypes, ListInv, NEW t \in Threads,
         UNCHANGED <<phase, heaps, peb, names, Idx>>,
         \A u \in Threads : u # t => heap'[u] = heap[u] /\ pc'[u] = pc[u],
         ~Exclusive(t), ~Exclusive(t)', heap'[t] \in pool \cup {NULL},
         \A u \in Threads : Exclusive(u) => heap[u] # heap'[t]
  PROVE  ListInv'
<1>1. UNCHANGED <<phase, pool, Index, NumberOfHeaps, MaximumNumberOfHeaps, ProcessHeaps, array,
                  DefaultHeap, MusaCoreHeap, owned, Idx>>
  BY DEF heaps, peb, names
<1>2. ListOK'
  <2>1. ASSUME NEW g \in pool
        PROVE  \/ Index[g] \in 1 .. NumberOfHeaps /\ ProcessHeaps[Index[g]] = g
               \/ Index[g] = 0 /\ \E u \in Threads : heap'[u] = g /\ pc'[u] \in {"Append", "Release"}
    BY DEF ListInv, ListOK, Exclusive
  <2> QED  BY <1>1, <2>1 DEF ListInv, ListOK
<1>3. ThreadsOK'
  <2> SUFFICES ASSUME NEW u \in Threads
               PROVE  /\ heap'[u] \in pool \cup {NULL}
                      /\ pc'[u] \in {"Append", "Release"} => Index[heap'[u]] = 0
                      /\ pc'[u] = "Remove" => Index[heap'[u]] \in 1 .. NumberOfHeaps
                      /\ Exclusive(u)' => \A v \in Threads : heap'[v] = heap'[u] => v = u
                      /\ phase \in {"default", "core", "up"} /\ Exclusive(u)' =>
                            heap'[u] \notin owned \cup {DefaultHeap, MusaCoreHeap}
    BY <1>1 DEF ThreadsOK
  <2>1. CASE u = t
    BY <2>1 DEF Exclusive
  <2>2. CASE u # t
    <3>1. Exclusive(u)' <=> Exclusive(u)
      BY <2>2 DEF Exclusive
    <3>2. ASSUME Exclusive(u) PROVE \A v \in Threads : heap'[v] = heap'[u] => v = u
      BY <2>2, <3>2 DEF ListInv, ThreadsOK
    <3> QED  BY <2>2, <3>1, <3>2 DEF ListInv, ThreadsOK
  <2> QED  BY <2>1, <2>2
<1>4. TearOK'
  <2>1. \A u \in Threads : pc'[u] \in {"Remove", "Release"} => pc[u] = pc'[u] /\ heap[u] = heap'[u]
    BY DEF Exclusive
  <2> QED  BY <1>1, <2>1 DEF ListInv, TearOK
<1> QED  BY <1>1, <1>2, <1>3, <1>4 DEF ListInv, NamesOK

LEMMA NextList ==
  ASSUME HeapAssumption, HeapTypes, NamedOK, ListInv, [Next]_vars, fault' = {} PROVE ListInv'
<1>1. ASSUME NEW t \in Threads, NEW h \in Heaps, NEW s, NEW e, RtlAllocateHeap(t, h, s, e)
      PROVE  ListInv'
  <2>1. /\ UNCHANGED <<phase, heaps, peb, names, Idx>> /\ phase = "up" /\ pc[t] = "Idle"
        /\ heap'[t] = h /\ pc'[t] = "Insert" /\ h \in Usable
        /\ \A u \in Threads : u # t => heap'[u] = heap[u] /\ pc'[u] = pc[u]
    BY <1>1 DEF RtlAllocateHeap, Goto, HeapTypes, TypeOK
  <2>2. h \in pool /\ \A u \in Threads : Exclusive(u) => heap[u] # h
    BY <2>1 DEF ListInv, NamesOK, ThreadsOK, Usable
  <2> QED  BY <2>1, <2>2, UseList DEF Exclusive
<1>2. ASSUME NEW t \in Threads, RtlAllocateHeapInsert(t) \/ RtlReAllocateHeapFree(t) PROVE ListInv'
  <2>1. /\ UNCHANGED <<phase, heaps, peb, names, Idx>> /\ pc[t] \in {"Insert", "FreeOld"}
        /\ heap'[t] \in {heap[t], NULL} /\ pc'[t] \in {"Idle", "FreeOld"}
        /\ \A u \in Threads : u # t => heap'[u] = heap[u] /\ pc'[u] = pc[u]
    BY <1>2 DEF RtlAllocateHeapInsert, RtlReAllocateHeapFree, At, Goto, HeapTypes, TypeOK
  <2>2. \A u \in Threads : Exclusive(u) => heap[u] # heap[t] /\ heap[u] # NULL
    BY <2>1 DEF ListInv, ThreadsOK, HeapTypes, CallsOK, Exclusive
  <2>3. heap'[t] \in pool \cup {NULL}
    BY <2>1 DEF ListInv, ThreadsOK
  <2> QED  BY <2>1, <2>2, <2>3, UseList DEF Exclusive
<1>3. ASSUME NEW t \in Threads, RtlEnumProcessHeaps(t) \/ EnumNext(t) PROVE ListInv'
  <2>1. /\ UNCHANGED <<phase, heaps, peb, names, Idx, heap>> /\ pc[t] \in {"Idle", "Enum"}
        /\ pc'[t] \in {"Idle", "Enum"}
        /\ \A u \in Threads : u # t => pc'[u] = pc[u]
    BY <1>3 DEF RtlEnumProcessHeaps, EnumNext, At, Goto, HeapTypes, TypeOK
  <2>2. heap[t] = NULL /\ \A u \in Threads : Exclusive(u) => heap[u] # NULL
    BY <2>1 DEF HeapTypes, CallsOK, Exclusive
  <2> QED  BY <2>1, <2>2, UseList DEF Exclusive
<1>4. ASSUME UNCHANGED <<phase, heaps, peb, names, Idx, pc, heap>> PROVE ListInv'
  BY <1>4 DEF heaps, peb, names, ListInv, ListOK, ThreadsOK, NamesOK, TearOK, Exclusive
<1>5. ASSUME NEW t \in Threads, RtlCreateHeapFails(t) PROVE ListInv'
  <2>1. /\ UNCHANGED <<heaps, peb, names, pc, heap>> /\ AllIdle
        /\ \/ phase = "default" /\ phase' = "down" /\ Idx' = Idx
           \/ phase = "core" /\ phase' = "heaps" /\ Idx' = MaximumNumberOfHeaps
    BY <1>5 DEF RtlCreateHeapFails, AfterFailure, locals
  <2>2. ListOK' /\ ThreadsOK'
    BY <2>1 DEF ListInv, ListOK, ThreadsOK, Exclusive, AllIdle, heaps, peb, names
  <2> QED  BY <2>1, <2>2 DEF ListInv, NamesOK, TearOK, AllIdle, HeapTypes, TypeOK, heaps, peb, names
<1>6. CASE Teardown
  <2>1. CASE TeardownSkip
    <3>1. /\ UNCHANGED <<phase, heaps, peb, names, pc, heap>> /\ AllIdle /\ phase = "heaps"
          /\ Idx > 0 /\ ProcessHeaps[Idx] = NULL /\ Idx' = Idx - 1
      BY <2>1 DEF TeardownSkip, locals
    <3>2. Idx > NumberOfHeaps
      <4>1. Idx # NumberOfHeaps
        BY <3>1 DEF ListInv, ListOK, HeapTypes, TypeOK, HeapAssumption
      <4> QED  BY <3>1, <4>1 DEF ListInv, TearOK, HeapTypes, TypeOK
    <3>3. Idx' >= NumberOfHeaps
      BY <3>1, <3>2 DEF HeapTypes, TypeOK
    <3>4. ListOK' /\ ThreadsOK'
      BY <3>1 DEF ListInv, ListOK, ThreadsOK, Exclusive, AllIdle, heaps, peb, names
    <3> QED  BY <3>1, <3>3, <3>4 DEF ListInv, NamesOK, TearOK, AllIdle, heaps, peb, names
  <2>2. CASE TeardownEnd
    <3>1. /\ UNCHANGED <<heaps, peb, pc, heap>> /\ AllIdle /\ phase = "heaps" /\ phase' = "down"
          /\ Idx = 0
      BY <2>2 DEF TeardownEnd, locals
    <3>2. NumberOfHeaps = 0
      BY <3>1 DEF ListInv, TearOK, HeapTypes, TypeOK
    <3>3. ListOK' /\ ThreadsOK'
      BY <3>1 DEF ListInv, ListOK, ThreadsOK, Exclusive, AllIdle, heaps, peb
    <3> QED  BY <3>1, <3>2, <3>3 DEF ListInv, NamesOK, TearOK, peb
  <2> QED  BY <1>6, <2>1, <2>2 DEF Teardown, TeardownFault
<1>7. ASSUME NEW t \in Threads, ThreadStep(t) PROVE ListInv'
  BY <1>2, <1>3, <1>7, AppendList, GrowList, AppendFailsList, RemoveList, ReleaseList, TeardownList
  DEF ThreadStep
<1>8. ASSUME NEW t \in Threads, ClientCall(t) PROVE ListInv'
  <2>1. ASSUME NEW h, NEW e, RtlFreeHeap(t, h, e) PROVE ListInv'
    BY <1>4, <2>1 DEF RtlFreeHeap, locals
  <2> QED  BY <1>1, <1>3, <1>5, <1>8, <2>1, CreateList, DestroyList, UnloadList DEF ClientCall
<1>9. CASE UNCHANGED vars
  BY <1>4, <1>9 DEF vars, locals
<1> QED  BY <1>6, <1>7, <1>8, <1>9 DEF Next

LEMMA FaultsStay == HeapTypes /\ [Next]_vars /\ fault' = {} => fault = {}
<1> SUFFICES ASSUME HeapTypes, [Next]_vars PROVE fault \subseteq fault'
  BY DEF HeapTypes
<1>1. ASSUME NEW t \in Threads, ThreadStep(t) PROVE fault \subseteq fault'
  BY <1>1 DEF ThreadStep, RtlAppendHeap, RtlAppendHeapGrows, RtlAppendHeapFails,
       RtlAllocateHeapInsert, RtlReAllocateHeapFree, RtlRemoveHeap, RtlDestroyHeapRelease, EnumNext,
       TeardownHeap, DestroyBlocks
<1>2. ASSUME NEW t \in Threads, ClientCall(t) PROVE fault \subseteq fault'
  BY <1>2 DEF ClientCall, RtlCreateHeap, RtlCreateHeapFails, RtlAllocateHeap, RtlFreeHeap,
       RtlDestroyHeap, RtlEnumProcessHeaps, Unload, DestroyBlocks
<1>3. CASE Teardown
  BY <1>3 DEF Teardown, TeardownSkip, TeardownFault, TeardownEnd
<1>4. CASE UNCHANGED vars
  BY <1>4 DEF vars
<1> QED  BY <1>1, <1>2, <1>3, <1>4 DEF Next

(* Until a fault every list that calls and teardown see is consistent with  *)
(* the heaps, the threads inside calls and the progress of the teardown.    *)
THEOREM ListHolds == ASSUME HeapAssumption PROVE Spec => [](fault = {} => ListInv)
<1>1. Init => (fault = {} => ListInv)
  BY InitList
<1>2. HeapTypes /\ NamedOK /\ (fault = {} => ListInv) /\ [Next]_vars => (fault = {} => ListInv)'
  BY NextList, FaultsStay
<1> QED  BY <1>1, <1>2, HeapPlaces, PTL DEF Spec

(* Until a fault the list and the heaps agree, whichever creations,        *)
(* destructions and growths of the array overlap: every entry names an     *)
(* allocated heap that knows its place, no other heap is lost, and an      *)
(* array that never moved is zero behind its end.                          *)
THEOREM ListIsSound == ASSUME HeapAssumption PROVE Spec => []HeapListSound
<1>1. HeapTypes /\ (fault = {} => ListInv) => HeapListSound
  BY DEF HeapListSound, ListInv, ListOK, HeapTypes, TypeOK
<1> QED  BY <1>1, HeapPlaces, ListHolds, PTL

(* The routine of an enumeration is never given a heap that is gone,       *)
(* however creations and destructions interleave with it.                  *)
THEOREM EnumerationIsAlive == ASSUME HeapAssumption PROVE Spec => []EnumeratedAlive
<1>1. HeapTypes /\ (fault = {} => ListInv) => EnumeratedAlive
  BY DEF EnumeratedAlive, ListInv, ListOK, HeapTypes, CallsOK
<1> QED  BY <1>1, HeapPlaces, ListHolds, PTL

(***************************************************************************)
(* Pool memory.  A block is of one allocated heap or of the one call that  *)
(* is about to insert it; a heap that is created or destroyed has none; a  *)
(* block that is reallocated stays where it is, and so does the array of   *)
(* the list, once it is a block of the default heap.                       *)
(*                                                                         *)
(* RtlDestroyHeap leaves the resource of a paged heap without              *)
(* serialisation initialised; the theorem is about clients that create no  *)
(* such heap.                                                              *)
(***************************************************************************)
SerialisedIfPaged == \A k \in Kinds : k.lock = "none" => k.paged = FALSE

EntriesOK ==
    /\ \A e \in entries : (\E t \in Threads : entry[t] = e) \/ (\E h \in pool : e \in Blocks[h])
    /\ \A t \in Threads : entry[t] \in entries \cup {NULL}
    /\ \A h \in pool : Blocks[h] \subseteq entries
    /\ \A t \in Threads, h \in pool : entry[t] \notin Blocks[h]
    /\ \A g, h \in pool : g # h => Blocks[g] \cap Blocks[h] = {}
    /\ \A t, u \in Threads : entry[t] = entry[u] /\ entry[t] # NULL => t = u

DataOK == data = {e \in entries : Size[e] >= PageSize}

ResourcesOK ==
    /\ resources \subseteq pool
    /\ \A h \in pool : kind[h] \in Kinds \cup {OwnLock} /\ (h \in resources <=> Paged(kind[h]))

OldOK ==
    /\ \A t \in Threads : Exclusive(t) => Blocks[heap[t]] = {}
    /\ \A t \in Threads : old[t] # NULL => old[t] \in Blocks[heap[t]] /\ old[t] # array
    /\ \A t, u \in Threads : old[t] = old[u] /\ old[t] # NULL => t = u

ArrayOK ==
    /\ phase = "default" => array = NULL
    /\ phase \in {"core", "up"} /\ array # NULL => array \in Blocks[DefaultHeap]

PoolInv == EntriesOK /\ DataOK /\ ResourcesOK /\ OldOK /\ ArrayOK

LEMMA InitPool == ASSUME HeapAssumption PROVE Init => PoolInv
  BY DEF Init, PoolInv, EntriesOK, DataOK, ResourcesOK, OldOK, ArrayOK, Exclusive

(* A heap a call uses is allocated; one it has for itself no other uses.   *)
LEMMA HeapsInUse ==
  ASSUME HeapTypes, ListInv, NEW t \in Threads, heap[t] # NULL
  PROVE  /\ heap[t] \in pool /\ heap[t] \in Heaps
         /\ Exclusive(t) => \A u \in Threads : u # t => heap[u] # heap[t]
  BY DEF HeapTypes, TypeOK, ListInv, ThreadsOK

(* A step that leaves the pool and the blocks alone.                       *)
LEMMA SamePool ==
  ASSUME HeapTypes, PoolInv,
         UNCHANGED <<pool, kind, resources, blocks, entry, old, array>>,
         \A u \in Threads : Exclusive(u)' => Exclusive(u) /\ heap'[u] = heap[u],
         \A u \in Threads : old[u] # NULL => heap'[u] = heap[u],
         ArrayOK'
  PROVE  PoolInv'
<1>1. EntriesOK' /\ DataOK'
  BY DEF PoolInv, EntriesOK, DataOK, blocks
<1>2. ResourcesOK'
  BY DEF PoolInv, ResourcesOK, Paged
<1>3. OldOK'
  BY DEF PoolInv, OldOK, blocks
<1> QED  BY <1>1, <1>2, <1>3 DEF PoolInv

LEMMA CreatePool ==
  ASSUME HeapAssumption, HeapTypes, NamedOK, ListInv, PoolInv, NEW t \in Threads,
         NEW k \in Kinds \cup {OwnLock}, RtlCreateHeap(t, k)
  PROVE  PoolInv'
<1>1. PICK h \in Heaps \ pool :
         /\ pool' = pool \cup {h}
         /\ kind' = [kind EXCEPT ![h] = k]
         /\ Blocks' = [Blocks EXCEPT ![h] = {}]
         /\ resources' = IF Paged(k) THEN resources \cup {h} ELSE resources
         /\ heap' = [heap EXCEPT ![t] = h]
  BY DEF RtlCreateHeap
<1>2. /\ pc' = [pc EXCEPT ![t] = "Append"] /\ pc[t] = "Idle" /\ phase \in {"default", "core", "up"}
      /\ UNCHANGED <<phase, entries, data, Size, entry, old, array, DefaultHeap>>
  BY DEF RtlCreateHeap, Goto, peb, names
<1>3. /\ \A g \in pool : g # h /\ Blocks'[g] = Blocks[g] /\ kind'[g] = kind[g]
      /\ Blocks'[h] = {} /\ kind'[h] = k /\ pool \subseteq Heaps
      /\ heap'[t] = h /\ old[t] = NULL
      /\ \A u \in Threads : u # t => heap'[u] = heap[u] /\ pc'[u] = pc[u]
  BY <1>1, <1>2 DEF HeapTypes, TypeOK, CallsOK
<1>4. EntriesOK'
  BY <1>1, <1>2, <1>3 DEF PoolInv, EntriesOK
<1>5. DataOK'
  BY <1>2 DEF PoolInv, DataOK
<1>6. ResourcesOK'
  <2>1. Paged(k) \in BOOLEAN
    BY DEF Paged
  <2>2. ASSUME NEW g \in pool'
        PROVE  kind'[g] \in Kinds \cup {OwnLock} /\ (g \in resources' <=> Paged(kind'[g]))
    <3>1. CASE g = h
      BY <1>1, <1>3, <3>1 DEF PoolInv, ResourcesOK
    <3>2. CASE g # h
      <4>1. g \in pool /\ kind'[g] = kind[g] /\ (g \in resources' <=> g \in resources)
        BY <1>1, <1>3, <3>2
      <4> QED  BY <4>1 DEF PoolInv, ResourcesOK
    <3> QED  BY <3>1, <3>2
  <2>3. resources' \subseteq pool'
    BY <1>1 DEF PoolInv, ResourcesOK
  <2> QED  BY <2>2, <2>3 DEF ResourcesOK, Paged
<1>7. OldOK'
  <2>1. ASSUME NEW u \in Threads, Exclusive(u)' PROVE Blocks'[heap'[u]] = {}
    <3>1. CASE u = t
      BY <1>3, <3>1
    <3>2. CASE u # t
      <4>1. Exclusive(u) /\ heap[u] # NULL
        BY <1>3, <2>1, <3>2 DEF Exclusive, HeapTypes, CallsOK
      <4> QED  BY <1>3, <3>2, <4>1, HeapsInUse DEF PoolInv, OldOK
    <3> QED  BY <3>1, <3>2
  <2>2. ASSUME NEW u \in Threads, old[u] # NULL PROVE old[u] \in Blocks'[heap'[u]] /\ old[u] # array
    <3>1. u # t /\ heap[u] # NULL
      BY <1>3, <2>2 DEF HeapTypes, CallsOK
    <3> QED  BY <1>3, <2>2, <3>1, HeapsInUse DEF PoolInv, OldOK
  <2> QED  BY <1>2, <2>1, <2>2 DEF PoolInv, OldOK
<1>8. ArrayOK'
  <2>1. phase \in {"core", "up"} => DefaultHeap \in pool
    BY DEF ListInv, NamesOK
  <2> QED  BY <1>2, <1>3, <2>1 DEF PoolInv, ArrayOK
<1> QED  BY <1>4, <1>5, <1>6, <1>7, <1>8 DEF PoolInv

(* The array moves from one block of the default heap to another.          *)
LEMMA GrowPool ==
  ASSUME HeapAssumption, HeapTypes, NamedOK, ListInv, PoolInv, NEW t \in Threads,
         RtlAppendHeapGrows(t)
  PROVE  PoolInv'
<1> DEFINE D == DefaultHeap
<1>1. PICK e \in Entries \ entries :
         /\ array' = e
         /\ Size' = [Size EXCEPT ![e] = PageSize]
         /\ entries' = (entries \cup {e}) \ {array}
         /\ data' = (data \cup {e}) \ {array}
         /\ Blocks' = [Blocks EXCEPT ![D] = (@ \cup {e}) \ {array}]
  BY DEF RtlAppendHeapGrows
<1>2. PICK list : AddEntry(t, list)
  BY DEF RtlAppendHeapGrows
<1>3. /\ UNCHANGED <<pool, kind, resources, entry, old>>
      /\ pc[t] = "Append" /\ phase # "stopped" /\ NumberOfHeaps = MaximumNumberOfHeaps
      /\ pc' = [pc EXCEPT ![t] = "Idle"] /\ heap' = [heap EXCEPT ![t] = NULL]
      /\ DefaultHeap' = IF phase = "default" THEN heap[t] ELSE DefaultHeap
      /\ phase' = CASE phase = "default" -> "core" [] phase = "core" -> "up" [] OTHER -> phase
  BY <1>2 DEF RtlAppendHeapGrows, AddEntry, Goto, At
<1>4. phase \in {"core", "up"} /\ D \in pool /\ D \in Heaps
  <2>1. phase \in {"default", "core", "up"}
    BY <1>3 DEF HeapTypes, TypeOK, PhaseOK
  <2>2. phase # "default"
    BY <1>3 DEF HeapTypes, ListInv, NamesOK
  <2> QED  BY <2>1, <2>2 DEF NamedOK, ListInv, NamesOK
<1>5. array # NULL => array \in Blocks[D]
  BY <1>4 DEF PoolInv, ArrayOK
<1>6. /\ D' = D /\ phase' = "up"
      /\ \A g \in pool : g # D => Blocks'[g] = Blocks[g]
      /\ Blocks'[D] = (Blocks[D] \cup {e}) \ {array}
      /\ pool \subseteq Heaps /\ entries \subseteq Entries /\ NULL \notin Entries
      /\ Size'[e] = PageSize /\ \A b \in entries : Size'[b] = Size[b]
      /\ heap'[t] = NULL /\ pc'[t] = "Idle" /\ old[t] = NULL /\ PageSize \in Nat
      /\ \A u \in Threads : u # t => heap'[u] = heap[u] /\ pc'[u] = pc[u]
  BY <1>1, <1>3, <1>4 DEF HeapTypes, TypeOK, CallsOK, HeapAssumption
<1>7. /\ array # e
      /\ \A g \in pool : g # D => array \notin Blocks[g]
      /\ \A g \in pool : e \notin Blocks[g]
      /\ \A u \in Threads : entry[u] # e /\ (array # NULL => entry[u] # array)
  BY <1>1, <1>4, <1>5, <1>6 DEF PoolInv, EntriesOK
<1> HIDE DEF D
<1>8. EntriesOK'
  <2>1. ASSUME NEW b \in entries'
        PROVE  (\E u \in Threads : entry[u] = b) \/ (\E h \in pool : b \in Blocks'[h])
    <3>1. CASE b = e
      BY <1>4, <1>6, <1>7, <3>1
    <3>2. CASE b # e
      <4>1. b \in entries /\ b # array
        BY <1>1, <3>2
      <4>2. CASE \E h \in pool : b \in Blocks[h]
        BY <1>4, <1>6, <4>1, <4>2
      <4> QED  BY <4>1, <4>2 DEF PoolInv, EntriesOK
    <3> QED  BY <3>1, <3>2
  <2>2. \A u \in Threads : entry[u] \in entries' \cup {NULL}
    BY <1>1, <1>7 DEF PoolInv, EntriesOK
  <2>3. \A h \in pool : Blocks'[h] \subseteq entries'
    BY <1>1, <1>4, <1>6, <1>7 DEF PoolInv, EntriesOK
  <2>4. \A u \in Threads, h \in pool : entry[u] \notin Blocks'[h]
    BY <1>4, <1>6, <1>7 DEF PoolInv, EntriesOK
  <2>5. \A g, h \in pool : g # h => Blocks'[g] \cap Blocks'[h] = {}
    BY <1>4, <1>6, <1>7 DEF PoolInv, EntriesOK
  <2> QED  BY <1>3, <2>1, <2>2, <2>3, <2>4, <2>5 DEF PoolInv, EntriesOK
<1>9. DataOK'
  <2>1. data' = {b \in entries' : Size'[b] >= PageSize}
    BY <1>1, <1>6, <1>7 DEF PoolInv, DataOK
  <2> QED  BY <2>1 DEF DataOK
<1>10. ResourcesOK'
  BY <1>3 DEF PoolInv, ResourcesOK, Paged
<1>11. OldOK'
  <2>1. ASSUME NEW u \in Threads, Exclusive(u)' PROVE Blocks'[heap'[u]] = {}
    <3>1. u # t /\ Exclusive(u) /\ heap[u] # NULL
      BY <1>6, <2>1 DEF Exclusive, HeapTypes, CallsOK
    <3>2. heap[u] # D
      BY <1>4, <3>1 DEF ListInv, ThreadsOK, D
    <3> QED  BY <1>6, <3>1, <3>2, HeapsInUse DEF PoolInv, OldOK
  <2>2. ASSUME NEW u \in Threads, old[u] # NULL
        PROVE  old[u] \in Blocks'[heap'[u]] /\ old[u] # array'
    <3>1. u # t /\ heap[u] # NULL
      BY <1>6, <2>2 DEF HeapTypes, CallsOK
    <3>2. heap[u] \in pool /\ old[u] \in Blocks[heap[u]] /\ old[u] # array
      BY <2>2, <3>1, HeapsInUse DEF PoolInv, OldOK
    <3> QED  BY <1>1, <1>6, <1>7, <3>1, <3>2
  <2> QED  BY <1>3, <2>1, <2>2 DEF PoolInv, OldOK
<1>12. ArrayOK'
  BY <1>1, <1>6, <1>7 DEF ArrayOK, D
<1> QED  BY <1>8, <1>9, <1>10, <1>11, <1>12 DEF PoolInv

(* A heap that goes has no blocks left.                                    *)
LEMMA GonePool ==
  ASSUME HeapAssumption, HeapTypes, ListInv, PoolInv, NEW t \in Threads,
         pc[t] \in {"Append", "Release"},
         pool' = pool \ {heap[t]}, resources' = resources \ {heap[t]},
         pc' = [pc EXCEPT ![t] = "Idle"], heap' = [heap EXCEPT ![t] = NULL],
         UNCHANGED <<kind, blocks, entry, old, array>>, ArrayOK'
  PROVE  PoolInv'
<1> DEFINE h == heap[t]
<1>1. /\ h \in pool /\ Blocks[h] = {} /\ heap'[t] = NULL /\ pc'[t] = "Idle" /\ old[t] = NULL
      /\ \A u \in Threads : u # t => heap'[u] = heap[u] /\ pc'[u] = pc[u]
  <2>1. Exclusive(t) /\ heap[t] # NULL /\ old[t] = NULL
    BY DEF Exclusive, HeapTypes, CallsOK
  <2>2. h \in pool /\ Blocks[h] = {}
    BY <2>1, HeapsInUse DEF PoolInv, OldOK
  <2> QED  BY <2>1, <2>2 DEF HeapTypes, TypeOK
<1> HIDE DEF h
<1>2. EntriesOK'
  <2>1. \A e \in entries : (\E u \in Threads : entry[u] = e) \/ (\E g \in pool' : e \in Blocks[g])
    BY <1>1 DEF PoolInv, EntriesOK, h
  <2> QED  BY <2>1 DEF PoolInv, EntriesOK, blocks, h
<1>3. DataOK'
  BY DEF PoolInv, DataOK, blocks
<1>4. ResourcesOK'
  BY DEF PoolInv, ResourcesOK, Paged
<1>5. OldOK'
  <2>1. ASSUME NEW u \in Threads, Exclusive(u)' PROVE Blocks[heap'[u]] = {}
    BY <1>1, <2>1 DEF Exclusive, PoolInv, OldOK
  <2>2. ASSUME NEW u \in Threads, old[u] # NULL PROVE old[u] \in Blocks[heap'[u]] /\ old[u] # array
    BY <1>1, <2>2 DEF PoolInv, OldOK
  <2> QED  BY <2>1, <2>2 DEF PoolInv, OldOK, blocks
<1> QED  BY <1>2, <1>3, <1>4, <1>5 DEF PoolInv

LEMMA AppendFailsPool ==
  ASSUME HeapAssumption, HeapTypes, ListInv, PoolInv, NEW t \in Threads, RtlAppendHeapFails(t)
  PROVE  PoolInv'
<1>1. /\ pc[t] = "Append" /\ pool' = pool \ {heap[t]} /\ resources' = resources \ {heap[t]}
      /\ pc' = [pc EXCEPT ![t] = "Idle"] /\ heap' = [heap EXCEPT ![t] = NULL]
      /\ UNCHANGED <<kind, blocks, entry, old, array, DefaultHeap>>
  BY DEF RtlAppendHeapFails, Goto, At, names
<1>2. phase' \in {phase, "heaps", "down"}
  BY DEF RtlAppendHeapFails, AfterFailure
<1>3. ArrayOK'
  BY <1>1, <1>2 DEF PoolInv, ArrayOK, blocks
<1> QED  BY <1>1, <1>3, GonePool

LEMMA ReleasePool ==
  ASSUME HeapAssumption, SerialisedIfPaged, HeapTypes, ListInv, PoolInv, NEW t \in Threads,
         RtlDestroyHeapRelease(t)
  PROVE  PoolInv'
<1>1. /\ pc[t] = "Release" /\ pool' = pool \ {heap[t]}
      /\ pc' = [pc EXCEPT ![t] = "Idle"] /\ heap' = [heap EXCEPT ![t] = NULL]
      /\ UNCHANGED <<kind, blocks, entry, old, array, DefaultHeap>> /\ phase' \in {phase, "heaps"}
      /\ resources' = IF kind[heap[t]].lock = "own" THEN resources \ {heap[t]} ELSE resources
  BY DEF RtlDestroyHeapRelease, Goto, At, peb, names
<1>2. resources' = resources \ {heap[t]}
  <2>1. CASE kind[heap[t]].lock = "own"
    BY <1>1, <2>1
  <2>2. CASE kind[heap[t]].lock # "own"
    <3>1. heap[t] \in pool /\ heap[t] \in Heaps
      BY <1>1, HeapsInUse DEF HeapTypes, CallsOK
    <3>2. kind[heap[t]].lock \in {"user", "none"}
      BY <2>2, <3>1 DEF HeapTypes, TypeOK
    <3>3. ~Paged(kind[heap[t]])
      <4>1. kind[heap[t]] \in Kinds
        BY <2>2, <3>1 DEF PoolInv, ResourcesOK, OwnLock
      <4> QED  BY <3>2, <4>1 DEF Paged, SerialisedIfPaged
    <3>4. heap[t] \notin resources
      BY <3>1, <3>3 DEF PoolInv, ResourcesOK
    <3> QED  BY <1>1, <2>2, <3>4
  <2> QED  BY <2>1, <2>2
<1>3. ArrayOK'
  BY <1>1 DEF PoolInv, ArrayOK, blocks
<1> QED  BY <1>1, <1>2, <1>3, GonePool

LEMMA AllocatePool ==
  ASSUME HeapAssumption, HeapTypes, NamedOK, ListInv, PoolInv, NEW t \in Threads, NEW h \in Heaps,
         NEW s \in Sizes, NEW e \in Entries \cup {NULL}, RtlAllocateHeap(t, h, s, e)
  PROVE  PoolInv'
<1>1. PICK b \in Entries \ entries :
         /\ entries' = entries \cup {b}
         /\ data' = IF s < PageSize THEN data ELSE data \cup {b}
         /\ Size' = [Size EXCEPT ![b] = s]
         /\ entry' = [entry EXCEPT ![t] = b]
  BY DEF RtlAllocateHeap
<1>2. /\ phase = "up" /\ pc[t] = "Idle" /\ h \in Usable /\ e \in Held(h) \cup {NULL}
      /\ heap' = [heap EXCEPT ![t] = h] /\ old' = [old EXCEPT ![t] = e]
      /\ pc' = [pc EXCEPT ![t] = "Insert"]
      /\ UNCHANGED <<phase, pool, kind, resources, Blocks, array, DefaultHeap>>
  BY DEF RtlAllocateHeap, Goto, heaps, peb, names
<1>3. h \in pool
  BY <1>2 DEF Usable, ListInv, NamesOK
<1>4. /\ entry'[t] = b /\ heap'[t] = h /\ old'[t] = e /\ pc'[t] = "Insert" /\ b # NULL
      /\ \A u \in Threads : u # t => /\ entry'[u] = entry[u] /\ heap'[u] = heap[u]
                                     /\ old'[u] = old[u] /\ pc'[u] = pc[u]
      /\ Size'[b] = s /\ \A c \in entries : Size'[c] = Size[c]
      /\ entry[t] = NULL /\ s \in Nat /\ PageSize \in Nat
  BY <1>1, <1>2 DEF HeapTypes, TypeOK, CallsOK, HeapAssumption
<1>5. EntriesOK'
  <2>1. /\ \A g \in pool : b \notin Blocks[g]
        /\ \A u \in Threads : entry[u] # b
    BY <1>4 DEF PoolInv, EntriesOK
  <2>2. ASSUME NEW c \in entries'
        PROVE  (\E u \in Threads : entry'[u] = c) \/ (\E g \in pool : c \in Blocks[g])
    <3>1. CASE c = b
      BY <1>4, <3>1
    <3>2. CASE c # b
      <4>1. c \in entries /\ c # NULL
        BY <1>1, <3>2 DEF HeapTypes, TypeOK, HeapAssumption
      <4> QED  BY <1>4, <4>1 DEF PoolInv, EntriesOK
    <3> QED  BY <3>1, <3>2
  <2>3. \A u \in Threads : entry'[u] \in entries' \cup {NULL}
    BY <1>1, <1>4 DEF PoolInv, EntriesOK
  <2>4. \A u \in Threads, g \in pool : entry'[u] \notin Blocks[g]
    BY <1>4, <2>1 DEF PoolInv, EntriesOK
  <2>5. \A u, v \in Threads : entry'[u] = entry'[v] /\ entry'[u] # NULL => u = v
    BY <1>4, <2>1 DEF PoolInv, EntriesOK
  <2>6. \A g \in pool : Blocks[g] \subseteq entries'
    BY <1>1 DEF PoolInv, EntriesOK
  <2> QED  BY <1>2, <2>2, <2>3, <2>4, <2>5, <2>6 DEF PoolInv, EntriesOK
<1>6. DataOK'
  <2>1. data' = {c \in entries' : Size'[c] >= PageSize}
    <3>1. s < PageSize <=> ~(s >= PageSize)
      BY <1>4
    <3> QED  BY <1>1, <1>4, <3>1 DEF PoolInv, DataOK
  <2> QED  BY <2>1 DEF DataOK
<1>7. ResourcesOK'
  BY <1>2 DEF PoolInv, ResourcesOK, Paged
<1>8. OldOK'
  <2>1. ASSUME NEW u \in Threads, Exclusive(u)' PROVE Blocks[heap'[u]] = {}
    BY <1>4, <2>1 DEF Exclusive, PoolInv, OldOK
  <2>2. ASSUME NEW u \in Threads, old'[u] # NULL
        PROVE  old'[u] \in Blocks[heap'[u]] /\ old'[u] # array
    BY <1>2, <1>4, <2>2 DEF PoolInv, OldOK, Held
  <2>3. ASSUME NEW u \in Threads, NEW v \in Threads, old'[u] = old'[v], old'[u] # NULL
        PROVE  u = v
    BY <1>2, <1>4, <2>3 DEF PoolInv, OldOK, Held
  <2> QED  BY <1>2, <2>1, <2>2, <2>3 DEF OldOK
<1>9. ArrayOK'
  BY <1>2 DEF PoolInv, ArrayOK
<1> QED  BY <1>5, <1>6, <1>7, <1>8, <1>9 DEF PoolInv

LEMMA InsertPool ==
  ASSUME HeapAssumption, HeapTypes, ListInv, PoolInv, NEW t \in Threads, RtlAllocateHeapInsert(t)
  PROVE  PoolInv'
<1> DEFINE h == heap[t]
           b == entry[t]
<1>1. /\ pc[t] = "Insert" /\ h \in pool /\ h \in Heaps /\ b \in entries /\ b # NULL
  BY HeapsInUse DEF RtlAllocateHeapInsert, At, HeapTypes, CallsOK, PoolInv, EntriesOK
<1>2. /\ Blocks' = [Blocks EXCEPT ![h] = @ \cup {b}]
      /\ entry' = [entry EXCEPT ![t] = NULL]
      /\ pc' = [pc EXCEPT ![t] = IF old[t] = NULL THEN "Idle" ELSE "FreeOld"]
      /\ heap' = [heap EXCEPT ![t] = IF old[t] = NULL THEN NULL ELSE @]
      /\ UNCHANGED <<phase, pool, kind, resources, entries, data, Size, old, array, DefaultHeap>>
  BY DEF RtlAllocateHeapInsert, Goto, heaps, peb, names
<1>3. /\ entry'[t] = NULL /\ pc'[t] \in {"Idle", "FreeOld"}
      /\ old[t] # NULL => heap'[t] = heap[t]
      /\ Blocks'[h] = Blocks[h] \cup {b} /\ pool \subseteq Heaps
      /\ \A g \in pool : g # h => Blocks'[g] = Blocks[g]
      /\ \A u \in Threads : u # t => /\ entry'[u] = entry[u] /\ heap'[u] = heap[u]
                                     /\ pc'[u] = pc[u]
  BY <1>1, <1>2 DEF HeapTypes, TypeOK
<1>4. /\ \A g \in pool : b \notin Blocks[g]
      /\ \A u \in Threads : u # t => entry[u] # b
  BY <1>1 DEF PoolInv, EntriesOK
<1> HIDE DEF h
<1>5. EntriesOK'
  <2>1. ASSUME NEW c \in entries
        PROVE  (\E u \in Threads : entry'[u] = c) \/ (\E g \in pool : c \in Blocks'[g])
    <3>1. CASE c = b
      BY <1>1, <1>3, <3>1
    <3>2. CASE c # b /\ \E u \in Threads : entry[u] = c
      BY <1>3, <3>2
    <3>3. CASE \E g \in pool : c \in Blocks[g]
      BY <1>1, <1>3, <3>3
    <3> QED  BY <3>1, <3>2, <3>3 DEF PoolInv, EntriesOK
  <2>2. \A u \in Threads : entry'[u] \in entries \cup {NULL}
    BY <1>3 DEF PoolInv, EntriesOK
  <2>3. \A g \in pool : Blocks'[g] \subseteq entries
    BY <1>1, <1>3 DEF PoolInv, EntriesOK
  <2>4. \A u \in Threads, g \in pool : entry'[u] \notin Blocks'[g]
    <3>1. NULL \notin entries
      BY DEF HeapTypes, TypeOK, HeapAssumption
    <3>2. \A g \in pool : NULL \notin Blocks'[g]
      BY <2>3, <3>1
    <3> QED  BY <1>1, <1>3, <1>4, <3>2 DEF PoolInv, EntriesOK
  <2>5. \A f, g \in pool : f # g => Blocks'[f] \cap Blocks'[g] = {}
    BY <1>1, <1>3, <1>4 DEF PoolInv, EntriesOK
  <2>6. \A u, v \in Threads : entry'[u] = entry'[v] /\ entry'[u] # NULL => u = v
    BY <1>3 DEF PoolInv, EntriesOK
  <2> QED  BY <1>2, <2>1, <2>2, <2>3, <2>4, <2>5, <2>6 DEF EntriesOK
<1>6. DataOK' /\ ResourcesOK'
  BY <1>2 DEF PoolInv, DataOK, ResourcesOK, Paged
<1>7. OldOK'
  <2>1. ASSUME NEW u \in Threads, Exclusive(u)' PROVE Blocks'[heap'[u]] = {}
    <3>1. u # t /\ Exclusive(u) /\ heap[u] # NULL
      BY <1>3, <2>1 DEF Exclusive, HeapTypes, CallsOK
    <3>2. heap[u] \in pool /\ heap[u] # h
      BY <3>1, HeapsInUse DEF h
    <3> QED  BY <1>3, <3>1, <3>2 DEF PoolInv, OldOK
  <2>2. ASSUME NEW u \in Threads, old[u] # NULL PROVE old[u] \in Blocks'[heap'[u]] /\ old[u] # array
    <3>1. heap'[u] = heap[u] /\ heap[u] # NULL
      BY <1>3, <2>2 DEF HeapTypes, CallsOK
    <3>2. heap[u] \in pool /\ old[u] \in Blocks[heap[u]] /\ old[u] # array
      BY <2>2, <3>1, HeapsInUse DEF PoolInv, OldOK
    <3> QED  BY <1>3, <3>1, <3>2
  <2> QED  BY <1>2, <2>1, <2>2 DEF PoolInv, OldOK
<1>8. ArrayOK'
  <2>1. phase \in {"core", "up"} => DefaultHeap \in pool
    BY DEF ListInv, NamesOK
  <2> QED  BY <1>2, <1>3, <2>1 DEF PoolInv, ArrayOK
<1> QED  BY <1>5, <1>6, <1>7, <1>8 DEF PoolInv

(* Blocks of one heap that are given back to the pool.                     *)
LEMMA FreedPool ==
  ASSUME HeapTypes, PoolInv, NEW h \in pool, NEW B, B \subseteq Blocks[h], FreeBlocks(B),
         Blocks'[h] = Blocks[h] \ B, \A g \in pool : g # h => Blocks'[g] = Blocks[g],
         UNCHANGED <<pool, kind, resources, Size, entry>>
  PROVE  EntriesOK' /\ DataOK' /\ ResourcesOK'
<1>1. entries' = entries \ B /\ data' = data \ {e \in B : Size[e] >= PageSize}
  BY DEF FreeBlocks, DataOf
<1>2. /\ \A g \in pool : g # h => Blocks[g] \cap B = {}
      /\ \A u \in Threads : entry[u] \notin B
  BY DEF PoolInv, EntriesOK
<1>3. EntriesOK'
  <2>1. ASSUME NEW e \in entries'
        PROVE  (\E u \in Threads : entry[u] = e) \/ (\E g \in pool : e \in Blocks'[g])
    <3>1. e \in entries /\ e \notin B
      BY <1>1
    <3>2. CASE \E g \in pool : e \in Blocks[g]
      BY <3>1, <3>2
    <3> QED  BY <3>1, <3>2 DEF PoolInv, EntriesOK
  <2>2. \A u \in Threads : entry[u] \in entries' \cup {NULL}
    BY <1>1, <1>2 DEF PoolInv, EntriesOK
  <2>3. \A g \in pool : Blocks'[g] \subseteq entries'
    BY <1>1, <1>2 DEF PoolInv, EntriesOK
  <2>4. \A u \in Threads, g \in pool : entry[u] \notin Blocks'[g]
    BY DEF PoolInv, EntriesOK
  <2>5. \A f, g \in pool : f # g => Blocks'[f] \cap Blocks'[g] = {}
    BY DEF PoolInv, EntriesOK
  <2> QED  BY <2>1, <2>2, <2>3, <2>4, <2>5 DEF PoolInv, EntriesOK
<1>4. DataOK'
  <2>1. data' = {e \in entries' : Size[e] >= PageSize}
    BY <1>1 DEF PoolInv, DataOK
  <2> QED  BY <2>1 DEF DataOK
<1>5. ResourcesOK'
  BY DEF PoolInv, ResourcesOK, Paged
<1> QED  BY <1>3, <1>4, <1>5

LEMMA FreeOldPool ==
  ASSUME HeapAssumption, HeapTypes, ListInv, PoolInv, NEW t \in Threads, RtlReAllocateHeapFree(t)
  PROVE  PoolInv'
<1> DEFINE h == heap[t]
           e == old[t]
<1>1. /\ pc[t] = "FreeOld" /\ h \in pool /\ h \in Heaps /\ e \in Blocks[h] /\ e # array /\ e # NULL
  BY HeapsInUse DEF RtlReAllocateHeapFree, At, HeapTypes, CallsOK, PoolInv, OldOK
<1>2. /\ Blocks' = [Blocks EXCEPT ![h] = @ \ {e}] /\ FreeBlocks({e})
      /\ pc' = [pc EXCEPT ![t] = "Idle"]
      /\ old' = [old EXCEPT ![t] = NULL] /\ heap' = [heap EXCEPT ![t] = NULL]
      /\ UNCHANGED <<phase, pool, kind, resources, Size, entry, array, DefaultHeap>>
  BY DEF RtlReAllocateHeapFree, Goto, heaps, peb, names
<1>3. /\ Blocks'[h] = Blocks[h] \ {e} /\ \A g \in pool : g # h => Blocks'[g] = Blocks[g]
      /\ heap'[t] = NULL /\ pc'[t] = "Idle" /\ old'[t] = NULL
      /\ \A u \in Threads : u # t => heap'[u] = heap[u] /\ pc'[u] = pc[u] /\ old'[u] = old[u]
  BY <1>1, <1>2 DEF HeapTypes, TypeOK
<1>4. \A u \in Threads : u # t => old[u] # e
  BY <1>1 DEF PoolInv, OldOK
<1> HIDE DEF h, e
<1>5. EntriesOK' /\ DataOK' /\ ResourcesOK'
  <2>1. {e} \subseteq Blocks[h]
    BY <1>1
  <2> QED  BY <1>1, <1>2, <1>3, <2>1, FreedPool
<1>6. OldOK'
  <2>1. ASSUME NEW u \in Threads, Exclusive(u)' PROVE Blocks'[heap'[u]] = {}
    <3>1. u # t /\ Exclusive(u) /\ heap[u] # NULL
      BY <1>3, <2>1 DEF Exclusive, HeapTypes, CallsOK
    <3> QED  BY <1>3, <3>1, HeapsInUse DEF PoolInv, OldOK
  <2>2. ASSUME NEW u \in Threads, old'[u] # NULL
        PROVE  old'[u] \in Blocks'[heap'[u]] /\ old'[u] # array
    <3>1. u # t /\ old[u] # NULL /\ heap[u] # NULL
      BY <1>3, <2>2 DEF HeapTypes, CallsOK
    <3>2. heap[u] \in pool /\ old[u] \in Blocks[heap[u]] /\ old[u] # array
      BY <3>1, HeapsInUse DEF PoolInv, OldOK
    <3> QED  BY <1>3, <1>4, <3>1, <3>2
  <2>3. \A u, v \in Threads : old'[u] = old'[v] /\ old'[u] # NULL => u = v
    BY <1>3 DEF PoolInv, OldOK
  <2> QED  BY <1>2, <2>1, <2>2, <2>3 DEF OldOK
<1>7. ArrayOK'
  <2>1. phase \in {"core", "up"} => DefaultHeap \in pool
    BY DEF ListInv, NamesOK
  <2> QED  BY <1>1, <1>2, <1>3, <2>1 DEF PoolInv, ArrayOK
<1> QED  BY <1>5, <1>6, <1>7 DEF PoolInv

LEMMA FreePool ==
  ASSUME HeapAssumption, HeapTypes, ListInv, PoolInv, NEW t \in Threads, NEW h \in Heaps,
         NEW e \in Entries, RtlFreeHeap(t, h, e)
  PROVE  PoolInv'
<1>1. /\ phase = "up" /\ h \in Usable /\ e \in Held(h)
      /\ Blocks' = [Blocks EXCEPT ![h] = @ \ {e}] /\ FreeBlocks({e})
      /\ UNCHANGED <<phase, pool, kind, resources, Size, pc, heap, old, entry, array, DefaultHeap>>
  BY DEF RtlFreeHeap, heaps, peb, names, locals
<1>2. h \in pool /\ e \in Blocks[h] /\ e # array /\ \A u \in Threads : old[u] # e
  BY <1>1 DEF Usable, Held, ListInv, NamesOK
<1>3. Blocks'[h] = Blocks[h] \ {e} /\ \A g \in pool : g # h => Blocks'[g] = Blocks[g]
  BY <1>1, <1>2 DEF HeapTypes, TypeOK
<1>4. EntriesOK' /\ DataOK' /\ ResourcesOK'
  <2>1. {e} \subseteq Blocks[h]
    BY <1>2
  <2> QED  BY <1>1, <1>2, <1>3, <2>1, FreedPool
<1>5. OldOK'
  <2>1. ASSUME NEW u \in Threads, Exclusive(u) PROVE Blocks'[heap[u]] = {}
    <3>1. heap[u] # NULL
      BY <2>1 DEF Exclusive, HeapTypes, CallsOK
    <3> QED  BY <1>3, <2>1, <3>1, HeapsInUse DEF PoolInv, OldOK
  <2>2. ASSUME NEW u \in Threads, old[u] # NULL PROVE old[u] \in Blocks'[heap[u]] /\ old[u] # array
    <3>1. heap[u] # NULL
      BY <2>2 DEF HeapTypes, CallsOK
    <3>2. heap[u] \in pool /\ old[u] \in Blocks[heap[u]] /\ old[u] # array
      BY <2>2, <3>1, HeapsInUse DEF PoolInv, OldOK
    <3> QED  BY <1>2, <1>3, <3>2
  <2> QED  BY <1>1, <2>1, <2>2 DEF PoolInv, OldOK, Exclusive
<1>6. ArrayOK'
  <2>1. DefaultHeap \in pool
    BY <1>1 DEF ListInv, NamesOK
  <2> QED  BY <1>1, <1>2, <1>3, <2>1 DEF PoolInv, ArrayOK
<1> QED  BY <1>4, <1>5, <1>6 DEF PoolInv

(* The blocks of a heap that is destroyed: nobody uses it, and it is not   *)
(* the default heap while the list needs that.                             *)
LEMMA DestroyPool ==
  ASSUME HeapAssumption, HeapTypes, ListInv, PoolInv, NEW t \in Threads, NEW h \in pool,
         pc[t] = "Idle", DestroyBlocks(t, h), \A u \in Threads : heap[u] # h,
         phase' \in {"core", "up"} => phase' = phase /\ DefaultHeap' = DefaultHeap /\ h # DefaultHeap,
         phase' # "default"
  PROVE  PoolInv'
<1>1. /\ Blocks' = [Blocks EXCEPT ![h] = {}] /\ FreeBlocks(Blocks[h])
      /\ UNCHANGED <<pool, kind, resources, Size, entry, old, array>>
      /\ heap' = [heap EXCEPT ![t] = h] /\ pc' = [pc EXCEPT ![t] = "Remove"]
  BY DEF DestroyBlocks, Goto, heaps, peb
<1>2. /\ Blocks'[h] = {} /\ \A g \in pool : g # h => Blocks'[g] = Blocks[g]
      /\ heap'[t] = h /\ pc'[t] = "Remove" /\ old[t] = NULL
      /\ \A u \in Threads : u # t => heap'[u] = heap[u] /\ pc'[u] = pc[u]
  BY <1>1 DEF HeapTypes, TypeOK, CallsOK
<1>3. EntriesOK' /\ DataOK' /\ ResourcesOK'
  <2>1. Blocks[h] \subseteq Blocks[h] /\ Blocks'[h] = Blocks[h] \ Blocks[h]
    BY <1>2
  <2> QED  BY <1>1, <1>2, <2>1, FreedPool
<1>4. OldOK'
  <2>1. ASSUME NEW u \in Threads, Exclusive(u)' PROVE Blocks'[heap'[u]] = {}
    <3>1. CASE u = t
      BY <1>2, <3>1
    <3>2. CASE u # t
      <4>1. Exclusive(u) /\ heap[u] # NULL
        BY <1>2, <2>1, <3>2 DEF Exclusive, HeapTypes, CallsOK
      <4> QED  BY <1>2, <3>2, <4>1, HeapsInUse DEF PoolInv, OldOK
    <3> QED  BY <3>1, <3>2
  <2>2. ASSUME NEW u \in Threads, old[u] # NULL
        PROVE  old[u] \in Blocks'[heap'[u]] /\ old[u] # array
    <3>1. u # t /\ heap[u] # NULL
      BY <1>2, <2>2 DEF HeapTypes, CallsOK
    <3>2. heap[u] \in pool /\ old[u] \in Blocks[heap[u]] /\ old[u] # array
      BY <2>2, <3>1, HeapsInUse DEF PoolInv, OldOK
    <3> QED  BY <1>2, <3>1, <3>2
  <2> QED  BY <1>1, <2>1, <2>2 DEF PoolInv, OldOK
<1>5. ArrayOK'
  <2>1. phase' \in {"core", "up"} => DefaultHeap \in pool
    BY DEF ListInv, NamesOK
  <2> QED  BY <1>1, <1>2, <2>1 DEF PoolInv, ArrayOK
<1> QED  BY <1>3, <1>4, <1>5 DEF PoolInv

LEMMA NextPool ==
  ASSUME HeapAssumption, SerialisedIfPaged, HeapTypes, NamedOK, ListInv, PoolInv, [Next]_vars,
         fault' = {}
  PROVE  PoolInv'
<1>1. ASSUME NEW t \in Threads, RtlAppendHeap(t) PROVE PoolInv'
  <2>1. /\ UNCHANGED <<pool, kind, resources, blocks, entry, old, array>>
        /\ pc[t] = "Append" /\ pc'[t] = "Idle" /\ old[t] = NULL
        /\ \A u \in Threads : u # t => heap'[u] = heap[u] /\ pc'[u] = pc[u]
    BY <1>1 DEF RtlAppendHeap, AddEntry, At, Goto, HeapTypes, TypeOK, CallsOK
  <2>2. /\ phase' = CASE phase = "default" -> "core" [] phase = "core" -> "up" [] OTHER -> phase
        /\ DefaultHeap' = IF phase = "default" THEN heap[t] ELSE DefaultHeap
    BY <1>1 DEF RtlAppendHeap, AddEntry
  <2>3. ArrayOK'
    BY <2>1, <2>2 DEF PoolInv, ArrayOK, blocks
  <2>4. \A u \in Threads : Exclusive(u)' => Exclusive(u) /\ heap'[u] = heap[u]
    BY <2>1 DEF Exclusive
  <2>5. \A u \in Threads : old[u] # NULL => heap'[u] = heap[u]
    BY <2>1
  <2> QED  BY <2>1, <2>3, <2>4, <2>5, SamePool
<1>2. ASSUME NEW t \in Threads, RtlRemoveHeap(t) PROVE PoolInv'
  <2>1. /\ UNCHANGED <<pool, kind, resources, blocks, entry, old, array, heap, DefaultHeap>>
        /\ pc[t] = "Remove" /\ (pc' = pc \/ pc' = [pc EXCEPT ![t] = "Release"])
        /\ phase' \in {phase, "stopped"}
    BY <1>2 DEF RtlRemoveHeap, At, Goto, names
  <2>2. \A u \in Threads : Exclusive(u)' => Exclusive(u)
    BY <2>1 DEF Exclusive, HeapTypes, TypeOK
  <2>3. ArrayOK'
    BY <2>1 DEF PoolInv, ArrayOK, blocks
  <2> QED  BY <2>1, <2>2, <2>3, SamePool
<1>3. ASSUME NEW t \in Threads, RtlEnumProcessHeaps(t) \/ EnumNext(t) PROVE PoolInv'
  <2>1. /\ UNCHANGED <<pool, kind, resources, blocks, entry, old, array, heap, DefaultHeap, phase>>
        /\ pc[t] \in {"Idle", "Enum"} /\ pc'[t] \in {"Idle", "Enum"}
        /\ \A u \in Threads : u # t => pc'[u] = pc[u]
    BY <1>3 DEF RtlEnumProcessHeaps, EnumNext, At, Goto, heaps, peb, names, HeapTypes, TypeOK
  <2>2. \A u \in Threads : Exclusive(u)' => Exclusive(u)
    BY <2>1 DEF Exclusive
  <2>3. ArrayOK'
    BY <2>1 DEF PoolInv, ArrayOK, blocks
  <2> QED  BY <2>1, <2>2, <2>3, SamePool
<1>4. ASSUME UNCHANGED <<heaps, blocks, peb, locals>>,
             (phase' = phase /\ DefaultHeap' = DefaultHeap) \/ phase' \in {"heaps", "stopped", "down"}
      PROVE  PoolInv'
  <2>1. ArrayOK'
    BY <1>4 DEF PoolInv, ArrayOK, blocks, peb
  <2>2. \A u \in Threads : Exclusive(u)' => Exclusive(u)
    BY <1>4 DEF Exclusive, locals
  <2> QED  BY <1>4, <2>1, <2>2, SamePool DEF heaps, peb, locals
<1>5. CASE Teardown
  BY <1>4, <1>5 DEF Teardown, TeardownSkip, TeardownFault, TeardownEnd, names
<1>6. ASSUME NEW t \in Threads, RtlCreateHeapFails(t) PROVE PoolInv'
  <2>1. phase' \in {"heaps", "down"}
    BY <1>6 DEF RtlCreateHeapFails, AfterFailure
  <2> QED  BY <1>4, <1>6, <2>1 DEF RtlCreateHeapFails
<1>7. ASSUME NEW t \in Threads, NEW h \in Heaps, RtlDestroyHeap(t, h) PROVE PoolInv'
  <2>1. /\ h \in pool /\ h # DefaultHeap
    BY <1>7 DEF RtlDestroyHeap, ListInv, NamesOK
  <2>2. /\ pc[t] = "Idle" /\ DestroyBlocks(t, h) /\ phase = "up" /\ phase' = "up"
        /\ DefaultHeap' = DefaultHeap /\ \A u \in Threads : heap[u] # h
    BY <1>7 DEF RtlDestroyHeap
  <2> QED  BY <2>1, <2>2, DestroyPool
<1>8. ASSUME NEW t \in Threads, Unload(t) PROVE PoolInv'
  <2>1. /\ MusaCoreHeap \in pool /\ MusaCoreHeap # NULL
    BY <1>8 DEF Unload, ListInv, NamesOK, NamedOK, HeapAssumption
  <2>2. /\ pc[t] = "Idle" /\ DestroyBlocks(t, MusaCoreHeap) /\ phase' = "unload"
        /\ \A u \in Threads : heap[u] = NULL
    BY <1>8 DEF Unload, AllIdle, HeapTypes, CallsOK
  <2> QED  BY <2>1, <2>2, DestroyPool
<1>9. ASSUME NEW t \in Threads, TeardownHeap(t) PROVE PoolInv'
  <2>1. /\ ProcessHeaps[Idx] \in pool /\ ProcessHeaps[Idx] # NULL
    BY <1>9 DEF TeardownHeap, HeapTypes, TypeOK, HeapAssumption
  <2>2. /\ pc[t] = "Idle" /\ DestroyBlocks(t, ProcessHeaps[Idx]) /\ phase' = "heaps"
        /\ \A u \in Threads : heap[u] = NULL
    BY <1>9 DEF TeardownHeap, AllIdle, HeapTypes, CallsOK
  <2> QED  BY <2>1, <2>2, DestroyPool
<1>10. ASSUME NEW t \in Threads, ThreadStep(t) PROVE PoolInv'
  BY <1>1, <1>2, <1>3, <1>9, <1>10, GrowPool, AppendFailsPool, InsertPool, FreeOldPool, ReleasePool
  DEF ThreadStep
<1>11. ASSUME NEW t \in Threads, ClientCall(t) PROVE PoolInv'
  BY <1>3, <1>6, <1>7, <1>8, <1>11, CreatePool, AllocatePool, FreePool DEF ClientCall
<1>12. CASE UNCHANGED vars
  BY <1>4, <1>12 DEF vars, names
<1> QED  BY <1>5, <1>10, <1>11, <1>12 DEF Next

LEMMA PoolHolds ==
  ASSUME HeapAssumption, SerialisedIfPaged PROVE Spec => [](fault = {} => PoolInv)
<1>1. Init => (fault = {} => PoolInv)
  BY InitPool
<1>2. /\ HeapTypes /\ NamedOK /\ (fault = {} => ListInv) /\ (fault = {} => PoolInv)
      /\ [Next]_vars
      => (fault = {} => PoolInv)'
  BY NextPool, FaultsStay
<1> QED  BY <1>1, <1>2, HeapPlaces, ListHolds, PTL DEF Spec

(* Until a fault, pool memory is owned exactly once, whichever calls       *)
(* overlap and wherever memory runs out: a block by one heap or one call,  *)
(* a data part by its block, a resource by its heap; and the unload leaves *)
(* nothing.                                                                *)
THEOREM PoolIsAccounted ==
  ASSUME HeapAssumption, SerialisedIfPaged PROVE Spec => []PoolAccounting
<1>1. HeapTypes /\ (fault = {} => ListInv) /\ (fault = {} => PoolInv) => PoolAccounting
  <2> SUFFICES ASSUME HeapTypes, ListInv, PoolInv, fault = {} PROVE PoolAccounting
    BY DEF PoolAccounting
  <2> DEFINE InCalls == {entry[t] : t \in Threads} \ {NULL}
  <2>1. entries = InCalls \cup UNION {Blocks[h] : h \in pool}
    <3>1. ASSUME NEW e \in entries PROVE e \in InCalls \cup UNION {Blocks[h] : h \in pool}
      <4>1. e # NULL
        BY DEF HeapTypes, TypeOK, HeapAssumption
      <4> QED  BY <4>1 DEF PoolInv, EntriesOK
    <3>2. InCalls \subseteq entries
      BY DEF PoolInv, EntriesOK
    <3>3. UNION {Blocks[h] : h \in pool} \subseteq entries
      BY DEF PoolInv, EntriesOK
    <3> QED  BY <3>1, <3>2, <3>3
  <2>2. \A h \in pool : Blocks[h] \cap InCalls = {}
    BY DEF PoolInv, EntriesOK
  <2>3. \A g, h \in pool : g # h => Blocks[g] \cap Blocks[h] = {}
    BY DEF PoolInv, EntriesOK
  <2>4. resources = {h \in pool : Paged(kind[h])}
    BY DEF PoolInv, ResourcesOK
  <2>5. phase = "down" => pool = {} /\ entries = {}
    <3> SUFFICES ASSUME phase = "down" PROVE pool = {} /\ entries = {}
      OBVIOUS
    <3>1. NumberOfHeaps = 0 /\ \A t \in Threads : pc[t] = "Idle" /\ entry[t] = NULL
      BY DEF ListInv, TearOK, HeapTypes, PhaseOK, CallsOK
    <3>2. pool = {}
      BY <3>1 DEF ListInv, ListOK
    <3>3. entries = {}
      BY <2>1, <3>1, <3>2
    <3> QED  BY <3>2, <3>3
  <2> QED  BY <2>1, <2>2, <2>3, <2>4, <2>5 DEF PoolInv, DataOK, PoolAccounting
<1> QED  BY <1>1, HeapPlaces, ListHolds, PoolHolds, PTL

-----------------------------------------------------------------------------
(***************************************************************************)
(* The list and the blocks implement SharedHeaps: which heaps there are is  *)
(* what the list says, and that changes in one critical section.            *)
(***************************************************************************)
Sure == HeapTypes /\ NamedOK /\ ListInv /\ PoolInv

LEMMA Named ==
  ASSUME NEW n \in Nat, NEW P, NEW S, NEW I,
         \A i \in 1 .. n : P[i] \in S /\ I[P[i]] = i,
         \A h \in S : (I[h] \in 1 .. n /\ P[I[h]] = h) \/ I[h] = 0
  PROVE  {P[i] : i \in 1 .. n} = {h \in S : I[h] # 0}
<1>1. ASSUME NEW h \in {P[i] : i \in 1 .. n} PROVE h \in S /\ I[h] # 0
  OBVIOUS
<1>2. ASSUME NEW h \in S, I[h] # 0 PROVE h \in {P[i] : i \in 1 .. n}
  BY <1>2
<1> QED  BY <1>1, <1>2

LEMMA ListedHeaps ==
  ASSUME HeapTypes, ListInv
  PROVE  /\ Listed = {h \in pool : Index[h] # 0}
         /\ Listed \subseteq Heaps
<1>1. NumberOfHeaps \in Nat /\ pool \subseteq Heaps
  BY DEF HeapTypes, TypeOK
<1>2. \A h \in pool : (Index[h] \in 1 .. NumberOfHeaps /\ ProcessHeaps[Index[h]] = h) \/ Index[h] = 0
  BY DEF ListInv, ListOK
<1>3. Listed = {h \in pool : Index[h] # 0}
  BY <1>1, <1>2, Named DEF ListInv, ListOK, Listed
<1> QED  BY <1>1, <1>3

LEMMA ListedNext ==
  ASSUME HeapTypes', ListInv'
  PROVE  Listed' = {h \in pool' : Index'[h] # 0}
<1>1. NumberOfHeaps' \in Nat
  BY DEF HeapTypes, TypeOK
<1>2. \A h \in pool' : \/ Index'[h] \in 1 .. NumberOfHeaps' /\ ProcessHeaps'[Index'[h]] = h
                       \/ Index'[h] = 0
  BY DEF ListInv, ListOK
<1> QED  BY <1>1, <1>2, Named DEF ListInv, ListOK, Listed

(* A heap that is on the list and is not being destroyed: one that another  *)
(* call uses, or that clients can name.                                     *)
LEMMA UsedIsListed ==
  ASSUME HeapTypes, ListInv, NEW h \in pool, \A t \in Threads : Exclusive(t) => heap[t] # h
  PROVE  h \in Listed \ Dying
<1>1. Index[h] # 0
  BY DEF ListInv, ListOK, Exclusive
<1>2. h \notin Dying
  BY DEF Dying, Exclusive
<1> QED  BY <1>1, <1>2, ListedHeaps

(* Nothing that can be seen of the heaps changes.                           *)
LEMMA NothingSeen ==
  ASSUME HeapTypes, fault = {}, fault' = {},
         UNCHANGED <<NumberOfHeaps, ProcessHeaps, array, pos>>,
         \A h \in Listed : Blocks'[h] = Blocks[h],
         \A t \in Threads : pc'[t] # pc[t] => {pc[t], pc'[t]} \cap {"Remove", "Enum"} = {},
         \A t \in Threads : pc[t] = "Remove" => heap'[t] = heap[t]
  PROVE  UNCHANGED Promise!vars
<1>1. Listed' = Listed
  BY DEF Listed
<1>2. InUse' = InUse
  BY <1>1 DEF InUse
<1>3. \A t \in Threads : /\ pc'[t] = "Remove" <=> pc[t] = "Remove"
                         /\ pc'[t] = "Enum" <=> pc[t] = "Enum"
  OBVIOUS
<1>4. Dying' = Dying
  BY <1>3 DEF Dying
<1>5. Shown' = Shown
  BY <1>3 DEF Shown
<1> QED  BY <1>1, <1>2, <1>4, <1>5 DEF Promise!vars

(* While the PEB lock is held exclusive nobody is shown anything.           *)
LEMMA NobodyIsShown ==
  ASSUME \A t \in Threads : pc[t] # "Enum"
  PROVE  Promise!NobodyLooks /\ Shown = [t \in Threads |-> {}]
BY DEF Promise!NobodyLooks, Shown

(* A heap that gets on the list, whether the array grows or not.            *)
LEMMA GetsListed ==
  ASSUME HeapTypes, ListInv, PoolInv, HeapTypes', ListInv', fault = {}, fault' = {},
         NEW t \in Threads, pc[t] = "Append", PebLockFree, pool' = pool,
         Index' = [Index EXCEPT ![heap[t]] = NewIndex],
         pc' = [pc EXCEPT ![t] = "Idle"],
         \A u \in Threads : u # t => heap'[u] = heap[u],
         \A g \in pool : Blocks'[g] \ {array'} = Blocks[g] \ {array}
  PROVE  Promise!Create(heap[t]) /\ heap[t] \in Heaps
<1> DEFINE h == heap[t]
<1>1. /\ h \in pool /\ h \in Heaps /\ Index[h] = 0 /\ Blocks[h] = {}
      /\ NumberOfHeaps \in Nat /\ pool \subseteq Heaps
  <2>1. heap[t] # NULL /\ Exclusive(t)
    BY DEF HeapTypes, CallsOK, Exclusive
  <2> QED  BY <2>1, HeapsInUse DEF ListInv, ThreadsOK, PoolInv, OldOK, HeapTypes, TypeOK
<1>2. Index'[h] # 0 /\ \A g \in pool : g # h => Index'[g] = Index[g]
  BY <1>1 DEF HeapTypes, TypeOK, NewIndex
<1>3. /\ pc'[t] = "Idle" /\ \A u \in Threads : u # t => pc'[u] = pc[u]
      /\ \A u \in Threads : pc[u] # "Enum"
  BY DEF HeapTypes, TypeOK, PebLockFree
<1> HIDE DEF h
<1>4. Listed' = Listed \cup {h} /\ h \notin Listed
  <2>1. Listed = {g \in pool : Index[g] # 0} /\ Listed' = {g \in pool' : Index'[g] # 0}
    BY ListedHeaps, ListedNext
  <2> QED  BY <1>1, <1>2, <2>1
<1>5. InUse' = InUse
  <2> SUFFICES ASSUME NEW g \in Heaps
               PROVE  (IF g \in Listed' THEN Blocks'[g] \ {array'} ELSE {})
                      = (IF g \in Listed THEN Blocks[g] \ {array} ELSE {})
    BY DEF InUse
  <2>1. Listed \subseteq pool
    BY ListedHeaps
  <2>2. CASE g = h
    BY <1>1, <1>4, <2>2 DEF h
  <2>3. CASE g # h
    BY <1>4, <2>1, <2>3
  <2> QED  BY <2>2, <2>3
<1>6. Dying' = Dying
  BY <1>3 DEF Dying
<1>7. Shown' = Shown /\ Promise!NobodyLooks
  <2>1. \A u \in Threads : pc'[u] # "Enum"
    BY <1>3
  <2> QED  BY <1>3, <2>1, NobodyIsShown DEF Shown
<1> QED  BY <1>1, <1>4, <1>5, <1>6, <1>7 DEF Promise!Create, h

LEMMA AppendSeen ==
  ASSUME HeapTypes, ListInv, PoolInv, HeapTypes', ListInv', fault = {}, fault' = {},
         NEW t \in Threads, RtlAppendHeap(t)
  PROVE  Promise!Create(heap[t]) /\ heap[t] \in Heaps
<1>1. /\ pc[t] = "Append" /\ PebLockFree /\ pool' = pool
      /\ Index' = [Index EXCEPT ![heap[t]] = NewIndex]
      /\ pc' = [pc EXCEPT ![t] = "Idle"]
      /\ UNCHANGED <<Blocks, array>>
      /\ heap' = [heap EXCEPT ![t] = NULL]
  BY DEF RtlAppendHeap, AddEntry, At, Goto, blocks
<1>2. \A u \in Threads : u # t => heap'[u] = heap[u]
  BY <1>1 DEF HeapTypes, TypeOK
<1> QED  BY <1>1, <1>2, GetsListed

LEMMA GrowSeen ==
  ASSUME HeapAssumption, HeapTypes, NamedOK, ListInv, PoolInv, HeapTypes', ListInv',
         fault = {}, fault' = {}, NEW t \in Threads, RtlAppendHeapGrows(t)
  PROVE  Promise!Create(heap[t]) /\ heap[t] \in Heaps
<1> DEFINE D == DefaultHeap
<1>1. PICK e \in Entries \ entries :
         array' = e /\ Blocks' = [Blocks EXCEPT ![D] = (@ \cup {e}) \ {array}]
  BY DEF RtlAppendHeapGrows
<1>2. PICK list : AddEntry(t, list)
  BY DEF RtlAppendHeapGrows
<1>3. /\ pc[t] = "Append" /\ PebLockFree /\ pool' = pool /\ phase # "stopped"
      /\ NumberOfHeaps = MaximumNumberOfHeaps
      /\ Index' = [Index EXCEPT ![heap[t]] = NewIndex]
      /\ pc' = [pc EXCEPT ![t] = "Idle"]
      /\ heap' = [heap EXCEPT ![t] = NULL]
  BY <1>2 DEF RtlAppendHeapGrows, AddEntry, At, Goto
<1>4. \A u \in Threads : u # t => heap'[u] = heap[u]
  BY <1>3 DEF HeapTypes, TypeOK
<1>5. phase \in {"core", "up"} /\ D \in pool /\ pool \subseteq Heaps
  <2>1. phase \in {"default", "core", "up"}
    BY <1>3 DEF HeapTypes, TypeOK, PhaseOK
  <2>2. phase # "default"
    BY <1>3 DEF HeapTypes, ListInv, NamesOK
  <2> QED  BY <2>1, <2>2 DEF ListInv, NamesOK, HeapTypes, TypeOK
<1>6. /\ Blocks'[D] = (Blocks[D] \cup {e}) \ {array}
      /\ \A g \in pool : g # D => Blocks'[g] = Blocks[g]
  BY <1>1, <1>5 DEF HeapTypes, TypeOK
<1>7. /\ \A g \in pool : e \notin Blocks[g]
      /\ \A g \in pool : g # D => array \notin Blocks[g]
  <2>1. array # NULL => array \in Blocks[D]
    BY <1>5 DEF PoolInv, ArrayOK
  <2>2. \A g \in pool : NULL \notin Blocks[g]
    BY DEF PoolInv, EntriesOK, HeapTypes, TypeOK, HeapAssumption
  <2> QED  BY <1>5, <2>1, <2>2 DEF PoolInv, EntriesOK
<1> HIDE DEF D
<1>8. \A g \in pool : Blocks'[g] \ {array'} = Blocks[g] \ {array}
  BY <1>1, <1>6, <1>7
<1> QED  BY <1>3, <1>4, <1>8, GetsListed

(* A block that gets into its heap.                                         *)
LEMMA InsertSeen ==
  ASSUME HeapAssumption, Sure, fault = {}, fault' = {}, NEW t \in Threads,
         RtlAllocateHeapInsert(t)
  PROVE  heap[t] \in Heaps /\ entry[t] \in Entries /\ Promise!Allocate(heap[t], entry[t])
<1> DEFINE h == heap[t]
           b == entry[t]
<1>0. HeapTypes /\ NamedOK /\ ListInv /\ PoolInv
  BY DEF Sure
<1>1. /\ pc[t] = "Insert" /\ phase # "stopped"
      /\ Blocks' = [Blocks EXCEPT ![h] = @ \cup {b}]
      /\ pc' = [pc EXCEPT ![t] = IF old[t] = NULL THEN "Idle" ELSE "FreeOld"]
      /\ heap' = [heap EXCEPT ![t] = IF old[t] = NULL THEN NULL ELSE @]
      /\ UNCHANGED <<NumberOfHeaps, ProcessHeaps, array, pos>>
  BY DEF RtlAllocateHeapInsert, At, Goto, peb
<1>2. /\ h \in pool /\ h \in Heaps /\ b \in entries /\ b \in Entries /\ b # NULL
      /\ pool \subseteq Heaps
  BY <1>0, <1>1, HeapsInUse DEF HeapTypes, TypeOK, CallsOK, PoolInv, EntriesOK
<1>3. /\ \A g \in pool : b \notin Blocks[g]
      /\ b # array
  <2>1. phase = "up"
    BY <1>0, <1>1 DEF HeapTypes, TypeOK, PhaseOK
  <2>2. array # NULL => array \in Blocks[DefaultHeap] /\ DefaultHeap \in pool
    BY <1>0, <2>1 DEF PoolInv, ArrayOK, ListInv, NamesOK
  <2>3. \A g \in pool : b \notin Blocks[g]
    BY <1>0 DEF PoolInv, EntriesOK
  <2> QED  BY <1>2, <2>2, <2>3
<1>4. /\ Blocks'[h] = Blocks[h] \cup {b}
      /\ \A g \in pool : g # h => Blocks'[g] = Blocks[g]
      /\ pc'[t] \in {"Idle", "FreeOld"}
      /\ \A u \in Threads : u # t => pc'[u] = pc[u] /\ heap'[u] = heap[u]
  BY <1>0, <1>1, <1>2 DEF HeapTypes, TypeOK
<1>5. h \in Listed \ Dying
  <2>1. ASSUME NEW u \in Threads, Exclusive(u) PROVE heap[u] # h
    BY <1>0, <1>1, <2>1 DEF ListInv, ThreadsOK, Exclusive
  <2> QED  BY <1>0, <1>2, <2>1, UsedIsListed
<1> HIDE DEF h, b
<1>6. Listed' = Listed /\ Listed \subseteq pool
  BY <1>0, <1>1, ListedHeaps DEF Listed
<1>7. InUse' = [InUse EXCEPT ![h] = @ \cup {b}]
  <2> SUFFICES ASSUME NEW g \in Heaps PROVE InUse'[g] = [InUse EXCEPT ![h] = @ \cup {b}][g]
    BY DEF InUse
  <2>1. InUse'[g] = IF g \in Listed THEN Blocks'[g] \ {array} ELSE {}
    BY <1>1, <1>6 DEF InUse
  <2>2. InUse[g] = IF g \in Listed THEN Blocks[g] \ {array} ELSE {}
    BY DEF InUse
  <2>3. CASE g = h
    <3>1. InUse'[h] = InUse[h] \cup {b}
      BY <1>3, <1>4, <1>5, <2>1, <2>2, <2>3
    <3> QED  BY <1>2, <2>3, <3>1 DEF InUse
  <2>4. CASE g # h
    <3>1. InUse'[g] = InUse[g]
      BY <1>4, <1>6, <2>1, <2>2, <2>4
    <3> QED  BY <2>4, <3>1 DEF InUse
  <2> QED  BY <2>3, <2>4
<1>8. \A g \in Heaps : b \notin InUse[g]
  BY <1>3, <1>6 DEF InUse
<1>9. Dying' = Dying
  BY <1>1, <1>4 DEF Dying
<1>10. Shown' = Shown
  BY <1>1, <1>4 DEF Shown
<1> QED  BY <1>2, <1>5, <1>6, <1>7, <1>8, <1>9, <1>10 DEF Promise!Allocate, h, b

(* A block that leaves its heap.                                            *)
LEMMA LeavesHeap ==
  ASSUME HeapTypes, ListInv, fault = {}, fault' = {},
         NEW h \in Listed \ Dying, NEW e \in Blocks[h], e # array,
         Blocks' = [Blocks EXCEPT ![h] = @ \ {e}],
         UNCHANGED <<NumberOfHeaps, ProcessHeaps, array, Dying, Shown>>
  PROVE  h \in Heaps /\ e \in Entries /\ Promise!Free(h, e)
<1>1. h \in Heaps /\ e \in Entries
  BY ListedHeaps DEF HeapTypes, TypeOK
<1>2. Listed' = Listed /\ Listed \subseteq Heaps
  BY ListedHeaps DEF Listed
<1>3. Blocks'[h] = Blocks[h] \ {e} /\ \A g \in Heaps : g # h => Blocks'[g] = Blocks[g]
  BY <1>1 DEF HeapTypes, TypeOK
<1>4. InUse' = [InUse EXCEPT ![h] = @ \ {e}]
  <2> SUFFICES ASSUME NEW g \in Heaps PROVE InUse'[g] = [InUse EXCEPT ![h] = @ \ {e}][g]
    BY DEF InUse
  <2>1. InUse'[g] = IF g \in Listed THEN Blocks'[g] \ {array} ELSE {}
    BY <1>2 DEF InUse
  <2>2. InUse[g] = IF g \in Listed THEN Blocks[g] \ {array} ELSE {}
    BY DEF InUse
  <2>3. CASE g = h
    <3>1. InUse'[h] = InUse[h] \ {e}
      BY <1>3, <2>1, <2>2, <2>3
    <3> QED  BY <1>1, <2>3, <3>1 DEF InUse
  <2>4. CASE g # h
    <3>1. InUse'[g] = InUse[g]
      BY <1>3, <2>1, <2>2, <2>4
    <3> QED  BY <2>4, <3>1 DEF InUse
  <2> QED  BY <2>3, <2>4
<1>5. e \in InUse[h]
  BY <1>1 DEF InUse
<1> QED  BY <1>1, <1>2, <1>4, <1>5 DEF Promise!Free

LEMMA FreeSeen ==
  ASSUME HeapAssumption, Sure, fault = {}, fault' = {}, NEW t \in Threads, NEW h \in Heaps,
         NEW e \in Entries, RtlFreeHeap(t, h, e)
  PROVE  Promise!Free(h, e)
<1>0. HeapTypes /\ NamedOK /\ ListInv /\ PoolInv
  BY DEF Sure
<1>1. /\ phase = "up" /\ h \in Usable /\ e \in Held(h)
      /\ Blocks' = [Blocks EXCEPT ![h] = @ \ {e}]
      /\ UNCHANGED <<NumberOfHeaps, ProcessHeaps, array, pc, heap, pos>>
  BY DEF RtlFreeHeap, peb, locals
<1>2. e \in Blocks[h] /\ e # array
  BY <1>1 DEF Held
<1>3. h \in Listed \ Dying
  <2>1. h \in pool
    BY <1>0, <1>1 DEF Usable, ListInv, NamesOK
  <2>2. ASSUME NEW u \in Threads, Exclusive(u) PROVE heap[u] # h
    BY <1>0, <1>1, <2>2 DEF Usable, ListInv, ThreadsOK
  <2> QED  BY <1>0, <2>1, <2>2, UsedIsListed
<1>4. Dying' = Dying /\ Shown' = Shown
  BY <1>1 DEF Dying, Shown
<1> QED  BY <1>0, <1>1, <1>2, <1>3, <1>4, LeavesHeap

LEMMA FreeOldSeen ==
  ASSUME HeapAssumption, Sure, fault = {}, fault' = {}, NEW t \in Threads,
         RtlReAllocateHeapFree(t)
  PROVE  heap[t] \in Heaps /\ old[t] \in Entries /\ Promise!Free(heap[t], old[t])
<1>0. HeapTypes /\ NamedOK /\ ListInv /\ PoolInv
  BY DEF Sure
<1>1. /\ pc[t] = "FreeOld"
      /\ Blocks' = [Blocks EXCEPT ![heap[t]] = @ \ {old[t]}]
      /\ pc' = [pc EXCEPT ![t] = "Idle"]
      /\ heap' = [heap EXCEPT ![t] = NULL]
      /\ UNCHANGED <<NumberOfHeaps, ProcessHeaps, array, pos>>
  BY DEF RtlReAllocateHeapFree, At, Goto, peb
<1>2. /\ heap[t] \in pool /\ old[t] \in Blocks[heap[t]] /\ old[t] # array
  BY <1>0, <1>1, HeapsInUse DEF HeapTypes, CallsOK, PoolInv, OldOK
<1>3. heap[t] \in Listed \ Dying
  <2>1. ASSUME NEW u \in Threads, Exclusive(u) PROVE heap[u] # heap[t]
    BY <1>0, <1>1, <2>1 DEF ListInv, ThreadsOK, Exclusive
  <2> QED  BY <1>0, <1>2, <2>1, UsedIsListed
<1>4. pc'[t] = "Idle" /\ \A u \in Threads : u # t => pc'[u] = pc[u] /\ heap'[u] = heap[u]
  BY <1>0, <1>1 DEF HeapTypes, TypeOK
<1>5. Dying' = Dying /\ Shown' = Shown
  BY <1>1, <1>4 DEF Dying, Shown
<1> QED  BY <1>0, <1>1, <1>2, <1>3, <1>5, LeavesHeap

(* A heap that is emptied: in a client's call, in the unload, and in the    *)
(* teardown of the list.                                                    *)
LEMMA DestroySeen ==
  ASSUME HeapAssumption, HeapTypes, ListInv, fault = {}, fault' = {}, NEW t \in Threads,
         NEW h \in pool, pc[t] = "Idle", \A u \in Threads : heap[u] # h, DestroyBlocks(t, h)
  PROVE  h \in Heaps /\ Promise!Destroy(h)
<1>1. /\ Blocks' = [Blocks EXCEPT ![h] = {}]
      /\ heap' = [heap EXCEPT ![t] = h] /\ pc' = [pc EXCEPT ![t] = "Remove"]
      /\ UNCHANGED <<NumberOfHeaps, ProcessHeaps, array, pos>>
  BY DEF DestroyBlocks, Goto, peb
<1>2. /\ h \in Heaps
      /\ heap'[t] = h /\ pc'[t] = "Remove"
      /\ \A u \in Threads : u # t => heap'[u] = heap[u] /\ pc'[u] = pc[u]
      /\ Blocks'[h] = {} /\ \A g \in Heaps : g # h => Blocks'[g] = Blocks[g]
  BY <1>1 DEF HeapTypes, TypeOK
<1>3. h \in Listed \ Dying
  BY UsedIsListed
<1>4. Listed' = Listed
  BY <1>1 DEF Listed
<1>5. InUse' = [InUse EXCEPT ![h] = {}]
  <2> SUFFICES ASSUME NEW g \in Heaps PROVE InUse'[g] = [InUse EXCEPT ![h] = {}][g]
    BY DEF InUse
  <2>1. InUse'[g] = IF g \in Listed THEN Blocks'[g] \ {array} ELSE {}
    BY <1>1, <1>4 DEF InUse
  <2>2. InUse[g] = IF g \in Listed THEN Blocks[g] \ {array} ELSE {}
    BY DEF InUse
  <2>3. CASE g = h
    <3>1. InUse'[h] = {}
      BY <1>2, <2>1, <2>3
    <3> QED  BY <1>2, <2>3, <3>1 DEF InUse
  <2>4. CASE g # h
    <3>1. InUse'[g] = InUse[g]
      BY <1>2, <2>1, <2>2, <2>4
    <3> QED  BY <2>4, <3>1 DEF InUse
  <2> QED  BY <2>3, <2>4
<1>6. Dying' = Dying \cup {h}
  BY <1>2 DEF Dying
<1>7. Shown' = Shown
  BY <1>1, <1>2 DEF Shown
<1> QED  BY <1>2, <1>3, <1>4, <1>5, <1>6, <1>7 DEF Promise!Destroy

(* A heap that leaves the list.                                             *)
LEMMA RemoveSeen ==
  ASSUME HeapAssumption, Sure, HeapTypes', ListInv', fault = {}, fault' = {}, NEW t \in Threads,
         RtlRemoveHeap(t)
  PROVE  heap[t] \in Heaps /\ Promise!Remove(heap[t])
<1> DEFINE h == heap[t]
           n == NumberOfHeaps
<1>0. HeapTypes /\ NamedOK /\ ListInv /\ PoolInv
  BY DEF Sure
<1>1. /\ pc[t] = "Remove" /\ \A u \in Threads : pc[u] # "Enum"
      /\ UNCHANGED <<pool, Blocks, array, heap, pos>>
  BY DEF RtlRemoveHeap, At, PebLockFree, blocks
<1>2. /\ h \in pool /\ h \in Heaps /\ Index[h] \in 1 .. n /\ n \in Nat
      /\ Blocks[h] = {} /\ \A u \in Threads : u # t => heap[u] # h
  <2>1. Exclusive(t) /\ heap[t] # NULL
    BY <1>0, <1>1 DEF Exclusive, HeapTypes, CallsOK
  <2> QED  BY <1>0, <1>1, <2>1, HeapsInUse DEF HeapTypes, TypeOK, ListInv, ThreadsOK, PoolInv, OldOK
<1>3. /\ Index' = [Index EXCEPT ![h] = 0]
      /\ pc' = [pc EXCEPT ![t] = "Release"]
  <2>1. n # 0 /\ Index[h] # 0 /\ Index[h] <= n
    BY <1>2
  <2> QED  BY <2>1 DEF RtlRemoveHeap, Goto
<1>4. /\ Index'[h] = 0 /\ \A g \in pool : g # h => Index'[g] = Index[g]
      /\ pc'[t] = "Release" /\ \A u \in Threads : u # t => pc'[u] = pc[u]
  BY <1>0, <1>2, <1>3 DEF HeapTypes, TypeOK
<1> HIDE DEF h, n
<1>5. Listed' = Listed \ {h} /\ Listed \subseteq pool
  <2>1. Listed = {g \in pool : Index[g] # 0} /\ Listed' = {g \in pool : Index'[g] # 0}
    BY <1>0, <1>1, ListedHeaps, ListedNext
  <2> QED  BY <1>4, <2>1
<1>6. InUse' = InUse /\ InUse[h] = {}
  <2>1. ASSUME NEW g \in Heaps
        PROVE  (IF g \in Listed' THEN Blocks[g] \ {array} ELSE {})
               = (IF g \in Listed THEN Blocks[g] \ {array} ELSE {})
    BY <1>2, <1>5
  <2> QED  BY <1>1, <1>2, <2>1 DEF InUse
<1>7. Dying' = Dying \ {h} /\ h \in Dying
  BY <1>1, <1>2, <1>4 DEF Dying, h
<1>8. Shown' = Shown /\ Promise!NobodyLooks
  <2>1. \A u \in Threads : pc'[u] # "Enum"
    BY <1>1, <1>4
  <2> QED  BY <1>1, <2>1, NobodyIsShown DEF Shown
<1> QED  BY <1>2, <1>5, <1>6, <1>7, <1>8 DEF Promise!Remove, h

(* What an enumeration is shown next: the entry at i, of a list that stays. *)
LEMMA NextIsNew ==
  ASSUME HeapTypes, ListInv, NEW i \in 1 .. NumberOfHeaps
  PROVE  /\ ProcessHeaps[i] \in Listed /\ ProcessHeaps[i] \in Heaps
         /\ ProcessHeaps[i] \notin {ProcessHeaps[j] : j \in 1 .. i - 1}
         /\ {ProcessHeaps[j] : j \in 1 .. i} =
              {ProcessHeaps[j] : j \in 1 .. i - 1} \cup {ProcessHeaps[i]}
<1>1. NumberOfHeaps \in Nat /\ pool \subseteq Heaps
  BY DEF HeapTypes, TypeOK
<1>2. ProcessHeaps[i] \in Listed /\ ProcessHeaps[i] \in Heaps
  BY <1>1 DEF ListInv, ListOK, Listed
<1>3. ASSUME NEW j \in 1 .. i - 1 PROVE ProcessHeaps[j] # ProcessHeaps[i]
  <2>1. j \in 1 .. NumberOfHeaps /\ j # i
    BY <1>1
  <2> QED  BY <2>1 DEF ListInv, ListOK
<1>4. 1 .. i = (1 .. i - 1) \cup {i}
  BY <1>1
<1> QED  BY <1>2, <1>3, <1>4

LEMMA EnumSeen ==
  ASSUME HeapAssumption, Sure, fault = {}, fault' = {}, NEW t \in Threads,
         RtlEnumProcessHeaps(t) \/ EnumNext(t)
  PROVE  (\E h \in Heaps : Promise!Show(t, h)) \/ Promise!EndShow(t)
<1>0. HeapTypes /\ ListInv
  BY DEF Sure
<1>1. UNCHANGED <<Listed, InUse, Dying>>
  <2>1. /\ UNCHANGED <<NumberOfHeaps, ProcessHeaps, array, Blocks, heap>>
        /\ pc[t] \in {"Idle", "Enum"}
        /\ pc' = pc \/ pc' = [pc EXCEPT ![t] = "Idle"] \/ pc' = [pc EXCEPT ![t] = "Enum"]
    BY DEF RtlEnumProcessHeaps, EnumNext, At, Goto, peb, blocks
  <2>2. UNCHANGED <<Listed, InUse>>
    BY <2>1 DEF Listed, InUse
  <2>3. \A u \in Threads : pc'[u] = "Remove" <=> pc[u] = "Remove"
    BY <1>0, <2>1 DEF HeapTypes, TypeOK
  <2> QED  BY <2>1, <2>2, <2>3 DEF Dying
<1>2. UNCHANGED <<NumberOfHeaps, ProcessHeaps>> /\ NumberOfHeaps \in Nat
  BY <1>0 DEF RtlEnumProcessHeaps, EnumNext, peb, HeapTypes, TypeOK
<1>3. ASSUME NEW i \in 1 .. NumberOfHeaps, pos' = [pos EXCEPT ![t] = i],
             pc'[t] = "Enum", \A u \in Threads : u # t => pc'[u] = pc[u],
             Shown[t] = {ProcessHeaps[j] : j \in 1 .. i - 1}
      PROVE  \E h \in Heaps : Promise!Show(t, h)
  <2> DEFINE h == ProcessHeaps[i]
  <2>1. /\ h \in Listed /\ h \in Heaps /\ h \notin Shown[t]
        /\ {ProcessHeaps[j] : j \in 1 .. i} = Shown[t] \cup {h}
    BY <1>0, <1>3, NextIsNew
  <2>2. pos'[t] = i /\ \A u \in Threads : u # t => pos'[u] = pos[u]
    BY <1>0, <1>3 DEF HeapTypes, TypeOK
  <2>3. Shown'[t] = {ProcessHeaps[j] : j \in 1 .. i}
    BY <1>2, <1>3, <2>2 DEF Shown
  <2>4. \A u \in Threads : u # t => Shown'[u] = Shown[u]
    BY <1>2, <1>3, <2>2 DEF Shown
  <2> HIDE DEF h
  <2>5. Shown' = [Shown EXCEPT ![t] = @ \cup {h}]
    <3> SUFFICES ASSUME NEW u \in Threads
                 PROVE  Shown'[u] = [Shown EXCEPT ![t] = @ \cup {h}][u]
      BY DEF Shown
    <3>1. CASE u = t
      BY <2>1, <2>3, <3>1 DEF Shown
    <3>2. CASE u # t
      BY <2>4, <3>2 DEF Shown
    <3> QED  BY <3>1, <3>2
  <2>6. Promise!Show(t, h)
    BY <1>1, <2>1, <2>5 DEF Promise!Show
  <2> QED  BY <2>1, <2>6
<1>4. ASSUME pc' = [pc EXCEPT ![t] = "Idle"], pos' = [pos EXCEPT ![t] = 0]
      PROVE  Promise!EndShow(t)
  <2>1. /\ pc'[t] = "Idle"
        /\ \A u \in Threads : u # t => pc'[u] = pc[u] /\ pos'[u] = pos[u]
    BY <1>0, <1>4 DEF HeapTypes, TypeOK
  <2>2. Shown' = [Shown EXCEPT ![t] = {}]
    BY <1>2, <2>1 DEF Shown
  <2> QED  BY <1>1, <2>2 DEF Promise!EndShow
<1>5. CASE RtlEnumProcessHeaps(t)
  <2>1. /\ pos' = [pos EXCEPT ![t] = 1] /\ 1 \in 1 .. NumberOfHeaps
        /\ pc[t] = "Idle" /\ pc' = [pc EXCEPT ![t] = "Enum"]
    BY <1>2, <1>5 DEF RtlEnumProcessHeaps, Goto
  <2>2. pc'[t] = "Enum" /\ \A u \in Threads : u # t => pc'[u] = pc[u]
    BY <1>0, <2>1 DEF HeapTypes, TypeOK
  <2>3. Shown[t] = {ProcessHeaps[j] : j \in 1 .. 1 - 1}
    BY <2>1 DEF Shown
  <2> QED  BY <1>3, <2>1, <2>2, <2>3
<1>6. CASE EnumNext(t)
  <2>1. pc[t] = "Enum" /\ pos[t] \in 1 .. NumberOfHeaps
    BY <1>0, <1>6 DEF EnumNext, At, HeapTypes, CallsOK
  <2>2. CASE pos[t] < NumberOfHeaps /\ pos' = [pos EXCEPT ![t] = @ + 1] /\ UNCHANGED pc
    <3> DEFINE i == pos[t] + 1
    <3>1. i \in 1 .. NumberOfHeaps /\ i - 1 = pos[t] /\ pos' = [pos EXCEPT ![t] = i]
      BY <1>2, <2>1, <2>2
    <3>2. Shown[t] = {ProcessHeaps[j] : j \in 1 .. i - 1}
      BY <2>1, <3>1 DEF Shown
    <3> HIDE DEF i
    <3> QED  BY <1>3, <2>1, <2>2, <3>1, <3>2
  <2>3. CASE pos' = [pos EXCEPT ![t] = 0] /\ pc' = [pc EXCEPT ![t] = "Idle"]
    BY <1>4, <2>3
  <2> QED  BY <1>6, <2>2, <2>3 DEF EnumNext, Goto
<1> QED  BY <1>5, <1>6

LEMMA HeapStepsKeepThePromise ==
  ASSUME HeapAssumption, SerialisedIfPaged, HeapTypes, NamedOK,
         fault = {} => ListInv, fault = {} => PoolInv, [Next]_vars
  PROVE  [Promise!Next]_(Promise!vars)
<1> SUFFICES ASSUME fault' = {} PROVE Promise!Sound \/ UNCHANGED Promise!vars
  <2>1. (fault' # {}) => Promise!Next
    BY DEF Promise!Next
  <2>2. fault' = {} => fault = {}
    BY FaultsStay
  <2> QED  BY <2>1, <2>2 DEF Promise!Next
<1>0. Sure /\ HeapTypes' /\ ListInv' /\ fault = {} /\ HeapTypes /\ ListInv /\ PoolInv
  <2>1. fault = {}
    BY FaultsStay
  <2> QED  BY <2>1, NextTypes, NextList DEF Sure
<1>1. ASSUME NEW t \in Threads, NEW k, RtlCreateHeap(t, k) PROVE UNCHANGED Promise!vars
  <2>1. PICK h \in Heaps \ pool : Blocks' = [Blocks EXCEPT ![h] = {}] /\ heap' = [heap EXCEPT ![t] = h]
    BY <1>1 DEF RtlCreateHeap
  <2>2. /\ UNCHANGED <<NumberOfHeaps, ProcessHeaps, array, pos>>
        /\ pc[t] = "Idle" /\ pc' = [pc EXCEPT ![t] = "Append"]
    BY <1>1 DEF RtlCreateHeap, Goto, peb
  <2>3. \A g \in Listed : Blocks'[g] = Blocks[g]
    BY <1>0, <2>1, ListedHeaps, SMTT(40) DEF HeapTypes, TypeOK
  <2>4. /\ pc'[t] = "Append"
        /\ \A u \in Threads : u # t => pc'[u] = pc[u] /\ heap'[u] = heap[u]
    BY <1>0, <2>1, <2>2 DEF HeapTypes, TypeOK
  <2> QED  BY <1>0, <2>2, <2>3, <2>4, NothingSeen
<1>2. ASSUME UNCHANGED <<Blocks, NumberOfHeaps, ProcessHeaps, array, pos>>,
             NEW t \in Threads, {pc[t], pc'[t]} \cap {"Remove", "Enum"} = {},
             \A u \in Threads : u # t => pc'[u] = pc[u] /\ heap'[u] = heap[u]
      PROVE  UNCHANGED Promise!vars
  BY <1>0, <1>2, NothingSeen
<1>3. ASSUME UNCHANGED <<Blocks, NumberOfHeaps, ProcessHeaps, array, pos, pc, heap>>
      PROVE  UNCHANGED Promise!vars
  BY <1>0, <1>3, NothingSeen
<1>4. ASSUME NEW t \in Threads, NEW h, NEW s, NEW e, RtlAllocateHeap(t, h, s, e)
      PROVE  UNCHANGED Promise!vars
  <2>1. /\ UNCHANGED <<Blocks, NumberOfHeaps, ProcessHeaps, array, pos>>
        /\ pc[t] = "Idle" /\ pc' = [pc EXCEPT ![t] = "Insert"] /\ heap' = [heap EXCEPT ![t] = h]
    BY <1>4 DEF RtlAllocateHeap, Goto, peb
  <2>2. pc'[t] = "Insert" /\ \A u \in Threads : u # t => pc'[u] = pc[u] /\ heap'[u] = heap[u]
    BY <1>0, <2>1 DEF HeapTypes, TypeOK
  <2> QED  BY <1>2, <2>1, <2>2
<1>5. ASSUME NEW t \in Threads, RtlAppendHeapFails(t) \/ RtlDestroyHeapRelease(t)
      PROVE  UNCHANGED Promise!vars
  <2>1. /\ UNCHANGED <<Blocks, NumberOfHeaps, ProcessHeaps, array, pos>>
        /\ pc[t] \in {"Append", "Release"} /\ pc' = [pc EXCEPT ![t] = "Idle"]
        /\ heap' = [heap EXCEPT ![t] = NULL]
    BY <1>5 DEF RtlAppendHeapFails, RtlDestroyHeapRelease, At, Goto, peb, blocks
  <2>2. pc'[t] = "Idle" /\ \A u \in Threads : u # t => pc'[u] = pc[u] /\ heap'[u] = heap[u]
    BY <1>0, <2>1 DEF HeapTypes, TypeOK
  <2> QED  BY <1>2, <2>1, <2>2
<1>6. ASSUME NEW t \in Threads, NEW h \in Heaps, RtlDestroyHeap(t, h) PROVE Promise!Destroy(h)
  <2>1. /\ h \in pool /\ pc[t] = "Idle" /\ DestroyBlocks(t, h)
        /\ \A u \in Threads : heap[u] # h
    BY <1>0, <1>6 DEF RtlDestroyHeap, ListInv, NamesOK
  <2> QED  BY <1>0, <2>1, DestroySeen
<1>7. ASSUME NEW t \in Threads, Unload(t) PROVE \E h \in Heaps : Promise!Destroy(h)
  <2>1. /\ MusaCoreHeap \in pool /\ MusaCoreHeap # NULL
    BY <1>0, <1>7 DEF Unload, ListInv, NamesOK, NamedOK, HeapAssumption
  <2>2. /\ pc[t] = "Idle" /\ DestroyBlocks(t, MusaCoreHeap)
        /\ \A u \in Threads : heap[u] # MusaCoreHeap
    BY <1>0, <1>7, <2>1 DEF Unload, AllIdle, HeapTypes, CallsOK
  <2> QED  BY <1>0, <2>1, <2>2, DestroySeen
<1>8. ASSUME NEW t \in Threads, TeardownHeap(t) PROVE \E h \in Heaps : Promise!Destroy(h)
  <2>1. /\ ProcessHeaps[Idx] \in pool /\ ProcessHeaps[Idx] # NULL
    BY <1>0, <1>8 DEF TeardownHeap, HeapTypes, TypeOK, HeapAssumption
  <2>2. /\ pc[t] = "Idle" /\ DestroyBlocks(t, ProcessHeaps[Idx])
        /\ \A u \in Threads : heap[u] # ProcessHeaps[Idx]
    BY <1>0, <1>8, <2>1 DEF TeardownHeap, AllIdle, HeapTypes, CallsOK
  <2> QED  BY <1>0, <2>1, <2>2, DestroySeen
<1>9. CASE Teardown
  BY <1>0, <1>3, <1>9 DEF Teardown, TeardownSkip, TeardownFault, TeardownEnd, peb, blocks, locals
<1>10. ASSUME NEW t \in Threads, RtlCreateHeapFails(t) PROVE UNCHANGED Promise!vars
  BY <1>3, <1>10 DEF RtlCreateHeapFails, peb, blocks, locals
<1>11. ASSUME NEW t \in Threads, ThreadStep(t) PROVE Promise!Sound \/ UNCHANGED Promise!vars
  <2>1. CASE RtlAppendHeap(t) \/ RtlAppendHeapGrows(t)
    BY <1>0, <2>1, AppendSeen, GrowSeen DEF Promise!Sound
  <2>2. CASE RtlAllocateHeapInsert(t)
    BY <1>0, <2>2, InsertSeen DEF Promise!Sound
  <2>3. CASE RtlReAllocateHeapFree(t)
    BY <1>0, <2>3, FreeOldSeen DEF Promise!Sound
  <2>4. CASE RtlRemoveHeap(t)
    BY <1>0, <2>4, RemoveSeen DEF Promise!Sound
  <2>5. CASE EnumNext(t)
    BY <1>0, <2>5, EnumSeen DEF Promise!Sound
  <2>6. CASE TeardownHeap(t)
    BY <1>8, <2>6 DEF Promise!Sound
  <2> QED  BY <1>5, <1>11, <2>1, <2>2, <2>3, <2>4, <2>5, <2>6 DEF ThreadStep
<1>12. ASSUME NEW t \in Threads, ClientCall(t) PROVE Promise!Sound \/ UNCHANGED Promise!vars
  <2>1. CASE \E h \in Heaps, e \in Entries : RtlFreeHeap(t, h, e)
    BY <1>0, <2>1, FreeSeen DEF Promise!Sound
  <2>2. CASE \E h \in Heaps : RtlDestroyHeap(t, h)
    BY <1>6, <2>2 DEF Promise!Sound
  <2>3. CASE RtlEnumProcessHeaps(t)
    BY <1>0, <2>3, EnumSeen DEF Promise!Sound
  <2>4. CASE Unload(t)
    BY <1>7, <2>4 DEF Promise!Sound
  <2> QED  BY <1>1, <1>4, <1>10, <1>12, <2>1, <2>2, <2>3, <2>4 DEF ClientCall
<1>13. CASE UNCHANGED vars
  BY <1>3, <1>13 DEF vars, peb, blocks, locals
<1> QED  BY <1>9, <1>11, <1>12, <1>13 DEF Next

(* Until a fault, threads that create, fill, enumerate and destroy heaps    *)
(* beside each other, in several critical sections each, see what they      *)
(* would see if each heap and each block came and went at once, and if no   *)
(* heap did so during an enumeration.                                       *)
THEOREM ListImplementsHeaps ==
  ASSUME HeapAssumption, SerialisedIfPaged PROVE Spec => Implements
<1>1. Init => Promise!Init
  <2> SUFFICES ASSUME Init PROVE Promise!Init
    OBVIOUS
  <2>1. Listed = {}
    BY DEF Init, Listed
  <2> QED  BY <2>1 DEF Init, Promise!Init, InUse, Dying, Shown
<1>2. /\ HeapTypes /\ NamedOK /\ (fault = {} => ListInv) /\ (fault = {} => PoolInv)
      /\ [Next]_vars
      => [Promise!Next]_(Promise!vars)
  BY HeapStepsKeepThePromise
<1> QED  BY <1>1, <1>2, HeapPlaces, ListHolds, PoolHolds, PTL DEF Spec, Implements, Promise!Spec

-----------------------------------------------------------------------------
(***************************************************************************)
(* What the functions of KernelCalls borrow.  Of a table that keeps the     *)
(* rules of CallRules, which one look at each step decides, no path         *)
(* violates the properties: a call that runs holds what the plan of its     *)
(* step says, and its last error is one of those the plan names.            *)
(***************************************************************************)
ThisPlan == Plan[function][step]

CallTypes ==
    /\ CallTypeOK
    /\ answer = Onward => ThisPlan.sure \subseteq held /\ held \subseteq ThisPlan.maybe

ErrorOK == answer = Onward => lastError \in ThisPlan.errors

CallInv == CallTypes /\ ErrorOK /\ GivesBack /\ AnswerTellsEffect /\ FailureTold

(* What a step does to what is held stays between what its plan takes for   *)
(* certain and what it takes for possible, and what it gives back is there. *)
LEMMA WithinPlan ==
  ASSUME AllKeepRules, CallInv, answer = Onward, NEW o \in This.may, Possible(o)
  PROVE  /\ CanHappen(ThisPlan, o)
         /\ Arrives(Plan[function], step, o) /\ Exchanges(function, ThisPlan, o)
         /\ Ends(function, ThisPlan, o)
         /\ SureAfter(ThisPlan, o) \subseteq (held \ o.drops) \cup o.takes
         /\ (held \ o.drops) \cup o.takes \subseteq MaybeAfter(ThisPlan, o)
         /\ Misplaced(o) => function \in MisplacesPath
         /\ ErrorAfter(lastError, o, Misplaced(o)) \in ErrorsAfter(ThisPlan, o)
<1>1. /\ function \in DOMAIN Program /\ step \in DOMAIN Program[function].steps
      /\ ThisPlan.sure \subseteq held /\ held \subseteq ThisPlan.maybe
  BY DEF CallInv, CallTypes, CallTypeOK
<1>2. CanHappen(ThisPlan, o)
  BY <1>1 DEF CanHappen, Possible
<1>3. /\ Arrives(Plan[function], step, o) /\ Exchanges(function, ThisPlan, o)
      /\ Ends(function, ThisPlan, o)
  BY <1>1, <1>2 DEF AllKeepRules, KeepsRules, This, ThisPlan
<1>4. /\ SureAfter(ThisPlan, o) \subseteq (held \ o.drops) \cup o.takes
      /\ (held \ o.drops) \cup o.takes \subseteq MaybeAfter(ThisPlan, o)
  BY <1>1 DEF SureAfter, MaybeAfter, Possible
<1>5. Misplaced(o) => function \in MisplacesPath
  BY <1>1, <1>3 DEF Misplaced, Exchanges, Possible
<1>6. Misplaced(o) \in MayMisplace(ThisPlan, o)
  BY <1>1 DEF Misplaced, MayMisplace, Possible
<1>7. ErrorAfter(lastError, o, Misplaced(o)) \in ErrorsAfter(ThisPlan, o)
  <2>1. lastError \in ThisPlan.errors
    BY DEF CallInv, ErrorOK
  <2> QED  BY <1>6, <2>1, SMT DEF ErrorsAfter
<1> QED  BY <1>2, <1>3, <1>4, <1>5, <1>7

LEMMA CallStarts ==
  ASSUME AllKeepRules, NEW f \in DOMAIN Program,
         function' = f /\ step' = 1 /\ held' = {} /\ lastError' = "Kept" /\ answer' = Onward
  PROVE  CallInv'
<1>1. 1 \in DOMAIN Program[f].steps /\ Plan[f][1].sure = {} /\ "Kept" \in Plan[f][1].errors
  BY DEF AllKeepRules, KeepsRules
<1> QED  BY <1>1 DEF CallInv, CallTypes, CallTypeOK, Errors, ErrorOK, ThisPlan, GivesBack,
                     AnswerTellsEffect, FailureTold, Onward, Success, Failure

(* A step of a call: to the next step, or to the answer.                   *)
LEMMA CallAdvances ==
  ASSUME AllKeepRules, CallInv, Advance
  PROVE  CallInv'
<1>1. PICK o \in This.may : Proceed(o)
  BY DEF Advance
<1>2. answer = Onward /\ Possible(o) /\ UNCHANGED function
  BY <1>1 DEF Advance, Proceed
<1> DEFINE p == ThisPlan
<1>3. /\ Arrives(Plan[function], step, o) /\ Exchanges(function, p, o) /\ Ends(function, p, o)
      /\ SureAfter(p, o) \subseteq held' /\ held' \subseteq MaybeAfter(p, o)
      /\ lastError' \in ErrorsAfter(p, o)
  BY <1>1, <1>2, WithinPlan DEF Proceed
<1>4. held' \subseteq Things
  <2>1. o.takes \subseteq Things
    BY <1>1 DEF Things, This, CallInv, CallTypes, CallTypeOK
  <2> QED  BY <2>1, <1>1 DEF Proceed, CallInv, CallTypes, CallTypeOK
<1>5. lastError' \in Errors
  BY <1>1 DEF Proceed, ErrorAfter, Tell, Errors, CallInv, CallTypes, CallTypeOK
<1>6. CASE o.to \in Nat
  <2>1. answer' = Onward /\ step' = Target(step, o) /\ step' \in DOMAIN Program[function].steps
    <3>1. answer' = Onward /\ step' = Target(step, o)
      BY <1>1, <1>2, <1>6 DEF Proceed, Target, Onward
    <3>2. Target(step, o) \in DOMAIN Plan[function]
      BY <1>3, <1>6 DEF Arrives, Answered, Success, Failure, Pending
    <3> QED  BY <3>1, <3>2 DEF AllKeepRules, KeepsRules, CallInv, CallTypes, CallTypeOK
  <2>2. LET next == Plan[function][step'] IN
           /\ next.sure \subseteq SureAfter(p, o) /\ MaybeAfter(p, o) \subseteq next.maybe
           /\ ErrorsAfter(p, o) \subseteq next.errors
    BY <2>1, <1>3, <1>6 DEF Arrives, Answered, Success, Failure, Pending, ThisPlan
  <2>3. CallTypes' /\ ErrorOK'
    BY <1>2, <1>3, <1>4, <1>5, <2>1, <2>2
       DEF CallInv, CallTypes, CallTypeOK, Errors, ErrorOK, ThisPlan
  <2> QED  BY <2>1, <2>3 DEF CallInv, GivesBack, AnswerTellsEffect, FailureTold,
                             Onward, Success, Failure
<1>7. CASE o.to \in Answered
  <2>1. answer' = o.to /\ answer' # Onward /\ step' = step
    BY <1>1, <1>7 DEF Proceed, Answered, Onward, Success, Failure, Pending
  <2>2. CallTypes' /\ ErrorOK'
    BY <1>2, <1>4, <1>5, <1>7, <2>1
       DEF CallInv, CallTypes, CallTypeOK, Errors, ErrorOK, Answered
  <2>3. GivesBack'
    BY <1>2, <1>3, <1>7, <2>1 DEF GivesBack, Ends, Loans, Leaves
  <2>4. AnswerTellsEffect'
    BY <1>2, <1>3, <1>7, <2>1 DEF AnswerTellsEffect, Ends, Effects, Leaves
  <2>5. FailureTold'
    BY <1>2, <1>3, <2>1 DEF FailureTold, Ends, Telling
  <2> QED  BY <2>2, <2>3, <2>4, <2>5 DEF CallInv
<1> QED  BY <1>3, <1>6, <1>7 DEF Arrives

LEMMA CallsKeepInv == ASSUME AllKeepRules PROVE CallsSpec => []CallInv
<1>1. CallsInit => CallInv
  <2> SUFFICES ASSUME CallsInit PROVE CallInv
    OBVIOUS
  <2>1. PICK f \in DOMAIN Program : Starts(f)
    BY DEF CallsInit
  <2>2. 1 \in DOMAIN Program[f].steps /\ Plan[f][1].sure = {} /\ "Kept" \in Plan[f][1].errors
    BY DEF AllKeepRules, KeepsRules
  <2> QED  BY <2>1, <2>2 DEF Starts, CallInv, CallTypes, CallTypeOK, Errors, ErrorOK, ThisPlan,
                             GivesBack, AnswerTellsEffect, FailureTold, Onward, Success, Failure
<1>2. CallInv /\ [CallsNext]_callVars => CallInv'
  <2> SUFFICES ASSUME CallInv, [CallsNext]_callVars PROVE CallInv'
    OBVIOUS
  <2>1. CASE Advance
    BY <2>1, CallAdvances
  <2>2. ASSUME NEW f \in DOMAIN Program, Call(f) PROVE CallInv'
    BY <2>2, CallStarts DEF Call
  <2>3. CASE UNCHANGED callVars
    BY <2>3 DEF callVars, CallInv, CallTypes, CallTypeOK, ErrorOK, ThisPlan, GivesBack, Leaves,
                AnswerTellsEffect, FailureTold
  <2> QED  BY <2>1, <2>2, <2>3 DEF CallsNext
<1> QED  BY <1>1, <1>2, PTL DEF CallsSpec

(* Every state of the calls is well typed.                                  *)
THEOREM CallsTypeCorrect == ASSUME AllKeepRules PROVE CallsSpec => []CallTypeOK
<1>1. CallInv => CallTypeOK
  BY DEF CallInv, CallTypes
<1> QED  BY <1>1, CallsKeepInv, PTL

(* On every way out a call has given back what it borrowed.                 *)
THEOREM CallsGiveBack == ASSUME AllKeepRules PROVE CallsSpec => []GivesBack
<1>1. CallInv => GivesBack
  BY DEF CallInv
<1> QED  BY <1>1, CallsKeepInv, PTL

(* A step uses what the call holds, and takes and gives back once.          *)
THEOREM CallsUseWhatTheyHold == ASSUME AllKeepRules PROVE CallsSpec => []UsesWhatItHolds
<1>1. CallInv => UsesWhatItHolds
  <2> SUFFICES ASSUME CallInv, answer = Onward
               PROVE  /\ This.uses \subseteq held \/ function \in Astray
                      /\ \A o \in This.may : Possible(o) =>
                            /\ o.takes \cap held = {}
                            /\ Misplaced(o) => function \in MisplacesPath
    BY DEF UsesWhatItHolds
  <2>1. ThisPlan.sure \subseteq held /\ held \subseteq ThisPlan.maybe
    BY DEF CallInv, CallTypes
  <2>2. This.uses \subseteq ThisPlan.sure \/ function \in Astray
    BY DEF AllKeepRules, KeepsRules, This, ThisPlan, CallInv, CallTypes, CallTypeOK
  <2>3. ASSUME NEW o \in This.may, Possible(o)
        PROVE  o.takes \cap held = {} /\ (Misplaced(o) => function \in MisplacesPath)
    <3>1. Exchanges(function, ThisPlan, o) /\ (Misplaced(o) => function \in MisplacesPath)
      BY <2>3, WithinPlan
    <3>2. o.takes \cap held = {}
      BY <2>1, <2>3, <3>1 DEF Exchanges, Possible
    <3> QED  BY <3>1, <3>2
  <2> QED  BY <2>1, <2>2, <2>3
<1> QED  BY <1>1, CallsKeepInv, PTL

(* The answer tells whether the effect is there.                            *)
THEOREM AnswersTellEffects == ASSUME AllKeepRules PROVE CallsSpec => []AnswerTellsEffect
<1>1. CallInv => AnswerTellsEffect
  BY DEF CallInv
<1> QED  BY <1>1, CallsKeepInv, PTL

(* The last error tells the first failure, whatever is given back, or fails *)
(* as well, after it.                                                       *)
THEOREM FailuresAreTold == ASSUME AllKeepRules PROVE CallsSpec => []FailureTold
<1>1. CallInv => FailureTold
  BY DEF CallInv
<1> QED  BY <1>1, CallsKeepInv, PTL
=============================================================================
