-------------------------------- MODULE Heap --------------------------------
(***************************************************************************)
(* Heaps of the process block: creation, destruction and enumeration of    *)
(* heaps (RtlCreateHeap, RtlAppendHeap, RtlRemoveHeap, RtlDestroyHeap,      *)
(* RtlEnumProcessHeaps), the blocks of a heap (RtlAllocateHeap,             *)
(* RtlReAllocateHeap, RtlFreeHeap), and the unload that destroys what is    *)
(* left: first MusaCoreHeap, then every entry of the list.                  *)
(*                                                                         *)
(* What a heap lock covers is one step; the PEB lock is held across steps   *)
(* only by an enumeration, shared.  The list is an array in the PEB page    *)
(* until it is full and a block of the default heap from then on.           *)
(*                                                                         *)
(* Where the code touches memory that is not what it takes it for, `fault'  *)
(* records it and the behaviour stops (a bug check) or goes on.             *)
(***************************************************************************)
EXTENDS Naturals, FiniteSets

CONSTANTS Threads,
          Heaps,       \* pool addresses a HEAP can have
          Entries,     \* pool addresses a HEAP_ENTRY can have
          Kinds,       \* heaps clients create: [lock, paged]; the lock is
                       \* "own", the "user"'s, or "none" (HEAP_NO_SERIALIZE)
          Sizes,       \* sizes clients ask for
          PageSize,    \* PAGE_SIZE: a block of that size has a data part
          Capacities,  \* lengths the array in the PEB page can have
          NULL,
          Garbage      \* a word nobody has initialised

ASSUME HeapAssumption ==
    /\ Kinds \subseteq [lock : {"own", "user", "none"}, paged : BOOLEAN]
    /\ Sizes \subseteq Nat /\ PageSize \in Nat
    /\ Capacities \subseteq Nat \ {0}
    /\ {NULL, Garbage} \cap (Heaps \cup Entries) = {}

VARIABLES
    phase,     \* "default", "core": startup creates these heaps; "up";
               \* "unload", "heaps": the two parts of the unload; "down";
               \* "stopped": a bug check
    pool,      \* HEAP structures that are allocated
    Index, kind, Blocks,   \* fields of each HEAP
    resources, \* heaps whose ERESOURCE is initialised
    entries,   \* HEAP_ENTRY structures that are allocated
    data,      \* entries whose UserData is an allocation of its own
    Size,      \* HEAP_ENTRY.Size
    NumberOfHeaps, MaximumNumberOfHeaps, ProcessHeaps,   \* the list in the PEB
    array,     \* block of the default heap the list is in, NULL: the PEB page
    DefaultHeap, MusaCoreHeap,
    owned,     \* handles clients hold
    pc, heap, entry, old, pos,   \* locals of the calls
    Idx,       \* index of the teardown loop
    fault      \* memory that was not what the code took it for (history)

peb    == <<NumberOfHeaps, MaximumNumberOfHeaps, ProcessHeaps, array>>
blocks == <<Blocks, entries, data, Size>>
heaps  == <<pool, Index, kind, resources>>
names  == <<DefaultHeap, MusaCoreHeap, owned>>
locals == <<pc, heap, entry, old, pos>>
vars   == <<phase, heaps, blocks, peb, names, locals, Idx, fault>>

Faults == {"index", "tail", "list", "stale"}

TypeOK ==
    /\ phase \in {"default", "core", "up", "unload", "heaps", "down", "stopped"}
    /\ pool \subseteq Heaps
    /\ Index \in [Heaps -> Nat]
    /\ kind \in [Heaps -> [lock : {"own", "user", "none"}, paged : BOOLEAN]]
    /\ Blocks \in [Heaps -> SUBSET Entries]
    /\ resources \subseteq Heaps
    /\ entries \subseteq Entries
    /\ data \subseteq Entries
    /\ Size \in [Entries -> Nat]
    /\ MaximumNumberOfHeaps \in Nat
    /\ NumberOfHeaps \in 0 .. MaximumNumberOfHeaps
    /\ ProcessHeaps \in [1 .. MaximumNumberOfHeaps -> Heaps \cup {NULL, Garbage}]
    /\ array \in Entries \cup {NULL}
    /\ {DefaultHeap, MusaCoreHeap} \subseteq Heaps \cup {NULL}
    /\ owned \subseteq Heaps
    /\ pc \in [Threads -> {"Idle", "Append", "Insert", "FreeOld", "Remove",
                           "Release", "Enum"}]
    /\ heap \in [Threads -> Heaps \cup {NULL}]
    /\ entry \in [Threads -> Entries \cup {NULL}]
    /\ old \in [Threads -> Entries \cup {NULL}]
    /\ pos \in [Threads -> 0 .. MaximumNumberOfHeaps]
    /\ Idx \in 0 .. MaximumNumberOfHeaps
    /\ fault \subseteq Faults

OwnLock == [lock |-> "own", paged |-> FALSE]

Init ==
    /\ phase = "default"
    /\ pool = {} /\ resources = {} /\ entries = {} /\ data = {}
    /\ Index = [h \in Heaps |-> 0]
    /\ kind = [h \in Heaps |-> OwnLock]
    /\ Blocks = [h \in Heaps |-> {}]
    /\ Size = [e \in Entries |-> 0]
    /\ NumberOfHeaps = 0
    /\ MaximumNumberOfHeaps \in Capacities
    /\ ProcessHeaps = [i \in 1 .. MaximumNumberOfHeaps |-> NULL]
    /\ array = NULL
    /\ DefaultHeap = NULL /\ MusaCoreHeap = NULL /\ owned = {}
    /\ pc = [t \in Threads |-> "Idle"]
    /\ heap = [t \in Threads |-> NULL]
    /\ entry = [t \in Threads |-> NULL]
    /\ old = [t \in Threads |-> NULL]
    /\ pos = [t \in Threads |-> 0]
    /\ Idx = 0
    /\ fault = {}

(* A bug check stops every thread.                                          *)
At(t, l)   == phase # "stopped" /\ pc[t] = l
Goto(t, l) == pc' = [pc EXCEPT ![t] = l]
AllIdle    == \A t \in Threads : pc[t] = "Idle"

(* A definition named Bad... is a seeded fault: the definition below it with *)
(* one slip, used to see that a property notices.                           *)

(* Whether the PEB lock can be taken exclusively.                           *)
BadPebLockFree == TRUE
PebLockFree    == \A t \in Threads : pc[t] # "Enum"

(* Which blocks of B have a data part that is freed with them.              *)
BadDataOf(B) == {e \in B : Size[e] > PageSize}
DataOf(B)    == {e \in B : Size[e] >= PageSize}

FreeBlocks(B) ==
    /\ entries' = entries \ B
    /\ data' = data \ DataOf(B)

-----------------------------------------------------------------------------
(* RtlCreateHeap: the structure and its lock; the resource of a paged heap  *)
(* is initialised unless the caller brought a lock.                         *)
Paged(k) == k.paged /\ k.lock # "user"

RtlCreateHeap(t, k) ==
    /\ pc[t] = "Idle"
    /\ phase \in {"default", "core", "up"}
    /\ phase # "up" => AllIdle /\ k = OwnLock
    /\ \E h \in Heaps \ pool :
         /\ pool' = pool \cup {h}
         /\ Index' = [Index EXCEPT ![h] = 0]
         /\ kind' = [kind EXCEPT ![h] = k]
         /\ Blocks' = [Blocks EXCEPT ![h] = {}]
         /\ resources' = IF Paged(k) THEN resources \cup {h} ELSE resources
         /\ heap' = [heap EXCEPT ![t] = h]
    /\ Goto(t, "Append")
    /\ UNCHANGED <<phase, entries, data, Size, peb, names, entry, old, pos, Idx,
                   fault>>

(* A creation that failed in the startup ends it: without MusaCoreHeap the  *)
(* list is torn down, without the default heap the PEB goes at once.        *)
AfterFailure ==
    /\ phase' = CASE phase = "default" -> "down"
                  [] phase = "core" -> "heaps"
                  [] OTHER -> phase
    /\ Idx' = IF phase = "core" THEN MaximumNumberOfHeaps ELSE Idx

RtlCreateHeapFails(t) ==
    /\ pc[t] = "Idle"
    /\ phase \in {"default", "core"}
    /\ AllIdle
    /\ AfterFailure
    /\ UNCHANGED <<heaps, blocks, peb, names, locals, fault>>

(* The index of a heap counts from one, zero is a heap that is not listed.  *)
BadNewIndex == NumberOfHeaps
NewIndex    == NumberOfHeaps + 1

(* The entry that is written last, and who keeps the handle.                *)
AddEntry(t, list) ==
    LET h == heap[t] IN
    /\ ProcessHeaps' = [list EXCEPT ![NumberOfHeaps + 1] = h]
    /\ NumberOfHeaps' = NumberOfHeaps + 1
    /\ Index' = [Index EXCEPT ![h] = NewIndex]
    /\ DefaultHeap' = IF phase = "default" THEN h ELSE DefaultHeap
    /\ MusaCoreHeap' = IF phase = "core" THEN h ELSE MusaCoreHeap
    /\ owned' = IF phase = "up" THEN owned \cup {h} ELSE owned
    /\ phase' = CASE phase = "default" -> "core"
                  [] phase = "core" -> "up"
                  [] OTHER -> phase
    /\ UNCHANGED <<pool, kind, resources, Idx>>

(* RtlAppendHeap, under the PEB lock, with room in the array ...            *)
RtlAppendHeap(t) ==
    /\ At(t, "Append")
    /\ PebLockFree
    /\ NumberOfHeaps < MaximumNumberOfHeaps
    /\ AddEntry(t, ProcessHeaps)
    /\ Goto(t, "Idle")
    /\ heap' = [heap EXCEPT ![t] = NULL]
    /\ UNCHANGED <<blocks, MaximumNumberOfHeaps, array, entry, old, pos, fault>>

(* ... with a full array, which is moved to a block of the default heap of  *)
(* twice its length: the second half is not initialised ...                 *)
RtlAppendHeapGrows(t) ==
    /\ At(t, "Append")
    /\ PebLockFree
    /\ NumberOfHeaps = MaximumNumberOfHeaps
    /\ MaximumNumberOfHeaps' = MaximumNumberOfHeaps * 2
    /\ \E e \in Entries \ entries :
         /\ array' = e
         /\ Size' = [Size EXCEPT ![e] = PageSize]
         /\ entries' = (entries \cup {e}) \ {array}
         /\ data' = (data \cup {e}) \ {array}
         /\ Blocks' = [Blocks EXCEPT ![DefaultHeap] = (@ \cup {e}) \ {array}]
    /\ \E tail \in [NumberOfHeaps + 1 .. MaximumNumberOfHeaps' -> {NULL, Garbage}] :
         AddEntry(t, [i \in 1 .. MaximumNumberOfHeaps' |->
                        IF i <= NumberOfHeaps THEN ProcessHeaps[i] ELSE tail[i]])
    /\ Goto(t, "Idle")
    /\ heap' = [heap EXCEPT ![t] = NULL]
    /\ UNCHANGED <<entry, old, pos, fault>>

(* ... or with a full array that cannot be moved: the length is restored    *)
(* and RtlCreateHeap gives everything back.                                 *)
BadMaximumAfterFailure == MaximumNumberOfHeaps * 2
MaximumAfterFailure    == NumberOfHeaps

RtlAppendHeapFails(t) ==
    /\ At(t, "Append")
    /\ PebLockFree
    /\ NumberOfHeaps = MaximumNumberOfHeaps
    /\ MaximumNumberOfHeaps' = MaximumAfterFailure
    /\ pool' = pool \ {heap[t]}
    /\ resources' = resources \ {heap[t]}
    /\ AfterFailure
    /\ Goto(t, "Idle")
    /\ heap' = [heap EXCEPT ![t] = NULL]
    /\ UNCHANGED <<Index, kind, blocks, NumberOfHeaps, ProcessHeaps, array, names,
                   entry, old, pos, fault>>

-----------------------------------------------------------------------------
(* RtlAllocateHeap takes the memory first, without the lock; with a block e *)
(* to replace it is the middle of RtlReAllocateHeap.                        *)
Usable == owned \cup ({DefaultHeap, MusaCoreHeap} \ {NULL})

(* Blocks clients hold: not the list itself, nor one that is reallocated.   *)
Held(h) == Blocks[h] \ ({array} \cup {old[t] : t \in Threads})

RtlAllocateHeap(t, h, s, e) ==
    /\ phase = "up"
    /\ pc[t] = "Idle"
    /\ h \in Usable
    /\ e \in Held(h) \cup {NULL}
    /\ \E b \in Entries \ entries :
         /\ entries' = entries \cup {b}
         /\ data' = IF s < PageSize THEN data ELSE data \cup {b}
         /\ Size' = [Size EXCEPT ![b] = s]
         /\ entry' = [entry EXCEPT ![t] = b]
    /\ heap' = [heap EXCEPT ![t] = h]
    /\ old' = [old EXCEPT ![t] = e]
    /\ Goto(t, "Insert")
    /\ UNCHANGED <<phase, heaps, Blocks, peb, names, pos, Idx, fault>>

RtlAllocateHeapInsert(t) ==
    /\ At(t, "Insert")
    /\ Blocks' = [Blocks EXCEPT ![heap[t]] = @ \cup {entry[t]}]
    /\ entry' = [entry EXCEPT ![t] = NULL]
    /\ Goto(t, IF old[t] = NULL THEN "Idle" ELSE "FreeOld")
    /\ heap' = [heap EXCEPT ![t] = IF old[t] = NULL THEN NULL ELSE @]
    /\ UNCHANGED <<phase, heaps, entries, data, Size, peb, names, old, pos, Idx,
                   fault>>

(* The old block goes when the new one has its contents.                    *)
RtlReAllocateHeapFree(t) ==
    /\ At(t, "FreeOld")
    /\ Blocks' = [Blocks EXCEPT ![heap[t]] = @ \ {old[t]}]
    /\ FreeBlocks({old[t]})
    /\ Goto(t, "Idle")
    /\ old' = [old EXCEPT ![t] = NULL]
    /\ heap' = [heap EXCEPT ![t] = NULL]
    /\ UNCHANGED <<phase, heaps, Size, peb, names, entry, pos, Idx, fault>>

RtlFreeHeap(t, h, e) ==
    /\ phase = "up"
    /\ pc[t] = "Idle"
    /\ h \in Usable
    /\ e \in Held(h)
    /\ Blocks' = [Blocks EXCEPT ![h] = @ \ {e}]
    /\ FreeBlocks({e})
    /\ UNCHANGED <<phase, heaps, Size, peb, names, locals, Idx, fault>>

-----------------------------------------------------------------------------
(* RtlDestroyHeap(h): the blocks under the heap lock ...                    *)
DestroyBlocks(t, h) ==
    /\ Blocks' = [Blocks EXCEPT ![h] = {}]
    /\ FreeBlocks(Blocks[h])
    /\ heap' = [heap EXCEPT ![t] = h]
    /\ Goto(t, "Remove")
    /\ UNCHANGED <<heaps, Size, peb, entry, old, pos, fault>>

(* ... called by a client that has finished with the heap ...               *)
RtlDestroyHeap(t, h) ==
    /\ phase = "up"
    /\ pc[t] = "Idle"
    /\ h \in owned
    /\ \A u \in Threads : heap[u] # h
    /\ owned' = owned \ {h}
    /\ DestroyBlocks(t, h)
    /\ UNCHANGED <<phase, DefaultHeap, MusaCoreHeap, Idx>>

(* ... RtlRemoveHeap under the PEB lock.  The entries behind it move down;  *)
(* the index of each is corrected through the entry, which holds an encoded *)
(* pointer and no heap: the write goes somewhere else, or stops the system. *)
(* The last entry is cleared, wherever the array is now ...                 *)
RtlRemoveHeap(t) ==
    LET h == heap[t]
        i == Index[h]
        n == NumberOfHeaps
        listed == n # 0 /\ i # 0 /\ i <= n
        wrong  == {f \in Faults : \/ f = "index" /\ listed /\ i < n
                                  \/ f = "list" /\ listed
                                       /\ array # NULL /\ array \notin entries}
    IN  /\ At(t, "Remove")
        /\ PebLockFree
        /\ fault' = fault \cup wrong
        /\ \/ /\ IF listed
                 THEN /\ ProcessHeaps' =
                           [j \in DOMAIN ProcessHeaps |->
                              IF j = n THEN NULL
                              ELSE IF i <= j /\ j < n THEN ProcessHeaps[j + 1]
                              ELSE ProcessHeaps[j]]
                      /\ NumberOfHeaps' = n - 1
                      /\ Index' = [Index EXCEPT ![h] = 0]
                 ELSE UNCHANGED <<ProcessHeaps, NumberOfHeaps, Index>>
              /\ Goto(t, "Release")
              /\ UNCHANGED phase
           \/ /\ wrong # {}
              /\ phase' = "stopped"
              /\ UNCHANGED <<ProcessHeaps, NumberOfHeaps, Index, pc>>
        /\ UNCHANGED <<pool, kind, resources, blocks, MaximumNumberOfHeaps, array,
                       names, heap, entry, old, pos, Idx>>

(* ... and the structure.  A heap without serialisation keeps its lock.     *)
RtlDestroyHeapRelease(t) ==
    /\ At(t, "Release")
    /\ pool' = pool \ {heap[t]}
    /\ resources' = IF kind[heap[t]].lock = "own" THEN resources \ {heap[t]}
                                                  ELSE resources
    /\ heap' = [heap EXCEPT ![t] = NULL]
    /\ Goto(t, "Idle")
    /\ phase' = IF phase = "unload" THEN "heaps" ELSE phase
    /\ Idx' = CASE phase = "unload" -> MaximumNumberOfHeaps
                [] phase = "heaps" -> Idx - 1
                [] OTHER -> Idx
    /\ UNCHANGED <<Index, kind, blocks, peb, names, entry, old, pos, fault>>

-----------------------------------------------------------------------------
(* RtlEnumProcessHeaps: the lock is shared and held around every call of    *)
(* the routine, which is given the entry at pos.                            *)
RtlEnumProcessHeaps(t) ==
    /\ phase = "up"
    /\ pc[t] = "Idle"
    /\ NumberOfHeaps > 0
    /\ pos' = [pos EXCEPT ![t] = 1]
    /\ Goto(t, "Enum")
    /\ UNCHANGED <<phase, heaps, blocks, peb, names, heap, entry, old, Idx, fault>>

(* The routine returns: the next entry, or the end, also when it failed.    *)
EnumNext(t) ==
    /\ At(t, "Enum")
    /\ \/ /\ pos[t] < NumberOfHeaps
          /\ pos' = [pos EXCEPT ![t] = @ + 1]
          /\ UNCHANGED pc
       \/ /\ pos' = [pos EXCEPT ![t] = 0]
          /\ Goto(t, "Idle")
    /\ UNCHANGED <<phase, heaps, blocks, peb, names, heap, entry, old, Idx, fault>>

-----------------------------------------------------------------------------
(* EnvironmentBlockTeardown, when no client is left: MusaCoreHeap first ... *)
Unload(t) ==
    /\ phase = "up"
    /\ AllIdle
    /\ phase' = "unload"
    /\ DestroyBlocks(t, MusaCoreHeap)
    /\ MusaCoreHeap' = NULL
    /\ UNCHANGED <<DefaultHeap, owned, Idx>>

(* ... then ProcessEnvironmentBlockTeardown walks the whole array downwards *)
(* and destroys what every entry that is not null names.                    *)
TeardownHeap(t) ==
    /\ phase = "heaps"
    /\ AllIdle
    /\ Idx > 0
    /\ ProcessHeaps[Idx] \in pool
    /\ DestroyBlocks(t, ProcessHeaps[Idx])
    /\ UNCHANGED <<phase, names, Idx>>

TeardownSkip ==
    /\ phase = "heaps"
    /\ AllIdle
    /\ Idx > 0
    /\ ProcessHeaps[Idx] = NULL
    /\ Idx' = Idx - 1
    /\ UNCHANGED <<phase, heaps, blocks, peb, names, locals, fault>>

TeardownFault ==
    /\ phase = "heaps"
    /\ AllIdle
    /\ Idx > 0
    /\ ProcessHeaps[Idx] \notin pool \cup {NULL}
    /\ fault' = fault \cup {IF ProcessHeaps[Idx] = Garbage THEN "tail" ELSE "stale"}
    /\ phase' = "stopped"
    /\ UNCHANGED <<heaps, blocks, peb, names, locals, Idx>>

TeardownEnd ==
    /\ phase = "heaps"
    /\ AllIdle
    /\ Idx = 0
    /\ phase' = "down"
    /\ DefaultHeap' = NULL
    /\ owned' = {}
    /\ UNCHANGED <<heaps, blocks, peb, MusaCoreHeap, locals, Idx, fault>>

-----------------------------------------------------------------------------
ThreadStep(t) ==
    \/ RtlAppendHeap(t) \/ RtlAppendHeapGrows(t) \/ RtlAppendHeapFails(t)
    \/ RtlAllocateHeapInsert(t) \/ RtlReAllocateHeapFree(t)
    \/ RtlRemoveHeap(t) \/ RtlDestroyHeapRelease(t) \/ EnumNext(t)
    \/ TeardownHeap(t)

Teardown == TeardownSkip \/ TeardownFault \/ TeardownEnd

ClientCall(t) ==
    \/ \E k \in Kinds \cup {OwnLock} : RtlCreateHeap(t, k)
    \/ RtlCreateHeapFails(t)
    \/ \E h \in Heaps, s \in Sizes, e \in Entries \cup {NULL} :
         RtlAllocateHeap(t, h, s, e)
    \/ \E h \in Heaps, e \in Entries : RtlFreeHeap(t, h, e)
    \/ \E h \in Heaps : RtlDestroyHeap(t, h)
    \/ RtlEnumProcessHeaps(t)
    \/ Unload(t)

Next ==
    \/ \E t \in Threads : ThreadStep(t) \/ ClientCall(t)
    \/ Teardown

Spec == Init /\ [][Next]_vars

-----------------------------------------------------------------------------
(* PROPERTIES                                                               *)

(* Until a fault, the list and the heaps agree: every entry up to the count *)
(* names an allocated heap whose index is that entry, every other allocated *)
(* heap is being created or released, and an array that never moved is zero *)
(* behind the count, so that the teardown finds each heap once.  The array  *)
(* always has the length that the list claims, after a fault as well.       *)
HeapListSound ==
    /\ NumberOfHeaps <= MaximumNumberOfHeaps
    /\ DOMAIN ProcessHeaps = 1 .. MaximumNumberOfHeaps
    /\ fault = {} =>
      /\ \A i \in 1 .. NumberOfHeaps :
           ProcessHeaps[i] \in pool /\ Index[ProcessHeaps[i]] = i
      /\ \A h \in pool :
           \/ Index[h] \in 1 .. NumberOfHeaps
           \/ \E t \in Threads : heap[t] = h /\ pc[t] \in {"Append", "Release"}
      /\ array = NULL => \A i \in NumberOfHeaps + 1 .. MaximumNumberOfHeaps :
                             ProcessHeaps[i] = NULL

(* The routine of an enumeration is only ever given heaps whose structure   *)
(* is still there, although heaps are created and destroyed beside it.      *)
EnumeratedAlive ==
    fault = {} =>
      \A t \in Threads : pc[t] = "Enum" => ProcessHeaps[pos[t]] \in pool

(* Pool memory is owned exactly once: a block by one allocated heap or by   *)
(* the call that is about to insert it, a data part by its block, an        *)
(* initialised resource by its heap; and nothing is left after the unload.  *)
PoolAccounting ==
    LET InCalls == {entry[t] : t \in Threads} \ {NULL}
    IN  fault = {} =>
          /\ entries = InCalls \cup UNION {Blocks[h] : h \in pool}
          /\ \A h \in pool : Blocks[h] \cap InCalls = {}
          /\ \A g, h \in pool : g # h => Blocks[g] \cap Blocks[h] = {}
          /\ data = {e \in entries : Size[e] >= PageSize}
          /\ resources = {h \in pool : Paged(kind[h])}
          /\ phase = "down" => pool = {} /\ entries = {}

(* What a thread sees of the heaps: the ones on the list, the blocks in     *)
(* them but for the list's own, and what its enumeration was given.         *)
Listed == {ProcessHeaps[i] : i \in 1 .. NumberOfHeaps}
InUse  == [h \in Heaps |-> IF h \in Listed THEN Blocks[h] \ {array} ELSE {}]
Dying  == {h \in Heaps : \E t \in Threads : pc[t] = "Remove" /\ heap[t] = h}
Shown  == [t \in Threads |->
             IF pc[t] = "Enum" THEN {ProcessHeaps[i] : i \in 1 .. pos[t]} ELSE {}]

(* Creation, destruction, growth of the array and reallocation take several *)
(* critical sections each, and other threads run in between; until a fault   *)
(* it looks as if heaps and blocks came and went at once, and as if each     *)
(* enumeration looked at one list.                                          *)
Promise == INSTANCE SharedHeaps
             WITH listed <- Listed, blocks <- InUse, dying <- Dying,
                  shown <- Shown, broken <- fault # {}

Implements == Promise!Spec
=============================================================================
