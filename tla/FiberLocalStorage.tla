-------------------------- MODULE FiberLocalStorage --------------------------
(***************************************************************************)
(* Fiber (and thread) local storage of Musa.Core: RtlFlsContext, the      *)
(* per-thread RTL_FLS_DATA blocks, and the five operations that touch      *)
(* them: RtlFlsAlloc, RtlFlsFree, RtlFlsGetValue, RtlFlsSetValue and the   *)
(* processing of a block when its thread exits or the driver unloads.      *)
(*                                                                         *)
(* The interesting part is what happens with the lock dropped.  RtlFlsFree *)
(* walks the list of blocks under the spin lock but releases it around     *)
(* each client callback; RtlFlsSetValue takes the lock only to link a new  *)
(* block; FlsDataCleanup runs the callbacks of an exiting thread while its *)
(* block is still on the list.  Every such window is a step of its own.    *)
(*                                                                         *)
(* The list is kept as the two link fields of each LIST_ENTRY, because the *)
(* code removes an entry twice when the driver unloads.  Outcomes that     *)
(* leave every variable as it was (an invalid index, an exhausted bitmap,  *)
(* a failed allocation) are stuttering steps and have no action.           *)
(***************************************************************************)
EXTENDS Naturals

CONSTANTS Threads,     \* threads that call the API
          MaxIndices,  \* RTLP_FLS_MAXIMUM_AVAILABLE
          Callbacks,   \* PFLS_CALLBACK_FUNCTION values a client registers
          Values,      \* non-null pointers a client stores in a slot
          Blocks,      \* heap addresses an RTL_FLS_DATA can have
          Head,        \* &RtlFlsContext.FlsListHead
          NULL,
          MaxRestarts,   \* bound: how often FlsCreate runs after an unload
          AllowTls,    \* clients may allocate without a callback (TlsAlloc)
          FreeAlone    \* client contract: RtlFlsFree overlaps no other call

Indices == 0 .. MaxIndices - 1
Entries == Blocks \cup {Head}

ASSUME FlsAssumption ==
    /\ MaxIndices \in Nat \ {0}
    /\ MaxRestarts \in Nat
    /\ Head \notin Blocks
    /\ NULL \notin Threads \cup Callbacks \cup Values \cup Blocks \cup {Head}
    /\ NULL \notin [Indices -> Callbacks \cup {NULL}]
    /\ AllowTls \in BOOLEAN
    /\ FreeAlone \in BOOLEAN

VARIABLES
    Lock,         \* thread that holds RtlFlsContext.Lock, or NULL
    FlsBitmap,    \* set of the indices whose bit is set
    FlsCallback,  \* the callback array, or NULL while it is not allocated
    FlsHighIndex,
    Flink, Blink, \* the link fields of the list head and of every block
    Slots,        \* contents of RTL_FLS_DATA.Slots
    live,         \* blocks that are allocated on the process heap
    FlsData,      \* Teb->FlsData of each thread
    phase,        \* "up", "cleanup" (FlsCleanup is running) or "down"
    restarts,
    pc, FlsIndex, Entry, Callback, NewValue, HighIndex  \* locals of the calls

(* History variables: they record what clients are owed, nothing reads them. *)
VARIABLES
    linked,       \* blocks between InsertTailList and their removal
    held,         \* indices RtlFlsAlloc has handed out since FlsCreate
    registered,   \* callback given to the RtlFlsAlloc that owns an index
    mine,         \* what a thread last stored under the current allocation
    running,      \* callback call in progress in a thread
    owed,         \* values whose callback has still to run
    lost          \* owed values whose block was freed without the call

fls    == <<Lock, FlsBitmap, FlsCallback, FlsHighIndex>>
list   == <<Flink, Blink, linked>>
locals == <<pc, FlsIndex, Entry, Callback, NewValue, HighIndex>>
ghosts == <<held, registered, mine, running, owed, lost>>
vars   == <<fls, list, Slots, live, FlsData, phase, restarts, locals, ghosts>>

FreeSteps    == {"Scan", "Call", "Resume"}
CleanupSteps == {"Begin", "Slot", "Clear", "Unlink", "Free"}

(* What a callback call, and an account entry, consists of.                 *)
Calls  == [val : Values \cup {NULL}, cb : Callbacks \cup {NULL}, idx : Indices]
Losses == [val : Values \cup {NULL}, idx : Indices, high : Indices]

TypeOK ==
    /\ Lock \in Threads \cup {NULL}
    /\ FlsBitmap \subseteq Indices
    /\ FlsCallback \in [Indices -> Callbacks \cup {NULL}] \cup {NULL}
    /\ FlsHighIndex \in Indices
    /\ Flink \in [Entries -> Entries]
    /\ Blink \in [Entries -> Entries]
    /\ Slots \in [Blocks -> [Indices -> Values \cup {NULL}]]
    /\ live \subseteq Blocks
    /\ FlsData \in [Threads -> Blocks \cup {NULL}]
    /\ phase \in {"up", "cleanup", "down"}
    /\ restarts \in 0 .. MaxRestarts
    /\ pc \in [Threads -> {"Idle", "Insert", "Store", "Next"}
                              \cup FreeSteps \cup CleanupSteps]
    /\ FlsIndex \in [Threads -> Nat]
    /\ Entry \in [Threads -> Entries \cup {NULL}]
    /\ Callback \in [Threads -> Callbacks \cup {NULL}]
    /\ NewValue \in [Threads -> Values \cup {NULL}]
    /\ HighIndex \in [Threads -> Indices]
    /\ linked \subseteq Blocks
    /\ held \subseteq Indices
    /\ registered \in [Indices -> Callbacks \cup {NULL}]
    /\ mine \in [Threads -> [Indices -> Values \cup {NULL}]]
    /\ running \in [Threads -> Calls \cup {NULL}]
    /\ owed \subseteq Calls
    /\ lost \subseteq Losses

NoSlots     == [i \in Indices |-> NULL]
NoCallbacks == [i \in Indices |-> NULL]

Init ==
    /\ Lock = NULL
    /\ FlsBitmap = {}
    /\ FlsCallback = NULL
    /\ FlsHighIndex = 0
    /\ Flink = [e \in Entries |-> e]
    /\ Blink = [e \in Entries |-> e]
    /\ Slots = [d \in Blocks |-> NoSlots]
    /\ live = {}
    /\ FlsData = [t \in Threads |-> NULL]
    /\ phase = "up"
    /\ restarts = 0
    /\ pc = [t \in Threads |-> "Idle"]
    /\ FlsIndex = [t \in Threads |-> 0]
    /\ Entry = [t \in Threads |-> NULL]
    /\ Callback = [t \in Threads |-> NULL]
    /\ NewValue = [t \in Threads |-> NULL]
    /\ HighIndex = [t \in Threads |-> 0]
    /\ linked = {}
    /\ held = {}
    /\ registered = [i \in Indices |-> NULL]
    /\ mine = [t \in Threads |-> NoSlots]
    /\ running = [t \in Threads |-> NULL]
    /\ owed = {}
    /\ lost = {}

-----------------------------------------------------------------------------
(* The list routines of the WDK, on the two link fields.  A definition      *)
(* named Bad... is a seeded fault: the definition below it with one slip,   *)
(* used to see that a property notices.                                     *)

BadInsertTailList(d) ==
    /\ Flink' = [Flink EXCEPT ![d] = Head, ![Blink[Head]] = d]
    /\ Blink' = [Blink EXCEPT ![d] = Blink[Head]]
    /\ linked' = linked \cup {d}

InsertTailList(d) ==
    /\ Flink' = [Flink EXCEPT ![d] = Head, ![Blink[Head]] = d]
    /\ Blink' = [Blink EXCEPT ![d] = Blink[Head], ![Head] = d]
    /\ linked' = linked \cup {d}

BadRemoveEntryList(d) ==
    /\ Blink' = [Blink EXCEPT ![Flink[d]] = Blink[d]]
    /\ linked' = linked \ {d}
    /\ UNCHANGED Flink

RemoveEntryListUnsafe(d) ==
    /\ Flink' = [Flink EXCEPT ![Blink[d]] = Flink[d]]
    /\ Blink' = [Blink EXCEPT ![Flink[d]] = Blink[d]]
    /\ linked' = linked \ {d}

(* The walk of RtlFlsFree: where it begins and how it goes on.              *)
BadFirstEntry == Flink[Flink[Head]]
FirstEntry    == Flink[Head]

BadNextEntry(d) == d
NextEntry(d)    == Flink[d]

BadReleaseLock == UNCHANGED Lock
ReleaseLock    == Lock' = NULL

(* Slot i of block d after its callback has run, or had none to run.        *)
BadClearSlot(d, i) == UNCHANGED Slots
ClearSlot(d, i)    == Slots' = [Slots EXCEPT ![d][i] = NULL]

(* A new RTL_FLS_DATA comes from the heap with HEAP_ZERO_MEMORY.            *)
BadNewBlock(d) == UNCHANGED Slots
NewBlock(d)    == Slots' = [Slots EXCEPT ![d] = NoSlots]

BadNewHighIndex(i) == i + 1
NewHighIndex(i)    == IF i > FlsHighIndex THEN i ELSE FlsHighIndex

(* First slot of the loop in FlsDataCleanup.                                *)
BadFirstSlot == 1
FirstSlot    == 0

(* What deleting the TEB of an exiting thread leaves as its block pointer.  *)
BadDeletedTeb(t) == UNCHANGED FlsData
DeletedTeb(t)    == FlsData' = [FlsData EXCEPT ![t] = NULL]

-----------------------------------------------------------------------------
(* Client contract, not code: when a thread may start a call.               *)

Start(t) ==
    /\ phase = "up"
    /\ pc[t] = "Idle"
    /\ FreeAlone => \A u \in Threads : pc[u] \notin FreeSteps

Alone(t) == \A u \in Threads \ {t} : pc[u] = "Idle"

(* An index whose bit outlived an unload was handed to nobody since; any    *)
(* other index, allocated or not, may be passed in.                         *)
Usable == Indices \ (FlsBitmap \ held)

(* A client stores a pointer it owns: one that sits in no slot of a live    *)
(* block, is not being stored and is not owed to a callback.                *)
Stored == {Slots[d][i] : d \in live, i \in Indices}

FreshValues == Values \ (Stored \cup {NewValue[t] : t \in Threads}
                            \cup {o.val : o \in owed \cup lost})

(* What a slot owes its owner, given the callback of the allocation.        *)
Due(v, i) == IF v = NULL \/ registered[i] = NULL
             THEN {}
             ELSE {[val |-> v, cb |-> registered[i], idx |-> i]}

Return(t) == pc' = [pc EXCEPT ![t] = "Idle"]

-----------------------------------------------------------------------------
(* RtlFlsAlloc: one critical section.  The lowest clear bit is taken; the   *)
(* callback array is allocated on first use and its entry written only when *)
(* a callback was given.                                                    *)
RtlFlsAlloc(t, c) ==
    /\ Start(t)
    /\ Lock = NULL
    /\ \E i \in Indices \ FlsBitmap :
        /\ \A j \in Indices : j < i => j \in FlsBitmap
        /\ FlsBitmap' = FlsBitmap \cup {i}
        /\ FlsCallback' =
             IF c = NULL THEN FlsCallback
             ELSE [(IF FlsCallback = NULL THEN NoCallbacks ELSE FlsCallback)
                     EXCEPT ![i] = c]
        /\ FlsHighIndex' = NewHighIndex(i)
        /\ held' = held \cup {i}
        /\ registered' = [registered EXCEPT ![i] = c]
        /\ mine' = [u \in Threads |-> [mine[u] EXCEPT ![i] = NULL]]
    /\ UNCHANGED <<Lock, list, Slots, live, FlsData, phase, restarts, locals,
                   running, owed, lost>>

(* RtlFlsFree: the bit is cleared first; the list is walked only when a     *)
(* callback array exists.  The lock stays held into the scan.               *)
RtlFlsFree(t, i) ==
    /\ Start(t)
    /\ FreeAlone => Alone(t)
    /\ Lock = NULL
    /\ i \in FlsBitmap
    /\ FlsBitmap' = FlsBitmap \ {i}
    /\ held' = held \ {i}
    /\ IF FlsCallback = NULL
       THEN UNCHANGED <<Lock, locals>>
       ELSE /\ Lock' = t
            /\ pc' = [pc EXCEPT ![t] = "Scan"]
            /\ FlsIndex' = [FlsIndex EXCEPT ![t] = i]
            /\ Entry' = [Entry EXCEPT ![t] = FirstEntry]
            /\ UNCHANGED <<Callback, NewValue, HighIndex>>
    /\ UNCHANGED <<FlsCallback, FlsHighIndex, list, Slots, live, FlsData,
                   phase, restarts, registered, mine, running, owed, lost>>

(* One turn of the walk, with the lock held: leave at the list head; drop   *)
(* the lock when a callback is due; otherwise clear the slot and move on.   *)
RtlFlsFreeScan(t) ==
    LET d == Entry[t]
        i == FlsIndex[t]
    IN  /\ pc[t] = "Scan"
        /\ \/ /\ d = Head
              /\ ReleaseLock
              /\ Return(t)
              /\ FlsIndex' = [FlsIndex EXCEPT ![t] = 0]
              /\ Entry' = [Entry EXCEPT ![t] = NULL]
              /\ UNCHANGED <<Slots, Callback>>
           \/ /\ d # Head /\ FlsCallback[i] # NULL /\ Slots[d][i] # NULL
              /\ Lock' = NULL
              /\ pc' = [pc EXCEPT ![t] = "Call"]
              /\ Callback' = [Callback EXCEPT ![t] = FlsCallback[i]]
              /\ UNCHANGED <<Slots, FlsIndex, Entry>>
           \/ /\ d # Head /\ (FlsCallback[i] = NULL \/ Slots[d][i] = NULL)
              /\ ClearSlot(d, i)
              /\ Entry' = [Entry EXCEPT ![t] = NextEntry(d)]
              /\ UNCHANGED <<Lock, pc, FlsIndex, Callback>>
        /\ UNCHANGED <<FlsBitmap, FlsCallback, FlsHighIndex, list, live,
                       FlsData, phase, restarts, NewValue, HighIndex, ghosts>>

(* The lock is free; the slot is read again for the argument.               *)
RtlFlsFreeCall(t) ==
    /\ pc[t] = "Call"
    /\ running' = [running EXCEPT ![t] = [val |-> Slots[Entry[t]][FlsIndex[t]],
                                          cb  |-> Callback[t],
                                          idx |-> FlsIndex[t]]]
    /\ pc' = [pc EXCEPT ![t] = "Resume"]
    /\ UNCHANGED <<fls, list, Slots, live, FlsData, phase, restarts, FlsIndex,
                   Entry, Callback, NewValue, HighIndex, held, registered, mine,
                   owed, lost>>

(* The callback returns, the lock is taken again, the slot is cleared and   *)
(* the walk goes on from the entry it stopped at.                           *)
RtlFlsFreeResume(t) ==
    LET d == Entry[t]
        i == FlsIndex[t]
    IN  /\ pc[t] = "Resume"
        /\ Lock = NULL
        /\ Lock' = t
        /\ ClearSlot(d, i)
        /\ Entry' = [Entry EXCEPT ![t] = NextEntry(d)]
        /\ pc' = [pc EXCEPT ![t] = "Scan"]
        /\ Callback' = [Callback EXCEPT ![t] = NULL]
        /\ owed' = owed \ {running[t]}
        /\ running' = [running EXCEPT ![t] = NULL]
        /\ UNCHANGED <<FlsBitmap, FlsCallback, FlsHighIndex, list, live,
                       FlsData, phase, restarts, FlsIndex, NewValue, HighIndex,
                       held, registered, mine, lost>>

-----------------------------------------------------------------------------
(* What RtlFlsGetValue returns to thread t: it changes nothing.             *)
RtlFlsGetValue(t, i) ==
    IF \/ i >= MaxIndices
       \/ i > FlsHighIndex
       \/ i \notin FlsBitmap
    THEN "STATUS_INVALID_PARAMETER"
    ELSE IF FlsData[t] = NULL THEN "STATUS_MEMORY_NOT_ALLOCATED"
    ELSE Slots[FlsData[t]][i]

(* RtlFlsSetValue: the checks, without the lock, then the thread's block,   *)
(* allocated zeroed on its first store.                                     *)
RtlFlsSetValue(t, i, v) ==
    /\ Start(t)
    /\ i <= FlsHighIndex
    /\ i \in FlsBitmap
    /\ FlsIndex' = [FlsIndex EXCEPT ![t] = i]
    /\ NewValue' = [NewValue EXCEPT ![t] = v]
    /\ \/ /\ FlsData[t] # NULL
          /\ pc' = [pc EXCEPT ![t] = "Store"]
          /\ UNCHANGED <<FlsData, live, Slots>>
       \/ /\ FlsData[t] = NULL
          /\ \E d \in Blocks \ live :
               /\ live' = live \cup {d}
               /\ NewBlock(d)
               /\ FlsData' = [FlsData EXCEPT ![t] = d]
          /\ pc' = [pc EXCEPT ![t] = "Insert"]
    /\ UNCHANGED <<fls, list, phase, restarts, Entry, Callback, HighIndex, ghosts>>

RtlFlsSetInsert(t) ==
    /\ pc[t] = "Insert"
    /\ Lock = NULL
    /\ InsertTailList(FlsData[t])
    /\ pc' = [pc EXCEPT ![t] = "Store"]
    /\ UNCHANGED <<fls, Slots, live, FlsData, phase, restarts, FlsIndex, Entry,
                   Callback, NewValue, HighIndex, ghosts>>

(* The store itself.  A value it replaces goes back to the client.          *)
RtlFlsSetStore(t) ==
    LET d == FlsData[t]
        i == FlsIndex[t]
    IN  /\ pc[t] = "Store"
        /\ Slots' = [Slots EXCEPT ![d][i] = NewValue[t]]
        /\ owed' = {o \in owed : o.val # Slots[d][i]} \cup Due(NewValue[t], i)
        /\ mine' = [mine EXCEPT ![t][i] = NewValue[t]]
        /\ Return(t)
        /\ FlsIndex' = [FlsIndex EXCEPT ![t] = 0]
        /\ NewValue' = [NewValue EXCEPT ![t] = NULL]
        /\ UNCHANGED <<fls, list, live, FlsData, phase, restarts, Entry,
                       Callback, HighIndex, held, registered, running, lost>>

-----------------------------------------------------------------------------
(* ThreadNotifyCallbackForTeb: the TEB is deleted, its block processed.     *)
ThreadExit(t) ==
    /\ Start(t)
    /\ FlsData[t] # NULL
    /\ Entry' = [Entry EXCEPT ![t] = FlsData[t]]
    /\ DeletedTeb(t)
    /\ mine' = [mine EXCEPT ![t] = NoSlots]
    /\ pc' = [pc EXCEPT ![t] = "Begin"]
    /\ UNCHANGED <<fls, list, Slots, live, phase, restarts, FlsIndex, Callback,
                   NewValue, HighIndex, held, registered, running, owed, lost>>

(* FlsDataCleanup reads the high index and the array pointer once ...       *)
FlsDataCleanup(t) ==
    /\ pc[t] = "Begin"
    /\ HighIndex' = [HighIndex EXCEPT ![t] = FlsHighIndex]
    /\ FlsIndex' = [FlsIndex EXCEPT ![t] = FirstSlot]
    /\ pc' = [pc EXCEPT ![t] = IF FlsCallback = NULL THEN "Unlink" ELSE "Slot"]
    /\ UNCHANGED <<fls, list, Slots, live, FlsData, phase, restarts, Entry,
                   Callback, NewValue, ghosts>>

(* ... and walks the slots below it with no lock: call the callback of a    *)
(* slot in use, or clear it at once.                                        *)
FlsDataCleanupSlot(t) ==
    LET d == Entry[t]
        i == FlsIndex[t]
    IN  /\ pc[t] = "Slot"
        /\ \/ /\ i >= HighIndex[t]
              /\ pc' = [pc EXCEPT ![t] = "Unlink"]
              /\ UNCHANGED <<Slots, FlsIndex, running>>
           \/ /\ i < HighIndex[t]
              /\ FlsCallback[i] # NULL /\ Slots[d][i] # NULL
              /\ running' = [running EXCEPT ![t] = [val |-> Slots[d][i],
                                                    cb  |-> FlsCallback[i],
                                                    idx |-> i]]
              /\ pc' = [pc EXCEPT ![t] = "Clear"]
              /\ UNCHANGED <<Slots, FlsIndex>>
           \/ /\ i < HighIndex[t]
              /\ FlsCallback[i] = NULL \/ Slots[d][i] = NULL
              /\ ClearSlot(d, i)
              /\ FlsIndex' = [FlsIndex EXCEPT ![t] = i + 1]
              /\ UNCHANGED <<pc, running>>
        /\ UNCHANGED <<fls, list, live, FlsData, phase, restarts, Entry,
                       Callback, NewValue, HighIndex, held, registered, mine,
                       owed, lost>>

(* The callback returns and the slot is cleared.                            *)
FlsDataCleanupClear(t) ==
    /\ pc[t] = "Clear"
    /\ ClearSlot(Entry[t], FlsIndex[t])
    /\ owed' = owed \ {running[t]}
    /\ running' = [running EXCEPT ![t] = NULL]
    /\ FlsIndex' = [FlsIndex EXCEPT ![t] = FlsIndex[t] + 1]
    /\ pc' = [pc EXCEPT ![t] = "Slot"]
    /\ UNCHANGED <<fls, list, live, FlsData, phase, restarts, Entry, Callback,
                   NewValue, HighIndex, held, registered, mine, lost>>

FlsDataCleanupUnlink(t) ==
    /\ pc[t] = "Unlink"
    /\ Lock = NULL
    /\ RemoveEntryListUnsafe(Entry[t])
    /\ pc' = [pc EXCEPT ![t] = "Free"]
    /\ UNCHANGED <<fls, Slots, live, FlsData, phase, restarts, FlsIndex, Entry,
                   Callback, NewValue, HighIndex, ghosts>>

(* The block goes back to the heap; an owed value still in it is lost.      *)
FlsDataCleanupFree(t) ==
    LET d    == Entry[t]
        left == {o \in owed : Slots[d][o.idx] = o.val}
    IN  /\ pc[t] = "Free"
        /\ live' = live \ {d}
        /\ lost' = lost \cup {[val |-> o.val, idx |-> o.idx,
                               high |-> HighIndex[t]] : o \in left}
        /\ owed' = owed \ left
        /\ Entry' = [Entry EXCEPT ![t] = NULL]
        /\ FlsIndex' = [FlsIndex EXCEPT ![t] = 0]
        /\ HighIndex' = [HighIndex EXCEPT ![t] = 0]
        /\ pc' = [pc EXCEPT ![t] = IF phase = "cleanup" THEN "Next" ELSE "Idle"]
        /\ UNCHANGED <<fls, list, Slots, FlsData, phase, restarts, Callback,
                       NewValue, held, registered, mine, running>>

-----------------------------------------------------------------------------
(* Unload: no call is in progress and none restarts until the next FlsCreate. *)
FlsCleanup(t) ==
    /\ phase = "up"
    /\ \A u \in Threads : pc[u] = "Idle"
    /\ phase' = "cleanup"
    /\ pc' = [pc EXCEPT ![t] = "Next"]
    /\ UNCHANGED <<fls, list, Slots, live, FlsData, restarts, FlsIndex, Entry,
                   Callback, NewValue, HighIndex, ghosts>>

(* Unlink the first block and process it; FlsDataCleanup unlinks it again.  *)
FlsCleanupNext(t) ==
    /\ pc[t] = "Next"
    /\ Flink[Head] # Head
    /\ Entry' = [Entry EXCEPT ![t] = Flink[Head]]
    /\ Flink' = [Flink EXCEPT ![Head] = Flink[Flink[Head]]]
    /\ Blink' = [Blink EXCEPT ![Flink[Flink[Head]]] = Head]
    /\ linked' = linked \ {Flink[Head]}
    /\ pc' = [pc EXCEPT ![t] = "Begin"]
    /\ UNCHANGED <<fls, Slots, live, FlsData, phase, restarts, FlsIndex,
                   Callback, NewValue, HighIndex, ghosts>>

(* The list is empty: the callback array is freed, and the teardown that    *)
(* called FlsCleanup deletes every TEB.  Bitmap and high index stay.        *)
FlsCleanupEnd(t) ==
    /\ pc[t] = "Next"
    /\ Flink[Head] = Head
    /\ FlsCallback' = NULL
    /\ FlsData' = [u \in Threads |-> NULL]
    /\ mine' = [u \in Threads |-> NoSlots]
    /\ phase' = "down"
    /\ Return(t)
    /\ UNCHANGED <<Lock, FlsBitmap, FlsHighIndex, list, Slots, live, restarts,
                   FlsIndex, Entry, Callback, NewValue, HighIndex, held, registered,
                   running, owed, lost>>

(* The next startup: FlsCreate resets the lock and the list head;           *)
(* RtlInitializeBitMap points the bitmap at its bits and clears none.       *)
FlsCreate ==
    /\ phase = "down"
    /\ restarts < MaxRestarts
    /\ Lock' = NULL
    /\ Flink' = [Flink EXCEPT ![Head] = Head]
    /\ Blink' = [Blink EXCEPT ![Head] = Head]
    /\ linked' = {}
    /\ phase' = "up"
    /\ restarts' = restarts + 1
    /\ held' = {}
    /\ UNCHANGED <<FlsBitmap, FlsCallback, FlsHighIndex, Slots, live, FlsData,
                   locals, registered, mine, running, owed, lost>>

-----------------------------------------------------------------------------
ThreadStep(t) ==
    \/ RtlFlsFreeScan(t) \/ RtlFlsFreeCall(t) \/ RtlFlsFreeResume(t)
    \/ RtlFlsSetInsert(t) \/ RtlFlsSetStore(t)
    \/ FlsDataCleanup(t) \/ FlsDataCleanupSlot(t) \/ FlsDataCleanupClear(t)
    \/ FlsDataCleanupUnlink(t) \/ FlsDataCleanupFree(t)
    \/ FlsCleanupNext(t) \/ FlsCleanupEnd(t)

ClientCall(t) ==
    \/ \E c \in Callbacks \cup (IF AllowTls THEN {NULL} ELSE {}) :
          RtlFlsAlloc(t, c)
    \/ \E i \in Usable : RtlFlsFree(t, i)
    \/ \E i \in Usable, v \in FreshValues \cup {NULL} : RtlFlsSetValue(t, i, v)
    \/ ThreadExit(t)
    \/ FlsCleanup(t)

Next ==
    \/ \E t \in Threads : ThreadStep(t) \/ ClientCall(t)
    \/ FlsCreate

Spec == Init /\ [][Next]_vars

(* A call that has begun goes on: threads are scheduled, callbacks return,  *)
(* and a thread spinning for the lock gets it if it is free again and again.*)
FairSpec == Spec /\ \A t \in Threads : SF_vars(ThreadStep(t))

-----------------------------------------------------------------------------
(* PROPERTIES                                                               *)

(* The FLS list is one ring through the list head and exactly the blocks    *)
(* that InsertTailList has added and no removal has taken out: the links    *)
(* are inverse to each other, and no group of blocks is closed off.         *)
ListWellFormed ==
    /\ \A e \in linked \cup {Head} :
         /\ Flink[e] \in linked \cup {Head}
         /\ Blink[Flink[e]] = e
         /\ Blink[e] \in linked \cup {Head}
         /\ Flink[Blink[e]] = e
    /\ \A S \in SUBSET linked : (\A d \in S : Flink[d] \in S) => S = {}

(* While FLS is up, a block is on the list exactly when some thread owns it *)
(* and is past InsertTailList and not past RemoveEntryListUnsafe, only live *)
(* blocks are on the list, and no two threads own the same block.           *)
Owns(t) == IF pc[t] \in CleanupSteps THEN Entry[t] ELSE FlsData[t]

ListHoldsOwnedBlocks ==
    phase = "up" =>
      /\ linked \subseteq live
      /\ linked = {Owns(t) : t \in {u \in Threads :
                               pc[u] \notin {"Insert", "Free"}}} \ {NULL}
      /\ \A t, u \in Threads :
           t # u /\ Owns(t) # NULL => Owns(t) # Owns(u)

(* RtlFlsFree only ever dereferences blocks of the FLS list ("enumerate     *)
(* fiber local data structures").                                           *)
Astray(t) == pc[t] \in FreeSteps /\ Entry[t] \notin linked \cup {Head}

CursorOnList == \A t \in Threads : ~ Astray(t)

(* Whatever clients do at the same time, a walk of RtlFlsFree begins on the *)
(* list and leaves it in one way only: while it has dropped the lock for a  *)
(* callback, the thread that owns the very block it stands on exits and     *)
(* unlinks it.  No other exit, insertion, walk or unload, and no step taken *)
(* with the lock held, leads a walk off the list.                           *)
WalkLeavesOnlyByExit ==
    [][\A t \in Threads : ~ Astray(t) /\ Astray(t)' =>
         /\ pc[t] \in {"Call", "Resume"}
         /\ \E u \in Threads \ {t} :
              Entry[u] = Entry[t] /\ FlsDataCleanupUnlink(u)]_vars

(* A callback only ever runs on a value that is owed to it, and on each     *)
(* such value once: not twice, not on NULL, not on a value the client took  *)
(* back or stored under another registration.                               *)
CallbackOwed ==
    \A t \in Threads : running[t] # NULL =>
      /\ running[t] \in owed
      /\ \A u \in Threads \ {t} : running[u] # running[t]

(* Freeing an index settles its account: once RtlFlsFree is done with it    *)
(* nothing is owed under that index.                                        *)
FreedIndexSettled ==
    \A o \in owed :
      \/ o.idx \in FlsBitmap
      \/ \E t \in Threads : pc[t] \in FreeSteps /\ FlsIndex[t] = o.idx

(* FlsDataCleanup frees a block without running a due callback only for a   *)
(* slot at or above the high index it read.                                 *)
LostOnlyAtHighIndex == \A o \in lost : o.idx >= o.high

(* A thread reads back what it last stored under the current allocation of  *)
(* the index, and NULL before that.                                         *)
ReadsOwnValue ==
    \A t \in Threads, i \in Indices :
      pc[t] = "Idle" /\ phase = "up" /\ i \in held
        => RtlFlsGetValue(t, i) \in
             IF FlsData[t] = NULL THEN {"STATUS_MEMORY_NOT_ALLOCATED"}
                                  ELSE {mine[t][i]}

(* A call that walks the list, and the processing of an exiting thread,     *)
(* come to an end.                                                          *)
FreeCompletes ==
    \A t \in Threads : pc[t] \in FreeSteps ~> pc[t] = "Idle"

ExitCompletes ==
    \A t \in Threads : pc[t] \in CleanupSteps ~> pc[t] \notin CleanupSteps
=============================================================================
