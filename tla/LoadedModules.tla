---------------------------- MODULE LoadedModules ----------------------------
(***************************************************************************)
(* The load counts of the loaded modules: LdrGetDllHandleEx, LdrAddRefDll  *)
(* and LdrUnloadDll of Ntdll.LibraryLoader.cpp, the functions beside them  *)
(* that only look a module up, and the Win32 functions on top of them in   *)
(* KernelBase.LibraryLoader.cpp.                                           *)
(*                                                                         *)
(* PsLoadedModuleList and LoadCount, sixteen bits wide, belong to the      *)
(* system; PsLoadedModuleResource guards them.  Where a function holds it  *)
(* exclusive, the whole section is one action.  LdrGetDllHandleEx holds it *)
(* shared and still counts: reading the count and writing it back are two  *)
(* actions.  The list is a set here: a lookup finds some module that       *)
(* matches, where the code finds the first in load order.  What a call     *)
(* answers is an operator on the list: a call that changes no count is     *)
(* nothing but its answer.                                                 *)
(***************************************************************************)
EXTENDS Integers, FiniteSets

CONSTANTS Threads,      \* the threads that call the loader
          Modules,      \* the modules the system may load
          Names,        \* each name a client asks for, as the modules whose path contains it
          Paths,        \* each path a client asks for, as the modules whose path it begins
          Self,         \* the image of the caller, loaded as long as it runs
          NULL,         \* no handle, no path, no name
          TooLong,      \* a string RtlInitUnicodeStringEx refuses
          UINT16_MAX,   \* the largest load count, which stands for "pinned"
          MaxReferences \* bound: the references clients hold to a module

ASSUME LoaderAssumption ==
    /\ UINT16_MAX \in Nat \ {0}
    /\ MaxReferences \in Nat
    /\ {NULL, Self} \cap Modules = {}
    /\ Names \subseteq SUBSET Modules
    /\ Paths \subseteq SUBSET Modules
    /\ {NULL, TooLong} \cap (Names \cup Paths) = {}
    /\ NULL # TooLong

VARIABLES
    careful,            \* whether the clients keep to the rules; chosen at the start
    Loaded,             \* the modules on PsLoadedModuleList
    LoadCount,          \* the field of each KLDR_DATA_TABLE_ENTRY
    system,             \* the modules the system itself holds a reference to
    pc,                 \* where each thread is
    LdrEntry, Count,    \* the entry a counting lookup found and the count it read
    wants,              \* what its caller wants: a reference, a pin, or only the handle
    references, pinned  \* history: the references clients hold, the modules they pinned

lookup == <<pc, LdrEntry, Count, wants>>
vars == <<careful, Loaded, LoadCount, system, lookup, references, pinned>>

TypeOK ==
    /\ careful \in BOOLEAN
    /\ Loaded \subseteq Modules
    /\ LoadCount \in [Modules -> 0..UINT16_MAX]
    /\ system \subseteq Loaded
    /\ pc \in [Threads -> {"Idle", "Count"}]
    /\ LdrEntry \in [Threads -> Modules \cup {NULL}]
    /\ Count \in [Threads -> 0..UINT16_MAX]
    /\ wants \in [Threads -> {"Reference", "Pin", "Handle"}]
    /\ references \in [Modules -> Nat]
    /\ pinned \subseteq Modules

Init ==
    /\ careful \in BOOLEAN
    /\ Loaded = {}
    /\ LoadCount = [m \in Modules |-> 0]
    /\ system = {}
    /\ pc = [t \in Threads |-> "Idle"]
    /\ LdrEntry = [t \in Threads |-> NULL]
    /\ Count = [t \in Threads |-> 0]
    /\ wants = [t \in Threads |-> "Handle"]
    /\ references = [m \in Modules |-> 0]
    /\ pinned = {}

-----------------------------------------------------------------------------
(* PsLoadedModuleResource: exclusive while no lookup is inside its section. *)
BadExclusiveFree == TRUE

ExclusiveFree == \A t \in Threads : pc[t] # "Count"

(* The system loads a driver, or unloads it at the request of who loaded   *)
(* it.                                                                     *)
MmLoadSystemImage(m) ==
    /\ ExclusiveFree
    /\ m \notin system
    /\ system' = system \cup {m}
    /\ Loaded' = Loaded \cup {m}
    /\ \/ m \notin Loaded /\ LoadCount' = [LoadCount EXCEPT ![m] = 1]
       \/ m \in Loaded /\ LoadCount[m] < UINT16_MAX /\ LoadCount' = [LoadCount EXCEPT ![m] = @ + 1]
    /\ UNCHANGED <<lookup, references, pinned>>

MmUnloadSystemImage(m) ==
    /\ ExclusiveFree
    /\ m \in system
    /\ LoadCount[m] < UINT16_MAX
    /\ system' = system \ {m}
    /\ \/ LoadCount[m] <= 1
          /\ Loaded' = Loaded \ {m}
          /\ LoadCount' = [LoadCount EXCEPT ![m] = 0]
       \/ LoadCount[m] > 1
          /\ LoadCount' = [LoadCount EXCEPT ![m] = @ - 1]
          /\ UNCHANGED Loaded
    /\ UNCHANGED <<lookup, references, pinned>>

-----------------------------------------------------------------------------
(* The rules of a careful client: it looks a module up only while no other *)
(* lookup counts that module, and it counts no module up to the last value *)
(* or once it is pinned.  (No client gives back what it does not hold.)    *)
AloneWith(m) == \A t \in Threads : pc[t] = "Count" => LdrEntry[t] # m
BelowLast(m) == LoadCount[m] < UINT16_MAX - 1
NotPinned(m) == LoadCount[m] < UINT16_MAX

(* LdrUnloadDll.  A count goes down to one and never below: the last       *)
(* reference is the system's.                                              *)
CountAfterUnload(c) == IF c > 1 THEN c - 1 ELSE c

LdrUnloadDll(t, DllHandle) ==
    /\ pc[t] = "Idle" /\ ExclusiveFree
    /\ DllHandle \in Loaded
    /\ references[DllHandle] > 0
    /\ careful => NotPinned(DllHandle)
    /\ LoadCount' = [LoadCount EXCEPT ![DllHandle] = CountAfterUnload(@)]
    /\ references' = [references EXCEPT ![DllHandle] = @ - 1]
    /\ UNCHANGED <<Loaded, system, lookup, pinned>>

FreeLibrary(t, DllHandle) == LdrUnloadDll(t, DllHandle)

-----------------------------------------------------------------------------
(* What a lookup answers: its status and the handle it writes, NULL where  *)
(* it leaves the caller's variable alone.                                  *)
Answer(Status, DllHandle) == [Status |-> Status, DllHandle |-> DllHandle]
Found(m) == Answer("SUCCESS", m)
Fails(Status) == {Answer(Status, NULL)}

(* The bits of the flags.  The caller's PIN and UNCHANGED_REFCOUNT are 1   *)
(* and 2, those of LdrGetDllHandleEx are 2 and 1.                          *)
GET_MODULE_HANDLE_EX_FLAG_PIN == 1
GET_MODULE_HANDLE_EX_FLAG_UNCHANGED_REFCOUNT == 2
GET_MODULE_HANDLE_EX_FLAG_FROM_ADDRESS == 4
LDR_GET_DLL_HANDLE_EX_UNCHANGED_REFCOUNT == 1
LDR_GET_DLL_HANDLE_EX_PIN == 2
LDR_ADDREF_DLL_PIN == 1

(* The entries LdrGetDllHandleEx may stop at, and the status it ends with  *)
(* when there is none: that of the last comparison that began, a success   *)
(* if a name matched and only the path did not.                            *)
Matching(DllPath, DllName) ==
    {m \in Loaded \cap DllName : DllPath = NULL \/ (DllPath # TooLong /\ m \in DllPath)}

StatusWithoutMatch(DllPath, DllName) ==
    IF DllPath = NULL \/ Loaded \cap DllName = {} THEN "DLL_NOT_FOUND"
    ELSE IF DllPath = TooLong THEN "NAME_TOO_LONG" ELSE "SUCCESS"

LdrGetDllHandleExAnswers(Flags, DllPath, DllName) ==
    IF {GET_MODULE_HANDLE_EX_FLAG_PIN, GET_MODULE_HANDLE_EX_FLAG_UNCHANGED_REFCOUNT} \subseteq Flags
    THEN Fails("INVALID_PARAMETER")
    ELSE IF Matching(DllPath, DllName) = {} THEN Fails(StatusWithoutMatch(DllPath, DllName))
    ELSE {Found(m) : m \in Matching(DllPath, DllName)}

LdrGetDllHandleAnswers(DllPath, DllName) ==
    LdrGetDllHandleExAnswers({LDR_GET_DLL_HANDLE_EX_UNCHANGED_REFCOUNT}, DllPath, DllName)

(* The lookup up to the count it reads; wish is what its caller is after.  *)
(* The branch for Flags = LDR_ADDREF_DLL_PIN is never taken, because a     *)
(* lookup with that bit ends before it: a lookup that pins only counts.    *)
LdrGetDllHandleEx(t, Flags, DllPath, DllName, wish) ==
    \E m \in Matching(DllPath, DllName) :
        /\ Flags \in {{}, {LDR_GET_DLL_HANDLE_EX_PIN}}
        /\ pc[t] = "Idle"
        /\ careful => AloneWith(m) /\ BelowLast(m)
        /\ references[m] < MaxReferences
        /\ pc' = [pc EXCEPT ![t] = "Count"]
        /\ LdrEntry' = [LdrEntry EXCEPT ![t] = m]
        /\ Count' = [Count EXCEPT ![t] = LoadCount[m]]
        /\ wants' = [wants EXCEPT ![t] = wish]
        /\ UNCHANGED <<Loaded, LoadCount, system, references, pinned>>

(* The count written back, in sixteen bits, and the end of the section.    *)
LdrGetDllHandleExCount(t) ==
    LET m == LdrEntry[t] IN
    /\ pc[t] = "Count"
    /\ LoadCount' = [LoadCount EXCEPT ![m] = (Count[t] + 1) % (UINT16_MAX + 1)]
    /\ references' = [references EXCEPT ![m] = IF wants[t] = "Reference" THEN @ + 1 ELSE @]
    /\ pinned' = IF wants[t] = "Pin" THEN pinned \cup {m} ELSE pinned
    /\ pc' = [pc EXCEPT ![t] = "Idle"]
    /\ LdrEntry' = [LdrEntry EXCEPT ![t] = NULL]
    /\ Count' = [Count EXCEPT ![t] = 0]
    /\ wants' = [wants EXCEPT ![t] = "Handle"]
    /\ UNCHANGED <<Loaded, system>>

-----------------------------------------------------------------------------
(* GetModuleHandleExW.  Only a lookup by name reaches the count; an address *)
(* gives the module around it, and its caller believes it has what it      *)
(* asked for.                                                              *)
Asks(Flags, bit, LdrBit) == IF bit \in Flags THEN {LdrBit} ELSE {}
LdrFlags(Flags) ==
    Asks(Flags, GET_MODULE_HANDLE_EX_FLAG_PIN, LDR_GET_DLL_HANDLE_EX_PIN) \cup
    Asks(Flags, GET_MODULE_HANDLE_EX_FLAG_UNCHANGED_REFCOUNT, LDR_GET_DLL_HANDLE_EX_UNCHANGED_REFCOUNT)

Wish(Flags) ==
    IF GET_MODULE_HANDLE_EX_FLAG_PIN \in Flags THEN "Pin"
    ELSE IF GET_MODULE_HANDLE_EX_FLAG_UNCHANGED_REFCOUNT \in Flags THEN "Handle" ELSE "Reference"

ValidFlags(Flags, ModuleName) ==
    /\ ~({GET_MODULE_HANDLE_EX_FLAG_PIN, GET_MODULE_HANDLE_EX_FLAG_UNCHANGED_REFCOUNT} \subseteq Flags)
    /\ ModuleName = NULL => GET_MODULE_HANDLE_EX_FLAG_FROM_ADDRESS \notin Flags

GetModuleHandleExWAnswers(Flags, ModuleName) ==
    IF ~ValidFlags(Flags, ModuleName) THEN Fails("INVALID_PARAMETER")
    ELSE IF ModuleName = NULL THEN {Found(Self)}
    ELSE IF GET_MODULE_HANDLE_EX_FLAG_FROM_ADDRESS \in Flags
    THEN IF ModuleName \in Loaded THEN {Found(ModuleName)} ELSE Fails("DLL_NOT_FOUND")
    ELSE IF ModuleName = TooLong THEN Fails("NAME_TOO_LONG")
    ELSE LdrGetDllHandleExAnswers(LdrFlags(Flags), NULL, ModuleName)

GetModuleHandleExW(t, Flags, ModuleName, wish) ==
    /\ ValidFlags(Flags, ModuleName)
    /\ GET_MODULE_HANDLE_EX_FLAG_FROM_ADDRESS \notin Flags
    /\ LdrGetDllHandleEx(t, LdrFlags(Flags), NULL, ModuleName, wish)

GetModuleHandleExWFromAddress(t, Flags, m) ==
    /\ pc[t] = "Idle"
    /\ ValidFlags(Flags, m) /\ GET_MODULE_HANDLE_EX_FLAG_FROM_ADDRESS \in Flags
    /\ m \in Loaded
    /\ ~careful
    /\ \/ Wish(Flags) = "Reference" /\ references[m] < MaxReferences
          /\ references' = [references EXCEPT ![m] = @ + 1] /\ UNCHANGED pinned
       \/ Wish(Flags) = "Pin" /\ pinned' = pinned \cup {m} /\ UNCHANGED references
    /\ UNCHANGED <<Loaded, LoadCount, system, lookup>>

(* Win32 documents GetModuleHandleW as a lookup without a reference, and   *)
(* its callers give none back; the code counts one.                        *)
GetModuleHandleW(t, ModuleName) == GetModuleHandleExW(t, {}, ModuleName, "Handle")

-----------------------------------------------------------------------------
(* LdrAddRefDll.  The handle of a pinned module is answered as unknown.    *)
LdrAddRefDllAnswers(Flags, DllHandle) ==
    IF Flags \ {LDR_ADDREF_DLL_PIN} # {} THEN Fails("INVALID_PARAMETER")
    ELSE IF DllHandle \notin Loaded \/ LoadCount[DllHandle] = UINT16_MAX
    THEN Fails("DLL_NOT_FOUND") ELSE Fails("SUCCESS")

BadLdrAddRefDll(t, Flags, DllHandle) ==
    /\ pc[t] = "Idle"
    /\ Flags = {} /\ DllHandle \in Loaded /\ LoadCount[DllHandle] # UINT16_MAX
    /\ careful => BelowLast(DllHandle)
    /\ references[DllHandle] < MaxReferences
    /\ LoadCount' = [LoadCount EXCEPT ![DllHandle] = @ + 1]
    /\ references' = [references EXCEPT ![DllHandle] = @ + 1]
    /\ UNCHANGED <<Loaded, system, lookup, pinned>>

LdrAddRefDll(t, Flags, DllHandle) ==
    /\ pc[t] = "Idle" /\ ExclusiveFree
    /\ Flags \subseteq {LDR_ADDREF_DLL_PIN}
    /\ DllHandle \in Loaded /\ LoadCount[DllHandle] # UINT16_MAX
    /\ \/ /\ Flags = {LDR_ADDREF_DLL_PIN}
          /\ LoadCount' = [LoadCount EXCEPT ![DllHandle] = UINT16_MAX]
          /\ pinned' = pinned \cup {DllHandle}
          /\ UNCHANGED references
       \/ /\ Flags = {}
          /\ careful => BelowLast(DllHandle)
          /\ references[DllHandle] < MaxReferences
          /\ LoadCount' = [LoadCount EXCEPT ![DllHandle] = @ + 1]
          /\ references' = [references EXCEPT ![DllHandle] = @ + 1]
          /\ UNCHANGED pinned
    /\ UNCHANGED <<Loaded, system, lookup>>

-----------------------------------------------------------------------------
(* The lookups that never count.  By name: given a full name, it compares  *)
(* that with the base names too; a name stands for the module whose base   *)
(* name it equals.                                                         *)
Known(m) == IF m \in Loaded THEN {Found(m)} ELSE Fails("DLL_NOT_FOUND")

LdrGetDllHandleByNameAnswers(BaseDllName, FullDllName) ==
    IF BaseDllName = NULL /\ FullDllName = NULL THEN Fails("INVALID_PARAMETER")
    ELSE Known(IF FullDllName # NULL THEN FullDllName ELSE BaseDllName)

LdrGetDllHandleByMappingAnswers(BaseAddress) == Known(BaseAddress)

(* The name of a module.  The caller's string is cleared, its buffer and   *)
(* maximal length with it, before the copy, so no name ever fits.          *)
LdrGetDllFullNameStatus(DllHandle) ==
    IF DllHandle \in Loaded THEN "BUFFER_OVERFLOW" ELSE "DLL_NOT_FOUND"

(* The length it returns is never more than zero: the one status for which *)
(* it would be is not the one above.                                       *)
GetModuleFileNameW(DllHandle, Size) ==
    LET Status == IF Size = 0 THEN "BUFFER_TOO_SMALL" ELSE LdrGetDllFullNameStatus(DllHandle) IN
    [Status |-> Status, Result |-> IF Size > 0 /\ Status = "BUFFER_TOO_SMALL" THEN Size ELSE 0]

-----------------------------------------------------------------------------
FlagSets == SUBSET {1, 2, 4}

Call(t) ==
    \/ \E m \in Modules :
        \/ FreeLibrary(t, m)
        \/ \E Flags \in SUBSET {1, 2} : LdrAddRefDll(t, Flags, m)
        \/ \E Flags \in FlagSets : GetModuleHandleExWFromAddress(t, Flags, m)
    \/ \E name \in Names :
        \/ GetModuleHandleW(t, name)
        \/ \E Flags \in FlagSets : GetModuleHandleExW(t, Flags, name, Wish(Flags))
        \/ \E path \in Paths \cup {NULL, TooLong} : LdrGetDllHandleEx(t, {}, path, name, "Reference")
    \/ LdrGetDllHandleExCount(t)

System(m) == MmLoadSystemImage(m) \/ MmUnloadSystemImage(m)

Next ==
    /\ (\E t \in Threads : Call(t)) \/ (\E m \in Modules : System(m))
    /\ UNCHANGED careful

Spec == Init /\ [][Next]_vars

-----------------------------------------------------------------------------
(* Properties.                                                             *)

(* For careful clients the load count covers every reference: the system's *)
(* own and each that a client got and has not given back.                  *)
CountCovers ==
    careful => \A m \in Loaded :
        LoadCount[m] >= references[m] + (IF m \in system THEN 1 ELSE 0)

(* A module that a careful client refers to or has pinned is loaded.       *)
References == INSTANCE ModuleReferences WITH loaded <- Loaded
Implements == References!Spec

=============================================================================
