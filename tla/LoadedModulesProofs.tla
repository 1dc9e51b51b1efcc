------------------------ MODULE LoadedModulesProofs ------------------------
(* Theorems about LoadedModules, for any number of threads and modules, any *)
(* width of the load count and any names and paths.                        *)
EXTENDS LoadedModules, TLAPS

(* How many references the count of a module has to cover: the clients',    *)
(* the system's, and one for a module that is pinned.                      *)
One(P) == IF P THEN 1 ELSE 0
Covered(m) == LoadCount[m] >= references[m] + One(m \in system) + One(m \in pinned)

(* A lookup past its read has found a module, and the count it read is     *)
(* still the count; no two lookups of a module are past their reads.       *)
LookupOK ==
    \A t \in Threads : pc[t] = "Count" =>
        /\ LdrEntry[t] \in Loaded
        /\ careful =>
            /\ Count[t] = LoadCount[LdrEntry[t]]
            /\ Count[t] < UINT16_MAX
            /\ \A u \in Threads \ {t} : pc[u] = "Count" => LdrEntry[u] # LdrEntry[t]

CoverOK ==
    careful => \A m \in Modules : Covered(m) /\ (m \notin Loaded => LoadCount[m] = 0)

LoaderInv == TypeOK /\ LookupOK /\ CoverOK

(***************************************************************************)
(* Facts about the helpers of the steps.                                   *)
(***************************************************************************)
LEMMA InitInv == ASSUME LoaderAssumption PROVE Init => LoaderInv
  BY DEF LoaderAssumption, Init, LoaderInv, TypeOK, LookupOK, CoverOK, Covered, One

(* Loading and unloading by the system, which waits for lookups to end.    *)
LEMMA SystemInv ==
  ASSUME LoaderAssumption, LoaderInv, NEW m \in Modules, System(m), UNCHANGED careful
  PROVE  LoaderInv'
<1>1. CASE MmLoadSystemImage(m)
  BY <1>1 DEF LoaderAssumption, LoaderInv, TypeOK, LookupOK, CoverOK, Covered, One,
       MmLoadSystemImage, ExclusiveFree, lookup
<1>2. CASE MmUnloadSystemImage(m)
  BY <1>2 DEF LoaderAssumption, LoaderInv, TypeOK, LookupOK, CoverOK, Covered, One,
       MmUnloadSystemImage, ExclusiveFree, lookup
<1> QED  BY <1>1, <1>2 DEF System

(* Giving a reference back.                                                *)
LEMMA UnloadInv ==
  ASSUME LoaderAssumption, LoaderInv, NEW t \in Threads, NEW m \in Modules,
         FreeLibrary(t, m), UNCHANGED careful
  PROVE  LoaderInv'
  BY DEF LoaderAssumption, LoaderInv, TypeOK, LookupOK, CoverOK, Covered, One,
       FreeLibrary, LdrUnloadDll, CountAfterUnload, NotPinned, ExclusiveFree, lookup

LEMMA AddRefInv ==
  ASSUME LoaderAssumption, LoaderInv, NEW t \in Threads, NEW m \in Modules, NEW Flags,
         LdrAddRefDll(t, Flags, m), UNCHANGED careful
  PROVE  LoaderInv'
  BY DEF LoaderAssumption, LoaderInv, TypeOK, LookupOK, CoverOK, Covered, One,
       LdrAddRefDll, BelowLast, ExclusiveFree, lookup

LEMMA FromAddressInv ==
  ASSUME LoaderAssumption, LoaderInv, NEW t \in Threads, NEW m \in Modules, NEW Flags,
         GetModuleHandleExWFromAddress(t, Flags, m), UNCHANGED careful
  PROVE  LoaderInv'
  BY DEF LoaderAssumption, LoaderInv, TypeOK, LookupOK, CoverOK, Covered, One,
       GetModuleHandleExWFromAddress, lookup

(* The two halves of a counting lookup.                                    *)
LEMMA ReadInv ==
  ASSUME LoaderAssumption, LoaderInv, NEW t \in Threads, NEW Flags, NEW DllPath,
         NEW DllName, NEW wish \in {"Reference", "Pin", "Handle"},
         LdrGetDllHandleEx(t, Flags, DllPath, DllName, wish), UNCHANGED careful
  PROVE  LoaderInv'
<1>1. PICK m \in Matching(DllPath, DllName) :
        /\ pc[t] = "Idle"
        /\ careful => AloneWith(m) /\ BelowLast(m)
        /\ pc' = [pc EXCEPT ![t] = "Count"]
        /\ LdrEntry' = [LdrEntry EXCEPT ![t] = m]
        /\ Count' = [Count EXCEPT ![t] = LoadCount[m]]
        /\ wants' = [wants EXCEPT ![t] = wish]
        /\ UNCHANGED <<Loaded, LoadCount, system, references, pinned>>
  BY DEF LdrGetDllHandleEx
<1>2. m \in Loaded /\ m \in Modules
  BY DEF Matching, LoaderInv, TypeOK
<1>3. TypeOK'
  BY <1>1, <1>2 DEF LoaderInv, TypeOK
<1>4. LookupOK'
  BY <1>1, <1>2 DEF LoaderInv, TypeOK, LookupOK, AloneWith, BelowLast, LoaderAssumption
<1>5. CoverOK'
  BY <1>1 DEF LoaderInv, CoverOK, Covered
<1> QED  BY <1>3, <1>4, <1>5 DEF LoaderInv

LEMMA CountInv ==
  ASSUME LoaderAssumption, LoaderInv, NEW t \in Threads,
         LdrGetDllHandleExCount(t), UNCHANGED careful
  PROVE  LoaderInv'
<1> DEFINE m == LdrEntry[t]
<1>1. /\ pc[t] = "Count"
      /\ m \in Loaded /\ m \in Modules
  BY DEF LdrGetDllHandleExCount, LoaderInv, LookupOK, TypeOK
<1>2. (Count[t] + 1) % (UINT16_MAX + 1) \in 0..UINT16_MAX
  BY DEF LoaderInv, TypeOK, LoaderAssumption
<1>3. careful => /\ Count[t] = LoadCount[m]
                 /\ (Count[t] + 1) % (UINT16_MAX + 1) = LoadCount[m] + 1
  BY <1>1 DEF LoaderInv, LookupOK, TypeOK, LoaderAssumption
<1>4. TypeOK'
  BY <1>1, <1>2 DEF LoaderInv, TypeOK, LdrGetDllHandleExCount
<1>5. LookupOK'
  BY <1>1, <1>3 DEF LoaderInv, TypeOK, LookupOK, LdrGetDllHandleExCount
<1>6. CoverOK'
  BY <1>1, <1>3 DEF LoaderInv, TypeOK, CoverOK, Covered, One, LdrGetDllHandleExCount
<1> QED  BY <1>4, <1>5, <1>6 DEF LoaderInv

LEMMA CallInv ==
  ASSUME LoaderAssumption, LoaderInv, NEW t \in Threads, Call(t), UNCHANGED careful
  PROVE  LoaderInv'
<1>1. ASSUME NEW m \in Modules, FreeLibrary(t, m) PROVE LoaderInv'
  BY <1>1, UnloadInv
<1>2. ASSUME NEW m \in Modules, NEW Flags, LdrAddRefDll(t, Flags, m) PROVE LoaderInv'
  BY <1>2, AddRefInv
<1>3. ASSUME NEW m \in Modules, NEW Flags, GetModuleHandleExWFromAddress(t, Flags, m)
      PROVE  LoaderInv'
  BY <1>3, FromAddressInv
<1>4. ASSUME NEW Flags, NEW name, NEW wish \in {"Reference", "Pin", "Handle"},
             GetModuleHandleExW(t, Flags, name, wish)
      PROVE  LoaderInv'
  BY <1>4, ReadInv DEF GetModuleHandleExW
<1>5. ASSUME NEW path, NEW name, LdrGetDllHandleEx(t, {}, path, name, "Reference")
      PROVE  LoaderInv'
  BY <1>5, ReadInv
<1>6. \A Flags : Wish(Flags) \in {"Reference", "Pin", "Handle"}
  BY DEF Wish
<1> QED  BY <1>1, <1>2, <1>3, <1>4, <1>5, <1>6, CountInv DEF Call, GetModuleHandleW

LEMMA NextInv ==
  ASSUME LoaderAssumption PROVE LoaderInv /\ [Next]_vars => LoaderInv'
<1> SUFFICES ASSUME LoaderInv, [Next]_vars PROVE LoaderInv'
  OBVIOUS
<1>1. CASE Next
  BY <1>1, CallInv, SystemInv DEF Next
<1>2. CASE UNCHANGED vars
  BY <1>2 DEF vars, lookup, LoaderInv, TypeOK, LookupOK, CoverOK, Covered
<1> QED  BY <1>1, <1>2

(***************************************************************************)
(* The theorems.                                                           *)
(***************************************************************************)
LEMMA Invariance == ASSUME LoaderAssumption PROVE Spec => []LoaderInv
  BY InitInv, NextInv, PTL DEF Spec

(* Every reachable state is well typed.                                    *)
THEOREM LoaderTypeCorrect == ASSUME LoaderAssumption PROVE Spec => []TypeOK
<1>1. LoaderInv => TypeOK
  BY DEF LoaderInv
<1> QED  BY <1>1, Invariance, PTL

(* For careful clients LoadCount covers every reference, whatever lookups, *)
(* references given back and unloads of the system interleave.             *)
THEOREM CountCoversReferences == ASSUME LoaderAssumption PROVE Spec => []CountCovers
<1>1. LoaderInv => CountCovers
  BY DEF LoaderInv, TypeOK, CoverOK, Covered, One, CountCovers
<1> QED  BY <1>1, Invariance, PTL

(***************************************************************************)
(* The load counts implement the references.                               *)
(***************************************************************************)
LEMMA InitImplements == ASSUME LoaderAssumption PROVE Init => References!Init
  BY DEF Init, References!Init

LEMMA SystemImplements ==
  ASSUME LoaderAssumption, LoaderInv, NEW m \in Modules, System(m), UNCHANGED careful
  PROVE  [References!Next]_References!vars
<1>1. CASE MmLoadSystemImage(m)
  <2>1. References!Load(m)
    BY <1>1 DEF MmLoadSystemImage, References!Load
  <2> QED  BY <2>1 DEF References!Next
<1>2. CASE MmUnloadSystemImage(m) /\ LoadCount[m] <= 1
  <2>1. careful => references[m] = 0 /\ m \notin pinned
    BY <1>2 DEF MmUnloadSystemImage, LoaderInv, TypeOK, CoverOK, Covered, One
  <2>2. Loaded' = Loaded \ {m}
    BY <1>2 DEF MmUnloadSystemImage, LoaderInv, TypeOK
  <2>3. References!Unload(m)
    BY <1>2, <2>1, <2>2 DEF MmUnloadSystemImage, References!Unload
  <2> QED  BY <2>3 DEF References!Next
<1>3. CASE MmUnloadSystemImage(m) /\ ~(LoadCount[m] <= 1)
  BY <1>3 DEF MmUnloadSystemImage, References!vars
<1> QED  BY <1>1, <1>2, <1>3 DEF System

LEMMA CallImplements ==
  ASSUME LoaderAssumption, LoaderInv, NEW t \in Threads, Call(t), UNCHANGED careful
  PROVE  [References!Next]_References!vars
<1>1. ASSUME NEW m \in Modules, FreeLibrary(t, m) PROVE References!Put(m)
  BY <1>1 DEF FreeLibrary, LdrUnloadDll, References!Put
<1>2. ASSUME NEW m \in Modules, NEW Flags, LdrAddRefDll(t, Flags, m)
      PROVE  References!Get(m) \/ References!Pin(m)
  BY <1>2 DEF LdrAddRefDll, References!Get, References!Pin
<1>3. ASSUME NEW m \in Modules, NEW Flags, GetModuleHandleExWFromAddress(t, Flags, m)
      PROVE  References!Get(m) \/ References!Pin(m)
  BY <1>3 DEF GetModuleHandleExWFromAddress, References!Get, References!Pin
<1>4. ASSUME NEW Flags, NEW path, NEW name, NEW wish,
             LdrGetDllHandleEx(t, Flags, path, name, wish)
      PROVE  UNCHANGED References!vars
  BY <1>4 DEF LdrGetDllHandleEx, References!vars
<1>5. CASE LdrGetDllHandleExCount(t)
  <2> DEFINE m == LdrEntry[t]
  <2>1. m \in Loaded /\ m \in Modules
    BY <1>5 DEF LdrGetDllHandleExCount, LoaderInv, LookupOK, TypeOK
  <2>2. CASE wants[t] = "Reference"
    <3>1. References!Get(m)
      BY <1>5, <2>1, <2>2 DEF LdrGetDllHandleExCount, References!Get, LoaderInv, TypeOK
    <3> QED  BY <3>1, <2>1 DEF References!Next
  <2>3. CASE wants[t] = "Pin"
    <3>1. References!Pin(m)
      BY <1>5, <2>1, <2>3 DEF LdrGetDllHandleExCount, References!Pin, LoaderInv, TypeOK
    <3> QED  BY <3>1, <2>1 DEF References!Next
  <2>4. CASE wants[t] = "Handle"
    BY <1>5, <2>1, <2>4 DEF LdrGetDllHandleExCount, References!vars, LoaderInv, TypeOK
  <2> QED  BY <2>2, <2>3, <2>4 DEF LoaderInv, TypeOK
<1> QED
  BY <1>1, <1>2, <1>3, <1>4, <1>5
  DEF Call, GetModuleHandleW, GetModuleHandleExW, References!Next

LEMMA NextImplements ==
  ASSUME LoaderAssumption
  PROVE  LoaderInv /\ [Next]_vars => [References!Next]_References!vars
<1> SUFFICES ASSUME LoaderInv, [Next]_vars PROVE [References!Next]_References!vars
  OBVIOUS
<1>1. CASE Next
  BY <1>1, CallImplements, SystemImplements DEF Next
<1>2. CASE UNCHANGED vars
  BY <1>2 DEF vars, References!vars
<1> QED  BY <1>1, <1>2

(* To a careful client the sixteen-bit counts are references: a module it  *)
(* holds or has pinned is not unloaded.                                    *)
THEOREM CountsImplementReferences ==
  ASSUME LoaderAssumption PROVE Spec => Implements
<1>1. Spec => References!Spec
  BY InitImplements, NextImplements, Invariance, PTL DEF Spec, References!Spec
<1> QED  BY <1>1 DEF Implements
=============================================================================
