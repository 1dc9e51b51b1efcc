----------------------- MODULE EnvironmentBlockProofs -----------------------
(* Theorems about EnvironmentBlock, for every set of acquisitions that may  *)
(* fail, any number of notifications in flight and any number of starts.    *)
EXTENDS EnvironmentBlock, TLAPS

(* The shutdown until it looks for a PEB, and the failure that leads to it. *)
Leaving == {"SetupFail", "RemoveNotify", "WaitNotify", "TakeCallback", "DropCoreHeap"}

(* The steps at which each resource can be held: nothing is acquired before *)
(* what it needs, or is there any more when that goes.                      *)
Span(r) ==
    CASE r = "notify" -> {"Running", "RemoveNotify"}
      [] r \in {"flsData", "environment"} ->
           {"Running", "FlsCleanup"} \cup (Leaving \ {"SetupFail"})
      [] r = "tebs" ->
           {"Running", "FlsCleanup", "DropHeaps", "TebUnregister", "TebDelete"}
             \cup (Leaving \ {"SetupFail"})
      [] r = "coreHeap" -> {"ThreadNotify", "Running"} \cup Leaving
      [] r = "defaultHeap" ->
           {"CoreHeap", "ThreadNotify", "Running", "FlsCleanup", "DropHeaps"} \cup Leaving
      [] r = "tebHandle" ->
           {"DefaultHeap", "CoreHeap", "ThreadNotify", "Running", "PebFail",
            "FlsCleanup", "DropHeaps", "TebUnregister"} \cup Leaving
      [] r = "pebPointer" ->
           {"Lookaside", "RegisterTeb", "DefaultHeap", "CoreHeap", "ThreadNotify",
            "Running", "PebFail", "FlsCleanup", "DropHeaps", "TebUnregister",
            "TebDelete", "PebTeardown"} \cup Leaving
      [] r \in Strings \cup {"pebLock", "peb"} ->
           Steps \ {"Stopped", "Lite", "CreateCallback", "AllocPeb", "DropCallback",
                    "LiteShutdown"}
      [] r = "object" -> Steps \ {"Stopped", "Lite", "CreateCallback", "LiteShutdown"}
      [] r = "lite" -> Steps \ {"Stopped", "Lite"}
      [] OTHER -> Steps

SpansOK == \A r \in res : pc \in Span(r)

(* What must be held for the next acquisition to stand on.                  *)
HeldOK ==
    /\ pc \in {"InitLock", "RegistryPath", "ImagePath", "ImageName", "Publish"} =>
         "peb" \in res
    /\ pc \in {"RegistryPath", "ImagePath", "ImageName", "Publish"} => "pebLock" \in res
    /\ pc \in {"Lookaside", "RegisterTeb", "DefaultHeap", "CoreHeap", "ThreadNotify",
               "Running"} => "pebPointer" \in res
    /\ pc = "RegisterTeb" => {"lookaside", "object"} \subseteq res
    /\ pc = "Lookaside" => "object" \in res
    /\ pc \in {"AllocPeb", "InitLock", "RegistryPath", "ImagePath", "ImageName",
               "Publish", "Lookaside", "RegisterTeb", "DefaultHeap", "PebFail",
               "PebFree"} => created
    /\ pc = "ThreadNotify" => WantsNotify
    /\ pc \in {"DefaultHeap", "CoreHeap", "ThreadNotify", "Running"} =>
         "tebHandle" \in res
    /\ pc \in {"CoreHeap", "ThreadNotify", "Running"} => "defaultHeap" \in res
    /\ pc \in {"DefaultHeap", "PebFail"} /\ "tebHandle" \in res => tebInit
    /\ pc \in Leaving /\ "pebPointer" \notin res =>
         res \subseteq {"lite", "object", "lookaside"}

(* A notification is in flight, or can come, only while everything it meets *)
(* is there.                                                                *)
InFlight == \E n \in Notifiers : npc[n] # "idle"

NotifyOK ==
    InFlight \/ "notify" \in res =>
      /\ WantsNotify
      /\ pc \in {"Running", "RemoveNotify", "WaitNotify"}
      /\ {"object", "lookaside", "tebHandle", "defaultHeap"} \subseteq res

(* Who holds the callback object: the creation, as long as the pointer is   *)
(* published or taken, and the registration.                                *)
ObjectOK ==
    /\ "object" \in res => created \/ "tebHandle" \in res
    /\ created => published \/ taken
    /\ published => pc \notin {"Stopped", "Lite", "DropCoreHeap", "FlsCleanup", "DropHeaps",
                               "TebUnregister", "TebDelete", "PebTeardown", "DropCallback",
                               "LiteShutdown", "CreateCallback"}
    /\ taken => pc \in {"DropCoreHeap", "FlsCleanup", "DropHeaps", "TebUnregister",
                        "TebDelete", "PebTeardown", "DropCallback"}

(* The pool of the thread blocks outlives a start only when the             *)
(* registration failed.                                                     *)
PoolOK ==
    "lookaside" \in res /\ "RegisterTeb" \notin MayFail =>
      /\ pc \notin {"Stopped", "Lite", "CreateCallback", "AllocPeb", "InitLock",
                    "RegistryPath", "ImagePath", "ImageName", "Publish", "Lookaside",
                    "PebTeardown", "DropCallback", "LiteShutdown", "PebFree"}
      /\ pc = "PebFail" => tebInit
      /\ pc \in Leaving => "pebPointer" \in res

EnvInv ==
    /\ TypeOK /\ DependenciesAlive /\ SpansOK /\ HeldOK /\ NotifyOK /\ ObjectOK
    /\ PoolOK
-----------------------------------------------------------------------------
(* The invariant holds before the first start.                              *)
LEMMA EnvInit == Init => EnvInv
<1> SUFFICES ASSUME Init PROVE EnvInv
  OBVIOUS
<1>1. TypeOK
  <2>1. {published, taken, useNotify, driver, tebInit, created} \subseteq BOOLEAN
    BY DEF Init
  <2>2. pc \in Steps /\ res \subseteq Resources
    BY DEF Init, Steps
  <2>3. npc \in [Notifiers -> {"idle", "entered", "callback", "null"}]
    BY DEF Init
  <2>4. starts \in 0 .. MaxStarts
    BY EnvironmentAssumption DEF Init
  <2> QED BY <2>1, <2>2, <2>3, <2>4 DEF Init, TypeOK
<1>2. DependenciesAlive /\ SpansOK /\ HeldOK
  BY DEF Init, DependenciesAlive, SpansOK, HeldOK, Leaving
<1>3. NotifyOK /\ ObjectOK /\ PoolOK
  BY DEF Init, NotifyOK, InFlight, ObjectOK, PoolOK
<1> QED BY <1>1, <1>2, <1>3 DEF EnvInv

(* Every step keeps it.                                                     *)
LEMMA EnvStep == EnvInv /\ [Next]_vars => EnvInv'
<1> SUFFICES ASSUME EnvInv, [Next]_vars PROVE EnvInv'
  OBVIOUS
<1>0. /\ TypeOK /\ DependenciesAlive /\ SpansOK /\ HeldOK /\ NotifyOK /\ ObjectOK
      /\ PoolOK
  BY DEF EnvInv
<1> USE EnvironmentAssumption DEF cb, flags
<1>1. ASSUME NEW notify \in BOOLEAN, MusaCoreStartup(notify) PROVE EnvInv'
  <2>1. TypeOK'
    BY <1>0, <1>1 DEF MusaCoreStartup, TypeOK, Steps, Acquisitions
  <2>2. DependenciesAlive'
    BY <1>0, <1>1 DEF MusaCoreStartup, DependenciesAlive, SpansOK, HeldOK
  <2>3. SpansOK'
    BY <1>0, <1>1
       DEF MusaCoreStartup, SpansOK, HeldOK, Span, Steps, Acquisitions, Leaving
  <2>4. HeldOK'
    BY <1>0, <1>1
       DEF MusaCoreStartup, HeldOK, SpansOK, DependenciesAlive, Needs, Span, Leaving
  <2>5. NotifyOK'
    BY <1>0, <1>1 DEF MusaCoreStartup, NotifyOK, InFlight
  <2>6. ObjectOK'
    BY <1>0, <1>1 DEF MusaCoreStartup, ObjectOK
  <2>7. PoolOK'
    BY <1>0, <1>1 DEF MusaCoreStartup, PoolOK
  <2> QED BY <2>1, <2>2, <2>3, <2>4, <2>5, <2>6, <2>7 DEF EnvInv
<1>2. ASSUME MusaCoreShutdown PROVE EnvInv'
  <2>1. TypeOK'
    BY <1>0, <1>2 DEF MusaCoreShutdown, TypeOK, Steps
  <2>2. DependenciesAlive'
    BY <1>0, <1>2 DEF MusaCoreShutdown, DependenciesAlive, SpansOK, HeldOK
  <2>3. SpansOK'
    BY <1>0, <1>2 DEF MusaCoreShutdown, SpansOK, HeldOK, Span, Steps, Leaving
  <2>4. HeldOK'
    BY <1>0, <1>2
       DEF MusaCoreShutdown, HeldOK, SpansOK, DependenciesAlive, Needs, Span, Strings,
           TypeOK, Resources
  <2>5. NotifyOK'
    BY <1>0, <1>2 DEF MusaCoreShutdown, NotifyOK, InFlight, WantsNotify
  <2>6. ObjectOK'
    BY <1>0, <1>2 DEF MusaCoreShutdown, ObjectOK
  <2>7. PoolOK'
    BY <1>0, <1>2 DEF MusaCoreShutdown, PoolOK, HeldOK
  <2> QED BY <2>1, <2>2, <2>3, <2>4, <2>5, <2>6, <2>7 DEF EnvInv
<1>3. ASSUME MusaCoreLiteStartup PROVE EnvInv'
  <2>1. TypeOK'
    BY <1>0, <1>3
       DEF MusaCoreLiteStartup, Acquire, TypeOK, Steps, Acquisitions, Resources
  <2>2. DependenciesAlive'
    BY <1>0, <1>3
       DEF MusaCoreLiteStartup, Acquire, DependenciesAlive, SpansOK, HeldOK, Needs,
           Strings
  <2>3. SpansOK'
    BY <1>0, <1>3
       DEF MusaCoreLiteStartup, Acquire, SpansOK, HeldOK, Span, Steps, Acquisitions,
           Leaving
  <2>4. HeldOK'
    BY <1>0, <1>3
       DEF MusaCoreLiteStartup, Acquire, HeldOK, SpansOK, DependenciesAlive, Needs,
           Span, Strings, TypeOK, Resources
  <2>5. NotifyOK'
    BY <1>0, <1>3 DEF MusaCoreLiteStartup, Acquire, NotifyOK, InFlight
  <2>6. ObjectOK'
    BY <1>0, <1>3 DEF MusaCoreLiteStartup, Acquire, ObjectOK
  <2>7. PoolOK'
    BY <1>0, <1>3 DEF MusaCoreLiteStartup, Acquire, PoolOK
  <2> QED BY <2>1, <2>2, <2>3, <2>4, <2>5, <2>6, <2>7 DEF EnvInv
<1>4. ASSUME NEW drv \in BOOLEAN, CreateCallback(drv) PROVE EnvInv'
  <2>1. TypeOK'
    <3>1. published' \in BOOLEAN /\ created' \in BOOLEAN
      BY <1>4 DEF CreateCallback
    <3>2. {published, taken, useNotify, driver, tebInit, created}' \subseteq BOOLEAN
      BY <1>0, <1>4, <3>1 DEF CreateCallback, TypeOK
    <3> QED
      BY <1>0, <1>4, <3>2
         DEF CreateCallback, Acquire, TypeOK, Steps, Acquisitions, Resources
  <2>2. DependenciesAlive'
    BY <1>0, <1>4
       DEF CreateCallback, Acquire, DependenciesAlive, SpansOK, HeldOK, Needs, Strings
  <2>3. SpansOK'
    BY <1>0, <1>4
       DEF CreateCallback, Acquire, SpansOK, HeldOK, Span, Steps, Acquisitions, Leaving
  <2>4. HeldOK'
    BY <1>0, <1>4, ZenonT(40)
       DEF CreateCallback, Acquire, HeldOK, SpansOK, DependenciesAlive, Needs, Span,
           Strings, TypeOK, Resources
  <2>5. NotifyOK'
    BY <1>0, <1>4 DEF CreateCallback, Acquire, NotifyOK, InFlight
  <2>6. ObjectOK'
    BY <1>0, <1>4 DEF CreateCallback, Acquire, ObjectOK
  <2>7. PoolOK'
    BY <1>0, <1>4 DEF CreateCallback, Acquire, PoolOK
  <2> QED BY <2>1, <2>2, <2>3, <2>4, <2>5, <2>6, <2>7 DEF EnvInv
<1>5. ASSUME PebAcquire PROVE EnvInv'
  <2>1. TypeOK'
    BY <1>0, <1>5 DEF PebAcquire, Acquire, TypeOK, Steps, Acquisitions, Resources
  <2>2. DependenciesAlive'
    BY <1>0, <1>5 DEF PebAcquire, Acquire, DependenciesAlive, SpansOK, HeldOK, Needs
  <2>3. SpansOK'
    BY <1>0, <1>5
       DEF PebAcquire, Acquire, SpansOK, HeldOK, Span, Steps, Acquisitions, Leaving
  <2>4. HeldOK'
    BY <1>0, <1>5
       DEF PebAcquire, Acquire, HeldOK, SpansOK, DependenciesAlive, Needs, Span,
           Strings, Leaving, TypeOK, Resources
  <2>5. NotifyOK'
    BY <1>0, <1>5 DEF PebAcquire, Acquire, NotifyOK, InFlight
  <2>6. ObjectOK'
    BY <1>0, <1>5 DEF PebAcquire, Acquire, ObjectOK
  <2>7. PoolOK'
    BY <1>0, <1>5 DEF PebAcquire, Acquire, PoolOK
  <2> QED BY <2>1, <2>2, <2>3, <2>4, <2>5, <2>6, <2>7 DEF EnvInv
<1>6. ASSUME PebPublish PROVE EnvInv'
  <2>1. TypeOK'
    BY <1>0, <1>6 DEF PebPublish, TypeOK, Steps, Acquisitions, Resources
  <2>2. DependenciesAlive'
    BY <1>0, <1>6 DEF PebPublish, DependenciesAlive, SpansOK, HeldOK, Needs
  <2>3. SpansOK'
    BY <1>0, <1>6 DEF PebPublish, SpansOK, HeldOK, Span, Steps, Acquisitions, Leaving
  <2>4. HeldOK'
    BY <1>0, <1>6
       DEF PebPublish, HeldOK, SpansOK, DependenciesAlive, Needs, Span, TypeOK
  <2>5. NotifyOK'
    BY <1>0, <1>6 DEF PebPublish, NotifyOK, InFlight
  <2>6. ObjectOK'
    BY <1>0, <1>6 DEF PebPublish, ObjectOK
  <2>7. PoolOK'
    BY <1>0, <1>6 DEF PebPublish, PoolOK
  <2> QED BY <2>1, <2>2, <2>3, <2>4, <2>5, <2>6, <2>7 DEF EnvInv
<1>7. ASSUME TebAcquire PROVE EnvInv'
  <2>1. TypeOK'
    <3>1. tebInit' \in BOOLEAN
      BY <1>7 DEF TebAcquire
    <3>2. {published, taken, useNotify, driver, tebInit, created}' \subseteq BOOLEAN
      BY <1>0, <1>7, <3>1 DEF TebAcquire, TypeOK
    <3> QED
      BY <1>0, <1>7, <3>2
         DEF TebAcquire, Acquire, TypeOK, Steps, Acquisitions, Resources
  <2>2. DependenciesAlive'
    BY <1>0, <1>7 DEF TebAcquire, Acquire, DependenciesAlive, SpansOK, HeldOK, Needs
  <2>3. SpansOK'
    BY <1>0, <1>7
       DEF TebAcquire, Acquire, SpansOK, HeldOK, Span, Steps, Acquisitions, Leaving
  <2>4. HeldOK'
    BY <1>0, <1>7
       DEF TebAcquire, Acquire, HeldOK, SpansOK, DependenciesAlive, Needs, Span
  <2>5. NotifyOK'
    BY <1>0, <1>7 DEF TebAcquire, Acquire, NotifyOK, InFlight
  <2>6. ObjectOK'
    BY <1>0, <1>7 DEF TebAcquire, Acquire, ObjectOK
  <2>7. PoolOK'
    BY <1>0, <1>7 DEF TebAcquire, Acquire, PoolOK, Leaving
  <2> QED BY <2>1, <2>2, <2>3, <2>4, <2>5, <2>6, <2>7 DEF EnvInv
<1>8. ASSUME LateAcquire PROVE EnvInv'
  <2>1. TypeOK'
    BY <1>0, <1>8 DEF LateAcquire, Acquire, TypeOK, Steps, Acquisitions, Resources
  <2>2. DependenciesAlive'
    BY <1>0, <1>8
       DEF LateAcquire, Acquire, DependenciesAlive, SpansOK, HeldOK, Needs, Strings
  <2>3. SpansOK'
    BY <1>0, <1>8
       DEF LateAcquire, Acquire, SpansOK, HeldOK, Span, Strings, Steps, Acquisitions,
           Leaving
  <2>4. HeldOK'
    BY <1>0, <1>8
       DEF LateAcquire, Acquire, HeldOK, SpansOK, DependenciesAlive, Needs, Span,
           WantsNotify
  <2>5. NotifyOK'
    BY <1>0, <1>8
       DEF LateAcquire, Acquire, NotifyOK, InFlight, WantsNotify, HeldOK,
           DependenciesAlive, Needs, Strings
  <2>6. ObjectOK'
    BY <1>0, <1>8 DEF LateAcquire, Acquire, ObjectOK
  <2>7. PoolOK'
    BY <1>0, <1>8 DEF LateAcquire, Acquire, PoolOK, HeldOK
  <2> QED BY <2>1, <2>2, <2>3, <2>4, <2>5, <2>6, <2>7 DEF EnvInv
<1>9. ASSUME PebSetupFail PROVE EnvInv'
  <2>1. TypeOK'
    BY <1>0, <1>9 DEF PebSetupFail, TebRollback, NotInTebCallback, TypeOK, Steps
  <2>2. DependenciesAlive'
    BY <1>0, <1>9
       DEF PebSetupFail, TebRollback, NotInTebCallback, DependenciesAlive, SpansOK,
           HeldOK, Needs, Span, Leaving
  <2>3. SpansOK'
    BY <1>0, <1>9
       DEF PebSetupFail, TebRollback, NotInTebCallback, SpansOK, HeldOK, Span, Steps,
           Leaving
  <2>4. HeldOK'
    BY <1>0, <1>9
       DEF PebSetupFail, TebRollback, NotInTebCallback, HeldOK, SpansOK,
           DependenciesAlive, Needs, Span, Leaving
  <2>5. NotifyOK'
    BY <1>0, <1>9 DEF PebSetupFail, TebRollback, NotInTebCallback, NotifyOK, InFlight
  <2>6. ObjectOK'
    BY <1>0, <1>9 DEF PebSetupFail, TebRollback, NotInTebCallback, ObjectOK, HeldOK
  <2>7. PoolOK'
    BY <1>0, <1>9 DEF PebSetupFail, TebRollback, NotInTebCallback, PoolOK
  <2> QED BY <2>1, <2>2, <2>3, <2>4, <2>5, <2>6, <2>7 DEF EnvInv
<1>10. ASSUME PebSetupFree PROVE EnvInv'
  <2>1. TypeOK'
    BY <1>0, <1>10 DEF PebSetupFree, TypeOK, Steps, Strings
  <2>2. DependenciesAlive'
    BY <1>0, <1>10
       DEF PebSetupFree, DependenciesAlive, SpansOK, HeldOK, Needs, Span, Leaving
  <2>3. SpansOK'
    BY <1>0, <1>10 DEF PebSetupFree, SpansOK, HeldOK, Span, Steps, Leaving
  <2>4. HeldOK'
    BY <1>0, <1>10
       DEF PebSetupFree, HeldOK, SpansOK, DependenciesAlive, Needs, Span, Strings,
           TypeOK, Resources
  <2>5. NotifyOK'
    BY <1>0, <1>10 DEF PebSetupFree, NotifyOK, InFlight
  <2>6. ObjectOK'
    BY <1>0, <1>10 DEF PebSetupFree, ObjectOK, HeldOK
  <2>7. PoolOK'
    BY <1>0, <1>10 DEF PebSetupFree, PoolOK
  <2> QED BY <2>1, <2>2, <2>3, <2>4, <2>5, <2>6, <2>7 DEF EnvInv
<1>11. ASSUME SetupFail PROVE EnvInv'
  <2>1. TypeOK'
    BY <1>0, <1>11
       DEF SetupFail, AfterDereference, PointerAfterFailure, AfterSetupFail, TypeOK,
           Steps, ObjectOK
  <2>2. DependenciesAlive'
    BY <1>0, <1>11
       DEF SetupFail, AfterDereference, PointerAfterFailure, AfterSetupFail,
           DependenciesAlive, SpansOK, HeldOK, Needs
  <2>3. SpansOK'
    BY <1>0, <1>11
       DEF SetupFail, AfterDereference, PointerAfterFailure, AfterSetupFail, SpansOK,
           HeldOK, Span, Steps, Leaving
  <2>4. HeldOK'
    BY <1>0, <1>11
       DEF SetupFail, AfterDereference, PointerAfterFailure, AfterSetupFail, HeldOK,
           SpansOK, DependenciesAlive, Needs, Span, Leaving
  <2>5. NotifyOK'
    BY <1>0, <1>11
       DEF SetupFail, AfterDereference, PointerAfterFailure, AfterSetupFail, NotifyOK,
           InFlight
  <2>6. ObjectOK'
    BY <1>0, <1>11
       DEF SetupFail, AfterDereference, PointerAfterFailure, AfterSetupFail, ObjectOK
  <2>7. PoolOK'
    BY <1>0, <1>11
       DEF SetupFail, AfterDereference, PointerAfterFailure, AfterSetupFail, PoolOK,
           Leaving
  <2> QED BY <2>1, <2>2, <2>3, <2>4, <2>5, <2>6, <2>7 DEF EnvInv
<1>12. ASSUME RemoveNotify PROVE EnvInv'
  <2>1. TypeOK'
    BY <1>0, <1>12 DEF RemoveNotify, TypeOK, Steps, Acquisitions
  <2>2. DependenciesAlive'
    BY <1>0, <1>12 DEF RemoveNotify, DependenciesAlive, SpansOK, HeldOK, Needs
  <2>3. SpansOK'
    BY <1>0, <1>12
       DEF RemoveNotify, SpansOK, HeldOK, Span, Strings, Steps, Leaving, NotifyOK
  <2>4. HeldOK'
    BY <1>0, <1>12
       DEF RemoveNotify, HeldOK, SpansOK, DependenciesAlive, Needs, Span, Leaving
  <2>5. NotifyOK'
    BY <1>0, <1>12 DEF RemoveNotify, NotifyOK, InFlight, WantsNotify
  <2>6. ObjectOK'
    BY <1>0, <1>12 DEF RemoveNotify, ObjectOK
  <2>7. PoolOK'
    BY <1>0, <1>12 DEF RemoveNotify, PoolOK, Leaving
  <2> QED BY <2>1, <2>2, <2>3, <2>4, <2>5, <2>6, <2>7 DEF EnvInv
<1>13. ASSUME WaitNotify PROVE EnvInv'
  <2>1. TypeOK'
    BY <1>0, <1>13 DEF WaitNotify, TypeOK, Steps, Acquisitions
  <2>2. DependenciesAlive'
    BY <1>0, <1>13 DEF WaitNotify, DependenciesAlive, SpansOK, HeldOK, Needs
  <2>3. SpansOK'
    BY <1>0, <1>13 DEF WaitNotify, SpansOK, HeldOK, Span, Strings, Steps, Leaving
  <2>4. HeldOK'
    BY <1>0, <1>13
       DEF WaitNotify, HeldOK, SpansOK, DependenciesAlive, Needs, Span, Leaving
  <2>5. NotifyOK'
    BY <1>0, <1>13
       DEF WaitNotify, NotifyOK, InFlight, WantsNotify, TypeOK, HeldOK, SpansOK, Span,
           Strings
  <2>6. ObjectOK'
    BY <1>0, <1>13 DEF WaitNotify, ObjectOK
  <2>7. PoolOK'
    BY <1>0, <1>13 DEF WaitNotify, PoolOK, Leaving
  <2> QED BY <2>1, <2>2, <2>3, <2>4, <2>5, <2>6, <2>7 DEF EnvInv
<1>14. ASSUME TakeCallback PROVE EnvInv'
  <2>1. TypeOK'
    BY <1>0, <1>14 DEF TakeCallback, TypeOK, Steps
  <2>2. DependenciesAlive'
    BY <1>0, <1>14 DEF TakeCallback, DependenciesAlive, SpansOK, HeldOK
  <2>3. SpansOK'
    BY <1>0, <1>14 DEF TakeCallback, SpansOK, HeldOK, Span, Steps, Leaving
  <2>4. HeldOK'
    BY <1>0, <1>14
       DEF TakeCallback, HeldOK, SpansOK, DependenciesAlive, Needs, Span, Leaving
  <2>5. NotifyOK'
    BY <1>0, <1>14 DEF TakeCallback, NotifyOK, InFlight
  <2>6. ObjectOK'
    BY <1>0, <1>14 DEF TakeCallback, ObjectOK
  <2>7. PoolOK'
    BY <1>0, <1>14 DEF TakeCallback, PoolOK, Leaving
  <2> QED BY <2>1, <2>2, <2>3, <2>4, <2>5, <2>6, <2>7 DEF EnvInv
<1>15. ASSUME DropCoreHeap PROVE EnvInv'
  <2>1. TypeOK'
    BY <1>0, <1>15 DEF DropCoreHeap, TypeOK, Steps
  <2>2. DependenciesAlive'
    BY <1>0, <1>15 DEF DropCoreHeap, DependenciesAlive, SpansOK, HeldOK, Needs
  <2>3. SpansOK'
    BY <1>0, <1>15 DEF DropCoreHeap, SpansOK, HeldOK, Span, Strings, Steps, Leaving
  <2>4. HeldOK'
    BY <1>0, <1>15
       DEF DropCoreHeap, HeldOK, SpansOK, DependenciesAlive, Needs, Span, Leaving
  <2>5. NotifyOK'
    BY <1>0, <1>15 DEF DropCoreHeap, NotifyOK, InFlight
  <2>6. ObjectOK'
    BY <1>0, <1>15 DEF DropCoreHeap, ObjectOK
  <2>7. PoolOK'
    BY <1>0, <1>15 DEF DropCoreHeap, PoolOK, Leaving
  <2> QED BY <2>1, <2>2, <2>3, <2>4, <2>5, <2>6, <2>7 DEF EnvInv
<1>16. ASSUME PebContents PROVE EnvInv'
  <2>1. TypeOK'
    BY <1>0, <1>16 DEF PebContents, FreeContents, TypeOK, Steps
  <2>2. DependenciesAlive'
    BY <1>0, <1>16
       DEF PebContents, FreeContents, DependenciesAlive, SpansOK, HeldOK, Needs
  <2>3. SpansOK'
    BY <1>0, <1>16 DEF PebContents, FreeContents, SpansOK, HeldOK, Span, Steps, Leaving
  <2>4. HeldOK'
    BY <1>0, <1>16
       DEF PebContents, FreeContents, HeldOK, SpansOK, DependenciesAlive, Needs, Span,
           Leaving
  <2>5. NotifyOK'
    BY <1>0, <1>16 DEF PebContents, FreeContents, NotifyOK, InFlight
  <2>6. ObjectOK'
    BY <1>0, <1>16 DEF PebContents, FreeContents, ObjectOK
  <2>7. PoolOK'
    BY <1>0, <1>16 DEF PebContents, FreeContents, PoolOK, Leaving
  <2> QED BY <2>1, <2>2, <2>3, <2>4, <2>5, <2>6, <2>7 DEF EnvInv
<1>17. ASSUME DropHeaps PROVE EnvInv'
  <2>1. TypeOK'
    BY <1>0, <1>17 DEF DropHeaps, TypeOK, Steps
  <2>2. DependenciesAlive'
    BY <1>0, <1>17
       DEF DropHeaps, DependenciesAlive, SpansOK, HeldOK, Needs, Span, Leaving
  <2>3. SpansOK'
    BY <1>0, <1>17 DEF DropHeaps, SpansOK, HeldOK, Span, Steps, Leaving
  <2>4. HeldOK'
    BY <1>0, <1>17
       DEF DropHeaps, HeldOK, SpansOK, DependenciesAlive, Needs, Span, Leaving
  <2>5. NotifyOK'
    BY <1>0, <1>17 DEF DropHeaps, NotifyOK, InFlight
  <2>6. ObjectOK'
    BY <1>0, <1>17 DEF DropHeaps, ObjectOK
  <2>7. PoolOK'
    BY <1>0, <1>17 DEF DropHeaps, PoolOK, Leaving
  <2> QED BY <2>1, <2>2, <2>3, <2>4, <2>5, <2>6, <2>7 DEF EnvInv
<1>18. ASSUME TebUnregister PROVE EnvInv'
  <2>1. TypeOK'
    BY <1>0, <1>18 DEF TebUnregister, NotInTebCallback, TypeOK, Steps
  <2>2. DependenciesAlive'
    BY <1>0, <1>18
       DEF TebUnregister, NotInTebCallback, DependenciesAlive, SpansOK, HeldOK, Needs
  <2>3. SpansOK'
    BY <1>0, <1>18
       DEF TebUnregister, NotInTebCallback, SpansOK, HeldOK, Span, Steps, Leaving
  <2>4. HeldOK'
    BY <1>0, <1>18
       DEF TebUnregister, NotInTebCallback, HeldOK, SpansOK, DependenciesAlive, Needs,
           Span, Leaving
  <2>5. NotifyOK'
    BY <1>0, <1>18 DEF TebUnregister, NotInTebCallback, NotifyOK, InFlight
  <2>6. ObjectOK'
    BY <1>0, <1>18 DEF TebUnregister, NotInTebCallback, ObjectOK
  <2>7. PoolOK'
    BY <1>0, <1>18 DEF TebUnregister, NotInTebCallback, PoolOK, Leaving
  <2> QED BY <2>1, <2>2, <2>3, <2>4, <2>5, <2>6, <2>7 DEF EnvInv
<1>19. ASSUME TebDelete PROVE EnvInv'
  <2>1. TypeOK'
    BY <1>0, <1>19 DEF TebDelete, TypeOK, Steps
  <2>2. DependenciesAlive'
    BY <1>0, <1>19
       DEF TebDelete, DependenciesAlive, SpansOK, HeldOK, Needs, Span, Leaving
  <2>3. SpansOK'
    BY <1>0, <1>19 DEF TebDelete, SpansOK, HeldOK, Span, Steps, Leaving
  <2>4. HeldOK'
    BY <1>0, <1>19
       DEF TebDelete, HeldOK, SpansOK, DependenciesAlive, Needs, Span, Leaving
  <2>5. NotifyOK'
    BY <1>0, <1>19 DEF TebDelete, NotifyOK, InFlight
  <2>6. ObjectOK'
    BY <1>0, <1>19 DEF TebDelete, ObjectOK
  <2>7. PoolOK'
    BY <1>0, <1>19 DEF TebDelete, PoolOK
  <2> QED BY <2>1, <2>2, <2>3, <2>4, <2>5, <2>6, <2>7 DEF EnvInv
<1>20. ASSUME PebTeardown PROVE EnvInv'
  <2>1. TypeOK'
    BY <1>0, <1>20 DEF PebTeardown, TypeOK, Steps, Strings
  <2>2. DependenciesAlive'
    BY <1>0, <1>20
       DEF PebTeardown, DependenciesAlive, SpansOK, HeldOK, Needs, Span, Leaving
  <2>3. SpansOK'
    BY <1>0, <1>20 DEF PebTeardown, SpansOK, HeldOK, Span, Steps, Leaving
  <2>4. HeldOK'
    BY <1>0, <1>20
       DEF PebTeardown, HeldOK, SpansOK, DependenciesAlive, Needs, Span, Leaving
  <2>5. NotifyOK'
    BY <1>0, <1>20 DEF PebTeardown, NotifyOK, InFlight
  <2>6. ObjectOK'
    BY <1>0, <1>20 DEF PebTeardown, ObjectOK, Strings
  <2>7. PoolOK'
    BY <1>0, <1>20 DEF PebTeardown, PoolOK
  <2> QED BY <2>1, <2>2, <2>3, <2>4, <2>5, <2>6, <2>7 DEF EnvInv
<1>21. ASSUME DropCallback PROVE EnvInv'
  <2>1. TypeOK'
    BY <1>0, <1>21 DEF DropCallback, AfterDereference, TypeOK, Steps, ObjectOK
  <2>2. DependenciesAlive'
    BY <1>0, <1>21
       DEF DropCallback, AfterDereference, DependenciesAlive, SpansOK, HeldOK, Needs
  <2>3. SpansOK'
    BY <1>0, <1>21
       DEF DropCallback, AfterDereference, SpansOK, HeldOK, Span, Steps, Leaving,
           ObjectOK
  <2>4. HeldOK'
    BY <1>0, <1>21
       DEF DropCallback, AfterDereference, HeldOK, SpansOK, DependenciesAlive, Needs,
           Span, Leaving
  <2>5. NotifyOK'
    BY <1>0, <1>21 DEF DropCallback, AfterDereference, NotifyOK, InFlight
  <2>6. ObjectOK'
    BY <1>0, <1>21 DEF DropCallback, AfterDereference, ObjectOK
  <2>7. PoolOK'
    BY <1>0, <1>21 DEF DropCallback, AfterDereference, PoolOK
  <2> QED BY <2>1, <2>2, <2>3, <2>4, <2>5, <2>6, <2>7 DEF EnvInv
<1>22. ASSUME MusaCoreLiteShutdown PROVE EnvInv'
  <2>1. TypeOK'
    BY <1>0, <1>22 DEF MusaCoreLiteShutdown, TypeOK, Steps
  <2>2. DependenciesAlive'
    BY <1>0, <1>22 DEF MusaCoreLiteShutdown, DependenciesAlive, SpansOK, HeldOK, Needs
  <2>3. SpansOK'
    BY <1>0, <1>22 DEF MusaCoreLiteShutdown, SpansOK, HeldOK, Span, Steps, Leaving
  <2>4. HeldOK'
    BY <1>0, <1>22
       DEF MusaCoreLiteShutdown, HeldOK, SpansOK, DependenciesAlive, Needs, Span,
           Leaving
  <2>5. NotifyOK'
    BY <1>0, <1>22 DEF MusaCoreLiteShutdown, NotifyOK, InFlight
  <2>6. ObjectOK'
    BY <1>0, <1>22 DEF MusaCoreLiteShutdown, ObjectOK
  <2>7. PoolOK'
    BY <1>0, <1>22 DEF MusaCoreLiteShutdown, PoolOK
  <2> QED BY <2>1, <2>2, <2>3, <2>4, <2>5, <2>6, <2>7 DEF EnvInv
<1>23. ASSUME UseLibrary PROVE EnvInv'
  <2>1. TypeOK'
    BY <1>0, <1>23 DEF UseLibrary, TypeOK, Steps, Resources
  <2>2. DependenciesAlive'
    BY <1>0, <1>23 DEF UseLibrary, DependenciesAlive, SpansOK, HeldOK, Needs, Strings
  <2>3. SpansOK'
    BY <1>0, <1>23 DEF UseLibrary, SpansOK, HeldOK, Span, Strings
  <2>4. HeldOK'
    BY <1>0, <1>23 DEF UseLibrary, HeldOK, SpansOK, DependenciesAlive, Needs, Span
  <2>5. NotifyOK'
    BY <1>0, <1>23 DEF UseLibrary, NotifyOK, InFlight, WantsNotify
  <2>6. ObjectOK'
    BY <1>0, <1>23 DEF UseLibrary, ObjectOK
  <2>7. PoolOK'
    BY <1>0, <1>23 DEF UseLibrary, PoolOK
  <2> QED BY <2>1, <2>2, <2>3, <2>4, <2>5, <2>6, <2>7 DEF EnvInv
<1>24. ASSUME NEW n \in Notifiers, NotifyEnter(n) PROVE EnvInv'
  <2>1. TypeOK'
    BY <1>0, <1>24 DEF NotifyEnter, TypeOK, Steps
  <2>2. DependenciesAlive'
    BY <1>0, <1>24 DEF NotifyEnter, DependenciesAlive, SpansOK, HeldOK
  <2>3. SpansOK'
    BY <1>0, <1>24 DEF NotifyEnter, SpansOK, HeldOK, Span
  <2>4. HeldOK'
    BY <1>0, <1>24
       DEF NotifyEnter, HeldOK, SpansOK, DependenciesAlive, Needs, Span, Strings
  <2>5. NotifyOK'
    BY <1>0, <1>24 DEF NotifyEnter, NotifyOK, InFlight, WantsNotify
  <2>6. ObjectOK'
    BY <1>0, <1>24 DEF NotifyEnter, ObjectOK
  <2>7. PoolOK'
    BY <1>0, <1>24 DEF NotifyEnter, PoolOK
  <2> QED BY <2>1, <2>2, <2>3, <2>4, <2>5, <2>6, <2>7 DEF EnvInv
<1>25. ASSUME NEW n \in Notifiers, NotifyCall(n) PROVE EnvInv'
  <2>1. TypeOK'
    BY <1>0, <1>25 DEF NotifyCall, TypeOK, Steps
  <2>2. DependenciesAlive'
    BY <1>0, <1>25 DEF NotifyCall, DependenciesAlive, SpansOK, HeldOK
  <2>3. SpansOK'
    BY <1>0, <1>25 DEF NotifyCall, SpansOK, HeldOK, Span
  <2>4. HeldOK'
    BY <1>0, <1>25
       DEF NotifyCall, HeldOK, SpansOK, DependenciesAlive, Needs, Span, WantsNotify
  <2>5. NotifyOK'
    BY <1>0, <1>25 DEF NotifyCall, NotifyOK, InFlight, WantsNotify
  <2>6. ObjectOK'
    BY <1>0, <1>25 DEF NotifyCall, ObjectOK
  <2>7. PoolOK'
    BY <1>0, <1>25 DEF NotifyCall, PoolOK
  <2> QED BY <2>1, <2>2, <2>3, <2>4, <2>5, <2>6, <2>7 DEF EnvInv
<1>26. ASSUME NEW n \in Notifiers, NotifyReturn(n) PROVE EnvInv'
  <2>1. TypeOK'
    BY <1>0, <1>26 DEF NotifyReturn, TypeOK, Steps
  <2>2. DependenciesAlive'
    BY <1>0, <1>26 DEF NotifyReturn, DependenciesAlive, SpansOK, HeldOK
  <2>3. SpansOK'
    BY <1>0, <1>26 DEF NotifyReturn, SpansOK, HeldOK, Span
  <2>4. HeldOK'
    BY <1>0, <1>26
       DEF NotifyReturn, HeldOK, SpansOK, DependenciesAlive, Needs, Span, WantsNotify
  <2>5. NotifyOK'
    BY <1>0, <1>26 DEF NotifyReturn, NotifyOK, InFlight, WantsNotify
  <2>6. ObjectOK'
    BY <1>0, <1>26 DEF NotifyReturn, ObjectOK
  <2>7. PoolOK'
    BY <1>0, <1>26 DEF NotifyReturn, PoolOK
  <2> QED BY <2>1, <2>2, <2>3, <2>4, <2>5, <2>6, <2>7 DEF EnvInv
<1>27. CASE UNCHANGED vars
  BY <1>0, <1>27
     DEF EnvInv, vars, TypeOK, DependenciesAlive, SpansOK, HeldOK, NotifyOK, InFlight,
         WantsNotify, ObjectOK, PoolOK
<1> QED
  BY <1>1, <1>2, <1>3, <1>4, <1>5, <1>6, <1>7, <1>8, <1>9, <1>10, <1>11, <1>12,
     <1>13, <1>14, <1>15, <1>16, <1>17, <1>18, <1>19, <1>20, <1>21, <1>22, <1>23,
     <1>24, <1>25, <1>26, <1>27
     DEF Next, Progress, Notification

(* The invariant in every reachable state.                                  *)
LEMMA EnvInvariant == Spec => []EnvInv
BY EnvInit, EnvStep, PTL DEF Spec

-----------------------------------------------------------------------------
(* Types; and the pointer to the callback object never outlives the         *)
(* reference it stands for.                                                 *)
THEOREM EnvTypeCorrect == Spec => []TypeOK
<1>1. EnvInv => TypeOK
  BY DEF EnvInv
<1> QED BY <1>1, EnvInvariant, PTL

(* Whatever acquisition fails, in whatever start: no release and no         *)
(* rollback takes something away from under what stands on it.              *)
THEOREM DependenciesHold == Spec => []DependenciesAlive
<1>1. EnvInv => DependenciesAlive
  BY DEF EnvInv
<1> QED BY <1>1, EnvInvariant, PTL

(* However many notifications are in flight, none meets a callback object,  *)
(* pool or heap that is gone.                                               *)
THEOREM NotificationsAreSafe == Spec => []NotificationSafe
<1>1. EnvInv => NotificationSafe
  BY DEF EnvInv, NotifyOK, InFlight, NotificationSafe
<1> QED BY <1>1, EnvInvariant, PTL

(* After every start that failed and every shutdown nothing is left, except *)
(* the pool of the thread blocks if their registration can fail.            *)
THEOREM OnlyPoolIsLeft == Spec => []OnlyPoolLeft
<1>1. EnvInv => OnlyPoolLeft
  <2> SUFFICES ASSUME EnvInv, pc = "Stopped", NEW r \in res
               PROVE  r = "lookaside" /\ "RegisterTeb" \in MayFail
    BY DEF OnlyPoolLeft
  <2>1. r \in Resources /\ pc \in Span(r)
    BY DEF EnvInv, TypeOK, SpansOK
  <2>2. r = "lookaside"
    BY <2>1 DEF Resources, Span, Strings, Leaving
  <2>3. "RegisterTeb" \in MayFail
    BY <2>2 DEF EnvInv, PoolOK
  <2> QED BY <2>2, <2>3
<1> QED BY <1>1, EnvInvariant, PTL
=============================================================================
