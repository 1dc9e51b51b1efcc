-------------------------- MODULE EnvironmentBlock --------------------------
(***************************************************************************)
(* Start and stop of the library: MusaCoreStartup and MusaCoreShutdown with *)
(* everything they set up and take down (EnvironmentBlockSetup/Teardown,    *)
(* ProcessEnvironmentBlockSetup/Teardown, ThreadEnvironmentBlockSetup/      *)
(* Teardown).  One step per acquisition or release, each acquisition may    *)
(* fail, and the thread notifications of the operating system run beside    *)
(* it as soon as their routine is registered.                               *)
(*                                                                         *)
(* The caller may start again after a failure (STATUS_RETRY) and may shut   *)
(* down again after a start that failed and shut down already.              *)
(***************************************************************************)
EXTENDS Naturals

CONSTANTS MayFail,     \* labels of the acquisitions that can fail
          Notifiers,   \* exiting threads whose notification can be in flight
          MaxStarts    \* bound: calls of MusaCoreStartup

Acquisitions == {"Lite", "CreateCallback", "AllocPeb", "InitLock", "RegistryPath",
                 "ImagePath", "ImageName", "Lookaside", "RegisterTeb",
                 "DefaultHeap", "CoreHeap", "ThreadNotify"}

ASSUME EnvironmentAssumption ==
    /\ MayFail \subseteq Acquisitions
    /\ MaxStarts \in Nat

VARIABLES
    pc,        \* where the starting or stopping thread is
    res,       \* what is held now; "object" is the callback object itself
    published, \* MusaCoreThreadNotifyCallbackObject is not null
    taken,     \* EnvironmentBlockTeardown took the pointer and must release it
    useNotify, \* MusaCoreUseThreadNotifyCallback
    driver,    \* MusaCoreDriverObject is not null
    tebInit,   \* TebInitialized, local of ProcessEnvironmentBlockSetup
    created,   \* the creation reference on the callback object is held
    npc,       \* where each notification is
    starts

vars == <<pc, res, published, taken, useNotify, driver, tebInit, created, npc,
          starts>>

Resources == {"lite", "object", "peb", "pebLock", "registryPath", "imagePath",
              "imageName", "pebPointer", "lookaside", "tebHandle", "defaultHeap",
              "coreHeap", "notify", "tebs", "flsData", "environment"}

Strings == {"registryPath", "imagePath", "imageName"}

Steps == Acquisitions \cup
  {"Stopped", "Running", "Publish", "PebFail", "PebFree", "SetupFail",
   "RemoveNotify", "WaitNotify", "TakeCallback", "DropCoreHeap", "FlsCleanup", "DropHeaps",
   "TebUnregister", "TebDelete", "PebTeardown", "DropCallback", "LiteShutdown"}

(* Types, and what the callback pointer stands for: while it is published  *)
(* or taken, the creation reference it names has not been dropped.          *)
TypeOK ==
    /\ pc \in Steps
    /\ res \subseteq Resources
    /\ {published, taken, useNotify, driver, tebInit, created} \subseteq BOOLEAN
    /\ npc \in [Notifiers -> {"idle", "entered", "callback", "null"}]
    /\ starts \in 0 .. MaxStarts
    /\ published \/ taken => created
    /\ created => "object" \in res

Init ==
    /\ pc = "Stopped"
    /\ res = {}
    /\ published = FALSE /\ taken = FALSE
    /\ useNotify = FALSE /\ driver = FALSE
    /\ tebInit = FALSE /\ created = FALSE
    /\ npc = [n \in Notifiers |-> "idle"]
    /\ starts = 0

flags == <<useNotify, driver, starts>>
cb    == <<published, taken, created>>

(* One acquisition: it succeeds, or fails where it may.                     *)
Acquire(step, r, onSuccess, onFailure) ==
    /\ pc = step
    /\ \/ res' = res \cup {r} /\ pc' = onSuccess
       \/ step \in MayFail /\ pc' = onFailure /\ UNCHANGED res

-----------------------------------------------------------------------------
(* MusaCoreStartup: a failure anywhere ends in MusaCoreShutdown.            *)
MusaCoreStartup(notify) ==
    /\ pc = "Stopped"
    /\ starts < MaxStarts
    /\ starts' = starts + 1
    /\ useNotify' = notify
    /\ pc' = "Lite"
    /\ UNCHANGED <<res, cb, driver, tebInit, npc>>

MusaCoreLiteStartup ==
    /\ Acquire("Lite", "lite", "CreateCallback", "RemoveNotify")
    /\ UNCHANGED <<cb, flags, tebInit, npc>>

(* EnvironmentBlockSetup: the driver object may be null.                    *)
CreateCallback(drv) ==
    /\ driver' = drv
    /\ Acquire("CreateCallback", "object", "AllocPeb", "SetupFail")
    /\ published' = ("object" \in res')
    /\ created' = ("object" \in res')
    /\ UNCHANGED <<taken, useNotify, starts, tebInit, npc>>

(* ProcessEnvironmentBlockSetup, which begins with TebInitialized = false,  *)
(* up to the publication of the PEB; without a driver object the two image  *)
(* names are not copied.                                                    *)
PebAcquire ==
    /\ \/ Acquire("AllocPeb", "peb", "InitLock", "SetupFail")
       \/ Acquire("InitLock", "pebLock", "RegistryPath", "PebFail")
       \/ Acquire("RegistryPath", "registryPath",
                  IF driver THEN "ImagePath" ELSE "Publish", "PebFail")
       \/ Acquire("ImagePath", "imagePath", "ImageName", "PebFail")
       \/ Acquire("ImageName", "imageName", "Publish", "PebFail")
    /\ tebInit' = FALSE
    /\ UNCHANGED <<cb, flags, npc>>

PebPublish ==
    /\ pc = "Publish"
    /\ res' = res \cup {"pebPointer"}
    /\ pc' = "Lookaside"
    /\ UNCHANGED <<cb, flags, tebInit, npc>>

(* ThreadEnvironmentBlockSetup: the pool, then the registration, which      *)
(* references the callback object.  A failure withdraws the PEB pointer.    *)
TebAcquire ==
    /\ \/ Acquire("Lookaside", "lookaside", "RegisterTeb", "PebFail")
       \/ Acquire("RegisterTeb", "tebHandle", "DefaultHeap", "PebFail")
    /\ tebInit' = ("tebHandle" \in res')
    /\ UNCHANGED <<cb, flags, npc>>

(* The default heap, then MusaCoreHeap, then the thread notification where  *)
(* it was asked for and there is a driver object.                           *)
WantsNotify == useNotify /\ driver

LateAcquire ==
    /\ \/ Acquire("DefaultHeap", "defaultHeap", "CoreHeap", "PebFail")
       \/ Acquire("CoreHeap", "coreHeap",
                  IF WantsNotify THEN "ThreadNotify" ELSE "Running", "SetupFail")
       \/ Acquire("ThreadNotify", "notify", "Running", "SetupFail")
    /\ UNCHANGED <<cb, flags, tebInit, npc>>

(* A definition named Bad... is a seeded fault: the definition below it with *)
(* one slip, used to see that a property notices.                           *)

(* Failure inside ProcessEnvironmentBlockSetup, from the point of failure   *)
(* down: the thread blocks if they were set up, the pointer, the rest.      *)
BadTebRollback == {}
TebRollback == IF tebInit THEN {"tebHandle", "lookaside"} ELSE {}

NotInTebCallback == \A n \in Notifiers : npc[n] # "callback"

PebSetupFail ==
    /\ pc = "PebFail"
    /\ tebInit => NotInTebCallback
    /\ res' = res \ (TebRollback \cup {"pebPointer"})
    /\ pc' = "PebFree"
    /\ UNCHANGED <<cb, flags, tebInit, npc>>

PebSetupFree ==
    /\ pc = "PebFree"
    /\ res' = res \ (Strings \cup {"pebLock", "peb"})
    /\ pc' = "SetupFail"
    /\ UNCHANGED <<cb, flags, tebInit, npc>>

(* A reference on the callback object is dropped: it goes with the last.    *)
AfterDereference(r) == IF "tebHandle" \in r THEN r ELSE r \ {"object"}

BadPointerAfterFailure == published
PointerAfterFailure    == FALSE

BadAfterSetupFail == "CreateCallback"
AfterSetupFail    == "RemoveNotify"

(* Failure in EnvironmentBlockSetup: MusaCoreHeap and the callback object   *)
(* go; the PEB, when it was set up, is left to the shutdown that follows.   *)
SetupFail ==
    /\ pc = "SetupFail"
    /\ res' = IF published THEN AfterDereference(res \ {"coreHeap"})
                           ELSE res \ {"coreHeap"}
    /\ published' = PointerAfterFailure
    /\ created' = FALSE
    /\ pc' = AfterSetupFail
    /\ UNCHANGED <<taken, flags, tebInit, npc>>

-----------------------------------------------------------------------------
(* MusaCoreShutdown, called by the driver.                                  *)
MusaCoreShutdown ==
    /\ pc \in {"Running", "Stopped"}
    /\ pc' = "RemoveNotify"
    /\ UNCHANGED <<res, cb, flags, tebInit, npc>>

(* PsRemoveCreateThreadNotifyRoutine takes the routine off the list and     *)
(* returns once none is in flight.                                          *)
RemoveNotify ==
    /\ pc = "RemoveNotify"
    /\ res' = IF WantsNotify THEN res \ {"notify"} ELSE res
    /\ pc' = "WaitNotify"
    /\ UNCHANGED <<cb, flags, tebInit, npc>>

BadWaitNotify ==
    /\ pc = "WaitNotify"
    /\ pc' = "TakeCallback"
    /\ UNCHANGED <<res, cb, flags, tebInit, npc>>

WaitNotify ==
    /\ pc = "WaitNotify"
    /\ WantsNotify => \A n \in Notifiers : npc[n] = "idle"
    /\ pc' = "TakeCallback"
    /\ UNCHANGED <<res, cb, flags, tebInit, npc>>

TakeCallback ==
    /\ pc = "TakeCallback"
    /\ taken' = published
    /\ published' = FALSE
    /\ pc' = "DropCoreHeap"
    /\ UNCHANGED <<res, created, flags, tebInit, npc>>

(* ProcessEnvironmentBlockTeardown does nothing when there is no PEB.       *)
DropCoreHeap ==
    /\ pc = "DropCoreHeap"
    /\ res' = res \ {"coreHeap"}
    /\ pc' = IF "pebPointer" \in res THEN "FlsCleanup" ELSE "DropCallback"
    /\ UNCHANGED <<cb, flags, tebInit, npc>>

(* FlsCleanup and the environment list give their memory back to the        *)
(* default heap, then every heap of the process is destroyed.               *)
BadFreeContents == {"flsData"}
FreeContents == {"flsData", "environment"}

PebContents ==
    /\ pc = "FlsCleanup"
    /\ res' = res \ FreeContents
    /\ pc' = "DropHeaps"
    /\ UNCHANGED <<cb, flags, tebInit, npc>>

DropHeaps ==
    /\ pc = "DropHeaps"
    /\ res' = res \ {"defaultHeap"}
    /\ pc' = "TebUnregister"
    /\ UNCHANGED <<cb, flags, tebInit, npc>>

(* ThreadEnvironmentBlockTeardown; ExUnregisterCallback waits for a running *)
(* callback and drops the reference of the registration.                    *)
TebUnregister ==
    /\ pc = "TebUnregister"
    /\ NotInTebCallback
    /\ res' = IF created THEN res \ {"tebHandle"} ELSE res \ {"tebHandle", "object"}
    /\ pc' = "TebDelete"
    /\ UNCHANGED <<cb, flags, tebInit, npc>>

TebDelete ==
    /\ pc = "TebDelete"
    /\ res' = res \ {"tebs", "lookaside"}
    /\ pc' = "PebTeardown"
    /\ UNCHANGED <<cb, flags, tebInit, npc>>

PebTeardown ==
    /\ pc = "PebTeardown"
    /\ res' = res \ (Strings \cup {"pebPointer", "pebLock", "peb"})
    /\ pc' = "DropCallback"
    /\ UNCHANGED <<cb, flags, tebInit, npc>>

DropCallback ==
    /\ pc = "DropCallback"
    /\ res' = IF taken THEN AfterDereference(res) ELSE res
    /\ created' = (created /\ ~taken)
    /\ taken' = FALSE
    /\ pc' = "LiteShutdown"
    /\ UNCHANGED <<published, flags, tebInit, npc>>

MusaCoreLiteShutdown ==
    /\ pc = "LiteShutdown"
    /\ res' = res \ {"lite"}
    /\ pc' = "Stopped"
    /\ UNCHANGED <<cb, flags, tebInit, npc>>

-----------------------------------------------------------------------------
(* Clients use the library while it runs: thread blocks, FLS data and       *)
(* environment variables come into being.                                   *)
UseLibrary ==
    /\ pc = "Running"
    /\ \E r \in {"tebs", "flsData", "environment"} : res' = res \cup {r}
    /\ UNCHANGED <<pc, cb, flags, tebInit, npc>>

(* A thread ends and the operating system calls ThreadNotifyCallback, which *)
(* reads the global pointer ...                                             *)
NotifyEnter(n) ==
    /\ "notify" \in res
    /\ npc[n] = "idle"
    /\ npc' = [npc EXCEPT ![n] = IF published THEN "entered" ELSE "null"]
    /\ UNCHANGED <<pc, res, cb, flags, tebInit>>

(* ... ExNotifyCallback runs the registered routine ...                     *)
NotifyCall(n) ==
    /\ npc[n] = "entered"
    /\ npc' = [npc EXCEPT ![n] = IF "tebHandle" \in res THEN "callback" ELSE "null"]
    /\ UNCHANGED <<pc, res, cb, flags, tebInit>>

(* ... and the notification is over.                                        *)
NotifyReturn(n) ==
    /\ npc[n] \in {"callback", "null"}
    /\ npc' = [npc EXCEPT ![n] = "idle"]
    /\ UNCHANGED <<pc, res, cb, flags, tebInit>>

-----------------------------------------------------------------------------
Progress ==
    \/ MusaCoreLiteStartup \/ \E drv \in BOOLEAN : CreateCallback(drv)
    \/ PebAcquire \/ PebPublish \/ TebAcquire
    \/ LateAcquire \/ PebSetupFail \/ PebSetupFree \/ SetupFail
    \/ RemoveNotify \/ WaitNotify \/ TakeCallback \/ DropCoreHeap \/ PebContents \/ DropHeaps
    \/ TebUnregister \/ TebDelete \/ PebTeardown \/ DropCallback
    \/ MusaCoreLiteShutdown

Notification(n) == NotifyEnter(n) \/ NotifyCall(n) \/ NotifyReturn(n)

Next ==
    \/ \E notify \in BOOLEAN : MusaCoreStartup(notify)
    \/ MusaCoreShutdown
    \/ Progress
    \/ UseLibrary
    \/ \E n \in Notifiers : Notification(n)

Spec == Init /\ [][Next]_vars

(* The starting or stopping thread runs on, notifications return, and a     *)
(* release that waits for notifications is not overtaken by new ones.       *)
FairSpec == /\ Spec
            /\ WF_vars(Progress)
            /\ \A n \in Notifiers : WF_vars(NotifyCall(n) \/ NotifyReturn(n))

-----------------------------------------------------------------------------
(* PROPERTIES                                                               *)

(* What each resource stands on: its memory, its lock, or the object it is  *)
(* registered with.                                                         *)
Needs(r) ==
    CASE r = "tebHandle" -> {"object", "lookaside"}
      [] r = "tebs" -> {"lookaside"}
      [] r \in {"flsData", "environment"} -> {"defaultHeap"}
      [] r \in {"defaultHeap", "coreHeap"} -> {"pebPointer", "pebLock", "peb"}
      [] r = "pebPointer" -> {"pebLock", "peb"}
      [] r \in Strings \cup {"pebLock"} -> {"peb"}
      [] OTHER -> {}

(* Nothing is released or rolled back before what stands on it: heaps are   *)
(* destroyed while the PEB pointer and its lock are there, FLS data and     *)
(* environment entries before their heap, and so on, on every failure path. *)
DependenciesAlive == \A r \in res : Needs(r) \subseteq res

(* A thread notification in flight never meets an object that is gone, even *)
(* when it began before the shutdown.                                       *)
NotificationSafe ==
    \A n \in Notifiers :
      /\ npc[n] = "entered" => "object" \in res
      /\ npc[n] = "callback" => {"object", "lookaside", "defaultHeap"} \subseteq res

(* A start that failed, and a shutdown, leave nothing behind but the pool   *)
(* of the thread blocks, which stays when their registration fails: no      *)
(* other failure, in any start of the history, leaks.                       *)
OnlyPoolLeft ==
    pc = "Stopped" =>
      res \subseteq (IF "RegisterTeb" \in MayFail THEN {"lookaside"} ELSE {})

(* Every start and every shutdown comes to an end, notifications or not.    *)
Settles == pc \notin {"Stopped", "Running"} ~> pc \in {"Stopped", "Running"}
=============================================================================
