---------------------------- MODULE SystemCalls -----------------------------
(***************************************************************************)
(* The functions on processes, threads, handles, dispatcher objects,       *)
(* clocks and processors: KernelBase.Process.cpp, .Process.Information,    *)
(* .Thread, .Handle, .Synchronize, .System.Times, .System.Processor.       *)
(* Converting arguments and results is left out but for what it refuses.   *)
(***************************************************************************)
EXTENDS CallSteps

(* Processes.                                                              *)
GetProcessTimes == Service("Answer")
GetExitCodeProcess == Service("Answer")
GetProcessHandleCount == Service("Answer")
GetProcessPriorityBoost == Service("Answer")
IsProcessCritical == Service("Answer")
GetPriorityClass == Service("Answer")           \* an unknown class counts as normal
GetProcessId == Service("Answer")
GetProcessIdOfThread == Service("Answer")
SetPriorityClass == Guarded(Service("Priority"))
SetProcessPriorityBoost == Service("Boost")
FlushInstructionCache == Service("Flushed")
FlushProcessWriteBuffers == Service("Flushed")
TerminateProcess == Service("Terminated")       \* of itself: __fastfail, no answer
OpenProcess == Opens("Handle")
OpenProcessToken == Opens("TokenHandle")
GetStartupInfoW == Plain("Answer")

(* The process itself needs no handle.                                     *)
OfProcess ==
    Step({}, Releasing(Handle({"Handle"}), LAMBDA d : Outcome(Effect({"Answer"}), d, "No", Success))
             \cup Releasing(Handle({"Handle"}), Fails))

GetProcessVersion ==
    Function(Effect({"Answer"}),
        <<Step({}, {Goes(Onward), Gets(Handle({"Handle"})), Fails({})}), OfProcess>>)

ProcessIdToSessionId ==
    Function(Effect({"Answer"}),
        <<Refuses,
          Step({}, {Finishes("Answer"), Gets(Handle({"Handle"})), Fails({})}),
          OfProcess>>)

SetProcessInformation == Guarded(Service("Information"))

(* A protection level without a Win32 value fails after it was written.    *)
GetProcessInformation ==
    Function(Effect({"Answer"}),
        <<Refuses,
          Step({}, {Finishes("Answer"), Fails({}), Outcome(Effect({"Raw"}), {}, "After", Failure)})>>)

-----------------------------------------------------------------------------
(* Threads.                                                                *)
OpenThread == Opens("Handle")
OpenThreadToken == Opens("TokenHandle")
GetThreadPriority == Service("Answer")
GetThreadPriorityBoost == Service("Answer")
GetExitCodeThread == Service("Answer")
GetThreadId == Service("Answer")
GetThreadContext == Service("Answer")
GetThreadTimes == Service("Answer")
GetThreadIdealProcessorEx == Service("Answer")
GetThreadIOPendingFlag == Service("Answer")
GetCurrentThreadStackLimits == Plain("Answer")
SetThreadPriority == Service("Priority")
SetThreadPriorityBoost == Service("Boost")
SetThreadToken == Service("Token")
SetThreadContext == Service("Context")
SetThreadIdealProcessor == Service("IdealProcessor")
SetThreadIdealProcessorEx == Service("IdealProcessor")
SuspendThread == Service("Suspended")
ResumeThread == Service("Resumed")
TerminateThread == Service("Terminated")
GetThreadInformation == Guarded(Service("Answer"))
SetThreadInformation == Guarded(Service("Information"))

(* An HRESULT of their own.                                                *)
SetThreadDescription ==
    Function(Effect({"Name"}),
        <<Step({}, {Goes(Onward), FailsMute({})}),
          Step({}, {Gets(Effect({"Name"})), FailsMute({})}),
          Succeeds>>)

(* The buffer grows until the name fits and becomes the caller's.  The     *)
(* terminator goes through ThreadDescription[Length >> 1], past the one    *)
(* pointer the caller has, unless the name is empty.                       *)
GetThreadDescription ==
    LET buffer == Block({"Information"}) IN
    Function(buffer,
        <<Step({}, {Gets(buffer), FailsMute({})}),
          Step(buffer, {Goes(Onward), Leads(buffer, 1), FailsMute(buffer)}),
          Choice({4, 5}),
          Step(Block({"ThreadDescription[Length / 2]"}), {Goes(Onward)}),
          Succeeds>>)

(* CreateRemoteThreadEx: the driver object, when there is one, is held     *)
(* until the thread has read its parameters.  ThreadInitThunk releases the *)
(* semaphore the creator waits for.                                        *)
\* as if the status of a thread that could not be created were not told
BadCreateRemoteThreadEx ==
    LET owner == Object({"OwnerObject"}) IN
    Function(Handle({"ThreadHandle"}),
        <<Refuses,
          Step({}, {Goes(Onward), Gets(owner), Fails({})}),
          Step({}, {Gets(Handle({"ThreadHandle"}))} \cup Releasing(owner, FailsMute)),
          Step({}, Releasing(owner, LAMBDA d : Leads(d, Success)))>>)

CreateRemoteThreadEx ==
    LET owner == Object({"OwnerObject"}) IN
    Function(Handle({"ThreadHandle"}),
        <<Refuses,
          Step({}, {Goes(Onward), Gets(owner), Fails({})}),
          Step({}, {Gets(Handle({"ThreadHandle"}))} \cup Releasing(owner, FailsTold)),
          Step({}, Releasing(owner, LAMBDA d : Leads(d, Success)))>>)

CreateThread == CreateRemoteThreadEx
CreateRemoteThread == CreateRemoteThreadEx

InitializeProcThreadAttributeList ==
    Function(Effect({"Attributes"}), <<Refuses, Refuses, Step({}, {Finishes("Attributes")})>>)

-----------------------------------------------------------------------------
(* Handles.  Flags are read, changed and written back.                     *)
CloseHandle == Service("Closed")
DuplicateHandle == Opens("TargetHandle")
CompareObjectHandles == Service("Answer")
GetHandleInformation == Service("Answer")
SetHandleInformation == Guarded(Service("Flags"))

(* Dispatcher objects and waits.  A wait that times out is a success.      *)
CreateEventExW == Opens("Event")
OpenEventW == Opens("Event")
SetEvent == Service("Event")
ResetEvent == Service("Event")
CreateMutexExW == Opens("Mutex")
OpenMutexW == Opens("Mutex")
ReleaseMutex == Service("Mutex")
CreateSemaphoreExW == Opens("Semaphore")
OpenSemaphoreW == Opens("Semaphore")
ReleaseSemaphore == Service("Semaphore")
WaitForSingleObjectEx == Service("Waited")
WaitForMultipleObjectsEx == Service("Waited")
SleepEx == Plain("Waited")
InitOnceExecuteOnce == Service("Initialised")   \* an exception is a failure
InitOnceBeginInitialize == Service("Begun")
InitOnceComplete == Service("Initialised")
InitializeCriticalSectionAndSpinCount == Service("CriticalSection")
InitializeCriticalSectionEx == Service("CriticalSection")

(* A sleep that timed out answers TRUE: STATUS_TIMEOUT is a success.       *)
SleepConditionVariableCS ==
    Function(Effect({"Woken"}), <<Step({}, {Finishes("Woken"), Goes(Success), Fails({})})>>)
SleepConditionVariableSRW == SleepConditionVariableCS

-----------------------------------------------------------------------------
(* Clocks.                                                                 *)
GetSystemTimes ==
    LET times == Block({"ProcessorTimes"}) IN
    Function(Effect({"Answer"}),
        <<Asks({}, {}),
          Takes(times, {}, {}),
          Step(times, {Outcome(Effect({"Answer"}), times, "No", Success), Fails(times)})>>)

GetSystemTime == Plain("Answer")
GetLocalTime == Plain("Answer")
CompareFileTime == Plain("Answer")
SystemTimeToTzSpecificLocalTime == Plain("Answer")
FileTimeToSystemTime == Guarded(Plain("Answer"))
FileTimeToLocalFileTime == Guarded(Plain("Answer"))
LocalFileTimeToFileTime == Guarded(Plain("Answer"))
SystemTimeToFileTime == Guarded(Guarded(Plain("Answer")))

(* Bias and two names, one after the other, each with a buffer of its own; *)
(* one that cannot be read is left as it is.                               *)
GetTimeZoneInformation ==
    LET value == <<Step(Handle({"KeyHandle"}), {Goes(Onward), Gets(Block({"Info"}))}),
                   Step({}, Releasing(Block({"Info"}), Gives))>>
    IN Function(Effect({"Answer"}),
        <<Refuses, Takes(Handle({"KeyHandle"}), {}, {})>> \o value \o value \o value \o
        <<Step({}, {Outcome(Effect({"Answer"}), Handle({"KeyHandle"}), "No", Success)})>>)

GetDynamicTimeZoneInformation == Guarded(GetTimeZoneInformation)

(* Auxiliary counters: an HRESULT of their own.                            *)
Converts == Function(Effect({"Answer"}), <<Step({}, {Finishes("Answer"), FailsMute({})})>>)
QueryAuxiliaryCounterFrequency == Converts
ConvertAuxiliaryCounterToPerformanceCounter == Converts
ConvertPerformanceCounterToAuxiliaryCounter == Converts

(* Processors.                                                             *)
GetLogicalProcessorInformation == Guarded(Service("Answer"))
GetLogicalProcessorInformationEx == Guarded(Service("Answer"))
=============================================================================
