--------------------------- MODULE MCKernelCalls ----------------------------
(* The whole table, and what is known to depart from the properties.       *)
EXTENDS CallRules, FileCalls, SystemCalls, LibraryCalls, TLC

Files ==
    [GetFileType |-> GetFileType, ReadFile |-> ReadFile, WriteFile |-> WriteFile,
     DeviceIoControl |-> DeviceIoControl, FlushFileBuffers |-> FlushFileBuffers,
     CreateFileW |-> CreateFileW, CreateFile2 |-> CreateFile2,
     GetFileAttributesExW |-> GetFileAttributesExW, GetFileAttributesW |-> GetFileAttributesW,
     DeleteFileW |-> DeleteFileW, CreateDirectoryW |-> CreateDirectoryW,
     SetFileAttributesW |-> SetFileAttributesW, RemoveDirectoryW |-> RemoveDirectoryW,
     MoveFileExW |-> MoveFileExW, GetTempPathW |-> GetTempPathW,
     GetDriveTypeW |-> GetDriveTypeW,
     FindFirstFileExW |-> FindFirstFileExW, FindFirstFileW |-> FindFirstFileW,
     FindNextFileW |-> FindNextFileW, FindClose |-> FindClose,
     GetFullPathNameW |-> GetFullPathNameW, GetFileSizeEx |-> GetFileSizeEx,
     SetFileTime |-> SetFileTime, GetFileTime |-> GetFileTime, SetEndOfFile |-> SetEndOfFile,
     SetFilePointerEx |-> SetFilePointerEx, SetFilePointer |-> SetFilePointer,
     GetFileInformationByHandle |-> GetFileInformationByHandle,
     SetFileInformationByHandle |-> SetFileInformationByHandle,
     GetFileInformationByHandleEx |-> GetFileInformationByHandleEx,
     PeekNamedPipe |-> PeekNamedPipe, CreateNamedPipeW |-> CreateNamedPipeW,
     CreateSymbolicLinkW |-> CreateSymbolicLinkW, CreateHardLinkW |-> CreateHardLinkW,
     GetFinalPathNameByHandleW |-> GetFinalPathNameByHandleW,
     GetDiskFreeSpaceExW |-> GetDiskFreeSpaceExW, CopyFile2 |-> CopyFile2,
     CreateDirectoryExW |-> CreateDirectoryExW]

System ==
    [GetProcessTimes |-> GetProcessTimes, GetExitCodeProcess |-> GetExitCodeProcess,
     GetProcessHandleCount |-> GetProcessHandleCount,
     GetProcessPriorityBoost |-> GetProcessPriorityBoost,
     IsProcessCritical |-> IsProcessCritical, GetPriorityClass |-> GetPriorityClass,
     GetProcessId |-> GetProcessId, GetProcessIdOfThread |-> GetProcessIdOfThread,
     SetPriorityClass |-> SetPriorityClass, SetProcessPriorityBoost |-> SetProcessPriorityBoost,
     FlushInstructionCache |-> FlushInstructionCache,
     FlushProcessWriteBuffers |-> FlushProcessWriteBuffers,
     TerminateProcess |-> TerminateProcess, OpenProcess |-> OpenProcess,
     OpenProcessToken |-> OpenProcessToken, GetStartupInfoW |-> GetStartupInfoW,
     GetProcessVersion |-> GetProcessVersion, ProcessIdToSessionId |-> ProcessIdToSessionId,
     SetProcessInformation |-> SetProcessInformation,
     GetProcessInformation |-> GetProcessInformation, OpenThread |-> OpenThread,
     OpenThreadToken |-> OpenThreadToken, GetThreadPriority |-> GetThreadPriority,
     GetThreadPriorityBoost |-> GetThreadPriorityBoost, GetExitCodeThread |-> GetExitCodeThread,
     GetThreadId |-> GetThreadId, GetThreadContext |-> GetThreadContext,
     GetThreadTimes |-> GetThreadTimes, GetThreadIdealProcessorEx |-> GetThreadIdealProcessorEx,
     GetThreadIOPendingFlag |-> GetThreadIOPendingFlag,
     GetCurrentThreadStackLimits |-> GetCurrentThreadStackLimits,
     SetThreadPriority |-> SetThreadPriority, SetThreadPriorityBoost |-> SetThreadPriorityBoost,
     SetThreadToken |-> SetThreadToken, SetThreadContext |-> SetThreadContext,
     SetThreadIdealProcessor |-> SetThreadIdealProcessor,
     SetThreadIdealProcessorEx |-> SetThreadIdealProcessorEx, SuspendThread |-> SuspendThread,
     ResumeThread |-> ResumeThread, TerminateThread |-> TerminateThread,
     GetThreadInformation |-> GetThreadInformation,
     SetThreadInformation |-> SetThreadInformation,
     SetThreadDescription |-> SetThreadDescription,
     GetThreadDescription |-> GetThreadDescription,
     CreateRemoteThreadEx |-> CreateRemoteThreadEx, CreateThread |-> CreateThread,
     CreateRemoteThread |-> CreateRemoteThread,
     InitializeProcThreadAttributeList |-> InitializeProcThreadAttributeList,
     CloseHandle |-> CloseHandle, DuplicateHandle |-> DuplicateHandle,
     CompareObjectHandles |-> CompareObjectHandles,
     GetHandleInformation |-> GetHandleInformation,
     SetHandleInformation |-> SetHandleInformation, CreateEventExW |-> CreateEventExW,
     OpenEventW |-> OpenEventW, SetEvent |-> SetEvent, ResetEvent |-> ResetEvent,
     CreateMutexExW |-> CreateMutexExW, OpenMutexW |-> OpenMutexW,
     ReleaseMutex |-> ReleaseMutex, CreateSemaphoreExW |-> CreateSemaphoreExW,
     OpenSemaphoreW |-> OpenSemaphoreW, ReleaseSemaphore |-> ReleaseSemaphore,
     WaitForSingleObjectEx |-> WaitForSingleObjectEx,
     WaitForMultipleObjectsEx |-> WaitForMultipleObjectsEx, SleepEx |-> SleepEx,
     InitOnceExecuteOnce |-> InitOnceExecuteOnce,
     InitOnceBeginInitialize |-> InitOnceBeginInitialize, InitOnceComplete |-> InitOnceComplete,
     InitializeCriticalSectionAndSpinCount |-> InitializeCriticalSectionAndSpinCount,
     InitializeCriticalSectionEx |-> InitializeCriticalSectionEx,
     SleepConditionVariableCS |-> SleepConditionVariableCS,
     SleepConditionVariableSRW |-> SleepConditionVariableSRW, GetSystemTimes |-> GetSystemTimes,
     GetSystemTime |-> GetSystemTime, GetLocalTime |-> GetLocalTime,
     CompareFileTime |-> CompareFileTime,
     SystemTimeToTzSpecificLocalTime |-> SystemTimeToTzSpecificLocalTime,
     FileTimeToSystemTime |-> FileTimeToSystemTime,
     FileTimeToLocalFileTime |-> FileTimeToLocalFileTime,
     LocalFileTimeToFileTime |-> LocalFileTimeToFileTime,
     SystemTimeToFileTime |-> SystemTimeToFileTime,
     GetTimeZoneInformation |-> GetTimeZoneInformation,
     GetDynamicTimeZoneInformation |-> GetDynamicTimeZoneInformation,
     QueryAuxiliaryCounterFrequency |-> QueryAuxiliaryCounterFrequency,
     ConvertAuxiliaryCounterToPerformanceCounter |-> ConvertAuxiliaryCounterToPerformanceCounter,
     ConvertPerformanceCounterToAuxiliaryCounter |-> ConvertPerformanceCounterToAuxiliaryCounter,
     GetLogicalProcessorInformation |-> GetLogicalProcessorInformation,
     GetLogicalProcessorInformationEx |-> GetLogicalProcessorInformationEx]

Library ==
    [LdrLoadDataFile |-> LdrLoadDataFile, LdrUnloadDataFile |-> LdrUnloadDataFile,
     LdrGetKnownDllSectionHandle |-> LdrGetKnownDllSectionHandle,
     LdrGetProcedureAddressForCaller |-> LdrGetProcedureAddressForCaller,
     GetProcAddress |-> GetProcAddress, LoadLibraryExA |-> LoadLibraryExA,
     RtlMapResourceId |-> RtlMapResourceId, RtlFindResource |-> RtlFindResource,
     RtlLoadResource |-> RtlLoadResource, GetFileVersionInfoExW |-> GetFileVersionInfoExW,
     GetFileVersionInfoSizeW |-> GetFileVersionInfoSizeW, VerQueryValueW |-> VerQueryValueW,
     RtlFindAndFormatMessage |-> RtlFindAndFormatMessage, FormatMessageA |-> FormatMessageA,
     FormatMessageW |-> FormatMessageW, MultiByteToWideChar |-> MultiByteToWideChar,
     WideCharToMultiByte |-> WideCharToMultiByte, GetCPInfo |-> GetCPInfo,
     GetCPInfoExW |-> GetCPInfoExW, GetDateFormatEx |-> GetDateFormatEx,
     GetTimeFormatEx |-> GetTimeFormatEx,
     RtlCreateMemoryBlockLookaside |-> RtlCreateMemoryBlockLookaside,
     RtlDestroyMemoryBlockLookaside |-> RtlDestroyMemoryBlockLookaside,
     RtlInitializeCriticalSectionEx |-> RtlInitializeCriticalSectionEx]

MCProgram == Files @@ System @@ Library

MCOwnStatus ==
    {"CopyFile2", "SetThreadDescription", "GetThreadDescription", "QueryAuxiliaryCounterFrequency",
     "ConvertAuxiliaryCounterToPerformanceCounter", "ConvertPerformanceCounterToAuxiliaryCounter",
     "LdrLoadDataFile", "LdrUnloadDataFile", "LdrGetKnownDllSectionHandle",
     "LdrGetProcedureAddressForCaller", "RtlMapResourceId", "RtlFindResource", "RtlLoadResource",
     "RtlFindAndFormatMessage", "RtlCreateMemoryBlockLookaside", "RtlInitializeCriticalSectionEx"}

MCForgets ==
    {<<"GetDiskFreeSpaceExW", "NtPathName">>, <<"CreateHardLinkW", "NtExisting">>,
     <<"CreateHardLinkW", "NtLink">>, <<"CreateDirectoryExW", "NtTemplate">>,
     <<"CreateDirectoryExW", "NtNew">>, <<"RtlMapResourceId", "String">>,
     <<"FormatMessageA", "UnicodeString">>}

(* The tightest plan of a function: what its paths bring to each step, and *)
(* on from there until nothing is new.                                     *)
Outcomes(steps) == UNION {{i} \X steps[i].may : i \in DOMAIN steps}
Mentioned(steps) == UNION {o[2].takes \cup o[2].drops \cup o[2].when : o \in Outcomes(steps)}
Unknown(steps) == [i \in DOMAIN steps |-> [sure |-> IF i = 1 THEN {} ELSE Mentioned(steps),
                                           maybe |-> {}, seen |-> i = 1,
                                           errors |-> IF i = 1 THEN {"Kept"} ELSE {}]]

Onwards(steps, plan) ==
    LET arrives == {o \in Outcomes(steps) : plan[o[1]].seen /\ CanHappen(plan[o[1]], o[2])} IN
    [i \in DOMAIN steps |->
        LET here == {o \in arrives : Target(o[1], o[2]) = i} IN
        [sure |-> {t \in plan[i].sure : \A o \in here : t \in SureAfter(plan[o[1]], o[2])},
         maybe |-> plan[i].maybe \cup UNION {MaybeAfter(plan[o[1]], o[2]) : o \in here},
         errors |-> plan[i].errors \cup UNION {ErrorsAfter(plan[o[1]], o[2]) : o \in here},
         seen |-> plan[i].seen \/ here # {}]]

RECURSIVE Settled(_, _)
Settled(steps, plan) ==
    LET next == Onwards(steps, plan) IN IF next = plan THEN plan ELSE Settled(steps, next)

MCPlan ==
    [f \in DOMAIN MCProgram |->
        LET steps == MCProgram[f].steps IN <<>> \o Settled(steps, Unknown(steps))]
=============================================================================
