SPECIFICATION CallsSpec
CONSTANTS
    Program <- MCProgram
    Plan <- MCPlan
    OwnStatus <- MCOwnStatus
    MisplacesPath = {"GetDiskFreeSpaceExW", "CreateHardLinkW", "CreateDirectoryExW"}
    Forgets <- MCForgets
    Astray = {"GetThreadDescription"}
    Mute = {"GetDriveTypeW", "MultiByteToWideChar", "WideCharToMultiByte", "FormatMessageA"}
    Hasty = {"GetFileInformationByHandleEx", "CopyFile2", "SleepConditionVariableCS",
             "SleepConditionVariableSRW", "FormatMessageA", "FormatMessageW",
             "GetDateFormatEx", "GetTimeFormatEx"}
    Spoils = {"CopyFile2", "GetProcessInformation"}
    Blurs = {"FindFirstFileExW", "FindFirstFileW", "GetTempPathW"}
INVARIANTS GivesBack UsesWhatItHolds AnswerTellsEffect FailureTold RunsByRules
