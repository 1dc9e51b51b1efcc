CONSTANTS
    MayFail = {"Lite", "CreateCallback", "AllocPeb", "InitLock", "RegistryPath", "ImagePath",
               "ImageName", "Lookaside", "DefaultHeap", "CoreHeap", "ThreadNotify", "RegisterTeb"}
    Notifiers = {n1, n2}
    MaxStarts = 3
SPECIFICATION FairSpec
INVARIANTS DependenciesAlive NotificationSafe OnlyPoolLeft
PROPERTY Settles
CHECK_DEADLOCK FALSE
