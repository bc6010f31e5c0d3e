SPECIFICATION Spec
CONSTANTS
    Threads <- MCThreads
    Keys <- MCKeys
    Limit = 2
    Window = 2
    MaxWait = 1
    MaxClock = 6
INVARIANTS
    WindowKept
PROPERTIES
    DeniedOnlyWhenFull
