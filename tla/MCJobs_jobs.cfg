SPECIFICATION JobsSpec
CONSTANTS
    MaxPid = 3
    Ticks <- NoTicks
    Levels <- LowOnly
    Keys <- CtrlZ
    IdleKeys <- BothKeys
    Parents <- ShellOnly
    Immune <- Everyone
    Commands <- JobControl
    Nappers = 1
VIEW NoStatus
INVARIANTS
    JobsTypeOK
    WaiterFinds
    JobsAreChildren
    ChildHasJob
    StoppedIsStopped
