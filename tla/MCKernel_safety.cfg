SPECIFICATION Spec
CONSTANTS
    MaxPid = 3
    Ticks <- OneTick
    Levels <- NoLevels
    Keys <- CtrlZ
    IdleKeys <- BothKeys
    Parents <- Everyone
    Immune <- ShellOnly
INVARIANTS
    TypeOK
    ListsMatchStatus
    BlockedHasWaker
    NoLostWakeup
    WaitedChildExists
    NoOrphanLeft
    CurrentExists
    CallerIsReady
PROPERTIES
    TerminatedStays
    ReapedByParent
    IdleReadsSetField
