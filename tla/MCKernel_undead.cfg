SPECIFICATION Spec
CONSTANTS
    MaxPid = 3
    Ticks <- OneTick
    Levels <- NoLevels
    Keys <- CtrlC
    IdleKeys <- CtrlC
    Parents <- Everyone
    Immune <- Everyone
INVARIANTS
    CallerIsReady
