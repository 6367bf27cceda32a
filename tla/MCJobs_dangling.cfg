SPECIFICATION JobsSpec
CONSTANTS
    MaxPid = 3
    Ticks <- NoTicks
    Levels <- NoLevels
    Keys <- CtrlZ
    IdleKeys <- CtrlZ
    Parents <- ShellOnly
    Immune <- Everyone
    Commands <- Recalling
    Nappers = 1
INVARIANTS
    CurrentIsJob
