SPECIFICATION LiveSpec
CONSTANTS
    MaxPid = 3
    Ticks <- NoTicks
    Levels <- NoLevels
    Keys <- BothKeys
    IdleKeys <- BothKeys
    Parents <- ShellOnly
    Immune <- Everyone
    Commands <- Unattended
    Nappers = 1
PROPERTIES
    ReadyRuns
    ShellReturns
    ZombieReaped
    StopReported
