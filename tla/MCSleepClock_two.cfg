SPECIFICATION FairClockSpec
CONSTANTS
    MaxPid = 3
    Ticks <- TwoSleeps
    Levels <- Nothing
    Keys <- CtrlZ
    IdleKeys <- BothKeys
    Parents <- ShellOnly
    Immune <- Everyone
INVARIANTS
    NeverSleepsLong
PROPERTIES
    NeverWakesEarly
    SleeperWakes
