SPECIFICATION LiveSpec
CONSTANTS
    SCHEDULER_HIGH = 3
    SCHEDULER_MED = 2
    SCHEDULER_LOW = 1
    ReadySets <- AnyReady
    Horizon = 13
INVARIANTS
    ChosenIsReady
    BoundedWait
    FairShare
PROPERTIES
    UpperNotStarved
