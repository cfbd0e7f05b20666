SPECIFICATION Spec
CONSTANTS
    Topics = {water, shelter}
    Ticks <- AnyTicks
    Rounded <- ToThreeDecimals
    MaxLedger = 2
    WorldExhaustsScan = TRUE
    Faults <- AllFaults
    MaxResets = 1
    MaxCrashes = 2
    MaxMemories = 2
    MaxFaults = 1
    None = None
INVARIANTS
    TypeOK
    AcceptedIsOwn
    RowNamesFile
    RestartKeepsMemories
    ResetEndsWorlds
    ExactIsAccepted
PROPERTIES
    EventsAreSignable
    MemoriesAtomic
SYMMETRY AnyTopic
