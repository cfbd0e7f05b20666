SPECIFICATION Spec
CONSTANTS
    Topics = {water}
    Ticks <- AnyTicks
    Rounded <- ToThreeDecimals
    MaxLedger = 2
    WorldExhaustsScan = FALSE
    Faults <- NoFaults
    MaxResets = 0
    MaxCrashes = 0
    MaxMemories = 1
    MaxFaults = 0
    None = None
INVARIANT AnnouncedIsAccepted
