SPECIFICATION Spec
CONSTANTS
    Topics = {water}
    Ticks <- ExactTicks
    Rounded <- KeepExact
    MaxLedger = 2
    WorldExhaustsScan = TRUE
    Faults <- KeyFault
    MaxResets = 0
    MaxCrashes = 1
    MaxMemories = 0
    MaxFaults = 1
    None = None
PROPERTY FailsClosed
