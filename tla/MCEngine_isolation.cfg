SPECIFICATION Spec
CONSTANTS
    Loop = Loop
    Requests <- NoRequest
    Controls <- PauseAndReset
    MaxWorlds = 2
    MaxDecisions = 2
    Window = 4
    None = None
INVARIANT VerifiedMemoryIsNative
