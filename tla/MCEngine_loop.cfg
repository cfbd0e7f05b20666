SPECIFICATION FairSpec
CONSTANTS
    Loop = Loop
    Requests <- NoRequest
    Controls <- NoSavedStates
    MaxWorlds = 2
    MaxDecisions = 3
    Window = 4
    None = None
INVARIANTS
    OutcomeCreditedToItsDecision
PROPERTIES
    IdleBodyGetsThought
    DeathPauses
