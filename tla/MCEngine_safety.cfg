SPECIFICATION Spec
CONSTANTS
    Loop = Loop
    Requests <- OneRequest
    Controls <- EveryCommand
    MaxWorlds = 2
    MaxDecisions = 2
    Window = 2
    None = None
INVARIANTS
    TypeOK
    StatesCoherent
    NeverStranded
    DurableIsOfThisWorld
    ReflectionsStayInTheirWorld
    CreditIsNotEarlier
PROPERTIES
    CommitOnlyOwnOutcome
    WorldNeverGoesBack
