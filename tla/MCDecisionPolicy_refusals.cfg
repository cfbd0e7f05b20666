SPECIFICATION Spec
CONSTANTS
    Capacity = 2
    Reserve = 1
    Stock = 1
    Window = 8
    Offers <- AnyProposal
    Loop = Loop
    Requests = {}
    None = None
INVARIANT FailingPairsAreStopped
