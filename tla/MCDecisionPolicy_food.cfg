SPECIFICATION FairSpec
CONSTANTS
    Capacity = 2
    Reserve = 1
    Stock = 1
    Window = 2
    Offers <- OfPlant
    Loop = Loop
    Requests = {r}
    None = None
INVARIANTS
    TypeOK
PROPERTIES
    FoodPolicyHolds
    HungryBodyEats
