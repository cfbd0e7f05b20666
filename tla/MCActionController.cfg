SPECIFICATION FairSpec
CONSTANTS
    Places <- BodyPlaces
    Cells <- GridCells
    CellOf <- Rounded
    Reach <- InteractionRadius
    CloseTo <- ShelterRadius
    Route <- Paths
    Between <- Midway
    Cut <- RockInTheWay
    BuildArea <- Clearing
    Kinds <- Items
    Edible <- Food
    Cost <- OneBranch
    Resources <- Generated
    KindOf <- Yields
    HomeOf <- Positions
    StockOf <- OneEach
    DropIds <- OneDrop
    Capacity = 1
    Regrowth = 2
    MaxDuration = 2
    MaxShelters = 2
    MaxAsked = 2
    None = None
INVARIANTS
    TypeOK
    DepletedIsGrowing
    SheltersApart
PROPERTIES
    ItemsConserved
    AcceptedNeverSpoils
    ExecutionEnds
    EmptyGrowsBack
