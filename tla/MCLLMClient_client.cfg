SPECIFICATION FairSpec
CONSTANTS
    Urls <- TwoServers
    Models <- TwoModels
    Native <- OnlyStudio
    Requests <- TwoRequests
    Observed = TRUE
    StartUp = "startup"
    Pages <- OnePage
    Environment <- Unconfigured
    MaxChanges = 2
    None = None
INVARIANTS
    TypeOK
    RestartKeepsSettings
PROPERTIES
    Recovers
CHECK_DEADLOCK FALSE
