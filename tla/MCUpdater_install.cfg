SPECIFICATION FairSpec
CONSTANTS
    Workers <- OneWorker
    Files <- SomeFiles
    VersionFile = "version.py"
    Versions <- TwoVersions
    Managed <- Contents
    Faults <- AnyFault
    Checkers <- Periodic
    Clients <- OnePage
    Confirms <- TwoVersions
    None = None
INVARIANTS
    TypeOK
    RunsOneVersion
PROPERTIES
    AtomicFiles
    RunsForward
    InstallsWhatWasAsked
    RequestsAnswered
    WorkersEnd
