SPECIFICATION Spec
CONSTANTS
    Workers <- TwoWorkers
    Files <- SomeFiles
    VersionFile = "version.py"
    Versions <- TwoVersions
    Managed <- Contents
    Faults <- OnlySync
    Checkers <- Nobody
    Clients <- TwoPages
    Confirms <- TwoVersions
    None = None
INVARIANTS
    WholeAtRest
