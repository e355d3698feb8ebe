\* The database write reports an error after the rename.
SPECIFICATION Spec
CONSTANTS
    Pkg <- Packages
    Path <- Paths
    None = None
    User = User
    Partial = Partial
    Manifest <- Manifests
    Config <- Configs
    Replaces <- ReplacesApp
    Services <- NoServices
    Tasks <- DisjointTasks
    Removals <- NoRemovals
    Kinds <- InstallOnly
    Devices = {TRUE}
    MaxTransactions = 1
    MaxFaults = 1
    MaxCrashes = 0
    MaxEdits = 0
INVARIANT DatabaseMatchesFiles
