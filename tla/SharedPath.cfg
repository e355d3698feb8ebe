\* One plan ships the same path twice.
SPECIFICATION Spec
CONSTANTS
    Pkg <- Packages
    Path <- Paths
    None = None
    User = User
    Partial = Partial
    Manifest <- Manifests
    Config <- Configs
    Replaces <- ReplacesApp
    Services <- NoServices
    Tasks <- OverlappingTasks
    Removals <- NoRemovals
    Kinds <- InstallOnly
    Devices = {TRUE}
    MaxTransactions = 1
    MaxFaults = 0
    MaxCrashes = 0
    MaxEdits = 0
INVARIANT DatabaseMatchesFiles
