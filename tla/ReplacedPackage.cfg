\* A package is replaced through the repository.
SPECIFICATION Spec
CONSTANTS
    Pkg <- Packages
    Path <- Paths
    None = None
    User = User
    Partial = Partial
    Manifest <- Manifests
    Config <- Configs
    Replaces <- ReplacesApp
    Services <- NoServices
    Tasks <- ReplacingTasks
    Removals <- NoRemovals
    Kinds <- InstallOnly
    Devices = {TRUE}
    MaxTransactions = 2
    MaxFaults = 0
    MaxCrashes = 0
    MaxEdits = 0
INVARIANT DatabaseMatchesFiles
