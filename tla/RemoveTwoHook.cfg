\* Two packages removed together, the second one's hook fails.
SPECIFICATION Spec
CONSTANTS
    Pkg <- Packages
    Path <- Paths
    None = None
    User = User
    Partial = Partial
    Manifest <- Manifests
    Config <- Configs
    Replaces <- ReplacesApp
    Services <- NoServices
    Tasks <- DisjointTasks
    Removals <- DoubleRemovals
    Kinds <- InstallRemove
    Devices = {TRUE}
    MaxTransactions = 2
    MaxFaults = 0
    MaxCrashes = 0
    MaxEdits = 0
INVARIANT FailureRestoresFiles
