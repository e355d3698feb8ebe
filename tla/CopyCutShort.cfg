\* An install across file systems whose copy fails half way.
SPECIFICATION Spec
CONSTANTS
    Pkg <- Packages
    Path <- Paths
    None = None
    User = User
    Partial = Partial
    Manifest <- Manifests
    Config <- Configs
    Replaces <- ReplacesApp
    Services <- NoServices
    Tasks <- DisjointTasks
    Removals <- NoRemovals
    Kinds <- InstallOnly
    Devices = {FALSE}
    MaxTransactions = 1
    MaxFaults = 1
    MaxCrashes = 0
    MaxEdits = 0
INVARIANT FailureRestoresFiles
