\* A removal that fails, with staging on another file system.
SPECIFICATION Spec
CONSTANTS
    Pkg <- Packages
    Path <- Paths
    None = None
    User = User
    Partial = Partial
    Manifest <- Manifests
    Config <- Configs
    Replaces <- ReplacesApp
    Services <- NoServices
    Tasks <- DisjointTasks
    Removals <- SingleRemovals
    Kinds <- InstallRemove
    Devices = {FALSE}
    MaxTransactions = 2
    MaxFaults = 0
    MaxCrashes = 0
    MaxEdits = 0
INVARIANT FailureRestoresFiles
