\* Three transactions of any kind, two edits, no fault: the atomic transaction.
SPECIFICATION Spec
CONSTANTS
    Pkg <- Packages
    Path <- Paths
    None = None
    User = User
    Partial = Partial
    Manifest <- Manifests
    Config <- Configs
    Replaces <- ReplacesApp
    Services <- NoServices
    Tasks <- DisjointTasks
    Removals <- SingleRemovals
    Kinds <- AllKinds
    Devices = {TRUE}
    MaxTransactions = 3
    MaxFaults = 0
    MaxCrashes = 0
    MaxEdits = 2
PROPERTY ImplementsAtomicFiles
PROPERTY RecordCompletes
