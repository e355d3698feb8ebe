\* Three transactions with an I/O error and a crash anywhere, on one file
\* system or two.
SPECIFICATION Spec
CONSTANTS
    Pkg <- Packages
    Path <- Paths
    None = None
    User = User
    Partial = Partial
    Manifest <- Manifests
    Config <- Configs
    Replaces <- ReplacesApp
    Services <- AppService
    Tasks <- DisjointTasks
    Removals <- SingleRemovals
    Kinds <- AllKinds
    Devices = {TRUE, FALSE}
    MaxTransactions = 3
    MaxFaults = 1
    MaxCrashes = 1
    MaxEdits = 1
INVARIANT InstallRestores
INVARIANT PreviousRetained
PROPERTY UserContentStays
