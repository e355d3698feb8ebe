\* The package that declares a conflict is installed first.
SPECIFICATION Spec
CONSTANTS
    Name <- Names
    Entries <- HostileEntries
    Indexes <- HostileIndexes
    Requests <- AppToolRequests
    Removals <- NoRemovals
    Upgrades = FALSE
    Autoremoves = FALSE
    MaxCommands = 2
INVARIANT ConflictFree
