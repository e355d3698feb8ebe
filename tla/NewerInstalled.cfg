\* A requirement an installed newer version does not meet.
SPECIFICATION Spec
CONSTANTS
    Name <- Names
    Entries <- OldEntries
    Indexes <- OldIndexes
    Requests <- AppLibRequests
    Removals <- NoRemovals
    Upgrades = FALSE
    Autoremoves = FALSE
    MaxCommands = 2
PROPERTY RequirementsMet
