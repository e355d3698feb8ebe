\* A second constraint on a provided name.
SPECIFICATION Spec
CONSTANTS
    Name <- Names
    Entries <- EditorEntries
    Indexes <- EditorIndexes
    Requests <- AppRequest
    Removals <- NoRemovals
    Upgrades = FALSE
    Autoremoves = FALSE
    MaxCommands = 1
INVARIANT EveryConstraint
