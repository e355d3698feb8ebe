\* Five commands over two indexes with a dependency cycle.
SPECIFICATION Spec
CONSTANTS
    Name <- Names
    Entries <- PlainEntries
    Indexes <- PlainIndexes
    Requests <- PlainRequests
    Removals <- PlainRemovals
    Upgrades = TRUE
    Autoremoves = TRUE
    MaxCommands = 5
INVARIANT RequirementsChosen
INVARIANT DependenciesPresent
PROPERTY ResolveEnds
PROPERTY AutoremoveEnds
