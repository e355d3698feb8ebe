\* autoremove after an install with an alternative.
SPECIFICATION Spec
CONSTANTS
    Name <- Names
    Entries <- EitherEntries
    Indexes <- EitherIndexes
    Requests <- AppRequest
    Removals <- NoRemovals
    Upgrades = FALSE
    Autoremoves = TRUE
    MaxCommands = 2
PROPERTY AutoremoveSparesNeeded
