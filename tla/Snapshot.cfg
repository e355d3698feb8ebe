\* Two processes, two snapshots, three failures or deaths.
SPECIFICATION Spec
CONSTANTS
    Proc = {p, q}
    Ids = {s1, s2}
    Versions = {1, 2}
    First = 1
    None = None
    Partial = Partial
    LateErrors = FALSE
    MaxCommands = 8
    MaxFaults = 3
SYMMETRY Interchangeable
INVARIANT TypeOK
INVARIANT RootSurvives
INVARIANT ListedExist
INVARIANT SnapshotBefore
PROPERTY RestoreAllOrNothing
PROPERTY StaysListed
