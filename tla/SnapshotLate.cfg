\* A save reports an error after its rename.
SPECIFICATION Spec
CONSTANTS
    Proc = {p, q}
    Ids = {s1, s2}
    Versions = {1, 2}
    First = 1
    None = None
    Partial = Partial
    LateErrors = TRUE
    MaxCommands = 8
    MaxFaults = 3
SYMMETRY Interchangeable
INVARIANT ListedExist
