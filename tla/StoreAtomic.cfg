\* Two commands of any kind below the cap, one fault: the atomic store.
SPECIFICATION Spec
CONSTANTS
    Proc = {p1, p2}
    Pkg = {k1, k2}
    NoProc = NoProc
    NoDB = NoDB
    Commands = {"install", "background", "snapshot"}
    MaxHistory = 4
    MaxFaults = 1
PROPERTY ImplementsAtomicStore
PROPERTY RecordsComplete
PROPERTY CommandsEnd
