\* The history at its cap: a completed record comes back as running.
SPECIFICATION Spec
CONSTANTS
    Proc = {p1, p2}
    Pkg = {k1}
    NoProc = NoProc
    NoDB = NoDB
    Commands = {"install", "background"}
    MaxHistory = 2
    MaxFaults = 0
PROPERTY CompletedStaysCompleted
