\* Three commands over a history of two records, one fault.
SPECIFICATION Spec
CONSTANTS
    Proc = {p1, p2, p3}
    Pkg = {k1, k2}
    NoProc = NoProc
    NoDB = NoDB
    Commands = {"install"}
    MaxHistory = 2
    MaxFaults = 1
SYMMETRY Symmetry
INVARIANT TypeOK
INVARIANT OneTransaction
INVARIANT SuccessIsOnDisk
PROPERTY OnlyOwnPackage
