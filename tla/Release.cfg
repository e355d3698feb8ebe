\* Two processes, all kinds of commands, signatures required or not.
SPECIFICATION Spec
CONSTANTS
    Proc = {p, q}
    Source <- Sources
    Home = "url1"
    ReleaseIds <- Releases
    Raws <- ThreeRaws
    Kinds <- AllKinds
    SourceOf <- PerRelease
    DefaultAbi = "abi1"
    None = None
    MaxCommands = 3
    MaxPublish = 2
SYMMETRY Processes
INVARIANT TypeOK
INVARIANT AuthenticIndex
PROPERTY Pinned
