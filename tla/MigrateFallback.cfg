\* A repository URL that names no release.
SPECIFICATION Spec
CONSTANTS
    Proc = {p}
    Source <- OneSource
    Home = "url1"
    ReleaseIds <- Releases
    Raws <- ThreeRaws
    Kinds <- AllKinds
    SourceOf <- Fallback
    DefaultAbi = "abi1"
    None = None
    MaxCommands = 3
    MaxPublish = 1
PROPERTY MigratesAsAsked
