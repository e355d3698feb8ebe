\* The maintainers publish a release again, for another ABI.
SPECIFICATION Spec
CONSTANTS
    Proc = {p}
    Source <- OneSource
    Home = "url1"
    ReleaseIds <- Releases
    Raws <- RebuiltRaws
    Kinds <- WithoutLocal
    SourceOf <- Fallback
    DefaultAbi = "abi1"
    None = None
    MaxCommands = 3
    MaxPublish = 2
PROPERTY AbiBoundary
