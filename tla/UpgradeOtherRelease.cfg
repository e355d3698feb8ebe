\* `update` after a release upgrade.
SPECIFICATION Spec
CONSTANTS
    Proc = {p}
    Source <- Sources
    Home = "url1"
    ReleaseIds <- Releases
    Raws <- ThreeRaws
    Kinds <- WithoutLocal
    SourceOf <- PerRelease
    DefaultAbi = "abi1"
    None = None
    MaxCommands = 4
    MaxPublish = 2
INVARIANT UpgradeConsidersCurrent
