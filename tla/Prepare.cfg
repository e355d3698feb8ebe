\* A .yspkg, a legacy package somebody looks into, and one without an archive.
SPECIFICATION FairSpec
CONSTANTS
    raw = raw  pack = pack  legacy = legacy  meta = meta  ask = ask  other = other
    Package = {pack, legacy, meta}
    Query = {ask}
    Target <- AskTarget
    File <- OwnFile
    Opens <- MixedOpens
    Meta = {meta}
    Slots = 2
    Wrong = Wrong
    None = None
    MaxStarts = 2
    MaxFaults = 1
CHECK_DEADLOCK FALSE
INVARIANT TypeOK
INVARIANT ReadyIsVerified
INVARIANT NoLeftovers
INVARIANT FailsOnlyForCause
PROPERTY PrepareEnds
