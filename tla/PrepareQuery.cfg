\* A query downloads while prepare reads; the repository has another build.
SPECIFICATION Spec
CONSTANTS
    raw = raw  pack = pack  legacy = legacy  meta = meta  ask = ask  other = other
    Package = {legacy}
    Query = {ask}
    Target <- AskTarget
    File <- OwnFile
    Opens <- MixedOpens
    Meta = {}
    Slots = 4
    Wrong = Wrong
    None = None
    MaxStarts = 1
    MaxFaults = 1
CHECK_DEADLOCK FALSE
INVARIANT AllVerified
