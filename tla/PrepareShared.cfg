\* Two architectures of a raw archive in one plan, nothing fails.
SPECIFICATION Spec
CONSTANTS
    raw = raw  pack = pack  legacy = legacy  meta = meta  ask = ask  other = other
    Package = {raw, other}
    Query = {}
    Target <- NoTarget
    File <- SharedFile
    Opens <- MixedOpens
    Meta = {}
    Slots = 4
    Wrong = Wrong
    None = None
    MaxStarts = 1
    MaxFaults = 0
CHECK_DEADLOCK FALSE
INVARIANT AllVerified
