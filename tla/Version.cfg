\* Every triple of 45 versions.
SPECIFICATION VersionSpec
CONSTANT Versions <- ShortAndLong
INVARIANT TotalPreorder
INVARIANT NumericByValue
