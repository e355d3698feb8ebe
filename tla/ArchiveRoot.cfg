SPECIFICATION Spec
CONSTANTS
  Archives <- MCArchives
  Sources <- MCSources
  Wanted <- MCWanted
  Outside = Outside
  Partial = Partial
  NoSource = NoSource
  MaxFaults = 0
  MaxEntries = 3
  MaxInstalled = 2
  WithTopRoot = TRUE
INVARIANT CommandAlwaysPlaced
CHECK_DEADLOCK FALSE
