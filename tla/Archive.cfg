SPECIFICATION Spec
CONSTANTS
  Archives <- MCArchives
  Sources <- MCSources
  Wanted <- MCWanted
  Outside = Outside
  Partial = Partial
  NoSource = NoSource
  MaxFaults = 2
  MaxEntries = 3
  MaxInstalled = 2
  WithTopRoot = FALSE
INVARIANTS
  WholeOrNothing
  NoPartialFile
  BuiltTreeReturns
CHECK_DEADLOCK FALSE
