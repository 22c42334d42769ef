SPECIFICATION FairSpec
CONSTANTS
  Buffer = 2
  MaxRecords = 5
  Wrap = 3
  None = None
INVARIANTS InStep VerdictIsRight
PROPERTIES ImplementsSharing CloseReturns NeverSilent
CHECK_DEADLOCK FALSE
