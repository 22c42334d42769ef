SPECIFICATION FairSpec
CONSTANTS
  None = None
  Endpoints <- Servers
  ConfirmPolls = 2
  Pids = {p1}
  DurationLimit = TRUE
  Nameable <- Named
  MaxRecords = 6
INVARIANTS LogWellFormed ReaderSeesTheSession
INVARIANTS SegmentIsTracked GameExitIsReal
PROPERTIES ConfirmedStays GameGoneEndsSession CancelEndsSession
CHECK_DEADLOCK FALSE
