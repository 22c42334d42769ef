SPECIFICATION FairSpec
CONSTANTS
  Unit = 4
  MaxFile = 4
  MaxTruncations = 1
INVARIANTS ReadsTheLog WholeLinesAreTheLogs
PROPERTY CatchesUp
