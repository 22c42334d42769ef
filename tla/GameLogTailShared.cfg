SPECIFICATION Spec
CONSTANTS
  Unit = 4
  MaxFile = 4
  MaxTruncations = 0
INVARIANT LinesAreTheLogs
