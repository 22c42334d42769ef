SPECIFICATION Spec
CONSTANTS
  Procs = {a, b}
  None = None
  Torn = Torn
  File = File
  Retain = 1
  Place <- MCPlace
  Ticks = {1, 2}
  MaxSessions = 3
  MaxRecords = 2
  MaxCrashes = 1
INVARIANTS KnownIdIsKept StoreIsBounded OneSessionPerFile CrashLosesOneRecord
SYMMETRY Symmetry
