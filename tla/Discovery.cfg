SPECIFICATION FairSpec
CONSTANTS
  Pids = {p1, p2}
  MaxLosses = 2
  MaxBuffered = 1
  MaxRecordings = 2
INVARIANTS SourceConsistent AtMostOneStaleEvent
PROPERTIES EveryLossCostsABatch RankingRecovers
CHECK_DEADLOCK FALSE
