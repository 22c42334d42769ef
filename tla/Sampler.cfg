SPECIFICATION FairSpec
CONSTANTS
  ReResolveAfterLoss = 3
  MaxSegments = 2
  None = None
INVARIANT LabelIsTheMeasurement
PROPERTIES AnsweringPathIsKept SettledPathIsMeasured
