SPECIFICATION FairSpec
CONSTANTS
  Endpoints <- MCEndpoints
  ConfirmPolls = 2
  None = None
PROPERTY ServerChangeIsCaught
