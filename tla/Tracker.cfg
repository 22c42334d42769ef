SPECIFICATION FairSpec
CONSTANTS
  Endpoints <- MCEndpoints
  ConfirmPolls = 2
  None = None
INVARIANTS TypeOK PendingIsStreak ActiveMeetsFloor
PROPERTIES ImplementsBinding SettledEndpointIsBound
