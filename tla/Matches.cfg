SPECIFICATION MatchesSpec
CONSTANTS
  Games <- AllGames
  WindowPolls = 3
  StablePolls = 2
  ConfirmPolls = 2
  Endpoints <- AllKeys
  None = None
INVARIANTS GameFlowIsOnTop SwitchIsPrompt
PROPERTIES MovesToWhatIsThere LiveGameIsKept
