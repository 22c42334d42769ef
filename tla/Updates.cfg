SPECIFICATION FairSpec
CONSTANTS
  Sessions = {s1}
  Releases <- MCReleases
  Installed <- MCInstalled
  MaxStaged = 2
  Timely = TRUE
INVARIANTS OnPurposeStaysClosed FileFollowsTheState StagingIsCleaned
PROPERTIES UpdateCutsNoEarlierGame TrayComesBack
