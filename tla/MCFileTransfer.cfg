SPECIFICATION Spec
CONSTANTS
  a = a
  b = b
  Request <- RequestAB
  Size <- SizeAB
  Taken = {b}
  Unshared = {b}
  None = None
  MaxNames = 3
  MaxLosses = 1
  MaxHalts = 1
  MaxRestarts = 1
  MaxForeign = 1
INVARIANTS IntactUnlessSpoiled FinishedIsComplete
PROPERTIES NotFetchedAgainIfNamed DownloadEnds
CHECK_DEADLOCK FALSE
