SPECIFICATION FairSpec
CONSTANTS
  l1 = l1
  l2 = l2
  NoLoop = NoLoop
  Loops = {l1, l2}
  MaxSent = 4
  Recalls = {3}
  PageSize = 1
  CatchupPages = 1
  RingSize = 1
  AuthLimit = 1
  StartupMode = "baseline"
  MaxErrors = 1
  MaxToggles = 1
  MaxCrashes = 1
INVARIANTS
  OneLiveLoop
  NothingMissed
  RepeatsAreTorn
PROPERTIES
  EverythingHandled
  CancelledLoopsEnd
CHECK_DEADLOCK FALSE
