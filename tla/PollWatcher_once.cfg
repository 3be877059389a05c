SPECIFICATION Spec
CONSTANTS
  l1 = l1
  l2 = l2
  NoLoop = NoLoop
  Loops = {l1, l2}
  MaxSent = 4
  Recalls = {4}
  PageSize = 2
  CatchupPages = 1
  RingSize = 4
  AuthLimit = 2
  StartupMode = "baseline"
  MaxErrors = 1
  MaxToggles = 0
  MaxCrashes = 1
SYMMETRY EitherLoop
INVARIANTS
  HandledOnce
CHECK_DEADLOCK FALSE
