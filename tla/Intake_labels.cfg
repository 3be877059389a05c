SPECIFICATION Spec
CONSTANTS
  Bots = {"P", "Q"}
  Config <- MCConfig
  Loaded <- MCLoaded
  Labels <- OtherLabels
  Messages = {2}
  Text <- MCText
  Begins <- MCBegins
  Hooks = 0
  Nobody = Nobody
  MaxSeen = 2
  MaxCopies = 1
  MaxLoads = 1
  MaxSwitches = 0
INVARIANTS
  MentionsAreAnswered
CHECK_DEADLOCK FALSE
