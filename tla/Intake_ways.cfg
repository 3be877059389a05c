SPECIFICATION Spec
CONSTANTS
  Bots = {"RA", "RB", "RC", "P", "Q"}
  Config <- MCConfig
  Loaded <- MCLoaded
  Labels <- MCLabels
  Messages = {1, 2, 3}
  Text <- MCText
  Begins <- MCBegins
  Hooks = 1
  Nobody = Nobody
  MaxSeen = 2
  MaxCopies = 1
  MaxLoads = 2
  MaxSwitches = 1
INVARIANTS
  AnsweredOnce
  NobodyElseAnswers
  MentionsAreAnswered
CHECK_DEADLOCK FALSE
