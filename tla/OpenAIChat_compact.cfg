SPECIFICATION Spec
CONSTANTS
  key = key
  NoCall = 0
  Calls = {1, 2, 3}
  Keys = {key}
  Gui = {key}
  KeyOf <- MCKeyOf
  Clears = {}
  Keep = 1
  AfterTurns = 3
  Long = {1}
  Window = 3
  MaxRounds = 1
  Cancellable = {2}
  MaxGaps = 1
INVARIANTS
  SummaryFits
  TurnsPaired
PROPERTIES
  SessionsOnlyGrow
  EveryCallEnds
CHECK_DEADLOCK FALSE
