SPECIFICATION Spec
CONSTANTS
  key = key
  NoCall = 0
  Calls = {1, 2, 3}
  Keys = {key}
  Gui = {}
  KeyOf <- MCKeyOf
  Clears = {3}
  Keep = 1
  AfterTurns = 2
  Long = {}
  Window = 3
  MaxRounds = 1
  Cancellable = {2}
  MaxGaps = 1
INVARIANTS
  ClearForgets
CHECK_DEADLOCK FALSE
