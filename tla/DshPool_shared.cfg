SPECIFICATION Spec
CONSTANTS
  c1 = c1
  c2 = c2
  k1 = k1
  NoRun = 0
  Runs = {1, 2, 3}
  Chats = {c1, c2}
  ChatOf <- MCChatOf
  Keys = {k1}
  KeyOf <- OneKey
  Moved = {2}
  Nesting = {3}
  Clearable = {c1}
  MaxRuns = 2
  MaxProcs = 2
  MaxLosses = 1
  Cap = 5
INVARIANTS
  OwnAnswer
  NoOrphan
  KnownIsLive
  NothingLeftBehind
PROPERTIES
  EveryRunEnds
CHECK_DEADLOCK FALSE
