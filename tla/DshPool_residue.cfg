SPECIFICATION Spec
CONSTANTS
  c1 = c1
  c2 = c2
  k1 = k1
  NoRun = 0
  Runs = {1, 2}
  Chats = {c1}
  ChatOf <- MCChatOf
  Keys = {k1}
  KeyOf <- OneKey
  Moved = {}
  Nesting = {}
  Clearable = {}
  MaxRuns = 2
  MaxProcs = 1
  MaxLosses = 0
  Cap = 5
INVARIANTS
  NoResidue
CHECK_DEADLOCK FALSE
