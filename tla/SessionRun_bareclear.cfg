SPECIFICATION Spec
CONSTANTS
  c1 = c1
  c2 = c2
  c3 = c3
  d1 = d1
  s1 = s1
  s2 = s2
  Calls = {c1, c2}
  Sessions = {s1, s2}
  SessionOf <- MCSessionOf
  Keyed = {s1}
  Clearing = {}
  Cancellable = {}
  Bare = {s1}
  Backend = "claude"
  Resets = TRUE
  Dirs = {w1}
  w1 = w1
  w2 = w2
  NoDir = NoDir
  NoChat = NoChat
  MaxReloads = 0
  MaxCrashes = 0
INVARIANTS
  ClearedIsOver
CHECK_DEADLOCK FALSE
