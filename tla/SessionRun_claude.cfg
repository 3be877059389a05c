SPECIFICATION Spec
CONSTANTS
  c1 = c1
  c2 = c2
  c3 = c3
  d1 = d1
  s1 = s1
  s2 = s2
  Calls = {c1, c2, c3}
  Sessions = {s1, s2}
  SessionOf <- MCSessionOf
  Keyed = {s1}
  Clearing = {c1}
  Cancellable = {c1, c2, c3}
  Bare = {}
  Backend = "claude"
  Resets = TRUE
  Dirs = {w1, w2}
  w1 = w1
  w2 = w2
  NoDir = NoDir
  NoChat = NoChat
  MaxReloads = 1
  MaxCrashes = 0
SYMMETRY Interchangeable
INVARIANTS
  TokenConserved
  OneProcessPerChat
  ContextKept
  ClearedIsOver
CHECK_DEADLOCK FALSE
