SPECIFICATION FairSpec
CONSTANTS
  c1 = c1
  c2 = c2
  c3 = c3
  d1 = d1
  s1 = s1
  s2 = s2
  Calls = {c1, c2, d1}
  Sessions = {s1, s2}
  SessionOf <- MCSessionOf
  Keyed = {s1}
  Clearing = {c1}
  Cancellable = {c1, d1}
  Bare = {s1}
  Backend = "cursor"
  Resets = TRUE
  Dirs = {w1}
  w1 = w1
  w2 = w2
  NoDir = NoDir
  NoChat = NoChat
  MaxReloads = 0
  MaxCrashes = 1
INVARIANTS
  ContextKept
  ResumeFindsChat
PROPERTIES
  EveryCallEnds
CHECK_DEADLOCK FALSE
