SPECIFICATION Spec
CONSTANTS
  a = a
  b = b
  c = c
  a1 = a1
  b1 = b1
  b2 = b2
  c1 = c1
  n1 = n1
  Msgs = {a1, b1, c1}
  OpenIDs = {a, b, c}
  NoID = NoID
  NoMsg = NoMsg
  Author <- MCAuthor
  Channel = channel
  SessionMode = "shared"
  QueueMode = ""
  Stoppers = {}
INVARIANTS
  ToldTheTruth
CHECK_DEADLOCK FALSE
