SPECIFICATION Spec
CONSTANTS
  u1 = u1
  u2 = u2
  d1 = d1
  d2 = d2
  d3 = d3
  Users = {u1, u2}
  Dispatches = {d1, d2}
  UserOf <- MCUserOf
  Pumps = {1, 2}
  AfterTurns = 2
  MaxReloads = 1
  MaxCommands = 1
INVARIANTS
  OptOutHolds
CHECK_DEADLOCK FALSE
