SPECIFICATION Spec
CONSTANTS
  w = w
  p = p
  r1 = r1
  r2 = r2
  Channels <- MCChannels
  WS = {w}
  GroupOf <- MCGroupOf
  RoleOf <- MCRoleOf
  Configs <- MCConfigs
  Requests = {r1, r2}
  Copies = {1, 2}
  AuthLimit = 1
  MaxLoads = 3
  MaxSwitches = 2
SYMMETRY Alike
INVARIANTS
  OneLiveLoop
  SwitchIsClient
  SwitchesHold
CHECK_DEADLOCK FALSE
