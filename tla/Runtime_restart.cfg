SPECIFICATION Spec
CONSTANTS
  w = w
  p = p
  r1 = r1
  r2 = r2
  Channels <- MCChannels
  WS = {w}
  GroupOf <- MCGroupOf
  RoleOf <- MCRoleOf
  Configs <- MCConfigs
  Requests = {r1}
  Copies = {1}
  AuthLimit = 1
  MaxLoads = 2
  MaxSwitches = 1
PROPERTIES
  RestartKeepsOff
CHECK_DEADLOCK FALSE
