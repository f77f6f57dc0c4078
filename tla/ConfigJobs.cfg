SPECIFICATION ConfigFairSpec
CONSTANTS
  Pools = {p1}
  Ips = {ip1}
  Versions = {1}
  Unfit = {}
  Contents = {1, 2}
  Allotted <- mcAllotted
  NoParts = 0
  Absent = Absent
  Refreshers = {1}
  MaxId = 1
  ConfigModes <- mcConfigModes
PROPERTIES
  PartsAreServed
CHECK_DEADLOCK FALSE
