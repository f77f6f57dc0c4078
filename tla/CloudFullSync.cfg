SPECIFICATION CloudSpec
CONSTANTS
  ra = ra
  i1 = i1
  Regions = {ra}
  NoRegion = NoRegion
  Instances = {i1}
  Home <- mcHome
  Callers = {c1}
  CloudModes <- mcCloudModes
  MaxResource = 2
INVARIANTS
  FullSyncRecreates
CHECK_DEADLOCK FALSE
