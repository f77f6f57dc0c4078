SPECIFICATION ResourcesSpec
CONSTANTS
  Nodes = {n1, n2, n3}
  Root = Root
  Servers = {s1, s2}
  Modes <- mcTreeModes
  SentFlags = {"zero", "no"}
  MaxRequests = 4
  Kubeconfigs = {k1, k2, k3}
  Malformed = {k3}
  KeepConfig = KeepConfig
  NoCluster = NoCluster
  NoClient = NoClient
  h1 = h1
  h2 = h2
  Handlers = {h1, h2}
  MaxCluster = 2
  ClusterModes <- mcClusterModes
  Capacity = 1
  MaxRetries = 1
  MaxLines = 2
  MaxSegments = 2
  Shells = 2
  MaxMessages = 2
  ra = ra
  rb = rb
  i1 = i1
  i2 = i2
  i3 = i3
  Regions = {ra, rb}
  NoRegion = NoRegion
  Instances = {i1, i2, i3}
  Home <- mcHome
  Callers = {c1, c2}
  MaxResource = 3
  CloudModes <- mcCloudModes
INVARIANTS
  ResourcesTypeOK
  Forest
  NoOrphans
  ColumnsAgree
  ClientIsCurrent
  DeliveredInFull
  NobodyAfterClose
  OneWriter
  OneDefault
  NoStrayResource
  SyncMirrors
PROPERTIES
  StatusSettles
  StreamsLetGo
CHECK_DEADLOCK FALSE
