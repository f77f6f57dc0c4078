SPECIFICATION MonitoringSpec
CONSTANTS
  f1 = f1
  f2 = f2
  m1 = m1
  m2 = m2
  m3 = m3
  Fingerprints = {f1, f2}
  Users = {u1}
  Nobody = Nobody
  Tasks = {t1, t2}
  QueueSize = 2
  Messages <- mcMessages
  MaxSilences = 3
  EventModes <- mcEventModes
  Members = {m1, m2, m3}
  NoUser = NoUser
  Fillers = {g1, g2}
  Rosters <- mcRosters
  DutyModes <- mcDutyModes
  MaxDays = 9
  Pools = {p1, p2}
  Ips = {ip1, ip2}
  Versions = {1, 2, 3}
  Unfit = {3}
  Contents = {1, 2}
  Allotted <- mcAllotted
  NoParts = 0
  Absent = Absent
  Refreshers = {1, 2}
  MaxId = 2
  ConfigModes <- mcConfigModes
INVARIANTS
  MonitoringTypeOK
  EventFollowsAlerts
  LastSilenceLiftable
  SilencedHasSilence
  RotaIsRoundRobin
  RotaCodesAgree
  OneRowADay
  StoresAgree
PROPERTIES
  ClaimantKept
  AcceptedIsRecorded
  ChangeIsApplied
  EventuallyServed
CHECK_DEADLOCK FALSE
