\* Two devices and the web share one reminder; one round or save fails, or a
\* daemon dies.
SPECIFICATION Spec
CONSTANTS
  d1 = d1
  d2 = d2
  old = old
  Devices = {d1, d2}
  Users = {alice}
  WebUsers = {alice}
  Ids = {i1, i2}
  Messages = {m1}
  Recurring = {}
  Refused = {}
  Faults = {"crash", "timeout", "late", "dberror", "save"}
  ClockSkewSec = 1
  MaxFaults = 1
  MaxTime = 2
  Period <- MCPeriod
  FireTimes <- MCFireTimes
  LegacyRows <- NoLegacy
  Skew <- SameClock
  NoRow = NoRow
  NoUser = NoUser
  NoReq = NoReq
SYMMETRY IdAndDeviceSymmetry
INVARIANTS
  AckedOnServer
PROPERTIES
  StampsGrow
  LocalNeverRegresses
  OneOffTombstonesStick
  
  
  ImplementsLwwStore
