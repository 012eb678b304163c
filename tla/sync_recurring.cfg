\* A recurring reminder is deleted on the web before the device fires it.
SPECIFICATION Spec
CONSTANTS
  d1 = d1
  d2 = d2
  old = old
  Devices = {d1}
  Users = {alice}
  WebUsers = {alice}
  Ids = {i1}
  Messages = {m1}
  Recurring = {m1}
  Refused = {}
  Faults = {}
  ClockSkewSec = 1
  MaxFaults = 0
  MaxTime = 3
  Period <- MCPeriod
  FireTimes <- MCFireTimes
  LegacyRows <- NoLegacy
  Skew <- SameClock
  NoRow = NoRow
  NoUser = NoUser
  NoReq = NoReq
SYMMETRY IdSymmetry
PROPERTIES
  TombstonesStick
