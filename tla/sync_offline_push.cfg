\* Two devices of one account, no web, no failures: one of them is offline for
\* a second.
SPECIFICATION Spec
CONSTANTS
  d1 = d1
  d2 = d2
  old = old
  Devices = {d1, d2}
  Users = {alice}
  WebUsers = {}
  Ids = {i1}
  Messages = {m1}
  Recurring = {}
  Refused = {}
  Faults = {}
  ClockSkewSec = 1
  MaxFaults = 0
  MaxTime = 2
  Period <- MCPeriod
  FireTimes <- MCFireTimes
  LegacyRows <- NoLegacy
  Skew <- SameClock
  NoRow = NoRow
  NoUser = NoUser
  NoReq = NoReq
SYMMETRY IdSymmetry
INVARIANTS
  CursorBacked
