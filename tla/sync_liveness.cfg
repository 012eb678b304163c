\* What the sync thread alone guarantees: one device with a reminder from a v1
\* store that the API refuses while it is live, the web, and two lost requests
\* or answers.
SPECIFICATION FairSpec
CONSTANTS
  d1 = d1
  d2 = d2
  old = old
  Devices = {d1}
  Users = {alice}
  WebUsers = {alice}
  Ids = {old, i1, i2}
  Messages = {m1, m2}
  Recurring = {}
  Refused = {m1}
  Faults = {"timeout"}
  ClockSkewSec = 1
  MaxFaults = 2
  MaxTime = 2
  Period <- MCPeriod
  FireTimes <- MCFireTimes
  LegacyRows <- OneLegacyRow
  Skew <- SameClock
  NoRow = NoRow
  NoUser = NoUser
  NoReq = NoReq
PROPERTIES
  PendingDrains
  FreshRowsArrive
