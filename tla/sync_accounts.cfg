\* A device whose clock is further ahead than the API tolerates changes hands
\* between two accounts.
SPECIFICATION Spec
CONSTANTS
  d1 = d1
  d2 = d2
  old = old
  Devices = {d1}
  Users = {alice, bob}
  WebUsers = {alice, bob}
  Ids = {i1, i2, i3}
  Messages = {m1}
  Recurring = {}
  Refused = {}
  Faults = {"crash", "dberror"}
  ClockSkewSec = 1
  MaxFaults = 1
  MaxTime = 3
  Period <- MCPeriod
  FireTimes <- MCFireTimes
  LegacyRows <- NoLegacy
  Skew <- TwoAhead
  NoRow = NoRow
  NoUser = NoUser
  NoReq = NoReq
SYMMETRY IdSymmetry
INVARIANTS
  TypeOK
  NoFarFuture
PROPERTIES
  AccountsKeepRows
