\* Two requests of one account in service at a time that carry versions of one
\* reminder.
SPECIFICATION Spec
CONSTANTS
  Sessions = {s1, s2}
  Users = {alice}
  Ids = {i1}
  Messages = {m1}
  Stamps = {1, 2, 3}
  Cursors = {0}
  ClockSkewSec = 1
  MaxTime = 2
  MaxErrors = 0
  Period <- MCPeriod
  Changes <- MCChanges
  NoRow = NoRow
  NoUser = NoUser
  alice = alice
  i1 = i1
PROPERTIES
  NewestWins
