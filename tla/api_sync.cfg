\* Two requests of two accounts in service at a time, on two ids, one
\* database error.
SPECIFICATION FairSpec
CONSTANTS
  Sessions = {s1, s2}
  Users = {alice, bob}
  Ids = {i1, i2}
  Messages = {m1}
  Stamps = {1, 2}
  Cursors = {0}
  ClockSkewSec = 1
  MaxTime = 2
  MaxErrors = 1
  Period <- MCPeriod
  Changes <- MCChanges
  NoRow = NoRow
  NoUser = NoUser
  alice = alice
  i1 = i1
INVARIANTS
  TypeOK
  AnswersAreCommitted
PROPERTIES
  OwnersKept
  EveryRequestAnswered
