\* The daemon alone; the API is deployed elsewhere and only the login says where.
SPECIFICATION FairSpec
CONSTANTS
  Browsers = {}
  Daemon = daemon
  Accounts = {alice}
  Serials = {1, 2, 3}
  Elsewhere = TRUE
  MaxLogins = 1
  MaxFaults = 0
  NoAccount = NoAccount
  NoPair = NoPair
PROPERTIES
  DaemonIsServed
