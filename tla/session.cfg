\* The daemon with its CLI, and one browser page; two logins, one fault.
SPECIFICATION FairSpec
CONSTANTS
  Browsers = {page}
  Daemon = daemon
  Accounts = {alice, bob}
  Serials = {1, 2, 3, 4, 5, 6}
  Elsewhere = FALSE
  MaxLogins = 2
  MaxFaults = 1
  NoAccount = NoAccount
  NoPair = NoPair
INVARIANTS
  TypeOK
  SessionsStayAlive
  OneTokenPerLogin
  DaemonEmailIsTrue
PROPERTIES
  DaemonIsServed
