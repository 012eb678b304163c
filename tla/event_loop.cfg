\* Three runs of the CLI against a table of two connections; two of them may be
\* interrupted, the sync thread contends for the mutex, and saves may fail.
SPECIFICATION FairSpec
CONSTANTS
  Clients = {adds, lists, syncs}
  adds = adds
  lists = lists
  syncs = syncs
  Server = Server
  Nobody = Nobody
  MaxClients = 2
  Command <- MCCommand
  Pieces <- MCPieces
  Impatient = {adds, lists}
INVARIANTS
  TypeOK
  AnswersGoToAsker
  ExecutedOnceAndWhole
  AnsweredAddsSurvive
PROPERTIES
  NeverHangsUp
  EveryCommandSettled
  TimersKeepTicking
