SPECIFICATION FairClientSpec
CONSTANTS
  Tickets = {t1, t2}
  Sockets = {w1, w2, w3}
  None = none
  MaxAsks = 2
  MaxLoads = 2
INVARIANTS
  ClientTypeOK
  PageIsLive
  SavedIsUsed
  RoundLeftBehind
PROPERTIES
  StaleCredentialsGo
