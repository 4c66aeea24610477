SPECIFICATION FairBuzzerSpec
CONSTANTS
  s1 = s1
  s2 = s2
  Host = host
  MaxUp = 1
  Players = {1, 2}
  Sockets = {s1}
  Owner <- MCOwner1
  Requests = {h1}
  RoundIds = {r1, r2}
  NoRound = NoRound
  ElapsedMs = {1}
  Times = {1}
  Faults = FALSE
INVARIANTS
  BuzzerTypeOK
  RoundViewsAgree
  HubMatchesTable
PROPERTIES
  BuzzCounts
