SPECIFICATION BuzzerSpec
CONSTANTS
  s1 = s1
  s2 = s2
  Host = host
  MaxUp = 1
  Players = {1, 2}
  Sockets = {s1, s2}
  Owner <- MCOwner2
  Requests = {h1}
  RoundIds = {r1}
  NoRound = NoRound
  ElapsedMs = {1, 2}
  Times = {1}
  Faults = FALSE
INVARIANTS
  WinnerViewsAgree
