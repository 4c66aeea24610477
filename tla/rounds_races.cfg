SPECIFICATION Spec
CONSTANTS
  s1 = s1
  s2 = s2
  s3 = s3
  Players = {1, 2}
  Sockets = {s1, s2}
  Owner <- MCOwner2
  Requests = {h1, h2}
  RoundIds = {r1, r2}
  NoRound = NoRound
  ElapsedMs = {1}
  Times = {1}
  Faults = FALSE
SYMMETRY Symmetry
INVARIANTS
  WinnerIsBest
  PersistedWinnerAnswered
  StopIsFinal
PROPERTIES
  StoppedRoundsFrozen
  ImplementsSlot
