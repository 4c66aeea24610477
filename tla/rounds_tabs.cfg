SPECIFICATION Spec
CONSTANTS
  s1 = s1
  s2 = s2
  s3 = s3
  Players = {1, 2}
  Sockets = {s1, s2, s3}
  Owner <- MCOwner3
  Requests = {h1}
  RoundIds = {r1}
  NoRound = NoRound
  ElapsedMs <- MCElapsed
  Times = {1, 2}
  Faults = TRUE
SYMMETRY TabSymmetry
INVARIANTS
  TypeOK
  IInv
  WinnerOnRecord
