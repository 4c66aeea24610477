SPECIFICATION LifeSpec
CONSTANTS
  host = host
  p1 = p1
  h1 = h1
  a1 = a1
  Participants = {host, p1}
  Hosts = {host}
  Sockets = {h1}
  Owner <- MCHostTab
  Runtimes = {g1, g2, g3, g4}
  None = None
  Kicks = {}
  TTL = 7
  Grace = 3
  TickLen = 2
  MaxFailures = 0
  MaxRestarts = 1
INVARIANTS
  GraceRespected
