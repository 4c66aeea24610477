SPECIFICATION FairLifeSpec
CONSTANTS
  host = host
  p1 = p1
  h1 = h1
  a1 = a1
  Participants = {host, p1}
  Hosts = {host}
  Sockets = {a1}
  Owner <- MCPlayerTab
  Runtimes = {g1, g2, g3}
  None = None
  Kicks = {}
  TTL = 3
  Grace = 1
  TickLen = 1
  MaxFailures = 1
  MaxRestarts = 1
PROPERTIES
  ImplementsLife
  EndIsTold
  RuntimeReclaimed
