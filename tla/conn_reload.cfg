SPECIFICATION ConnSpec
CONSTANTS
  host = host
  p1 = p1
  h1 = h1
  a1 = a1
  a2 = a2
  Participants = {host, p1}
  Hosts = {host}
  Sockets = {h1, a1, a2}
  Owner <- MCTwoTabs
  Runtimes = {g1}
  None = None
  Kicks = {}
INVARIANTS
  OpenIsHeld
