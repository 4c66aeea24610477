SPECIFICATION RosterSpec
CONSTANTS
  host = host
  p1 = p1
  h1 = h1
  a1 = a1
  Participants = {host, p1}
  Hosts = {host}
  Sockets = {h1, a1}
  Owner <- MCOneTab
  Runtimes = {g1, g2}
  None = None
  Kicks = {k1}
INVARIANTS
  ConnTypeOK
  OpenIsHeld
  RegistryLive
  RosterTypeOK
  RosterShown
