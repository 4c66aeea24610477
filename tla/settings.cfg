SPECIFICATION SettingsSpec
CONSTANTS
  Players = {p1}
  Requests = {h1, h2}
  Codes = {k1, k2, k3}
  None = none
  MaxAttempts = 2
SYMMETRY Symmetry
INVARIANTS
  SettingsTypeOK
  SettingsShown
PROPERTIES
  JoinWasAllowed
